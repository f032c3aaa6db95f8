------------------------------- MODULE Config -------------------------------
(***************************************************************************)
(* The configuration (src/internal/config/config.go) and what main makes   *)
(* of it (src/cmd/bridge/main.go): which files start a bridge, how long it *)
(* waits between passes and which policy each of its HTTP clients gets.    *)
(* A URL is abstracted to its scheme here, and an absent one to "none".    *)
(***************************************************************************)
EXTENDS Integers

Schemes == {"https", "http", "none"}

(* A configuration file: its mode, its URLs, whether it lists a series,    *)
(* allow_insecure_http, poll_interval in seconds and the flag -once.       *)
ConfigFiles == [mode : {"owner", "open"},
                public : Schemes, graft : Schemes, discourse : Schemes,
                series : BOOLEAN, insecure : BOOLEAN,
                interval : Int, once : BOOLEAN]

(* Faulty variant: the flag for Discourse relaxes every URL.               *)
CheckAnyScheme(scheme, allowHTTP) == scheme \in {"https", "http"}

CheckScheme(scheme, allowHTTP) == \/ scheme = "https"
                                  \/ scheme = "http" /\ allowHTTP

(* Load: what a file must be like for the bridge to start.                 *)
Accepts(c) == /\ c.mode = "owner"
              /\ c.series
              /\ CheckScheme(c.public, FALSE)
              /\ CheckScheme(c.graft, FALSE)
              /\ CheckScheme(c.discourse, c.insecure)

(* Load gives a default to an interval of zero only.                       *)
Interval(c) == IF c.interval = 0 THEN 30 ELSE c.interval

(* The options of the two clients.                                         *)
GraftPolicy == [allowPrivate |-> FALSE, allowHTTP |-> FALSE]

DiscoursePolicy(c) == [allowPrivate |-> TRUE, allowHTTP |-> c.insecure]
=============================================================================
