----------------------------- MODULE MCProcess -----------------------------
(* Small instances of Process.                                             *)
EXTENDS Process

CONSTANTS m, h1, p1, p2, k1, k2

Good == [mode |-> "owner", public |-> "https", graft |-> "https",
         discourse |-> "http", series |-> TRUE, insecure |-> TRUE,
         interval |-> 0, once |-> FALSE]

(* A file that works, one for a single pass, one open to others, and one   *)
(* whose interval is negative.                                             *)
MCConfigs == {Good,
              [Good EXCEPT !.once = TRUE],
              [Good EXCEPT !.mode = "open"],
              [Good EXCEPT !.interval = -1]}
=============================================================================
