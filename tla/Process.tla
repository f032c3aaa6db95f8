------------------------------ MODULE Process ------------------------------
(***************************************************************************)
(* The life of the bridge process (src/cmd/bridge/main.go): start-up from  *)
(* the two files, the actor's key, the loop of passes, SIGTERM, shutdown,  *)
(* and crashes at any point; beside the loop the handlers of the admin API *)
(* (src/internal/admin/admin.go).  Passes and handlers share the State     *)
(* struct and its file, one small step of saveLocked at a time (StateFile).*)
(*                                                                         *)
(* A pass is abstracted to calls and their records: for some post or note  *)
(* that is not recorded it makes a call that has an effect elsewhere, and  *)
(* records a call that succeeded.  A handler serves authorised requests;   *)
(* what it binds or unbinds is a record as well.                           *)
(***************************************************************************)
EXTENDS StateFile, Config

CONSTANTS
  Main,      \* the main goroutine
  Handlers,  \* the handler goroutines, and what each of them records
  Posts,     \* what the passes record
  Configs    \* the configuration files and flags the bridge is started with

ASSUME ProcessAssumption ==
  /\ Callers = Handlers \cup {Main}
  /\ Records = Posts \cup Handlers
  /\ Main \notin Handlers
  /\ Configs \subseteq ConfigFiles

VARIABLES
  pc,         \* where the main goroutine is
  config,     \* the configuration in force
  exit,       \* how the last process ended
  signalled,  \* whether the context of NotifyContext is done
  tick,       \* whether the ticker's channel holds a tick
  post,       \* what the call under way is about
  tried,      \* what the pass has made a call about
  req,        \* what each handler is doing
  sent,       \* history: the calls of this process that succeeded
  late,       \* history: how many of them succeeded after the signal
  acked,      \* history: the requests answered with success
  published   \* history: the public keys ever served

vars == <<fileVars, pc, config, exit, signalled, tick, post, tried, req,
          sent, late, acked, published>>

loopVars == <<signalled, tick, post, tried, sent, late>>

NoConfig == [once |-> FALSE]
NoPost == "none"
AllIdle == [h \in Handlers |-> "idle"]

Init == /\ FileInit
        /\ pc = "down" /\ config = NoConfig /\ exit = "none"
        /\ signalled = FALSE /\ tick = FALSE
        /\ post = NoPost /\ tried = {}
        /\ req = AllIdle
        /\ sent = {} /\ late = 0 /\ acked = {} /\ published = {}

-----------------------------------------------------------------------------
(* Start and end of a process. *)

(* The process ends, with whatever its goroutines were doing.              *)
Exits(how) == /\ Gone
              /\ pc' = "down" /\ config' = NoConfig /\ exit' = how
              /\ signalled' = FALSE /\ tick' = FALSE
              /\ post' = NoPost /\ tried' = {}
              /\ req' = AllIdle
              /\ sent' = {} /\ late' = 0
              /\ UNCHANGED <<acked, published>>

Goes(to) == /\ pc' = to
            /\ UNCHANGED <<config, exit, req, acked>>

Start == /\ pc = "down"
         /\ \E c \in Configs : /\ Accepts(c)
                               /\ config' = c
         /\ pc' = "load" /\ exit' = "none"
         /\ UNCHANGED <<fileVars, loopVars, req, acked, published>>

StartRefused == /\ pc = "down"
                /\ \E c \in Configs : ~Accepts(c)
                /\ exit' = "error"
                /\ UNCHANGED <<fileVars, loopVars, pc, config, req, acked, published>>

LoadState == /\ pc = "load"
             /\ IF Loadable
                THEN /\ Load
                     /\ Goes("key")
                     /\ UNCHANGED <<loopVars, published>>
                ELSE Exits("error")

(* From here on the actor document is served, and with it the key.         *)
Serve(key) == /\ published' = published \cup {key}
              /\ Goes("boot")
              /\ UNCHANGED loopVars

(* ensureActor.                                                            *)
HasKey == /\ pc = "key"
          /\ mem.key # NoKey
          /\ Serve(mem.key)
          /\ UNCHANGED fileVars

MakesKey == /\ pc = "key"
            /\ mem.key = NoKey
            /\ \E k \in KeyPairs : Lock(Main, [mem EXCEPT !.key = k])
            /\ Goes("keysave")
            /\ UNCHANGED <<loopVars, published>>

KeySaved == /\ pc = "keysave"
            /\ Returned(Main, "ok")
            /\ Serve(mem.key)

(* Faulty variant: the bridge goes on with a key it could not save.        *)
KeyUsedUnsaved == /\ pc = "keysave"
                  /\ Returned(Main, "failed")
                  /\ Serve(mem.key)

KeyNotSaved == /\ pc = "keysave"
               /\ outcome[Main] = "failed"
               /\ Exits("error")

(* Signals are caught from here on; NewTicker panics on an interval that   *)
(* is not positive.                                                        *)
Loop == /\ pc = "boot"
        /\ IF config.once \/ Interval(config) > 0
           THEN /\ Goes("pass")
                /\ UNCHANGED <<fileVars, loopVars, published>>
           ELSE Exits("panic")

-----------------------------------------------------------------------------
(* Passes. *)

(* Faulty variant: a call does not depend on the context of the signal.    *)
CallBeginsAnyway(p) == /\ pc = "pass"
                       /\ holder = Nobody
                       /\ p \notin mem.records \cup tried
                       /\ post' = p /\ tried' = tried \cup {p}
                       /\ Goes("call")
                       /\ UNCHANGED <<fileVars, signalled, tick, sent, late, published>>

(* A getter finds p unrecorded, and the context lets a call begin.         *)
CallBegins(p) == /\ pc = "pass"
                 /\ ~signalled
                 /\ holder = Nobody
                 /\ p \notin mem.records \cup tried
                 /\ post' = p /\ tried' = tried \cup {p}
                 /\ Goes("call")
                 /\ UNCHANGED <<fileVars, signalled, tick, sent, late, published>>

CallSucceeds == /\ pc = "call"
                /\ sent' = sent \cup {post}
                /\ late' = IF signalled THEN late + 1 ELSE late
                /\ Goes("record")
                /\ UNCHANGED <<fileVars, signalled, tick, post, tried, published>>

(* Refused, timed out or cancelled: the pass goes on to the next.          *)
CallFails == /\ pc = "call"
             /\ post' = NoPost
             /\ Goes("pass")
             /\ UNCHANGED <<fileVars, signalled, tick, tried, sent, late, published>>

Record == /\ pc = "record"
          /\ Lock(Main, [mem EXCEPT !.records = @ \cup {post}])
          /\ Goes("recordsave")
          /\ UNCHANGED <<loopVars, published>>

Recorded == /\ pc = "recordsave"
            /\ Returned(Main, "ok")
            /\ post' = NoPost
            /\ Goes("pass")
            /\ UNCHANGED <<signalled, tick, tried, sent, late, published>>

AfterPass == /\ post' = NoPost /\ tried' = {}
             /\ Goes(IF config.once THEN "shutdown" ELSE "select")
             /\ UNCHANGED <<signalled, tick, sent, late, published>>

(* A failed save ends the pass.                                            *)
NotRecorded == /\ pc = "recordsave"
               /\ Returned(Main, "failed")
               /\ AfterPass

(* The pass is done, has failed, has timed out, or panicked and recovered. *)
PassReturns == pc = "pass" /\ AfterPass /\ UNCHANGED fileVars

TakeTick == /\ pc = "select"
            /\ tick
            /\ tick' = FALSE
            /\ Goes("pass")
            /\ UNCHANGED <<fileVars, signalled, post, tried, sent, late, published>>

(* Faulty variant: the signal is acted upon while a pass runs.             *)
TakeSignalAtOnce == /\ pc \in {"select", "pass", "call", "record", "recordsave"}
                    /\ signalled
                    /\ Goes("shutdown")
                    /\ UNCHANGED <<fileVars, loopVars, published>>

(* Faulty variant: a tick that waits in the channel goes first.            *)
TakeSignalAfterTick == /\ pc = "select"
                       /\ signalled /\ ~tick
                       /\ Goes("shutdown")
                       /\ UNCHANGED <<fileVars, loopVars, published>>

TakeSignal == /\ pc = "select"
              /\ signalled
              /\ Goes("shutdown")
              /\ UNCHANGED <<fileVars, loopVars, published>>

(* Shutdown waits for the handlers, but no longer than its timeout.        *)
ShutdownDone == /\ pc = "shutdown"
                /\ req = AllIdle
                /\ Exits("clean")

ShutdownTimesOut == pc = "shutdown" /\ req # AllIdle /\ Exits("cut")

MainStep == \/ LoadState \/ HasKey \/ MakesKey \/ KeySaved \/ KeyNotSaved \/ Loop
            \/ (\E p \in Posts : CallBegins(p))
            \/ CallSucceeds \/ CallFails \/ Record \/ Recorded \/ NotRecorded
            \/ PassReturns \/ TakeTick \/ TakeSignal
            \/ ShutdownDone \/ ShutdownTimesOut

-----------------------------------------------------------------------------
(* Handlers. *)

mainVars == <<pc, config, exit, loopVars, published>>

Serving == pc \in {"boot", "pass", "call", "record", "recordsave", "select"}

Arrives(h) == /\ Serving
              /\ req[h] = "idle"
              /\ req' = [req EXCEPT ![h] = "asked"]
              /\ UNCHANGED <<fileVars, mainVars, acked>>

(* Bind refuses, or cannot reach Graft.                                    *)
Refuses(h) == /\ req[h] = "asked"
              /\ req' = [req EXCEPT ![h] = "idle"]
              /\ UNCHANGED <<fileVars, mainVars, acked>>

Binds(h) == /\ req[h] = "asked"
            /\ Lock(h, [mem EXCEPT !.records = @ \cup {h}])
            /\ req' = [req EXCEPT ![h] = "saving"]
            /\ UNCHANGED <<mainVars, acked>>

(* Faulty variant: the error of the setter is dropped.                     *)
AnswersAnyway(h) == /\ req[h] = "saving"
                    /\ \E result \in {"ok", "failed"} : Returned(h, result)
                    /\ acked' = acked \cup {h}
                    /\ req' = [req EXCEPT ![h] = "idle"]
                    /\ UNCHANGED mainVars

Answers(h) == /\ req[h] = "saving"
              /\ \E result \in {"ok", "failed"} :
                   /\ Returned(h, result)
                   /\ acked' = IF result = "ok" THEN acked \cup {h} ELSE acked
              /\ req' = [req EXCEPT ![h] = "idle"]
              /\ UNCHANGED mainVars

Saves == SaveStep /\ UNCHANGED <<mainVars, req, acked>>

-----------------------------------------------------------------------------
(* The operating system. *)

CatchesSignals == pc \notin {"down", "load", "key", "keysave", "boot"}

Sigterm == /\ CatchesSignals
           /\ signalled' = TRUE
           /\ UNCHANGED <<fileVars, pc, config, exit, tick, post, tried, req,
                          sent, late, acked, published>>

(* A crash, kill -9, or SIGTERM before it is caught.                       *)
Killed == pc # "down" /\ Exits("killed")

(* The channel of the ticker holds one tick at most.                       *)
Ticks == /\ CatchesSignals
         /\ ~config.once
         /\ tick' = TRUE
         /\ UNCHANGED <<fileVars, pc, config, exit, signalled, post, tried, req,
                        sent, late, acked, published>>

(* Somebody opens the state file to others, or follows the advice of Load. *)
ChangesMode == /\ pc = "down"
               /\ \E mode \in {"owner", "open"} : Chmod(mode)
               /\ UNCHANGED <<mainVars, req, acked>>

Next == \/ Start \/ StartRefused \/ MainStep \/ Saves
        \/ \E h \in Handlers : Arrives(h) \/ Refuses(h) \/ Binds(h) \/ Answers(h)
        \/ Sigterm \/ Killed \/ Ticks \/ ChangesMode

(* The scheduler runs every goroutine; a mutex that is free again and      *)
(* again is handed to a waiter, and a select that finds two channels ready *)
(* picks either.  Handlers may hang in a call, and nothing says when       *)
(* signals, ticks and crashes come.                                        *)
Fairness == /\ WF_vars(MainStep)
            /\ WF_vars(Saves)
            /\ SF_vars(\E p \in Posts : CallBegins(p))
            /\ SF_vars(Record)
            /\ SF_vars(TakeSignal)

Spec == Init /\ [][Next]_vars /\ Fairness

-----------------------------------------------------------------------------
(* Type invariant. *)
TypeOK == /\ FileTypeOK
          /\ pc \in {"down", "load", "key", "keysave", "boot", "pass", "call",
                     "record", "recordsave", "select", "shutdown"}
          /\ config \in Configs \cup {NoConfig}
          /\ exit \in {"none", "error", "panic", "clean", "cut", "killed"}
          /\ signalled \in BOOLEAN /\ tick \in BOOLEAN
          /\ post \in Posts \cup {NoPost}
          /\ tried \subseteq Posts /\ sent \subseteq Posts
          /\ req \in [Handlers -> {"idle", "asked", "saving"}]
          /\ late \in Nat
          /\ acked \subseteq Handlers
          /\ published \subseteq KeyPairs
          /\ \A h \in Handlers : holder = h => req[h] = "saving"
          /\ holder = Main => pc \in {"keysave", "recordsave"}

(* saveLocked replaces the file by rename: whatever the running process    *)
(* does to it, and wherever it dies, the next Load finds a whole file that *)
(* is its owner's only.                                                    *)
FileLoads == [][path' # path /\ pc # "down" =>
                  path' # NoFile /\ path'.whole /\ path'.mode = "owner"]_vars

(* Setters, passes and handlers between them implement the store that      *)
(* Store takes for granted: one step in memory and file together.          *)
Atomic == INSTANCE AtomicStore WITH
            mem <- CASE pc \in {"down", "load"} -> Stored
                     [] step # "none"           -> before
                     [] OTHER                   -> mem,
            disk <- Stored

AtomicSave == Atomic!Spec

(* An answer of success is a promise: crashes, kills, failed saves of      *)
(* others and shutdowns later, the file still holds what was asked for.    *)
AckedIsDurable == acked \subseteq Stored.records

(* ensureActor: remote servers cache the actor's key, so the bridge never  *)
(* serves two of them, however often it crashes or fails to save.          *)
IdentityStable == \A k, l \in published : k = l

(* main leaves the loop between passes only: in the end everything that    *)
(* was sent is recorded, or at least its save was tried, and no save is    *)
(* under way.                                                              *)
CleanExit == [][pc = "shutdown" /\ exit' = "clean" =>
                  sent \subseteq mem.records /\ step = "none"]_vars

(* NotifyContext cancels the context of the pass: one call may be under    *)
(* way when the signal comes, and no other call succeeds after it.         *)
QuietAfterSignal == late <= 1

(* A pass returns to the loop, in spite of failing saves and of handlers   *)
(* that compete for the mutex, and so does everything it waits for.        *)
PassesEnd == pc = "pass" ~> pc \in {"select", "shutdown", "down"}

(* SIGTERM ends the process, also with a tick waiting in the channel, a    *)
(* handler that hangs and saves that fail.                                 *)
StopsWhenTold == signalled ~> pc = "down"
=============================================================================
