--------------------------- MODULE ProcessProofs ---------------------------
(***************************************************************************)
(* What TLAPS proves about the process and its file, for every set of      *)
(* handlers, items, keys and configurations: over any number of kills and  *)
(* failed saves a save looks like one step, the file is whole, and what    *)
(* was promised is in it.                                                  *)
(***************************************************************************)
EXTENDS Process, FiniteSetTheorems, TLAPS

Saving == step # "none"

Running == pc \notin {"down", "load"}

(* A caller knows what its setter returned while it waits for it only, and *)
(* there are no handlers before the server runs.                           *)
Waits ==
  /\ \A h \in Handlers : outcome[h] # "none" => req[h] = "saving" /\ holder # h
  /\ outcome[Main] # "none" => pc \in {"keysave", "recordsave"} /\ holder # Main
  /\ pc \in {"down", "load", "key", "keysave"} => req = AllIdle

(* What the temporary file holds before each step.                         *)
Drafts ==
  /\ step \in {"write", "close", "chmod", "rename"} => tmp \in Files /\ tmp.mode = "owner"
  /\ step \in {"close", "chmod", "rename"} => tmp.whole /\ tmp.struct = mem

(* What the main goroutine is busy with.                                   *)
Busy ==
  /\ pc \in {"call", "record"} => post \in Posts
  /\ pc = "keysave" => mem.key \in KeyPairs
  /\ Saving => Running

TypeInv == TypeOK /\ Waits /\ Drafts /\ Busy

(* Memory is never behind the file while the process runs.                 *)
Ahead ==
  Running => /\ Stored.records \subseteq mem.records
             /\ Stored.key # NoKey => mem.key = Stored.key

AckInv ==
  /\ AckedIsDurable
  /\ \A h \in Handlers : holder = h => h \in mem.records
  /\ \A h \in Handlers : outcome[h] = "ok" => h \in Stored.records

KeyInv ==
  /\ \A k \in published : Stored.key = k
  /\ pc = "key" => mem.key = Stored.key
  /\ pc = "keysave" /\ outcome[Main] = "ok" => mem.key = Stored.key

QuietInv == /\ QuietAfterSignal
            /\ ~signalled \/ pc = "call" => late = 0

ExitInv == /\ pc # "down" => exit = "none"
           /\ pc \in {"down", "load"} => sent = {}
           /\ sent \subseteq mem.records \cup (IF pc = "record" THEN {post} ELSE {})

(* A setter under way makes one change.                                    *)
ChangeInv ==
  Saving => \/ \E r \in Records : mem = [before EXCEPT !.records = @ \cup {r}]
            \/ \E k \in KeyPairs : mem = [before EXCEPT !.key = k]

-----------------------------------------------------------------------------
(* Typing. *)

(* The empty struct is one.                                                *)
LEMMA NoStructType == NoStruct \in Structs
  BY DEF NoStruct, Structs

(* Everything is well formed when no process runs.                         *)
LEMMA TypeInit == Init => TypeInv
  <1> SUFFICES ASSUME Init PROVE TypeInv
    OBVIOUS
  <1>2. FileTypeOK
    BY NoStructType, StateFileAssumption DEF Init, FileInit, FileTypeOK, Steps
  <1>3. Waits /\ Drafts /\ Busy
    BY ProcessAssumption DEF Init, FileInit, Waits, Drafts, Busy, Saving
  <1>4. TypeOK
    BY <1>2, ProcessAssumption, StateFileAssumption DEF Init, FileInit, TypeOK, AllIdle
  <1> QED
    BY <1>2, <1>3, <1>4 DEF TypeInv

(* And so it is when the process ends.                                     *)
LEMMA ExitsType ==
  ASSUME TypeInv, NEW how \in {"error", "panic", "clean", "cut", "killed"}, Exits(how)
  PROVE  TypeInv'
  BY ProcessAssumption, StateFileAssumption
  DEF Exits, Gone, TypeInv, TypeOK, FileTypeOK, Waits, Drafts, Busy, Saving, Running,
      Structs, NoStruct, AllIdle, Steps

(* A setter that gets the mutex.                                           *)
LEMMA LockType ==
  ASSUME TypeInv, NEW c \in Callers, NEW st \in Structs, Lock(c, st)
  PROVE  FileTypeOK' /\ Drafts' /\ mem' = st /\ outcome' = outcome /\ step' = "create"
  BY StateFileAssumption DEF Lock, TypeInv, TypeOK, FileTypeOK, Drafts, Steps

(* A caller that takes notice of the result of its setter.                 *)
LEMMA ReturnedType ==
  ASSUME TypeInv, NEW c \in Callers, NEW result, Returned(c, result)
  PROVE  /\ FileTypeOK' /\ Drafts' /\ outcome' = [outcome EXCEPT ![c] = "none"]
         /\ UNCHANGED <<mem, holder, step>>
  BY DEF Returned, TypeInv, TypeOK, FileTypeOK, Drafts

(* Steps that leave the file, the mutex and memory alone.                  *)
LEMMA SameFileType ==
  ASSUME TypeInv, UNCHANGED fileVars
  PROVE  FileTypeOK' /\ Drafts'
  BY DEF fileVars, TypeInv, TypeOK, FileTypeOK, Drafts

(* A step of a save.                                                       *)
LEMMA SavesType ==
  ASSUME TypeInv, Saves
  PROVE  TypeInv'
  <1> USE DEF mainVars, loopVars, Saves
  <1>1. UNCHANGED <<pc, config, exit, signalled, tick, post, tried, sent, late, published, req, acked>>
    OBVIOUS
  <1>2. ASSUME FileTypeOK', Drafts', step # "none", step' # "none",
               UNCHANGED <<mem, path, holder, outcome>>
        PROVE  TypeInv'
    BY <1>1, <1>2 DEF TypeInv, TypeOK, Waits, Busy, Saving, Running
  <1>3. CASE CreateTemp
    <2>1. tmp' \in Files /\ tmp'.mode = "owner"
      BY <1>3, NoStructType DEF CreateTemp, Partial, Files
    <2> QED
      BY <1>2, <1>3, <2>1 DEF CreateTemp, Proceed, TypeInv, TypeOK, FileTypeOK, Drafts, Steps
  <1>4. CASE WriteTemp
    <2>1. /\ tmp' \in Files /\ tmp'.mode = "owner"
          /\ tmp'.whole /\ tmp'.struct = mem
      BY <1>4 DEF WriteTemp, TypeInv, TypeOK, FileTypeOK, Drafts, Files
    <2> QED
      BY <1>2, <1>4, <2>1 DEF WriteTemp, Proceed, TypeInv, TypeOK, FileTypeOK, Drafts, Steps
  <1>5. CASE CloseTemp
    BY <1>2, <1>5 DEF CloseTemp, Proceed, TypeInv, TypeOK, FileTypeOK, Drafts, Steps
  <1>6. CASE ChmodTemp
    <2>1. /\ tmp' \in Files /\ tmp'.mode = "owner"
          /\ tmp'.whole /\ tmp'.struct = mem
      BY <1>6 DEF ChmodTemp, TypeInv, TypeOK, FileTypeOK, Drafts, Files
    <2> QED
      BY <1>2, <1>6, <2>1 DEF ChmodTemp, Proceed, TypeInv, TypeOK, FileTypeOK, Drafts, Steps
  <1>7. ASSUME step # "none", tmp' = NoFile, path' \in Files \cup {NoFile},
               NEW result \in {"ok", "failed"}, Return(result)
        PROVE  TypeInv'
    <2>1. holder \in Callers /\ outcome[holder] = "none"
      BY <1>7, ProcessAssumption DEF TypeInv, TypeOK, FileTypeOK, Waits
    <2>2. outcome' \in [Callers -> {"none", "ok", "failed"}]
      BY <1>7, <2>1 DEF Return, TypeInv, TypeOK, FileTypeOK
    <2>3. \A c \in Callers : c # holder => outcome'[c] = outcome[c]
      BY <1>7, <2>1 DEF Return, TypeInv, TypeOK, FileTypeOK
    <2>4. FileTypeOK' /\ Drafts'
      BY <1>7, <2>2, StateFileAssumption
      DEF Return, TypeInv, TypeOK, FileTypeOK, Drafts, NoStruct, Structs, Steps
    <2>5. Waits'
      BY <1>1, <1>7, <2>1, <2>3, ProcessAssumption, StateFileAssumption
      DEF Return, TypeInv, TypeOK, FileTypeOK, Waits
    <2> QED
      BY <1>1, <1>7, <2>4, <2>5, ProcessAssumption, StateFileAssumption
      DEF Return, TypeInv, TypeOK, FileTypeOK, Busy, Saving
  <1>8. CASE Rename
    BY <1>7, <1>8 DEF Rename, TypeInv, Drafts
  <1>9. CASE SaveFails
    BY <1>7, <1>9 DEF SaveFails, TypeInv, TypeOK, FileTypeOK
  <1> QED
    BY <1>3, <1>4, <1>5, <1>6, <1>8, <1>9 DEF SaveStep

(* Every step keeps the state well formed.                                 *)
LEMMA TypeStep ==
  ASSUME TypeInv, [Next]_vars
  PROVE  TypeInv'
  <1> USE DEF loopVars, mainVars, Goes
  <1>1. CASE Start \/ StartRefused
    BY <1>1, SameFileType
    DEF Start, StartRefused, fileVars, TypeInv, TypeOK, Waits, Busy, Saving, Running
  <1>2. CASE LoadState
    <2>1. CASE Loadable
      <3>1. Load /\ pc' = "key" /\ UNCHANGED <<config, exit, req, acked, loopVars, published>>
        BY <1>2, <2>1 DEF LoadState
      <3>2. Stored \in Structs
        BY NoStructType DEF Stored, TypeInv, TypeOK, FileTypeOK, Files
      <3>3. holder = Nobody /\ step = "none"
        BY <1>2, ProcessAssumption DEF LoadState, TypeInv, TypeOK, FileTypeOK, Busy, Saving, Running
      <3>4. FileTypeOK' /\ Drafts'
        BY <3>1, <3>2, <3>3 DEF Load, TypeInv, TypeOK, FileTypeOK, Drafts
      <3> QED
        BY <1>2, <3>1, <3>3, <3>4
        DEF LoadState, Load, TypeInv, TypeOK, Waits, Busy, Saving
    <2>2. CASE ~Loadable
      BY <1>2, <2>2, ExitsType DEF LoadState
    <2> QED
      BY <2>1, <2>2
  <1>3. CASE HasKey
    BY <1>3, SameFileType
    DEF HasKey, Serve, fileVars, TypeInv, TypeOK, FileTypeOK, Structs, Waits, Busy, Saving, Running
  <1>4. CASE MakesKey
    <2>1. PICK k \in KeyPairs : Lock(Main, [mem EXCEPT !.key = k])
      BY <1>4 DEF MakesKey
    <2>2. [mem EXCEPT !.key = k] \in Structs /\ [mem EXCEPT !.key = k].key = k
      BY DEF TypeInv, TypeOK, FileTypeOK, Structs
    <2>3. FileTypeOK' /\ Drafts' /\ mem'.key = k /\ outcome' = outcome /\ step' = "create"
      BY <2>1, <2>2, LockType, ProcessAssumption
    <2> QED
      BY <1>4, <2>1, <2>3, ProcessAssumption
      DEF MakesKey, Lock, TypeInv, TypeOK, Waits, Busy, Saving, Running
  <1>5. CASE KeySaved
    <2>1. /\ FileTypeOK' /\ Drafts' /\ outcome' = [outcome EXCEPT ![Main] = "none"]
          /\ UNCHANGED <<mem, holder, step>>
      BY <1>5, ReturnedType, ProcessAssumption DEF KeySaved
    <2>2. holder # Main /\ mem.key \in KeyPairs
      BY <1>5 DEF KeySaved, Returned, TypeInv, Waits, Busy
    <2>3. published' \subseteq KeyPairs
      BY <1>5, <2>2 DEF KeySaved, Serve, TypeInv, TypeOK
    <2>4. outcome'[Main] = "none" /\ \A h \in Handlers : outcome'[h] = outcome[h]
      BY <2>1, ProcessAssumption DEF TypeInv, TypeOK, FileTypeOK
    <2>5. /\ pc' = "boot"
          /\ UNCHANGED <<config, exit, req, acked, signalled, tick, post, tried, sent, late>>
      BY <1>5 DEF KeySaved, Serve
    <2>6. Waits'
      BY <2>1, <2>4, <2>5 DEF TypeInv, Waits
    <2>7. Busy'
      BY <2>1, <2>5 DEF Busy, Saving, Running
    <2>8. TypeOK'
      BY <2>1, <2>2, <2>3, <2>5 DEF TypeInv, TypeOK
    <2> QED
      BY <2>1, <2>6, <2>7, <2>8 DEF TypeInv
  <1>6. CASE KeyNotSaved \/ ShutdownDone \/ ShutdownTimesOut \/ Killed
    BY <1>6, ExitsType DEF KeyNotSaved, ShutdownDone, ShutdownTimesOut, Killed
  <1>7. CASE Loop
    <2>1. CASE UNCHANGED fileVars /\ Goes("pass") /\ UNCHANGED <<loopVars, published>>
      BY <1>7, <2>1, SameFileType
      DEF Loop, fileVars, TypeInv, TypeOK, Waits, Busy, Saving, Running
    <2>2. CASE Exits("panic")
      BY <2>2, ExitsType
    <2> QED
      BY <1>7, <2>1, <2>2 DEF Loop
  <1>8. CASE \E p \in Posts : CallBegins(p)
    BY <1>8, SameFileType
    DEF CallBegins, fileVars, TypeInv, TypeOK, Waits, Busy, Saving, Running
  <1>9. CASE CallSucceeds \/ CallFails \/ PassReturns \/ TakeTick \/ TakeSignal
    <2>1. FileTypeOK' /\ Drafts' /\ UNCHANGED <<mem, holder, step, outcome, req>>
      BY <1>9, SameFileType
      DEF CallSucceeds, CallFails, PassReturns, AfterPass, TakeTick, TakeSignal, fileVars
    <2>2. holder # Main
      BY <1>9 DEF CallSucceeds, CallFails, PassReturns, TakeTick, TakeSignal, TypeInv, TypeOK
    <2>3. Waits' /\ Busy'
      BY <1>9, <2>1
      DEF CallSucceeds, CallFails, PassReturns, AfterPass, TakeTick, TakeSignal,
          TypeInv, Waits, Busy, Saving, Running
    <2>4. CASE CallSucceeds
      <3>1. sent' \subseteq Posts /\ late' \in Nat
        BY <2>4 DEF CallSucceeds, TypeInv, TypeOK, Busy
      <3> QED
        BY <2>1, <2>2, <2>3, <2>4, <3>1 DEF CallSucceeds, TypeInv, TypeOK
    <2>5. CASE CallFails
      BY <2>1, <2>2, <2>3, <2>5 DEF CallFails, TypeInv, TypeOK
    <2>6. CASE PassReturns
      BY <2>1, <2>2, <2>3, <2>6 DEF PassReturns, AfterPass, TypeInv, TypeOK
    <2>7. CASE TakeTick \/ TakeSignal
      BY <2>1, <2>2, <2>3, <2>7 DEF TakeTick, TakeSignal, TypeInv, TypeOK
    <2> QED
      BY <1>9, <2>4, <2>5, <2>6, <2>7
  <1>10. CASE Record
    <2> DEFINE st == [mem EXCEPT !.records = @ \cup {post}]
    <2>1. st \in Structs
      BY <1>10, ProcessAssumption DEF Record, TypeInv, TypeOK, FileTypeOK, Structs, Busy
    <2>2. FileTypeOK' /\ Drafts' /\ outcome' = outcome /\ step' = "create" /\ holder' = Main
      BY <1>10, <2>1, LockType, ProcessAssumption DEF Record, Lock
    <2> QED
      BY <1>10, <2>2, ProcessAssumption
      DEF Record, TypeInv, TypeOK, Waits, Busy, Saving, Running
  <1>11. CASE Recorded \/ NotRecorded
    <2>1. PICK result : Returned(Main, result)
      BY <1>11 DEF Recorded, NotRecorded
    <2>2. /\ FileTypeOK' /\ Drafts' /\ outcome' = [outcome EXCEPT ![Main] = "none"]
          /\ UNCHANGED <<mem, holder, step>>
      BY <2>1, ReturnedType, ProcessAssumption
    <2>3. holder # Main
      BY <1>11 DEF Recorded, NotRecorded, Returned, TypeInv, Waits
    <2> QED
      BY <1>11, <2>2, <2>3, ProcessAssumption
      DEF Recorded, NotRecorded, AfterPass, TypeInv, TypeOK, FileTypeOK, Waits, Busy, Saving, Running
  <1>12. ASSUME NEW h \in Handlers, Arrives(h) \/ Refuses(h)
         PROVE  TypeInv'
    <2>1. PICK s \in {"idle", "asked"} : req' = [req EXCEPT ![h] = s]
      BY <1>12 DEF Arrives, Refuses
    <2>2. FileTypeOK' /\ Drafts' /\ UNCHANGED <<mem, holder, step, outcome, mainVars, acked>>
      BY <1>12, SameFileType DEF Arrives, Refuses, fileVars
    <2>3. req \in [Handlers -> {"idle", "asked", "saving"}] /\ req[h] # "saving"
      BY <1>12 DEF Arrives, Refuses, TypeInv, TypeOK
    <2>4. req' \in [Handlers -> {"idle", "asked", "saving"}]
      BY <2>1, <2>3
    <2>5. \A g \in Handlers : req[g] = "saving" => req'[g] = "saving"
      BY <2>1, <2>3
    <2>6. pc \notin {"down", "load", "key", "keysave"}
      <3>1. CASE Arrives(h)
        BY <3>1 DEF Arrives, Serving
      <3>2. CASE Refuses(h)
        BY <3>2 DEF Refuses, TypeInv, Waits, AllIdle
      <3> QED
        BY <1>12, <3>1, <3>2
    <2>7. Waits' /\ Busy'
      BY <2>2, <2>5, <2>6 DEF TypeInv, Waits, Busy, Saving, Running
    <2>8. TypeOK'
      BY <2>2, <2>4, <2>5 DEF TypeInv, TypeOK
    <2> QED
      BY <2>2, <2>7, <2>8 DEF TypeInv
  <1>13. ASSUME NEW h \in Handlers, Binds(h)
         PROVE  TypeInv'
    <2> DEFINE st == [mem EXCEPT !.records = @ \cup {h}]
    <2>1. st \in Structs
      BY ProcessAssumption DEF TypeInv, TypeOK, FileTypeOK, Structs
    <2>2. /\ FileTypeOK' /\ Drafts' /\ outcome' = outcome /\ step' = "create"
          /\ holder' = h /\ mem' = st /\ mem'.key = mem.key
      BY <1>13, <2>1, LockType, ProcessAssumption DEF Binds, Lock, TypeInv, TypeOK, FileTypeOK, Structs
    <2>3. Running /\ pc # "keysave" /\ pc # "key"
      BY <1>13 DEF Binds, TypeInv, Waits, AllIdle, Running
    <2> QED
      BY <1>13, <2>2, <2>3, ProcessAssumption
      DEF Binds, TypeInv, TypeOK, Waits, Busy, Saving, Running
  <1>14. ASSUME NEW h \in Handlers, Answers(h)
         PROVE  TypeInv'
    <2>1. PICK result \in {"ok", "failed"} : Returned(h, result)
      BY <1>14 DEF Answers
    <2>2. /\ FileTypeOK' /\ Drafts' /\ outcome' = [outcome EXCEPT ![h] = "none"]
          /\ UNCHANGED <<mem, holder, step>>
      BY <2>1, ReturnedType, ProcessAssumption
    <2>3. holder # h
      BY <2>1 DEF Returned, TypeInv, Waits
    <2>4. acked' \subseteq Handlers
      BY <1>14 DEF Answers, TypeInv, TypeOK
    <2>5. pc \notin {"down", "load", "key", "keysave"}
      BY <1>14 DEF Answers, TypeInv, Waits, AllIdle
    <2> QED
      BY <1>14, <2>2, <2>3, <2>4, <2>5, ProcessAssumption
      DEF Answers, TypeInv, TypeOK, FileTypeOK, Waits, Busy, Saving, Running
  <1>15. CASE Saves
    BY <1>15, SavesType
  <1>16. CASE Sigterm \/ Ticks
    <2>1. FileTypeOK' /\ Drafts'
      BY <1>16, SameFileType DEF Sigterm, Ticks
    <2>2. /\ UNCHANGED <<mem, holder, step, outcome, req, pc, config, exit, post, tried, sent, late, acked>>
          /\ UNCHANGED published /\ signalled' \in BOOLEAN /\ tick' \in BOOLEAN
      BY <1>16 DEF Sigterm, Ticks, fileVars, TypeInv, TypeOK
    <2>3. Waits' /\ Busy'
      BY <2>2 DEF TypeInv, Waits, Busy, Saving, Running
    <2> QED
      BY <2>1, <2>2, <2>3 DEF TypeInv, TypeOK
  <1>17. CASE ChangesMode
    <2>1. FileTypeOK' /\ Drafts'
      BY <1>17 DEF ChangesMode, Chmod, Files, TypeInv, TypeOK, FileTypeOK, Drafts
    <2> QED
      BY <1>17, <2>1 DEF ChangesMode, Chmod, TypeInv, TypeOK, Waits, Busy, Saving, Running
  <1>18. CASE UNCHANGED vars
    BY <1>18, SameFileType
    DEF vars, fileVars, TypeInv, TypeOK, Waits, Busy, Saving, Running
  <1> QED
    BY <1>1, <1>2, <1>3, <1>4, <1>5, <1>6, <1>7, <1>8, <1>9, <1>10, <1>11, <1>12,
       <1>13, <1>14, <1>15, <1>16, <1>17, <1>18
    DEF Next, MainStep

(* Every reachable state is well formed: the mutex is held by somebody who *)
(* saves, and only by a goroutine that called a setter.                    *)
THEOREM TypeCorrect == Spec => []TypeOK
  <1>1. TypeInv => TypeOK
    BY DEF TypeInv
  <1> QED
    BY TypeInit, TypeStep, <1>1, PTL DEF Spec

(* The invariant that types every step.                                    *)
LEMMA TypeInvariant == Spec => []TypeInv
  BY TypeInit, TypeStep, PTL DEF Spec

-----------------------------------------------------------------------------
(* Signals. *)

(* A call that is under way was begun before the signal, and is the first  *)
(* to succeed after it.                                                    *)
LEMMA QuietStep ==
  ASSUME TypeInv, QuietInv, [Next]_vars
  PROVE  QuietInv'
  <1> USE DEF QuietInv, QuietAfterSignal
  <1>1. CASE CallSucceeds
    BY <1>1 DEF CallSucceeds, Goes, TypeInv, TypeOK
  <1>2. CASE \E p \in Posts : CallBegins(p)
    BY <1>2 DEF CallBegins, Goes
  <1>3. ASSUME NEW how, Exits(how)
        PROVE  QuietInv'
    BY <1>3 DEF Exits
  <1>4. CASE UNCHANGED <<late, signalled>> /\ pc' # "call"
    BY <1>4
  <1>5. CASE UNCHANGED <<late, signalled, pc>>
    BY <1>5
  <1>6. CASE LoadState \/ KeyNotSaved \/ Loop \/ ShutdownDone \/ ShutdownTimesOut \/ Killed
    BY <1>3, <1>4, <1>6
    DEF LoadState, KeyNotSaved, Loop, ShutdownDone, ShutdownTimesOut, Killed, Goes, loopVars
  <1>7. CASE Start \/ StartRefused \/ HasKey \/ MakesKey \/ KeySaved
    BY <1>4, <1>7 DEF Start, StartRefused, HasKey, MakesKey, KeySaved, Serve, Goes, loopVars
  <1>8. CASE CallFails \/ Record \/ Recorded \/ NotRecorded \/ PassReturns \/ TakeTick \/ TakeSignal
    BY <1>4, <1>8
    DEF CallFails, Record, Recorded, NotRecorded, PassReturns, AfterPass, TakeTick, TakeSignal,
        Goes, loopVars
  <1>9. CASE \/ Saves \/ Ticks \/ ChangesMode
             \/ \E h \in Handlers : Arrives(h) \/ Refuses(h) \/ Binds(h) \/ Answers(h)
    BY <1>5, <1>9
    DEF Saves, Ticks, ChangesMode, Arrives, Refuses, Binds, Answers, mainVars, loopVars
  <1>10. CASE Sigterm
    BY <1>10 DEF Sigterm
  <1>11. CASE UNCHANGED vars
    BY <1>5, <1>11 DEF vars
  <1> QED
    BY <1>1, <1>2, <1>6, <1>7, <1>8, <1>9, <1>10, <1>11 DEF Next, MainStep

(* NotifyContext cancels the context of the pass: however many passes,     *)
(* handlers and failures there are, one call at most succeeds after a      *)
(* signal.                                                                 *)
THEOREM NoisyOnceAtMost == Spec => []QuietAfterSignal
  <1>1. Init => QuietInv
    BY DEF Init, QuietInv, QuietAfterSignal
  <1>2. QuietInv => QuietAfterSignal
    BY DEF QuietInv
  <1> QED
    BY TypeInvariant, QuietStep, <1>1, <1>2, PTL DEF Spec

-----------------------------------------------------------------------------
(* The file. *)

(* The file of a running process changes by a rename only.                 *)
LEMMA PathKept ==
  ASSUME [Next]_vars, pc # "down"
  PROVE  path' = path \/ Rename
  <1>1. CASE Saves
    BY <1>1 DEF Saves, SaveStep, CreateTemp, WriteTemp, CloseTemp, ChmodTemp, SaveFails, Proceed
  <1>2. ASSUME NEW how, Exits(how)
        PROVE  path' = path
    BY <1>2 DEF Exits, Gone
  <1>3. CASE LoadState \/ KeyNotSaved \/ Loop \/ ShutdownDone \/ ShutdownTimesOut \/ Killed
    BY <1>2, <1>3
    DEF LoadState, Load, KeyNotSaved, Loop, ShutdownDone, ShutdownTimesOut, Killed, fileVars
  <1>4. CASE HasKey \/ MakesKey \/ KeySaved \/ Record \/ Recorded \/ NotRecorded
    BY <1>4 DEF HasKey, MakesKey, KeySaved, Record, Recorded, NotRecorded, Lock, Returned, fileVars
  <1>5. CASE \/ CallSucceeds \/ CallFails \/ PassReturns \/ TakeTick \/ TakeSignal
             \/ \E p \in Posts : CallBegins(p)
    BY <1>5 DEF CallSucceeds, CallFails, PassReturns, TakeTick, TakeSignal, CallBegins, fileVars
  <1>6. CASE \E h \in Handlers : Arrives(h) \/ Refuses(h) \/ Binds(h) \/ Answers(h)
    BY <1>6 DEF Arrives, Refuses, Binds, Answers, Lock, Returned, fileVars
  <1>7. CASE Sigterm \/ Ticks \/ UNCHANGED vars
    BY <1>7 DEF Sigterm, Ticks, vars, fileVars
  <1> QED
    BY <1>1, <1>3, <1>4, <1>5, <1>6, <1>7 DEF Next, MainStep, Start, StartRefused, ChangesMode

(* saveLocked replaces the file by rename: whatever the running process    *)
(* does to it, the next Load finds a whole file that is its owner's only.  *)
THEOREM FileAlwaysLoads == Spec => FileLoads
  <1>1. TypeInv /\ [Next]_vars =>
          [path' # path /\ pc # "down" =>
             path' # NoFile /\ path'.whole /\ path'.mode = "owner"]_vars
    BY PathKept, StateFileAssumption DEF Rename, TypeInv, Drafts
  <1> QED
    BY TypeInvariant, <1>1, PTL DEF Spec, FileLoads

-----------------------------------------------------------------------------
(* Memory and file. *)

(* Nobody is about the file before the server runs.                        *)
LEMMA QuietStart ==
  ASSUME TypeInv, pc \in {"down", "load", "key"}
  PROVE  holder = Nobody /\ step = "none"
  BY ProcessAssumption DEF TypeInv, TypeOK, FileTypeOK, Waits, AllIdle

(* Only a rename changes what the file holds.                              *)
LEMMA StoredKept ==
  ASSUME TypeInv, [Next]_vars
  PROVE  \/ Stored' = Stored
         \/ Rename /\ Stored' = mem /\ Running
  <1>1. CASE path' = path
    BY <1>1 DEF Stored
  <1>2. CASE Rename /\ pc # "down"
    <2>1. path' # NoFile /\ path'.struct = mem /\ Running
      BY <1>2, StateFileAssumption DEF Rename, TypeInv, Drafts, Busy, Saving
    <2> QED
      BY <1>2, <2>1 DEF Stored
  <1>3. CASE pc = "down" /\ ChangesMode
    BY <1>3, StateFileAssumption DEF ChangesMode, Chmod, Stored, TypeInv, TypeOK, FileTypeOK, Files
  <1>4. CASE pc = "down" /\ ~ChangesMode
    <2>1. path' = path
      BY <1>4, QuietStart
      DEF Next, Start, StartRefused, MainStep, LoadState, HasKey, MakesKey, KeySaved, KeyNotSaved,
          Loop, CallBegins, CallSucceeds, CallFails, Record, Recorded, NotRecorded, PassReturns,
          TakeTick, TakeSignal, ShutdownDone, ShutdownTimesOut, Saves, SaveStep, CreateTemp,
          WriteTemp, CloseTemp, ChmodTemp, Rename, SaveFails, Arrives, Refuses, Binds, Lock,
          Answers, Returned, Sigterm, CatchesSignals, Killed, Ticks, fileVars, vars
    <2> QED
      BY <2>1 DEF Stored
  <1> QED
    BY <1>1, <1>2, <1>3, <1>4, PathKept

StoreInv == Ahead /\ AckInv /\ KeyInv /\ ChangeInv

(* What the proof of a step that leaves memory, file and mutex alone needs *)
(* to know of it.                                                          *)
LEMMA StoreIdle ==
  ASSUME TypeInv, StoreInv, Stored' = Stored,
         UNCHANGED <<mem, holder, step, before, outcome, acked, published>>,
         Running' => Running, pc' # "key", pc' = "keysave" => pc = "keysave"
  PROVE  StoreInv'
  BY DEF StoreInv, Ahead, AckInv, AckedIsDurable, KeyInv, ChangeInv, Saving

(* The same of the end of the process.                                     *)
LEMMA StoreExits ==
  ASSUME TypeInv, StoreInv, NEW how, Exits(how)
  PROVE  StoreInv'
  <1>1. Stored' = Stored
    BY DEF Exits, Gone, Stored
  <1>2. \A c \in Callers : outcome'[c] = "none" /\ holder' # c
    BY StateFileAssumption DEF Exits, Gone
  <1> QED
    BY <1>1, <1>2, ProcessAssumption
    DEF Exits, Gone, StoreInv, Ahead, AckInv, AckedIsDurable, KeyInv, ChangeInv, Running, Saving

(* A setter that adds a record.                                            *)
LEMMA StoreAdds ==
  ASSUME TypeInv, StoreInv, NEW c \in Callers, NEW r \in Records,
         Lock(c, [mem EXCEPT !.records = @ \cup {r}]), c \in Handlers => r = c,
         UNCHANGED <<acked, published>>, pc' # "key", pc' # "keysave", Running
  PROVE  StoreInv'
  <1>1. Stored' = Stored /\ outcome' = outcome /\ holder' = c /\ before' = mem
    BY DEF Lock, Stored
  <1>2. mem' = [mem EXCEPT !.records = @ \cup {r}]
    BY DEF Lock
  <1>3. mem'.records = mem.records \cup {r} /\ mem'.key = mem.key
    BY <1>2 DEF TypeInv, TypeOK, FileTypeOK, Structs
  <1>4. Ahead'
    BY <1>1, <1>3 DEF StoreInv, Ahead
  <1>5. AckInv'
    BY <1>1, <1>3 DEF StoreInv, AckInv, AckedIsDurable
  <1>6. KeyInv'
    BY <1>1 DEF StoreInv, KeyInv
  <1>7. ChangeInv'
    BY <1>1, <1>2 DEF ChangeInv
  <1> QED
    BY <1>4, <1>5, <1>6, <1>7 DEF StoreInv

(* The steps of a save: a rename makes the file what memory is.            *)
LEMMA StoreSaves ==
  ASSUME TypeInv, StoreInv, Saves
  PROVE  StoreInv'
  <1>1. UNCHANGED <<pc, mem, acked, published>> /\ Saving /\ Running
    BY DEF Saves, mainVars, SaveStep, CreateTemp, WriteTemp, CloseTemp, ChmodTemp, Rename, SaveFails,
           Proceed, Return, TypeInv, Busy, Saving
  <1>2. pc # "key"
    BY <1>1, QuietStart DEF Saving
  <1>3. CASE CreateTemp \/ WriteTemp \/ CloseTemp \/ ChmodTemp
    <2>1. UNCHANGED <<path, holder, outcome, before>>
      BY <1>3 DEF CreateTemp, WriteTemp, CloseTemp, ChmodTemp, Proceed
    <2>2. Stored' = Stored
      BY <2>1 DEF Stored
    <2> QED
      BY <1>1, <1>2, <2>1, <2>2
      DEF StoreInv, Ahead, AckInv, AckedIsDurable, KeyInv, ChangeInv, Saving, Running
  <1>4. ASSUME NEW result \in {"ok", "failed"}, Return(result),
               IF result = "ok" THEN Stored' = mem ELSE Stored' = Stored
        PROVE  StoreInv'
    <2>1. holder' = Nobody /\ step' = "none"
      BY <1>4 DEF Return
    <2>2. \A c \in Callers : outcome'[c] = IF c = holder THEN result ELSE outcome[c]
      BY <1>4 DEF Return, TypeInv, TypeOK, FileTypeOK
    <2>3. Stored.records \subseteq Stored'.records /\ Stored'.records \subseteq mem.records
      BY <1>1, <1>4 DEF StoreInv, Ahead
    <2>4. Ahead'
      BY <1>1, <1>4, <2>3 DEF StoreInv, Ahead, Running
    <2>5. AckInv'
      <3>1. \A h \in Handlers : holder' # h
        BY <2>1, StateFileAssumption, ProcessAssumption
      <3>2. AckedIsDurable'
        BY <1>1, <2>3 DEF StoreInv, AckInv, AckedIsDurable
      <3>3. \A h \in Handlers : outcome'[h] = "ok" => h \in Stored'.records
        BY <1>4, <2>2, <2>3, ProcessAssumption DEF StoreInv, AckInv
      <3> QED
        BY <3>1, <3>2, <3>3 DEF AckInv
    <2>6. KeyInv'
      <3>1. \A k \in published : Stored'.key = k
        BY <1>1, <1>4, StateFileAssumption DEF StoreInv, KeyInv, Ahead, TypeInv, TypeOK
      <3>2. pc' = "keysave" /\ outcome'[Main] = "ok" => mem'.key = Stored'.key
        BY <1>1, <1>4, <2>2, ProcessAssumption DEF StoreInv, KeyInv
      <3> QED
        BY <1>1, <1>2, <3>1, <3>2 DEF KeyInv
    <2>7. ChangeInv'
      BY <2>1 DEF ChangeInv, Saving
    <2> QED
      BY <2>4, <2>5, <2>6, <2>7 DEF StoreInv
  <1>5. CASE Rename
    <2>1. Stored' = mem
      BY <1>5, StateFileAssumption DEF Rename, Stored, TypeInv, Drafts
    <2> QED
      BY <1>4, <1>5, <2>1 DEF Rename
  <1>6. CASE SaveFails
    BY <1>4, <1>6 DEF SaveFails, Stored
  <1> QED
    BY <1>3, <1>5, <1>6 DEF Saves, SaveStep

(* A caller that takes notice of its result, and may promise it to others. *)
LEMMA StoreReturned ==
  ASSUME TypeInv, StoreInv, NEW c \in Callers, NEW result, Returned(c, result),
         Running' => Running, pc' # "key", pc' # "keysave",
         acked' = acked \/ (c \in Handlers /\ result = "ok" /\ acked' = acked \cup {c}),
         published' = published \/ (result = "ok" /\ pc = "keysave" /\ c = Main
                                     /\ published' = published \cup {mem.key})
  PROVE  StoreInv'
  <1>1. Stored' = Stored /\ UNCHANGED <<mem, holder, step, before>> /\ outcome[c] = result
    BY DEF Returned, Stored
  <1>2. \A d \in Callers : outcome'[d] = IF d = c THEN "none" ELSE outcome[d]
    BY DEF Returned, TypeInv, TypeOK, FileTypeOK
  <1>3. Ahead' /\ ChangeInv'
    BY <1>1 DEF StoreInv, Ahead, ChangeInv, Saving
  <1>4. AckInv'
    BY <1>1, <1>2, ProcessAssumption DEF StoreInv, AckInv, AckedIsDurable
  <1>5. KeyInv'
    BY <1>1 DEF StoreInv, KeyInv
  <1> QED
    BY <1>3, <1>4, <1>5 DEF StoreInv

(* Every step keeps what memory, file and promises have to do with each    *)
(* other.                                                                  *)
LEMMA StoreStep ==
  ASSUME TypeInv, StoreInv, [Next]_vars
  PROVE  StoreInv'
  <1>1. CASE Saves
    BY <1>1, StoreSaves
  <1>2. CASE KeyNotSaved \/ ShutdownDone \/ ShutdownTimesOut \/ Killed
    BY <1>2, StoreExits DEF KeyNotSaved, ShutdownDone, ShutdownTimesOut, Killed
  <1>3. CASE \/ Start \/ StartRefused \/ CallSucceeds \/ CallFails \/ PassReturns
             \/ TakeTick \/ TakeSignal \/ Sigterm \/ Ticks \/ ChangesMode \/ UNCHANGED vars
             \/ (\E p \in Posts : CallBegins(p))
             \/ (\E h \in Handlers : Arrives(h) \/ Refuses(h))
    <2>1. UNCHANGED <<mem, holder, step, before, outcome, acked, published>>
      BY <1>3
      DEF Start, StartRefused, CallSucceeds, CallFails, PassReturns, AfterPass, TakeTick,
          TakeSignal, Sigterm, Ticks, ChangesMode, Chmod, CallBegins, Arrives, Refuses,
          Goes, mainVars, fileVars, vars
    <2>2. pc' \in {pc, "load", "call", "record", "pass", "shutdown", "select"} /\ (Running' => Running)
      BY <1>3
      DEF Start, StartRefused, CallSucceeds, CallFails, PassReturns, AfterPass, TakeTick,
          TakeSignal, Sigterm, Ticks, ChangesMode, CallBegins, Arrives, Refuses,
          Goes, mainVars, vars, Running
    <2>3. Stored' = Stored
      BY StoredKept, <1>3, <2>1 DEF Rename, Return, TypeInv, TypeOK, FileTypeOK
    <2>4. CASE pc' # "key"
      BY <2>1, <2>2, <2>3, <2>4, StoreIdle
    <2>5. CASE pc' = "key" /\ pc = "key"
      BY <2>1, <2>3, <2>5
      DEF StoreInv, Ahead, AckInv, AckedIsDurable, KeyInv, ChangeInv, Saving, Running
    <2> QED
      BY <2>2, <2>4, <2>5
  <1>4. CASE LoadState
    <2>1. CASE ~Loadable
      BY <1>4, <2>1, StoreExits DEF LoadState
    <2>2. CASE Loadable
      <3>1. /\ mem' = Stored /\ UNCHANGED <<path, holder, step, outcome, acked, published>>
            /\ pc' = "key"
        BY <1>4, <2>2 DEF LoadState, Load, Goes
      <3>2. holder = Nobody /\ step = "none"
        BY <1>4, QuietStart DEF LoadState
      <3>3. Stored' = Stored
        BY <3>1 DEF Stored
      <3>4. \A h \in Handlers : holder' # h
        BY <3>1, <3>2, StateFileAssumption, ProcessAssumption
      <3> QED
        BY <3>1, <3>2, <3>3, <3>4
        DEF StoreInv, Ahead, AckInv, AckedIsDurable, KeyInv, ChangeInv, Saving
    <2> QED
      BY <2>1, <2>2
  <1>5. CASE HasKey
    <2>1. /\ published' = published \cup {mem.key} /\ pc = "key" /\ pc' = "boot"
          /\ UNCHANGED <<mem, path, holder, step, before, outcome, acked>>
      BY <1>5 DEF HasKey, Serve, Goes, fileVars
    <2>2. Stored' = Stored
      BY <2>1 DEF Stored
    <2> QED
      BY <2>1, <2>2
      DEF StoreInv, Ahead, AckInv, AckedIsDurable, KeyInv, ChangeInv, Saving, Running
  <1>6. CASE MakesKey
    <2>1. PICK k \in KeyPairs : Lock(Main, [mem EXCEPT !.key = k])
      BY <1>6 DEF MakesKey
    <2>2. /\ mem' = [mem EXCEPT !.key = k] /\ before' = mem /\ holder' = Main
          /\ UNCHANGED <<path, outcome, acked, published>> /\ pc' = "keysave"
          /\ mem.key = NoKey /\ pc = "key"
      BY <1>6, <2>1 DEF MakesKey, Lock, Goes
    <2>3. mem'.records = mem.records /\ Stored' = Stored
      BY <2>2 DEF TypeInv, TypeOK, FileTypeOK, Structs, Stored
    <2>4. Stored.key = NoKey
      BY <2>2 DEF StoreInv, Ahead, Running
    <2>5. \A h \in Handlers : holder' # h
      BY <2>2, ProcessAssumption
    <2>6. outcome'[Main] = "none"
      BY <2>2 DEF TypeInv, Waits
    <2> QED
      BY <2>2, <2>3, <2>4, <2>5, <2>6
      DEF StoreInv, Ahead, AckInv, AckedIsDurable, KeyInv, ChangeInv, Running
  <1>7. CASE KeySaved
    BY <1>7, StoreReturned, ProcessAssumption DEF KeySaved, Serve, Goes, Running
  <1>8. CASE Loop
    <2>1. CASE Exits("panic")
      BY <2>1, StoreExits
    <2>2. CASE pc = "boot" /\ Goes("pass") /\ UNCHANGED <<fileVars, loopVars, published>>
      BY <2>2, StoreIdle DEF Goes, fileVars, Running, Stored
    <2> QED
      BY <1>8, <2>1, <2>2 DEF Loop
  <1>9. CASE Record
    BY <1>9, StoreAdds, ProcessAssumption DEF Record, Goes, TypeInv, Busy, Running
  <1>10. CASE Recorded \/ NotRecorded
    BY <1>10, StoreReturned, ProcessAssumption DEF Recorded, NotRecorded, AfterPass, Goes, Running
  <1>11. ASSUME NEW h \in Handlers, Binds(h)
         PROVE  StoreInv'
    <2>1. pc' = pc /\ UNCHANGED <<acked, published>> /\ pc \notin {"down", "load", "key", "keysave"}
      BY <1>11 DEF Binds, mainVars, TypeInv, Waits, AllIdle
    <2> QED
      BY <1>11, <2>1, StoreAdds, ProcessAssumption DEF Binds, Running
  <1>12. ASSUME NEW h \in Handlers, Answers(h)
         PROVE  StoreInv'
    <2>1. /\ pc' = pc /\ UNCHANGED published /\ req[h] = "saving"
          /\ pc \notin {"down", "load", "key", "keysave"}
      BY <1>12 DEF Answers, mainVars, TypeInv, Waits, AllIdle
    <2>2. PICK result \in {"ok", "failed"} :
             /\ Returned(h, result)
             /\ acked' = IF result = "ok" THEN acked \cup {h} ELSE acked
      BY <1>12 DEF Answers
    <2> QED
      BY <2>1, <2>2, StoreReturned, ProcessAssumption DEF Running
  <1> QED
    BY <1>1, <1>2, <1>3, <1>4, <1>5, <1>6, <1>7, <1>8, <1>9, <1>10, <1>11, <1>12
    DEF Next, MainStep

LEMMA StoreInvariant == Spec => []StoreInv
  <1>1. Init => StoreInv
    BY StateFileAssumption, ProcessAssumption
    DEF Init, FileInit, StoreInv, Ahead, AckInv, AckedIsDurable, KeyInv, ChangeInv, Running, Saving
  <1> QED
    BY <1>1, TypeInvariant, StoreStep, PTL DEF Spec

(* An answer of success is a promise: crashes, kills, failed saves of      *)
(* other setters and shutdowns later, the file still holds what was asked  *)
(* for.                                                                    *)
THEOREM PromisesKept == Spec => []AckedIsDurable
  <1>1. StoreInv => AckedIsDurable
    BY DEF StoreInv, AckInv
  <1> QED
    BY <1>1, StoreInvariant, PTL

(* ensureActor: however often the bridge crashes or fails to save, it      *)
(* never serves two keys.                                                  *)
THEOREM OneIdentity == Spec => []IdentityStable
  <1>1. StoreInv => IdentityStable
    BY DEF StoreInv, KeyInv, IdentityStable
  <1> QED
    BY <1>1, StoreInvariant, PTL

-----------------------------------------------------------------------------
(* One step. *)

(* The struct as the abstract store sees it.                               *)
Shown == CASE pc \in {"down", "load"} -> Stored
           [] step # "none"           -> before
           [] OTHER                   -> mem

ShownAs == /\ pc \in {"down", "load"} => Shown = Stored
           /\ Running /\ step # "none" => Shown = before
           /\ Running /\ step = "none" => Shown = mem

(* Every step of the process is a step of the store, or none.              *)
LEMMA AtomicStep ==
  ASSUME TypeInv, TypeInv', StoreInv, [Next]_vars
  PROVE  [Atomic!Next]_(Atomic!storeVars)
  <1> SUFFICES \/ Shown' = Stored /\ Stored' = Stored
               \/ Shown' = Shown /\ Stored' = Stored
               \/ /\ Shown' = mem /\ Stored' \in {Stored, mem} /\ Shown = before
                  /\ Saving
    <2>1. CASE Shown' = Stored /\ Stored' = Stored
      BY <2>1 DEF Atomic!Next, Atomic!Restart, Shown
    <2>2. CASE Shown' = Shown /\ Stored' = Stored
      BY <2>2 DEF Atomic!storeVars, Shown
    <2>3. CASE Shown' = mem /\ Stored' \in {Stored, mem} /\ Shown = before /\ Saving
      <3>1. PICK ok \in BOOLEAN : Stored' = IF ok THEN mem ELSE Stored
        BY <2>3
      <3>2. CASE \E r \in Records : mem = [before EXCEPT !.records = @ \cup {r}]
        BY <2>3, <3>1, <3>2 DEF Atomic!Next, Atomic!AddRecord, Atomic!Save, Shown
      <3>3. CASE \E k \in KeyPairs : mem = [before EXCEPT !.key = k]
        BY <2>3, <3>1, <3>3 DEF Atomic!Next, Atomic!SetKeyPair, Atomic!Save, Shown
      <3> QED
        BY <2>3, <3>2, <3>3 DEF StoreInv, ChangeInv
    <2> QED
      BY <2>1, <2>2, <2>3
  <1>1. ShownAs /\ ShownAs'
    BY DEF ShownAs, Shown, Running, Saving, TypeInv, Busy
  <1>2. ASSUME NEW how, Exits(how)
        PROVE  Shown' = Stored /\ Stored' = Stored
    BY <1>1, <1>2 DEF Exits, Gone, Stored, ShownAs
  <1>3. ASSUME NEW c, NEW st, Lock(c, st), Running, Running'
        PROVE  Shown' = Shown /\ Stored' = Stored
    BY <1>1, <1>3 DEF Lock, Stored, ShownAs, TypeInv, TypeOK, FileTypeOK
  <1>4. ASSUME UNCHANGED <<mem, step, before>>, Stored' = Stored, Running' = Running
        PROVE  Shown' = Shown /\ Stored' = Stored
    BY <1>1, <1>4 DEF ShownAs, Running, TypeInv, TypeOK
  <1>5. CASE Saves
    <2>1. pc' = pc /\ Saving /\ Running /\ Shown = before
      BY <1>1, <1>5
      DEF Saves, mainVars, SaveStep, CreateTemp, WriteTemp, CloseTemp, ChmodTemp, Rename, SaveFails,
          Proceed, Return, TypeInv, Busy, Saving, ShownAs
    <2>2. CASE CreateTemp \/ WriteTemp \/ CloseTemp \/ ChmodTemp
      BY <1>1, <2>1, <2>2
      DEF CreateTemp, WriteTemp, CloseTemp, ChmodTemp, Proceed, Stored, ShownAs, Running
    <2>3. CASE Rename \/ SaveFails
      <3>1. mem' = mem /\ step' = "none"
        BY <2>3 DEF Rename, SaveFails, Return
      <3>2. Shown' = mem
        BY <1>1, <2>1, <3>1 DEF ShownAs, Running
      <3> QED
        BY <2>1, <3>2, StoredKept
    <2> QED
      BY <1>5, <2>2, <2>3 DEF Saves, SaveStep
  <1>6. CASE KeyNotSaved \/ ShutdownDone \/ ShutdownTimesOut \/ Killed
    BY <1>2, <1>6 DEF KeyNotSaved, ShutdownDone, ShutdownTimesOut, Killed
  <1>7. CASE LoadState
    <2>1. CASE Loadable
      <3>1. mem' = Stored /\ step' = "none" /\ pc' = "key" /\ Stored' = Stored
        BY <1>7, <2>1, QuietStart DEF LoadState, Load, Goes, Stored
      <3> QED
        BY <1>1, <3>1 DEF ShownAs, Running
    <2> QED
      BY <1>2, <1>7, <2>1 DEF LoadState
  <1>8. CASE MakesKey \/ Record \/ \E h \in Handlers : Binds(h)
    BY <1>3, <1>8 DEF MakesKey, Record, Binds, mainVars, Goes, Running, TypeInv, Waits, AllIdle
  <1>9. CASE \/ Start \/ StartRefused \/ HasKey \/ KeySaved \/ CallSucceeds \/ CallFails
             \/ Recorded \/ NotRecorded \/ PassReturns \/ TakeTick \/ TakeSignal
             \/ Sigterm \/ Ticks \/ ChangesMode \/ UNCHANGED vars
             \/ (\E p \in Posts : CallBegins(p))
             \/ (\E h \in Handlers : Arrives(h) \/ Refuses(h) \/ Answers(h))
    <2>1. UNCHANGED <<mem, step, before>>
      BY <1>9
      DEF Start, StartRefused, HasKey, KeySaved, CallSucceeds, CallFails, Recorded, NotRecorded,
          PassReturns, TakeTick, TakeSignal, Sigterm, Ticks, ChangesMode, Chmod, CallBegins,
          Arrives, Refuses, Answers, Returned, fileVars, vars
    <2>2. Running' = Running
      BY <1>9
      DEF Start, StartRefused, HasKey, KeySaved, Serve, CallSucceeds, CallFails, Recorded,
          NotRecorded, PassReturns, AfterPass, TakeTick, TakeSignal, Sigterm, Ticks, ChangesMode,
          CallBegins, Arrives, Refuses, Answers, Goes, mainVars, vars, Running
    <2>3. Stored' = Stored
      <3>1. CASE Rename
        BY <2>1, <3>1, QuietStart DEF Rename, Return
      <3> QED
        BY <3>1, StoredKept
    <2> QED
      BY <1>4, <2>1, <2>2, <2>3
  <1>10. CASE Loop
    BY <1>2, <1>4, <1>10 DEF Loop, Goes, fileVars, Running, Stored
  <1> QED
    BY <1>5, <1>6, <1>7, <1>8, <1>9, <1>10 DEF Next, MainStep

(* Setters, passes and handlers between them implement the store that      *)
(* Store takes for granted: one step in memory and file together.          *)
THEOREM SavesAreAtomic == Spec => AtomicSave
  <1>1. Init => Atomic!Init
    BY DEF Init, FileInit, Atomic!Init, Stored
  <1> QED
    BY <1>1, TypeInvariant, StoreInvariant, AtomicStep, PTL DEF Spec, AtomicSave, Atomic!Spec

-----------------------------------------------------------------------------
(* Shutdown. *)

(* What was sent is recorded, unless the call returned just now.           *)
LEMMA ExitStep ==
  ASSUME TypeInv, ExitInv, [Next]_vars
  PROVE  ExitInv'
  <1>1. ASSUME NEW how, Exits(how)
        PROVE  ExitInv'
    BY <1>1 DEF Exits, ExitInv
  <1>2. CASE Start \/ StartRefused
    BY <1>2 DEF Start, StartRefused, loopVars, fileVars, ExitInv
  <1>3. CASE LoadState
    BY <1>1, <1>3 DEF LoadState, Goes, loopVars, ExitInv
  <1>4. CASE KeyNotSaved \/ ShutdownDone \/ ShutdownTimesOut \/ Killed
    BY <1>1, <1>4 DEF KeyNotSaved, ShutdownDone, ShutdownTimesOut, Killed
  <1>5. ASSUME UNCHANGED <<sent, exit>>, mem.records \subseteq mem'.records,
               pc # "down", pc' # "down",
               pc' = "load" => pc = "load", pc = "load" => pc' = "load",
               pc = "record" => post \in mem'.records \/ (pc' = "record" /\ post' = post)
        PROVE  ExitInv'
    BY <1>5 DEF ExitInv
  <1>6. CASE HasKey \/ KeySaved \/ TakeTick \/ TakeSignal
    BY <1>5, <1>6
    DEF HasKey, KeySaved, Serve, TakeTick, TakeSignal, Returned, Goes, loopVars, fileVars, ExitInv
  <1>7. CASE Loop
    BY <1>1, <1>5, <1>7 DEF Loop, Goes, loopVars, fileVars, ExitInv
  <1>8. CASE CallFails \/ Recorded \/ NotRecorded \/ PassReturns \/ \E p \in Posts : CallBegins(p)
    BY <1>5, <1>8
    DEF CallFails, Recorded, NotRecorded, PassReturns, AfterPass, CallBegins, Returned, Goes, fileVars
  <1>9. CASE CallSucceeds
    BY <1>9 DEF CallSucceeds, Goes, fileVars, ExitInv
  <1>10. CASE MakesKey
    BY <1>5, <1>10 DEF MakesKey, Lock, Goes, loopVars, TypeInv, TypeOK, FileTypeOK, Structs
  <1>11. CASE Record
    <2>1. mem'.records = mem.records \cup {post}
      BY <1>11 DEF Record, Lock, TypeInv, TypeOK, FileTypeOK, Structs
    <2> QED
      BY <1>5, <1>11, <2>1 DEF Record, Goes, loopVars
  <1>12. CASE \/ Saves \/ Sigterm \/ Ticks
              \/ \E h \in Handlers : Arrives(h) \/ Refuses(h) \/ Binds(h) \/ Answers(h)
    <2>1. UNCHANGED <<sent, exit, pc, post>>
      BY <1>12 DEF Saves, Sigterm, Ticks, Arrives, Refuses, Binds, Answers, mainVars, loopVars
    <2>2. mem.records \subseteq mem'.records
      <3>1. CASE \E h \in Handlers : Binds(h)
        BY <3>1 DEF Binds, Lock, TypeInv, TypeOK, FileTypeOK, Structs
      <3>2. CASE Saves
        BY <3>2
        DEF Saves, SaveStep, CreateTemp, WriteTemp, CloseTemp, ChmodTemp, Rename, SaveFails,
            Proceed, Return
      <3> QED
        BY <1>12, <3>1, <3>2 DEF Sigterm, Ticks, Arrives, Refuses, Answers, Returned, fileVars
    <2>3. pc # "down"
      <3>1. CASE pc = "down"
        BY <1>12, <3>1, QuietStart
        DEF Saves, SaveStep, CreateTemp, WriteTemp, CloseTemp, ChmodTemp, Rename, SaveFails,
            Sigterm, Ticks, CatchesSignals, Arrives, Serving, Refuses, Binds, Answers,
            TypeInv, Waits, AllIdle
      <3> QED
        BY <3>1
    <2> QED
      BY <1>5, <2>1, <2>2, <2>3
  <1>13. CASE ChangesMode \/ UNCHANGED vars
    BY <1>13 DEF ChangesMode, Chmod, mainVars, loopVars, fileVars, vars, ExitInv
  <1> QED
    BY <1>2, <1>3, <1>4, <1>6, <1>7, <1>8, <1>9, <1>10, <1>11, <1>12, <1>13 DEF Next, MainStep

(* main leaves the loop between passes only: when the process ends cleanly *)
(* all it sent is in its struct, and no save is under way.                 *)
THEOREM ExitIsClean == Spec => CleanExit
  <1>1. Init => ExitInv
    BY DEF Init, FileInit, ExitInv
  <1>2. ASSUME TypeInv, ExitInv, [Next]_vars, pc = "shutdown", exit' = "clean"
        PROVE  sent \subseteq mem.records /\ step = "none"
    <2>1. sent \subseteq mem.records /\ exit = "none"
      BY <1>2 DEF ExitInv
    <2>2. ShutdownDone
      BY <1>2, <2>1
      DEF Next, Start, StartRefused, MainStep, LoadState, HasKey, MakesKey, KeySaved, KeyNotSaved,
          Loop, CallBegins, CallSucceeds, CallFails, Record, Recorded, NotRecorded, PassReturns,
          TakeTick, TakeSignal, ShutdownTimesOut, Saves, Arrives, Refuses, Binds, Answers,
          Sigterm, Killed, Ticks, ChangesMode, Exits, mainVars, vars
    <2>3. holder = Nobody
      BY <1>2, <2>2, ProcessAssumption DEF ShutdownDone, AllIdle, TypeInv, TypeOK, FileTypeOK
    <2> QED
      BY <1>2, <2>1, <2>3 DEF TypeInv, TypeOK, FileTypeOK
  <1>3. TypeInv /\ ExitInv /\ [Next]_vars =>
          [pc = "shutdown" /\ exit' = "clean" => sent \subseteq mem.records /\ step = "none"]_vars
    BY <1>2
  <1> QED
    BY <1>1, <1>3, TypeInvariant, ExitStep, PTL DEF Spec, CleanExit

-----------------------------------------------------------------------------
(* Waiting for the mutex. *)

(* Nobody waits in vain: whose setter has not returned yet holds the mutex,*)
(* and while somebody does there is a step of the save to take.            *)
SavesAreAnswered ==
  /\ pc \in {"keysave", "recordsave"} => holder = Main \/ outcome[Main] # "none"
  /\ \A h \in Handlers : req[h] = "saving" => holder = h \/ outcome[h] # "none"
  /\ holder # Nobody => step # "none"

(* The same, of the caller that waits.                                     *)
Waiting(c) == IF c = Main THEN pc \in {"keysave", "recordsave"} ELSE req[c] = "saving"

AnswerInv == \A c \in Callers : Waiting(c) => holder = c \/ outcome[c] # "none"

(* Every step leaves the one who waits something to wait for.              *)
LEMMA AnswerStep ==
  ASSUME TypeInv, AnswerInv, [Next]_vars
  PROVE  AnswerInv'
  <1>0. /\ outcome \in [Callers -> {"none", "ok", "failed"}]
        /\ holder \in Callers \cup {Nobody} /\ Nobody \notin Callers
        /\ req \in [Handlers -> {"idle", "asked", "saving"}]
        /\ Callers = Handlers \cup {Main} /\ Main \notin Handlers
    BY ProcessAssumption, StateFileAssumption DEF TypeInv, TypeOK, FileTypeOK
  <1>. USE DEF Goes, loopVars, mainVars, fileVars
  <1>1. ASSUME UNCHANGED <<holder, outcome>>, \A c \in Callers : Waiting(c)' => Waiting(c)
        PROVE  AnswerInv'
    BY <1>1 DEF AnswerInv
  <1>2. ASSUME NEW how, Exits(how)
        PROVE  AnswerInv'
    <2>1. pc' = "down" /\ \A h \in Handlers : req'[h] = "idle"
      BY <1>2 DEF Exits, AllIdle
    <2>. QED
      BY <1>0, <2>1 DEF AnswerInv, Waiting
  <1>3. ASSUME NEW c \in Callers, NEW st, Lock(c, st),
               \A d \in Callers \ {c} : Waiting(d)' => Waiting(d)
        PROVE  AnswerInv'
    BY <1>0, <1>3 DEF Lock, AnswerInv
  <1>4. ASSUME NEW c \in Callers, NEW result, Returned(c, result), ~Waiting(c)',
               \A d \in Callers \ {c} : Waiting(d)' => Waiting(d)
        PROVE  AnswerInv'
    BY <1>0, <1>4 DEF Returned, AnswerInv
  <1>5. CASE LoadState \/ KeyNotSaved \/ Loop \/ ShutdownDone \/ ShutdownTimesOut \/ Killed
    <2>1. CASE \E how : Exits(how)
      BY <1>2, <2>1
    <2>2. CASE UNCHANGED <<holder, outcome, req>> /\ pc' \in {"key", "pass"}
      BY <1>0, <1>1, <2>2 DEF Waiting
    <2>. QED
      BY <1>5, <2>1, <2>2
      DEF LoadState, Load, KeyNotSaved, Loop, ShutdownDone, ShutdownTimesOut, Killed
  <1>6. CASE \/ Start \/ StartRefused \/ HasKey \/ CallSucceeds \/ CallFails \/ PassReturns
             \/ TakeTick \/ TakeSignal \/ Sigterm \/ Ticks \/ ChangesMode
             \/ (\E p \in Posts : CallBegins(p)) \/ UNCHANGED vars
    <2>1. UNCHANGED <<holder, outcome, req>>
      BY <1>6
      DEF Start, StartRefused, HasKey, Serve, CallSucceeds, CallFails, PassReturns, AfterPass,
          TakeTick, TakeSignal, Sigterm, Ticks, ChangesMode, Chmod, CallBegins, vars
    <2>2. pc' = pc \/ pc' \notin {"keysave", "recordsave"}
      BY <1>6
      DEF Start, StartRefused, HasKey, Serve, CallSucceeds, CallFails, PassReturns, AfterPass,
          TakeTick, TakeSignal, Sigterm, Ticks, ChangesMode, Chmod, CallBegins, vars
    <2>. QED
      BY <1>0, <1>1, <2>1, <2>2 DEF Waiting
  <1>7. CASE MakesKey \/ Record
    <2>1. req' = req /\ \E st : Lock(Main, st)
      BY <1>7 DEF MakesKey, Record
    <2>. QED
      BY <1>0, <1>3, <2>1 DEF Waiting
  <1>8. CASE KeySaved \/ Recorded \/ NotRecorded
    <2>1. /\ req' = req /\ \E result : Returned(Main, result)
          /\ pc' \notin {"keysave", "recordsave"}
      BY <1>8 DEF KeySaved, Serve, Recorded, NotRecorded, AfterPass
    <2>. QED
      BY <1>0, <1>4, <2>1 DEF Waiting
  <1>9. ASSUME NEW h \in Handlers, Arrives(h) \/ Refuses(h)
        PROVE  AnswerInv'
    <2>1. /\ UNCHANGED <<holder, outcome, pc>>
          /\ \E to \in {"asked", "idle"} : req' = [req EXCEPT ![h] = to]
      BY <1>9 DEF Arrives, Refuses
    <2>. QED
      BY <1>0, <1>1, <2>1 DEF Waiting
  <1>10. ASSUME NEW h \in Handlers, Binds(h)
         PROVE  AnswerInv'
    <2>1. pc' = pc /\ req' = [req EXCEPT ![h] = "saving"] /\ \E st : Lock(h, st)
      BY <1>10 DEF Binds
    <2>. QED
      BY <1>0, <1>3, <2>1 DEF Waiting
  <1>11. ASSUME NEW h \in Handlers, Answers(h)
         PROVE  AnswerInv'
    <2>1. pc' = pc /\ req' = [req EXCEPT ![h] = "idle"] /\ \E result : Returned(h, result)
      BY <1>11 DEF Answers
    <2>. QED
      BY <1>0, <1>4, <2>1 DEF Waiting
  <1>12. CASE Saves
    <2>1. UNCHANGED <<pc, req>>
      BY <1>12 DEF Saves
    <2>2. CASE UNCHANGED <<holder, outcome>>
      BY <1>0, <1>1, <2>1, <2>2 DEF Waiting
    <2>3. ASSUME step # "none", NEW result \in {"ok", "failed"}, Return(result)
          PROVE  AnswerInv'
      <3>1. holder \in Callers
        BY <1>0, <2>3 DEF TypeInv, TypeOK, FileTypeOK
      <3>2. outcome'[holder] # "none" /\ \A c \in Callers \ {holder} : outcome'[c] = outcome[c]
        BY <1>0, <2>3, <3>1 DEF Return
      <3>. QED
        BY <1>0, <2>1, <3>1, <3>2 DEF AnswerInv, Waiting
    <2>. QED
      BY <1>12, <2>2, <2>3
      DEF Saves, SaveStep, CreateTemp, WriteTemp, CloseTemp, ChmodTemp, Proceed, Rename, SaveFails
  <1>. QED
    BY <1>5, <1>6, <1>7, <1>8, <1>9, <1>10, <1>11, <1>12 DEF Next, MainStep

(* state.go, every setter: however many handlers compete with the pass and *)
(* whatever fails, the mutex is never kept by one that has returned, and   *)
(* never left locked without a save that goes on.                          *)
THEOREM NobodyWaitsInVain == Spec => []SavesAreAnswered
  <1>1. Init => AnswerInv
    BY ProcessAssumption DEF Init, AllIdle, AnswerInv, Waiting
  <1>2. TypeInv /\ AnswerInv => SavesAreAnswered
    BY ProcessAssumption
    DEF AnswerInv, Waiting, SavesAreAnswered, TypeInv, TypeOK, FileTypeOK
  <1>. QED
    BY TypeInvariant, AnswerStep, <1>1, <1>2, PTL DEF Spec

-----------------------------------------------------------------------------
(* Passes are finite. *)

InPass == pc \in {"pass", "call", "record", "recordsave"}

(* An upper bound on the steps of main in the pass: four for a call.       *)
StepsLeft == 4 * Cardinality(Posts \ tried)
             + (CASE pc = "call" -> 3 [] pc = "record" -> 2
                  [] pc = "recordsave" -> 1 [] OTHER -> 0)

(* Every step of the pass ends it or leaves fewer, whatever handlers, disk *)
(* and signals do in between.                                              *)
PassShrinks ==
  [][InPass => ~InPass' \/ UNCHANGED <<pc, post, tried>> \/ StepsLeft' < StepsLeft]_vars

(* A step within a pass.                                                   *)
LEMMA ShorterStep ==
  ASSUME IsFiniteSet(Posts), TypeInv, [Next]_vars, InPass, InPass',
         ~UNCHANGED <<pc, post, tried>>
  PROVE  StepsLeft' < StepsLeft
  <1>1. IsFiniteSet(Posts \ tried) /\ Cardinality(Posts \ tried) \in Nat
    <2>1. IsFiniteSet(Posts \ tried)
      BY FS_Subset
    <2>. QED
      BY <2>1, FS_CardinalityType
  <1>. USE DEF Goes, loopVars, mainVars, fileVars
  <1>2. CASE \E p \in Posts : CallBegins(p)
    <2>1. PICK p \in Posts : CallBegins(p)
      BY <1>2
    <2>2. /\ pc = "pass" /\ pc' = "call"
          /\ p \in Posts \ tried /\ Posts \ tried' = (Posts \ tried) \ {p}
      BY <2>1 DEF CallBegins
    <2>3. Cardinality(Posts \ tried') = Cardinality(Posts \ tried) - 1
      BY <1>1, <2>2, FS_RemoveElement
    <2>. QED
      BY <1>1, <2>2, <2>3 DEF StepsLeft
  <1>3. CASE CallSucceeds \/ CallFails \/ Record \/ Recorded
    <2>1. /\ tried' = tried
          /\ \/ pc = "call" /\ pc' \in {"record", "pass"}
             \/ pc = "record" /\ pc' = "recordsave"
             \/ pc = "recordsave" /\ pc' = "pass"
      BY <1>3 DEF CallSucceeds, CallFails, Record, Recorded
    <2>. QED
      BY <1>1, <2>1 DEF StepsLeft
  <1>4. CASE \/ LoadState \/ HasKey \/ MakesKey \/ KeySaved \/ KeyNotSaved \/ Loop
             \/ TakeTick \/ TakeSignal \/ Start \/ StartRefused
    BY <1>4
    DEF InPass, LoadState, HasKey, MakesKey, KeySaved, KeyNotSaved, Loop, TakeTick, TakeSignal,
        Start, StartRefused
  <1>5. CASE NotRecorded \/ PassReturns \/ ShutdownDone \/ ShutdownTimesOut \/ Killed
    BY <1>5
    DEF InPass, NotRecorded, PassReturns, AfterPass, ShutdownDone, ShutdownTimesOut, Killed, Exits
  <1>6. CASE \/ Saves \/ Sigterm \/ Ticks \/ ChangesMode \/ UNCHANGED vars
             \/ \E h \in Handlers : Arrives(h) \/ Refuses(h) \/ Binds(h) \/ Answers(h)
    BY <1>6
    DEF Saves, Sigterm, Ticks, ChangesMode, vars, Arrives, Refuses, Binds, Answers
  <1>. QED
    BY <1>2, <1>3, <1>4, <1>5, <1>6 DEF Next, MainStep

(* main.go, the pass: with finitely many items to look at, the steps that  *)
(* are left are a number, and each main takes makes it smaller or is the   *)
(* pass's last: the safety half of PassesEnd.                              *)
THEOREM PassesAreBounded ==
  IsFiniteSet(Posts) => (Spec => [](StepsLeft \in Nat) /\ PassShrinks)
  <1>. SUFFICES ASSUME IsFiniteSet(Posts)
                PROVE  Spec => [](StepsLeft \in Nat) /\ PassShrinks
    OBVIOUS
  <1>1. IsFiniteSet(Posts \ tried)
    BY FS_Subset
  <1>2. Cardinality(Posts \ tried) \in Nat
    BY <1>1, FS_CardinalityType
  <1>3. StepsLeft \in Nat
    BY <1>2 DEF StepsLeft
  <1>4. TypeInv /\ [Next]_vars =>
          [InPass => ~InPass' \/ UNCHANGED <<pc, post, tried>> \/ StepsLeft' < StepsLeft]_vars
    BY ShorterStep
  <1>. QED
    BY TypeInvariant, <1>3, <1>4, PTL DEF Spec, PassShrinks
=============================================================================
