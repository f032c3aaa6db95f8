------------------------------ MODULE StateFile ------------------------------
(***************************************************************************)
(* How the State struct reaches its file, step by step: saveLocked and     *)
(* Load of src/internal/state/state.go.  A setter takes State.mu, changes  *)
(* the struct, writes it to a temporary file beside the state file and     *)
(* renames that over it; any step may fail, and the process may die before *)
(* any step.  Store takes all this as one step; AtomicStore says what that *)
(* assumption amounts to, and Process shows that it is justified.          *)
(*                                                                         *)
(* What the setters record is abstracted to a set, beside the actor's key. *)
(* Writes that reached the operating system survive: the process dies, the *)
(* machine does not.                                                       *)
(***************************************************************************)
EXTENDS Naturals, FiniteSets

CONSTANTS
  Callers,    \* the goroutines that call setters
  Records,    \* what setters other than SetKeyPair record
  KeyPairs,   \* the key pairs GenerateKeyPair may return
  DiskFails,  \* whether a step of a save may fail
  NoKey, NoFile, Nobody

VARIABLES
  mem,      \* the State struct of the running process
  path,     \* the state file
  tmp,      \* the temporary file of the save under way
  holder,   \* who holds State.mu
  step,     \* the next step of saveLocked
  outcome,  \* what the last setter of each caller returned
  before    \* history: the struct before the setter under way changed it

fileVars == <<mem, path, tmp, holder, step, outcome, before>>

Structs == [key : KeyPairs \cup {NoKey}, records : SUBSET Records]

NoStruct == [key |-> NoKey, records |-> {}]

(* A file holds a struct, completely written or not, for its owner only or *)
(* open to others.                                                         *)
Files == [struct : Structs, whole : BOOLEAN, mode : {"owner", "open"}]

ASSUME StateFileAssumption ==
  /\ DiskFails \in BOOLEAN
  /\ NoKey \notin KeyPairs
  /\ NoFile \notin Files
  /\ Nobody \notin Callers

Steps == {"none", "create", "write", "close", "chmod", "rename"}

FileInit == /\ path = NoFile
            /\ mem = NoStruct
            /\ tmp = NoFile
            /\ holder = Nobody
            /\ step = "none"
            /\ outcome = [c \in Callers |-> "none"]
            /\ before = NoStruct

-----------------------------------------------------------------------------
(* Setters. *)

(* A setter of caller c gets the mutex and makes the struct st.            *)
Lock(c, st) == /\ holder = Nobody
               /\ holder' = c
               /\ before' = mem
               /\ mem' = st
               /\ step' = "create"
               /\ UNCHANGED <<path, tmp, outcome>>

Proceed(next) == /\ step' = next
                 /\ UNCHANGED <<mem, path, holder, outcome, before>>

Partial == [struct |-> NoStruct, whole |-> FALSE, mode |-> "owner"]

(* Faulty variant: the state file itself is truncated and written.         *)
CreateInPlace == /\ step = "create"
                 /\ tmp' = Partial
                 /\ path' = Partial
                 /\ step' = "write"
                 /\ UNCHANGED <<mem, holder, outcome, before>>

CreateTemp == /\ step = "create"
              /\ tmp' = Partial
              /\ Proceed("write")

(* Faulty variant: the struct was marshalled before it was changed.        *)
WriteStale == /\ step = "write"
              /\ tmp' = [tmp EXCEPT !.struct = before, !.whole = TRUE]
              /\ Proceed("close")

WriteTemp == /\ step = "write"
             /\ tmp' = [tmp EXCEPT !.struct = mem, !.whole = TRUE]
             /\ Proceed("close")

CloseTemp == step = "close" /\ UNCHANGED tmp /\ Proceed("chmod")

ChmodTemp == /\ step = "chmod"
             /\ tmp' = [tmp EXCEPT !.mode = "owner"]
             /\ Proceed("rename")

(* The setter returns and the mutex is free.                               *)
Return(result) == /\ holder' = Nobody
                  /\ step' = "none"
                  /\ outcome' = [outcome EXCEPT ![holder] = result]
                  /\ before' = NoStruct
                  /\ UNCHANGED mem

Rename == /\ step = "rename"
          /\ path' = tmp
          /\ tmp' = NoFile
          /\ Return("ok")

(* Faulty variant: an early return leaves the mutex locked.                *)
FailsLocked == /\ DiskFails
               /\ step # "none"
               /\ tmp' = NoFile
               /\ step' = "none"
               /\ outcome' = [outcome EXCEPT ![holder] = "failed"]
               /\ before' = NoStruct
               /\ UNCHANGED <<mem, path, holder>>

(* Any step fails: the temporary file is removed, or after a failed rename *)
(* left behind for good.                                                   *)
SaveFails == /\ DiskFails
             /\ step # "none"
             /\ tmp' = NoFile
             /\ Return("failed")
             /\ UNCHANGED path

SaveStep == \/ CreateTemp \/ WriteTemp \/ CloseTemp \/ ChmodTemp \/ Rename
            \/ SaveFails

(* The caller takes notice of what its setter returned.                    *)
Returned(c, result) == /\ outcome[c] = result
                       /\ outcome' = [outcome EXCEPT ![c] = "none"]
                       /\ UNCHANGED <<mem, path, tmp, holder, step, before>>

-----------------------------------------------------------------------------
(* The process and its file. *)

(* What Load makes of the file; an absent file is an empty struct.         *)
Stored == IF path = NoFile THEN NoStruct ELSE path.struct

(* Load refuses a file that is open to others or cannot be parsed.         *)
Loadable == path # NoFile => path.mode = "owner" /\ path.whole

Load == /\ mem' = Stored
        /\ UNCHANGED <<path, tmp, holder, step, outcome, before>>

(* The process is gone: memory and mutex with it, the file stays.          *)
Gone == /\ mem' = NoStruct
        /\ tmp' = NoFile
        /\ holder' = Nobody
        /\ step' = "none"
        /\ outcome' = [c \in Callers |-> "none"]
        /\ before' = NoStruct
        /\ UNCHANGED path

(* Someone changes the permissions of the file.                            *)
Chmod(mode) == /\ path # NoFile
               /\ path' = [path EXCEPT !.mode = mode]
               /\ UNCHANGED <<mem, tmp, holder, step, outcome, before>>

FileTypeOK == /\ mem \in Structs
              /\ path \in Files \cup {NoFile}
              /\ tmp \in Files \cup {NoFile}
              /\ holder \in Callers \cup {Nobody}
              /\ step \in Steps
              /\ holder = Nobody <=> step = "none"
              /\ outcome \in [Callers -> {"none", "ok", "failed"}]
              /\ before \in Structs
=============================================================================
