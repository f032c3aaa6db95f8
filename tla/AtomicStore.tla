---------------------------- MODULE AtomicStore ----------------------------
(***************************************************************************)
(* What Store, and with it Forward, Reverse and Mapping, assume of the     *)
(* state file (src/internal/state/state.go): a setter is one step, which   *)
(* changes the struct in memory and either puts that very struct into the  *)
(* file or leaves the file alone; a restart takes up what the file holds.  *)
(* A setter adds to the struct here, as the dedup sets and the key do.     *)
(***************************************************************************)
EXTENDS Naturals

CONSTANTS Records, KeyPairs, NoStruct

VARIABLES
  mem,   \* the struct the goroutines see
  disk   \* the struct Load would read

storeVars == <<mem, disk>>

Init == mem = NoStruct /\ disk = NoStruct

(* A setter made the struct st; ok says whether the file was replaced.     *)
Save(st, ok) == mem' = st /\ disk' = IF ok THEN st ELSE disk

AddRecord(r, ok) == Save([mem EXCEPT !.records = @ \cup {r}], ok)

SetKeyPair(k, ok) == Save([mem EXCEPT !.key = k], ok)

Restart == mem' = disk /\ UNCHANGED disk

Next == \/ \E ok \in BOOLEAN : \/ \E r \in Records : AddRecord(r, ok)
                               \/ \E k \in KeyPairs : SetKeyPair(k, ok)
        \/ Restart

Spec == Init /\ [][Next]_storeVars
=============================================================================
