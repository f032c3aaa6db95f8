------------------------------- MODULE Mirror -------------------------------
(***************************************************************************)
(* What one sync direction of the bridge promises.  An item (a Discourse   *)
(* post for one series, or a repository comment) is copied to the other    *)
(* side zero or more times, and the bridge keeps a set of the items it is  *)
(* done with (the dedup sets of src/internal/state/state.go):              *)
(*   - an item the bridge is done with is not copied while it stays done;  *)
(*   - the bridge is done with an item only once it was copied, unless it  *)
(*     had a reason never to copy it (it is an echo).                      *)
(* Items may leave the set: a crash loses what was not saved, and entries  *)
(* older than the retention are pruned.  Forward and Reverse implement it. *)
(***************************************************************************)
EXTENDS Naturals

CONSTANTS Keys   \* the items of this direction

VARIABLES
  copies,  \* how often each item was accepted on the other side
  done,    \* the items the bridge would skip
  exempt   \* the items the bridge has decided never to copy

mirrorVars == <<copies, done, exempt>>

Init == /\ copies = [k \in Keys |-> 0]
        /\ done = {}
        /\ exempt = {}

(* The other side accepts one more copy of an item that is not done. *)
Copy(k) == /\ k \notin done
           /\ copies' = [copies EXCEPT ![k] = @ + 1]
           /\ UNCHANGED <<done, exempt>>

(* The bookkeeping changes: items that were copied, or that are exempt,    *)
(* become done, and items are forgotten.                                   *)
Account == /\ exempt \subseteq exempt'
           /\ exempt' \subseteq Keys
           /\ \A k \in done' \ done : copies[k] > 0 \/ k \in exempt'
           /\ UNCHANGED copies

Next == Account \/ \E k \in Keys : Copy(k)

Spec == Init /\ [][Next]_mirrorVars

-----------------------------------------------------------------------------
(* What an observer of the two sides can rely on: an item is skipped only  *)
(* if it reached the other side or was an echo.                            *)
DoneIsAccounted == \A k \in done : copies[k] > 0 \/ k \in exempt
=============================================================================
