--------------------------- MODULE ReverseProofs ---------------------------
(***************************************************************************)
(* What TLAPS proves about the reverse direction, for every set of series, *)
(* topics, notes and links, every outbox size and number of faults.        *)
(***************************************************************************)
EXTENDS Reverse, StoreProofs, FiniteSetTheorems

-----------------------------------------------------------------------------
(* The type invariant is not inductive by itself: that the note in hand is *)
(* one of the outbox, and the topic a topic, depends on where the pass is. *)

InHand == pc \in {"post", "see"}

Located == /\ InHand => note \in DOMAIN outbox
           /\ pc = "post" => target \in Topics

TypeInv == TypeOK /\ Located

(* The key of the note in hand in SeenNotes.                               *)
Current == KeyOf(note)

(* Every published note has a key.                                         *)
LEMMA KeyType ==
  ASSUME TypeInv, NEW c \in DOMAIN outbox
  PROVE  outbox[c] \in Notes /\ c \in CommentIds /\ KeyOf(c) \in Keys
  <1>1. c \in 1..Len(outbox) /\ Len(outbox) <= MaxNotes /\ Len(outbox) \in Nat
    BY DEF TypeInv, TypeOK
  <1>2. c \in CommentIds
    BY <1>1, ReverseAssumption
  <1>3. outbox[c] \in Notes
    BY <1>1 DEF TypeInv, TypeOK
  <1> QED
    BY <1>2, <1>3, ReverseAssumption DEF KeyOf, Keys

(* The initial state is well formed.                                       *)
LEMMA TypeInit == Init => TypeInv
  <1> SUFFICES ASSUME Init PROVE TypeInv
    OBVIOUS
  <1>1. StoreTypeOK
    BY NoStateType DEF Init, StoreInit, StoreTypeOK
  <1>2. outbox \in Seq(Notes) /\ Len(outbox) = 0
    BY DEF Init
  <1> QED
    BY <1>1, <1>2, ReverseAssumption DEF Init, TypeInv, TypeOK, Located, InHand, PCs

(* A pass that ends leaves the pass variables well formed.                 *)
LEMMA IdleType ==
  ASSUME Idle
  PROVE  /\ pc' \in PCs /\ todo' = {} /\ series' = Nothing
         /\ note' = Nothing /\ target' = Nothing
         /\ Located'
  BY DEF Idle, PCs, Located, InHand

(* Reaching a note leaves the loop's variables well formed.                *)
LEMMA ReachType ==
  ASSUME TypeInv, NEW c, Reach(c)
  PROVE  c \in DOMAIN outbox /\ todo' \subseteq DOMAIN outbox /\ series' \in Series
  <1>1. c \in DOMAIN outbox /\ todo' \subseteq DOMAIN outbox
    BY DEF Reach, TypeInv, TypeOK
  <1> QED
    BY <1>1, KeyType, ReverseAssumption DEF Reach

(* A post more on Discourse keeps the history well formed.                 *)
LEMMA CreateType ==
  ASSUME TypeInv, pc = "post", Create
  PROVE  copies' \in [Keys -> Nat] /\ late' \in [Topics -> Nat]
  <1>1. Current \in Keys /\ target \in Topics
    BY KeyType DEF TypeInv, Located, InHand, Current
  <1>2. copies' = [copies EXCEPT ![Current] = @ + 1]
    BY DEF Create, Current
  <1>3. copies \in [Keys -> Nat] /\ late \in [Topics -> Nat]
    BY DEF TypeInv, TypeOK
  <1>4. copies' \in [Keys -> Nat]
    BY <1>1, <1>2, <1>3
  <1>5. late' \in [Topics -> Nat]
    BY <1>1, <1>3 DEF Create
  <1> QED
    BY <1>4, <1>5

-----------------------------------------------------------------------------
(* The saves of this direction and of the ones it runs beside.             *)

(* The saves that mark no note.                                            *)
OtherSave == ForwardMarks \/ Link \/ Unbind

(* The struct a setter hands to saveLocked is well formed.                 *)
LEMMA SetterTypes ==
  ASSUME TypeInv
  PROVE  /\ IsState(mem) /\ now \in Nat
         /\ \A h \in Forwarded : IsState(MarkDelivered(mem, h))
         /\ \A l \in Links : /\ l[1] \in Series /\ l[2] \in Urls /\ l[3] \in Topics
                             /\ IsState(SetIssueTopic(mem, l[1], l[2], l[3]))
                             /\ IsState(DeleteTopicNote(mem, l[3]))
         /\ \A c \in DOMAIN outbox : IsState(MarkSeenNote(mem, outbox[c].series, c))
  <1>1. IsState(mem) /\ now \in Nat
    BY DEF TypeInv, TypeOK, StoreTypeOK
  <1>2. \A h \in Forwarded : IsState(MarkDelivered(mem, h))
    BY <1>1, SettersType, ReverseAssumption
  <1>3. ASSUME NEW l \in Links
        PROVE  /\ l[1] \in Series /\ l[2] \in Urls /\ l[3] \in Topics
               /\ IsState(SetIssueTopic(mem, l[1], l[2], l[3]))
               /\ IsState(DeleteTopicNote(mem, l[3]))
    <2>1. l[1] \in Series /\ l[2] \in Urls /\ l[3] \in Topics
      BY ReverseAssumption
    <2> QED
      BY <1>1, <2>1, SettersType
  <1>4. ASSUME NEW c \in DOMAIN outbox
        PROVE  IsState(MarkSeenNote(mem, outbox[c].series, c))
    <2>1. outbox[c].series \in Series /\ c \in CommentIds
      BY KeyType, ReverseAssumption
    <2> QED
      BY <1>1, <2>1, SettersType
  <1> QED
    BY <1>1, <1>2, <1>3, <1>4

(* Such a save keeps the store well formed, leaves the marks of comments   *)
(* alone before they can be old, and invents none.                         *)
LEMMA OtherSaveStep ==
  ASSUME TypeInv, OtherSave
  PROVE  /\ StoreTypeOK'
         /\ UNCHANGED <<now, outbox, copies, echoes, crashes, lost>>
         /\ Seen' \subseteq Seen
         /\ DOMAIN disk'.seenNotes \subseteq Seen \cup DOMAIN disk.seenNotes
         /\ now <= Retention => Seen' = Seen
         /\ UNCHANGED passVars \/ Idle
         /\ pc = "see" => pc' = "see"
  <1>1. PICK st : /\ IsState(st)
                  /\ st.seenNotes = mem.seenNotes
                  /\ \E ok \in BOOLEAN : Save(st, ok)
    <2>1. CASE ForwardMarks
      <3>1. PICK h \in Forwarded, ok \in BOOLEAN : Save(MarkDelivered(mem, h), ok)
        BY <2>1, StoreAssumption DEF ForwardMarks
      <3> DEFINE st == MarkDelivered(mem, h)
      <3>2. IsState(st) /\ st.seenNotes = mem.seenNotes
        BY SetterTypes, SettersSeen
      <3>3. Save(st, ok)
        BY <3>1
      <3> HIDE DEF st
      <3> QED
        BY <3>2, <3>3
    <2>2. CASE Link
      <3>1. PICK l \in Links, ok \in BOOLEAN :
              Save(SetIssueTopic(mem, l[1], l[2], l[3]), ok)
        BY <2>2, StoreAssumption DEF Link
      <3> DEFINE st == SetIssueTopic(mem, l[1], l[2], l[3])
      <3>2. IsState(st) /\ st.seenNotes = mem.seenNotes
        BY SetterTypes, SettersSeen
      <3>3. Save(st, ok)
        BY <3>1
      <3> HIDE DEF st
      <3> QED
        BY <3>2, <3>3
    <2>3. CASE Unbind
      <3>1. PICK l \in Links, ok \in BOOLEAN : Save(DeleteTopicNote(mem, l[3]), ok)
        BY <2>3, StoreAssumption DEF Unbind
      <3> DEFINE st == DeleteTopicNote(mem, l[3])
      <3>2. IsState(st) /\ st.seenNotes = mem.seenNotes
        BY SetterTypes, SettersSeen
      <3>3. Save(st, ok)
        BY <3>1
      <3> HIDE DEF st
      <3> QED
        BY <3>2, <3>3
    <2> QED
      BY <2>1, <2>2, <2>3 DEF OtherSave
  <1>2. StoreTypeOK
    BY DEF TypeInv, TypeOK
  <1>3. StoreTypeOK'
    BY <1>1, <1>2, SaveType
  <1>4. /\ Seen' \subseteq Seen
        /\ DOMAIN disk'.seenNotes \subseteq Seen \cup DOMAIN disk.seenNotes
        /\ now <= Retention => Seen' = Seen
    BY <1>1, <1>2, SaveSeen DEF Seen
  <1>5. UNCHANGED <<now, outbox, copies, echoes, crashes, lost>>
    BY <1>1 DEF OtherSave, ForwardMarks, Link, Unbind, Save, historyVars
  <1>6. /\ UNCHANGED passVars \/ Idle
        /\ pc = "see" => pc' = "see"
    BY DEF OtherSave, ForwardMarks, Link, Unbind, passVars
  <1> QED
    BY <1>3, <1>4, <1>5, <1>6

(* Marking the note in hand adds its mark, invents no other, and leaves    *)
(* the links alone.                                                        *)
LEMMA MarkSeenStep ==
  ASSUME TypeInv, MarkSeen
  PROVE  /\ StoreTypeOK'
         /\ UNCHANGED <<now, outbox, historyVars>>
         /\ Current \in Keys
         /\ Seen' \subseteq Seen \cup {Current}
         /\ DOMAIN disk'.seenNotes \subseteq Seen \cup {Current} \cup DOMAIN disk.seenNotes
         /\ now <= Retention => Seen' = Seen \cup {Current}
         /\ mem'.issueTopics = mem.issueTopics
         /\ disk'.issueTopics \in {mem.issueTopics, disk.issueTopics}
         /\ NextNote \/ Idle
  <1>1. PICK ok \in BOOLEAN : /\ Save(MarkSeenNote(mem, outbox[note].series, note), ok)
                              /\ NextNote \/ Idle
    BY StoreAssumption DEF MarkSeen
  <1>2. note \in DOMAIN outbox
    BY DEF MarkSeen, TypeInv, Located, InHand
  <1> DEFINE st == MarkSeenNote(mem, outbox[note].series, note)
  <1>3. IsState(st)
    BY <1>2, SetterTypes
  <1>4. /\ DOMAIN st.seenNotes = Seen \cup {Current}
        /\ st.issueTopics = mem.issueTopics
    BY SetterTypes, SettersSeen, SettersBindings DEF Seen, Current, KeyOf
  <1>5. Save(st, ok)
    BY <1>1
  <1> HIDE DEF st
  <1>6. StoreTypeOK
    BY DEF TypeInv, TypeOK
  <1>7. StoreTypeOK'
    BY <1>3, <1>5, <1>6, SaveType
  <1>8. /\ Seen' \subseteq Seen \cup {Current}
        /\ DOMAIN disk'.seenNotes \subseteq Seen \cup {Current} \cup DOMAIN disk.seenNotes
        /\ now <= Retention => Seen' = Seen \cup {Current}
    BY <1>3, <1>4, <1>5, <1>6, SaveSeen DEF Seen
  <1>9. /\ mem'.issueTopics = mem.issueTopics
        /\ disk'.issueTopics \in {mem.issueTopics, disk.issueTopics}
        /\ now' = now
    BY <1>3, <1>4, <1>5, SaveBindings
  <1>10. Current \in Keys
    BY <1>2, KeyType DEF Current
  <1> QED
    BY <1>1, <1>7, <1>8, <1>9, <1>10 DEF MarkSeen

(* Every step keeps the state well formed.                                 *)
LEMMA TypeStep ==
  ASSUME TypeInv, [Next]_vars
  PROVE  TypeInv'
  <1> USE DEF passVars, historyVars, storeVars
  <1>1. CASE Begin
    <2>1. StoreTypeOK' /\ todo' \subseteq DOMAIN outbox
      BY <1>1 DEF Begin, BeginWith, Shown, TypeInv, TypeOK, StoreTypeOK
    <2> QED
      BY <1>1, <2>1 DEF Begin, BeginWith, TypeInv, TypeOK, Located, InHand, PCs
  <1>2. CASE OtherSave
    <2>1. StoreTypeOK' /\ (UNCHANGED passVars \/ Idle)
      BY <1>2, OtherSaveStep
    <2>2. UNCHANGED <<outbox, copies, echoes, crashes, lost>>
      BY <1>2, OtherSaveStep
    <2>3. bound' \subseteq Topics /\ late' \in [Topics -> Nat]
      BY <1>2, SetterTypes DEF OtherSave, ForwardMarks, Link, Unbind, TypeInv, TypeOK
    <2>4. CASE UNCHANGED passVars
      BY <2>1, <2>2, <2>3, <2>4 DEF TypeInv, TypeOK, Located, InHand
    <2>5. CASE Idle
      BY <2>1, <2>2, <2>3, <2>5, IdleType DEF TypeInv, TypeOK
    <2> QED
      BY <2>1, <2>4, <2>5
  <1>3. CASE ForwardDone
    <2>1. StoreTypeOK'
      BY <1>3 DEF ForwardDone, TypeInv, TypeOK, StoreTypeOK
    <2> QED
      BY <1>3, <2>1 DEF ForwardDone, TypeInv, TypeOK, Located, InHand, PCs
  <1>4. CASE ForwardFails \/ EndPass
    <2>1. StoreTypeOK'
      BY <1>4 DEF ForwardFails, EndPass, TypeInv, TypeOK, StoreTypeOK
    <2> QED
      BY <1>4, <2>1, IdleType DEF ForwardFails, EndPass, TypeInv, TypeOK
  <1>5. ASSUME NEW c \in CommentIds, SkipNote(c) \/ DropEcho(c) \/ Choose(c)
        PROVE  TypeInv'
    <2>1. /\ c \in DOMAIN outbox /\ todo' \subseteq DOMAIN outbox /\ series' \in Series
          /\ KeyOf(c) \in Keys
          /\ pc = "scan"
      BY <1>5, ReachType, KeyType DEF SkipNote, DropEcho, Choose, Reach
    <2>2. StoreTypeOK'
      BY <1>5 DEF SkipNote, DropEcho, Choose, TypeInv, TypeOK, StoreTypeOK
    <2>3. CASE SkipNote(c)
      BY <2>1, <2>2, <2>3 DEF SkipNote, TypeInv, TypeOK, Located, InHand
    <2>4. CASE DropEcho(c)
      <3>1. echoes' \subseteq Keys
        BY <2>1, <2>4 DEF DropEcho, TypeInv, TypeOK
      <3> QED
        BY <2>1, <2>2, <2>4, <3>1 DEF DropEcho, TypeInv, TypeOK, Located, InHand, PCs
    <2>5. CASE Choose(c)
      <3>1. target' \in Topics
        <4>1. /\ HasLink(outbox[c]) /\ target' = LinkOf(outbox[c])
          BY <2>5 DEF Choose
        <4>2. IsMap(mem.issueTopics, Series \X Urls, Topics)
          BY DEF TypeInv, TypeOK, StoreTypeOK, IsState
        <4> QED
          BY <4>1, <4>2 DEF HasLink, LinkOf, IsMap
      <3> QED
        BY <2>1, <2>2, <2>5, <3>1 DEF Choose, TypeInv, TypeOK, Located, InHand, PCs
    <2> QED
      BY <1>5, <2>3, <2>4, <2>5
  <1>6. CASE PostAccepted \/ PostLost
    <2>1. copies' \in [Keys -> Nat] /\ late' \in [Topics -> Nat]
      BY <1>6, CreateType DEF PostAccepted, PostLost
    <2>2. StoreTypeOK' /\ note \in DOMAIN outbox
      BY <1>6 DEF PostAccepted, PostLost, TypeInv, TypeOK, StoreTypeOK, Located, InHand
    <2>3. lost' \in 0..MaxLost
      BY <1>6, ReverseAssumption DEF PostAccepted, PostLost, TypeInv, TypeOK
    <2>4. CASE PostAccepted
      BY <2>1, <2>2, <2>4 DEF PostAccepted, TypeInv, TypeOK, Located, InHand, PCs
    <2>5. CASE PostLost
      BY <2>1, <2>2, <2>3, <2>5
      DEF PostLost, NextNote, TypeInv, TypeOK, Located, InHand, PCs
    <2> QED
      BY <1>6, <2>4, <2>5
  <1>7. CASE PostRefused
    <2>1. StoreTypeOK'
      BY <1>7 DEF PostRefused, TypeInv, TypeOK, StoreTypeOK
    <2> QED
      BY <1>7, <2>1 DEF PostRefused, NextNote, TypeInv, TypeOK, Located, InHand, PCs
  <1>8. CASE MarkSeen
    <2>1. StoreTypeOK' /\ UNCHANGED <<outbox, historyVars>> /\ (NextNote \/ Idle)
      BY <1>8, MarkSeenStep
    <2>2. CASE NextNote
      BY <2>1, <2>2 DEF NextNote, TypeInv, TypeOK, Located, InHand, PCs
    <2>3. CASE Idle
      BY <2>1, <2>3, IdleType DEF TypeInv, TypeOK
    <2> QED
      BY <2>1, <2>2, <2>3
  <1>9. CASE Crash
    <2>1. StoreTypeOK'
      BY <1>9 DEF Crash, Load, TypeInv, TypeOK, StoreTypeOK
    <2>2. crashes' \in 0..MaxCrashes
      BY <1>9, ReverseAssumption DEF Crash, TypeInv, TypeOK
    <2> QED
      BY <1>9, <2>1, <2>2, IdleType DEF Crash, TypeInv, TypeOK
  <1>10. CASE Publish
    <2>1. outbox' \in Seq(Notes) /\ Len(outbox') <= MaxNotes
      BY <1>10, ReverseAssumption DEF Publish, TypeInv, TypeOK
    <2>2. DOMAIN outbox \subseteq DOMAIN outbox'
      BY <1>10 DEF Publish, TypeInv, TypeOK
    <2>3. StoreTypeOK'
      BY <1>10 DEF Publish, TypeInv, TypeOK, StoreTypeOK
    <2> QED
      BY <1>10, <2>1, <2>2, <2>3 DEF Publish, TypeInv, TypeOK, Located, InHand
  <1>11. CASE TimePasses
    <2>1. StoreTypeOK'
      BY <1>11 DEF TimePasses, Tick, TypeInv, TypeOK, StoreTypeOK, IsState
    <2> QED
      BY <1>11, <2>1 DEF TimePasses, TypeInv, TypeOK, Located, InHand
  <1>12. CASE UNCHANGED vars
    BY <1>12 DEF vars, TypeInv, TypeOK, StoreTypeOK, Located, InHand
  <1> QED
    BY <1>1, <1>2, <1>3, <1>4, <1>5, <1>6, <1>7, <1>8, <1>9, <1>10, <1>11, <1>12
    DEF Next, PassStep, Environment, OtherSave

(* Type correctness of the reverse direction: the loop of                  *)
(* reverseGraftToDiscourse only handles notes it was shown and posts into  *)
(* topics only, and the state store stays well formed throughout.          *)
THEOREM TypeCorrect == Spec => []TypeOK
  <1>1. TypeInv /\ [Next]_vars => TypeInv'
    BY TypeStep
  <1>2. TypeInv => TypeOK
    BY DEF TypeInv
  <1> QED
    BY TypeInit, <1>1, <1>2, PTL DEF Spec

-----------------------------------------------------------------------------
(* Posts and marks.  A mark follows the answer for the post, or the        *)
(* decision to drop the note, so what is marked is accounted for; a comment*)
(* without a mark was posted at most once per fault, and the loop posts    *)
(* only a comment that has no mark.                                        *)

Accounted(k) == copies[k] > 0 \/ k \in echoes

SeenInv ==
  /\ \A k \in Seen \cup DOMAIN disk.seenNotes : Accounted(k)
  /\ pc = "post" => Current \notin Seen
  /\ pc = "see" => Accounted(Current)

Outstanding(k) == k \notin Seen /\ ~(pc = "see" /\ k = Current)

BoundInv ==
  now <= Retention =>
    \A k \in Keys : /\ copies[k] <= 1 + crashes + lost
                    /\ Outstanding(k) => copies[k] <= crashes + lost

LinkedTo(st) == {st.issueTopics[k] : k \in DOMAIN st.issueTopics}

(* The steps that leave the store and the history alone.                   *)
Quiet == \/ Begin \/ ForwardDone \/ ForwardFails \/ EndPass \/ PostRefused
         \/ \E c \in CommentIds : SkipNote(c) \/ Choose(c)
         \/ Publish \/ UNCHANGED vars

(* A quiet step comes to a post only with a comment that has no mark and a *)
(* topic some link leads to, and never to the step that marks.             *)
LEMMA QuietStep ==
  ASSUME TypeInv, Quiet
  PROVE  /\ UNCHANGED <<storeVars, historyVars>>
         /\ pc' = "see" => pc = "see" /\ Current' = Current
         /\ pc' = "post" =>
              \/ pc = "post" /\ Current' = Current /\ target' = target
              \/ Current' \notin Seen /\ target' \in LinkedTo(mem)
         /\ pc = "see" => pc' = "see"
  <1> USE DEF passVars
  <1>1. CASE Begin \/ ForwardDone \/ ForwardFails \/ EndPass \/ PostRefused
    BY <1>1
    DEF Begin, BeginWith, ForwardDone, ForwardFails, EndPass, PostRefused, NextNote, Idle
  <1>2. ASSUME NEW c \in CommentIds, SkipNote(c)
        PROVE  /\ UNCHANGED <<storeVars, historyVars>>
               /\ pc = "scan" /\ pc' = "scan"
    BY <1>2 DEF SkipNote, Reach
  <1>3. ASSUME NEW c \in CommentIds, Choose(c)
        PROVE  /\ UNCHANGED <<storeVars, historyVars>>
               /\ pc = "scan" /\ pc' = "post"
               /\ Current' \notin Seen /\ target' \in LinkedTo(mem)
    <2>1. Current' = KeyOf(c)
      BY <1>3 DEF Choose, Current, KeyOf
    <2>2. KeyOf(c) \notin Seen
      BY <1>3 DEF Choose, SeenNote, Seen, KeyOf
    <2>3. target' \in LinkedTo(mem)
      BY <1>3 DEF Choose, HasLink, LinkOf, LinkedTo
    <2> QED
      BY <1>3, <2>1, <2>2, <2>3 DEF Choose, Reach
  <1>4. CASE Publish
    <2>1. \A c \in DOMAIN outbox : outbox'[c] = outbox[c]
      BY <1>4 DEF Publish, TypeInv, TypeOK
    <2>2. InHand => Current' = Current
      BY <1>4, <2>1 DEF Publish, Current, KeyOf, TypeInv, Located
    <2> QED
      BY <1>4, <2>2 DEF Publish, InHand
  <1>5. CASE UNCHANGED vars
    BY <1>5 DEF vars, Current, KeyOf
  <1> QED
    BY <1>1, <1>2, <1>3, <1>4, <1>5 DEF Quiet

(* Dropping an echo exempts the note now in hand, and nothing else happens.*)
LEMMA DropEchoStep ==
  ASSUME TypeInv, NEW c \in CommentIds, DropEcho(c)
  PROVE  /\ UNCHANGED <<storeVars, copies, bound, late, crashes, lost>>
         /\ echoes' = echoes \cup {Current'}
         /\ pc = "scan" /\ pc' = "see"
  BY DEF DropEcho, Reach, Current, KeyOf

(* Discourse counts one more post of the note in hand, and of no other.    *)
LEMMA CreateStep ==
  ASSUME TypeInv, PostAccepted \/ PostLost
  PROVE  /\ UNCHANGED <<storeVars, echoes, bound, crashes>>
         /\ Current \in Keys
         /\ \A k \in Keys : copies[k] \in Nat
         /\ copies' = [copies EXCEPT ![Current] = @ + 1]
         /\ copies'[Current] = copies[Current] + 1
         /\ \A k \in Keys \ {Current} : copies'[k] = copies[k]
         /\ pc = "post"
         /\ PostAccepted => pc' = "see" /\ Current' = Current /\ lost' = lost
         /\ PostLost => pc' = "scan" /\ lost' = lost + 1
  <1>1. Current \in Keys
    BY KeyType DEF PostAccepted, PostLost, TypeInv, Located, InHand, Current
  <1>2. copies \in [Keys -> Nat]
    BY DEF TypeInv, TypeOK
  <1>3. copies' = [copies EXCEPT ![Current] = @ + 1]
    BY DEF PostAccepted, PostLost, Create, Current
  <1>4. /\ copies'[Current] = copies[Current] + 1
        /\ \A k \in Keys \ {Current} : copies'[k] = copies[k]
    BY <1>1, <1>2, <1>3
  <1> QED
    BY <1>1, <1>2, <1>3, <1>4
    DEF PostAccepted, PostLost, NextNote, Current, KeyOf, storeVars

(* Marks are keys.                                                         *)
LEMMA SeenType ==
  ASSUME TypeInv
  PROVE  Seen \subseteq Keys /\ DOMAIN disk.seenNotes \subseteq Keys
  BY DEF TypeInv, TypeOK, StoreTypeOK, IsState, IsMap, Seen, Keys

(* A step of the system is of one of these kinds.                          *)
LEMMA StepKinds ==
  [Next]_vars => \/ Quiet \/ OtherSave \/ MarkSeen \/ PostAccepted \/ PostLost
                 \/ (\E c \in CommentIds : DropEcho(c))
                 \/ Crash \/ TimePasses
  BY DEF Next, PassStep, Environment, Quiet, OtherSave

(* Every step keeps posts and marks in agreement.                          *)
LEMMA SeenStep ==
  ASSUME TypeInv, SeenInv, [Next]_vars
  PROVE  SeenInv'
  <1>1. CASE Quiet
    BY <1>1, QuietStep DEF SeenInv, Accounted, Seen, storeVars, historyVars
  <1>2. CASE OtherSave
    <2>1. pc' \in {"post", "see"} => pc' = pc /\ Current' = Current
      BY <1>2, OtherSaveStep DEF Idle, passVars, Current, KeyOf
    <2> QED
      BY <1>2, <2>1, OtherSaveStep DEF SeenInv, Accounted
  <1>3. CASE MarkSeen
    <2>1. pc = "see" /\ pc' \in {"scan", "idle"}
      BY <1>3, MarkSeenStep DEF MarkSeen, NextNote, Idle
    <2> QED
      BY <1>3, <2>1, MarkSeenStep DEF SeenInv, Accounted, historyVars
  <1>4. CASE PostAccepted \/ PostLost
    <2>1. \A k \in Keys : copies[k] > 0 => copies'[k] > 0
      BY <1>4, CreateStep
    <2>2. \A k \in Seen' \cup DOMAIN disk'.seenNotes : Accounted(k)'
      BY <1>4, <2>1, CreateStep, SeenType DEF SeenInv, Accounted, Seen, storeVars
    <2>3. pc' = "see" => copies'[Current'] > 0
      BY <1>4, CreateStep
    <2>4. pc' # "post"
      BY <1>4, CreateStep
    <2> QED
      BY <2>2, <2>3, <2>4 DEF SeenInv, Accounted
  <1>5. ASSUME NEW c \in CommentIds, DropEcho(c)
        PROVE  SeenInv'
    BY <1>5, DropEchoStep DEF SeenInv, Accounted, Seen, storeVars
  <1>6. CASE Crash
    BY <1>6 DEF Crash, Load, Idle, SeenInv, Accounted, Seen
  <1>7. CASE TimePasses
    BY <1>7 DEF TimePasses, Tick, SeenInv, Accounted, Seen, Current, KeyOf,
                passVars, historyVars
  <1> QED
    BY <1>1, <1>2, <1>3, <1>4, <1>5, <1>6, <1>7, StepKinds

(* Every step keeps the bound on duplicates.                               *)
LEMMA BoundStep ==
  ASSUME TypeInv, SeenInv, BoundInv, [Next]_vars
  PROVE  BoundInv'
  <1>0. /\ now \in Nat /\ crashes \in Nat /\ lost \in Nat
        /\ copies \in [Keys -> Nat]
        /\ Retention \in Nat
    BY ReverseAssumption, StoreAssumption DEF TypeInv, TypeOK, StoreTypeOK
  <1>1. CASE Quiet
    <2>1. \A k \in Keys : Outstanding(k)' => Outstanding(k)
      BY <1>1, QuietStep DEF Outstanding, Seen, storeVars
    <2> QED
      BY <1>1, <2>1, QuietStep DEF BoundInv, storeVars, historyVars
  <1>2. CASE OtherSave
    <2>1. pc = "see" => pc' = pc /\ Current' = Current
      BY <1>2, OtherSaveStep DEF Idle, passVars, Current, KeyOf
    <2>2. now <= Retention => \A k \in Keys : Outstanding(k)' => Outstanding(k)
      BY <1>2, <2>1, OtherSaveStep DEF Outstanding
    <2> QED
      BY <1>2, <2>2, OtherSaveStep DEF BoundInv
  <1>3. CASE MarkSeen
    <2>1. now <= Retention => \A k \in Keys : Outstanding(k)' => Outstanding(k)
      BY <1>3, MarkSeenStep DEF Outstanding
    <2> QED
      BY <1>3, <2>1, MarkSeenStep DEF BoundInv, historyVars
  <1>4. CASE PostAccepted
    <2>1. Outstanding(Current)
      BY <1>4, CreateStep DEF SeenInv, Outstanding
    <2>2. \A k \in Keys : Outstanding(k)' => Outstanding(k) /\ k # Current
      BY <1>4, CreateStep DEF Outstanding, Seen, storeVars
    <2> QED
      BY <1>0, <1>4, <2>1, <2>2, CreateStep DEF BoundInv, storeVars
  <1>5. CASE PostLost
    <2>1. Outstanding(Current)
      BY <1>5, CreateStep DEF SeenInv, Outstanding
    <2>2. \A k \in Keys : Outstanding(k)' => Outstanding(k)
      BY <1>5, CreateStep DEF Outstanding, Seen, storeVars
    <2> QED
      BY <1>0, <1>5, <2>1, <2>2, CreateStep DEF BoundInv, storeVars
  <1>6. ASSUME NEW c \in CommentIds, DropEcho(c)
        PROVE  BoundInv'
    <2>1. \A k \in Keys : Outstanding(k)' => Outstanding(k)
      BY <1>6, DropEchoStep DEF Outstanding, Seen, storeVars
    <2> QED
      BY <1>6, <2>1, DropEchoStep DEF BoundInv, storeVars
  <1>7. CASE Crash
    BY <1>0, <1>7 DEF Crash, Load, BoundInv
  <1>8. CASE TimePasses
    <2>1. \A k \in Keys : Outstanding(k)' = Outstanding(k)
      BY <1>8 DEF TimePasses, Tick, Outstanding, Seen, Current, KeyOf, passVars
    <2> QED
      BY <1>0, <1>8, <2>1 DEF TimePasses, Tick, BoundInv, historyVars
  <1> QED
    BY <1>1, <1>2, <1>3, <1>4, <1>5, <1>6, <1>7, <1>8, StepKinds

(* In the initial state nothing is marked and nothing was posted.          *)
LEMMA SeenInit == Init => SeenInv /\ BoundInv
  BY ReverseAssumption
  DEF Init, StoreInit, NoState, EmptyMap, SeenInv, BoundInv, Accounted, Seen, Keys

(* Duplicate posts on Discourse come from crashes and lost answers only,   *)
(* at most one of a comment for each of them, until marks can be pruned;   *)
(* failed saves, rebinding and series left out of a pass add none.         *)
THEOREM FewDuplicates == Spec => []DuplicatesBounded
  <1>1. TypeInv /\ SeenInv /\ BoundInv /\ [Next]_vars
          => TypeInv' /\ SeenInv' /\ BoundInv'
    BY TypeStep, SeenStep, BoundStep
  <1>2. BoundInv => DuplicatesBounded
    BY DEF BoundInv, DuplicatesBounded
  <1> QED
    BY TypeInit, SeenInit, <1>1, <1>2, PTL DEF Spec

-----------------------------------------------------------------------------
(* Refinement of Mirror.                                                   *)

(* A step is a copy, a change of the bookkeeping, or neither.              *)
LEMMA PromiseStep ==
  ASSUME TypeInv, SeenInv, [Next]_vars
  PROVE  [Promise!Next]_(Promise!mirrorVars)
  <1>0. echoes \subseteq Keys /\ echoes' \subseteq Keys
    BY TypeStep DEF TypeInv, TypeOK
  <1>1. CASE Quiet
    BY <1>1, QuietStep DEF Promise!mirrorVars, Seen, storeVars, historyVars
  <1>2. CASE OtherSave
    BY <1>0, <1>2, OtherSaveStep DEF Promise!Next, Promise!Account
  <1>3. CASE MarkSeen
    BY <1>0, <1>3, MarkSeenStep
    DEF MarkSeen, SeenInv, Accounted, Promise!Next, Promise!Account, historyVars
  <1>4. CASE PostAccepted \/ PostLost
    <2>1. Current \in Keys /\ Current \notin Seen /\ Seen' = Seen /\ echoes' = echoes
      BY <1>4, CreateStep DEF SeenInv, Seen, storeVars
    <2>2. copies' = [copies EXCEPT ![Current] = @ + 1]
      BY <1>4, CreateStep
    <2>3. Promise!Copy(Current)
      BY <2>1, <2>2 DEF Promise!Copy
    <2> QED
      BY <2>1, <2>3 DEF Promise!Next
  <1>5. ASSUME NEW c \in CommentIds, DropEcho(c)
        PROVE  Promise!Account
    BY <1>0, <1>5, DropEchoStep DEF Promise!Account, Seen, storeVars
  <1>6. CASE Crash
    <2>1. copies' = copies /\ echoes' = echoes /\ Seen' = DOMAIN disk.seenNotes
      BY <1>6 DEF Crash, Load, Seen
    <2> QED
      BY <1>0, <2>1 DEF SeenInv, Accounted, Promise!Next, Promise!Account
  <1>7. CASE TimePasses
    BY <1>7 DEF TimePasses, Tick, Seen, historyVars, Promise!mirrorVars
  <1> QED
    BY <1>1, <1>2, <1>3, <1>4, <1>5, <1>6, <1>7, StepKinds DEF Promise!Next

(* The reverse direction implements Mirror: a comment is never posted      *)
(* while it is marked as seen, and only a comment that was posted, or      *)
(* dropped as an echo, becomes marked.                                     *)
THEOREM ReverseIsMirror == Spec => KeepsPromise
  <1>1. Init => Promise!Init
    BY DEF Init, StoreInit, NoState, EmptyMap, Seen, Keys, Promise!Init
  <1>2. TypeInv /\ SeenInv /\ [Next]_vars
          => TypeInv' /\ SeenInv' /\ [Promise!Next]_(Promise!mirrorVars)
    BY TypeStep, SeenStep, PromiseStep
  <1> QED
    BY TypeInit, SeenInit, <1>1, <1>2, PTL DEF Spec, KeepsPromise, Promise!Spec

-----------------------------------------------------------------------------
(* Unbinding.  Every link, in memory and on disk, leads to a topic whose   *)
(* unbinding was not acknowledged, so that after the acknowledgement only  *)
(* the one topic already looked up can be posted to, and only once.        *)

UnbindInv ==
  /\ LinkedTo(mem) \cup LinkedTo(disk) \subseteq bound
  /\ \A t \in bound : late[t] = 0
  /\ \A t \in Topics \ bound : /\ late[t] <= 1
                               /\ (pc = "post" /\ target = t) => late[t] = 0

(* Where the links lead to after an unbinding, a binding and a mark.       *)
LEMMA LinksAfter ==
  ASSUME TypeInv, OtherSave
  PROVE  \/ /\ LinkedTo(mem)' = LinkedTo(mem)
            /\ LinkedTo(disk)' \subseteq LinkedTo(mem) \cup LinkedTo(disk)
            /\ UNCHANGED <<bound, late>>
         \/ \E t \in Topics : /\ LinkedTo(mem)' \subseteq LinkedTo(mem) \cup {t}
                              /\ LinkedTo(disk)' \subseteq LinkedTo(mem)' \cup LinkedTo(disk)
                              /\ bound' = bound \cup {t}
                              /\ late' = [late EXCEPT ![t] = 0]
         \/ \E t \in Topics : /\ LinkedTo(mem)' \subseteq LinkedTo(mem) \ {t}
                              /\ \/ LinkedTo(disk)' = LinkedTo(mem)' /\ bound' = bound \ {t}
                                 \/ LinkedTo(disk)' = LinkedTo(disk) /\ bound' = bound
                              /\ UNCHANGED late
  <1>0. IsState(mem) /\ IsMap(mem.issueTopics, Series \X Urls, Topics)
    BY DEF TypeInv, TypeOK, StoreTypeOK, IsState
  <1>1. CASE ForwardMarks
    <2>1. PICK h \in Forwarded, ok \in BOOLEAN : Save(MarkDelivered(mem, h), ok)
      BY <1>1, StoreAssumption DEF ForwardMarks
    <2> DEFINE st == MarkDelivered(mem, h)
    <2>2. IsState(st) /\ st.issueTopics = mem.issueTopics
      BY <1>0, SetterTypes, SettersBindings
    <2>3. Save(st, ok)
      BY <2>1
    <2> HIDE DEF st
    <2>4. /\ mem'.issueTopics = mem.issueTopics
          /\ disk'.issueTopics \in {mem.issueTopics, disk.issueTopics}
      BY <2>2, <2>3, SaveBindings
    <2> QED
      BY <1>1, <2>4 DEF ForwardMarks, historyVars, LinkedTo
  <1>2. CASE Link
    <2>1. PICK l \in Links, ok \in BOOLEAN :
            /\ Save(SetIssueTopic(mem, l[1], l[2], l[3]), ok)
            /\ bound' = bound \cup {l[3]}
            /\ late' = [late EXCEPT ![l[3]] = 0]
      BY <1>2, StoreAssumption DEF Link
    <2>2. PICK t \in Topics : t = l[3]
      BY SetterTypes
    <2> DEFINE k == <<l[1], l[2]>>
    <2> DEFINE st == SetIssueTopic(mem, l[1], l[2], l[3])
    <2>3. IsState(st)
      BY SetterTypes
    <2>4. st.issueTopics = Put(mem.issueTopics, k, t)
      BY <1>0, <2>2, SettersBindings
    <2>5. Save(st, ok)
      BY <2>1
    <2> HIDE DEF st, k
    <2>6. /\ mem'.issueTopics = Put(mem.issueTopics, k, t)
          /\ disk'.issueTopics \in {mem'.issueTopics, disk.issueTopics}
      BY <2>3, <2>4, <2>5, SaveBindings
    <2>7. LinkedTo(mem)' \subseteq LinkedTo(mem) \cup {t}
      BY <2>6 DEF LinkedTo, Put
    <2>8. LinkedTo(disk)' \subseteq LinkedTo(mem)' \cup LinkedTo(disk)
      BY <2>6 DEF LinkedTo
    <2> QED
      BY <2>1, <2>2, <2>7, <2>8
  <1>3. CASE Unbind
    <2>1. PICK l \in Links, ok \in BOOLEAN :
            /\ Save(DeleteTopicNote(mem, l[3]), ok)
            /\ bound' = IF ok THEN bound \ {l[3]} ELSE bound
      BY <1>3, StoreAssumption DEF Unbind
    <2>2. PICK t \in Topics : t = l[3]
      BY SetterTypes
    <2> DEFINE st == DeleteTopicNote(mem, t)
    <2>3. IsState(st)
      BY <2>2, SetterTypes
    <2>4. st.issueTopics = Restrict(mem.issueTopics,
            {k \in DOMAIN mem.issueTopics : mem.issueTopics[k] # t})
      BY <1>0, SettersBindings
    <2>5. Save(st, ok)
      BY <2>1, <2>2
    <2> HIDE DEF st
    <2>6. /\ mem'.issueTopics = Restrict(mem.issueTopics,
               {k \in DOMAIN mem.issueTopics : mem.issueTopics[k] # t})
          /\ disk'.issueTopics = IF ok THEN mem'.issueTopics ELSE disk.issueTopics
      BY <2>3, <2>4, <2>5, SaveBindings
    <2>7. LinkedTo(mem)' \subseteq LinkedTo(mem) \ {t}
      BY <2>6 DEF LinkedTo, Restrict
    <2>8. \/ LinkedTo(disk)' = LinkedTo(mem)' /\ bound' = bound \ {t}
          \/ LinkedTo(disk)' = LinkedTo(disk) /\ bound' = bound
      BY <2>1, <2>2, <2>6 DEF LinkedTo
    <2>9. late' = late
      BY <1>3 DEF Unbind
    <2> QED
      BY <2>7, <2>8, <2>9
  <1> QED
    BY <1>1, <1>2, <1>3 DEF OtherSave

(* Every step keeps unbound topics unlinked.                               *)
LEMMA UnbindStep ==
  ASSUME TypeInv, UnbindInv, [Next]_vars
  PROVE  UnbindInv'
  <1>0. /\ late \in [Topics -> Nat] /\ bound \subseteq Topics
        /\ pc = "post" => target \in Topics
    BY DEF TypeInv, TypeOK, Located
  <1>1. CASE Quiet
    BY <1>0, <1>1, QuietStep DEF UnbindInv, LinkedTo, storeVars, historyVars
  <1>2. CASE OtherSave
    <2>1. (pc' = "post") => pc = "post" /\ target' = target
      BY <1>2, OtherSaveStep DEF Idle, passVars
    <2>2. CASE /\ LinkedTo(mem)' = LinkedTo(mem)
               /\ LinkedTo(disk)' \subseteq LinkedTo(mem) \cup LinkedTo(disk)
               /\ UNCHANGED <<bound, late>>
      BY <2>1, <2>2 DEF UnbindInv
    <2>3. ASSUME NEW t \in Topics,
                 LinkedTo(mem)' \subseteq LinkedTo(mem) \cup {t},
                 LinkedTo(disk)' \subseteq LinkedTo(mem)' \cup LinkedTo(disk),
                 bound' = bound \cup {t},
                 late' = [late EXCEPT ![t] = 0]
          PROVE  UnbindInv'
      <3>1. LinkedTo(mem)' \cup LinkedTo(disk)' \subseteq bound'
        BY <2>3 DEF UnbindInv
      <3>2. late'[t] = 0 /\ \A x \in Topics \ {t} : late'[x] = late[x]
        BY <1>0, <2>3
      <3> QED
        BY <1>0, <2>1, <2>3, <3>1, <3>2 DEF UnbindInv
    <2>4. ASSUME NEW t \in Topics,
                 LinkedTo(mem)' \subseteq LinkedTo(mem) \ {t},
                 \/ LinkedTo(disk)' = LinkedTo(mem)' /\ bound' = bound \ {t}
                 \/ LinkedTo(disk)' = LinkedTo(disk) /\ bound' = bound,
                 late' = late
          PROVE  UnbindInv'
      <3>1. LinkedTo(mem)' \cup LinkedTo(disk)' \subseteq bound'
        BY <2>4 DEF UnbindInv
      <3>2. bound' \subseteq bound
        BY <2>4
      <3> QED
        BY <1>0, <2>1, <2>4, <3>1, <3>2 DEF UnbindInv
    <2> QED
      BY <1>2, <2>2, <2>3, <2>4, LinksAfter
  <1>3. CASE MarkSeen
    BY <1>3, MarkSeenStep DEF NextNote, Idle, UnbindInv, LinkedTo, historyVars
  <1>4. CASE PostAccepted \/ PostLost
    <2>1. /\ UNCHANGED <<mem, disk, bound>> /\ pc' # "post" /\ pc = "post"
          /\ late' = [late EXCEPT ![target] = IF target \in bound THEN 0 ELSE @ + 1]
      BY <1>4 DEF PostAccepted, PostLost, NextNote, Create, storeVars
    <2> QED
      BY <1>0, <2>1 DEF UnbindInv, LinkedTo
  <1>5. ASSUME NEW c \in CommentIds, DropEcho(c)
        PROVE  UnbindInv'
    BY <1>5, DropEchoStep DEF UnbindInv, LinkedTo, storeVars
  <1>6. CASE Crash
    BY <1>6 DEF Crash, Load, Idle, UnbindInv, LinkedTo
  <1>7. CASE TimePasses
    BY <1>7 DEF TimePasses, Tick, UnbindInv, LinkedTo, passVars, historyVars
  <1> QED
    BY <1>1, <1>2, <1>3, <1>4, <1>5, <1>6, <1>7, StepKinds

(* An acknowledged unbind holds: after it, and until the topic is bound    *)
(* again, at most one comment still arrives in the topic, also across a    *)
(* crash, because no link to it survives in memory or on disk.             *)
THEOREM UnbindingHolds == Spec => []UnbindHolds
  <1>1. Init => UnbindInv
    BY ReverseAssumption
    DEF Init, StoreInit, NoState, EmptyMap, UnbindInv, LinkedTo
  <1>2. TypeInv /\ UnbindInv /\ [Next]_vars => TypeInv' /\ UnbindInv'
    BY TypeStep, UnbindStep
  <1>3. UnbindInv => UnbindHolds
    BY DEF UnbindInv, UnbindHolds
  <1> QED
    BY TypeInit, <1>1, <1>2, <1>3, PTL DEF Spec

-----------------------------------------------------------------------------
(* The loop over the notes ends: it takes each at most once.               *)

InLoop == pc \in {"scan", "post", "see"}

(* An upper bound on the steps the loop still takes: three for a note.     *)
StepsLeft == 3 * Cardinality(todo)
             + (CASE pc = "post" -> 2 [] pc = "see" -> 1 [] OTHER -> 0)

(* Every step of the loop ends it or leaves fewer steps to take, whatever  *)
(* is published and bound meanwhile.                                       *)
LoopEnds ==
  [][InLoop => pc' = "idle" \/ UNCHANGED passVars \/ StepsLeft' < StepsLeft]_vars

(* There are finitely many notes to look at.                               *)
LEMMA TodoFinite ==
  ASSUME TypeInv
  PROVE  IsFiniteSet(todo) /\ Cardinality(todo) \in Nat
  <1>1. Len(outbox) \in Nat /\ todo \subseteq 1..Len(outbox)
    BY DEF TypeInv, TypeOK
  <1>2. IsFiniteSet(1..Len(outbox))
    BY <1>1, FS_Interval
  <1>3. IsFiniteSet(todo)
    BY <1>1, <1>2, FS_Subset
  <1>. QED
    BY <1>3, FS_CardinalityType

(* A step of the loop that does not end it leaves fewer.                   *)
LEMMA ShorterStep ==
  ASSUME TypeInv, [Next]_vars, InLoop, pc' # "idle", ~UNCHANGED passVars
  PROVE  StepsLeft' < StepsLeft
  <1>1. IsFiniteSet(todo) /\ Cardinality(todo) \in Nat
    BY TodoFinite
  <1>2. ASSUME NEW c, Reach(c), pc' \in {"scan", "post", "see"}
        PROVE  StepsLeft' < StepsLeft
    <2>1. pc = "scan" /\ c \in todo /\ todo' = todo \ {c}
      BY <1>2 DEF Reach
    <2>2. Cardinality(todo') = Cardinality(todo) - 1
      BY <1>1, <2>1, FS_RemoveElement
    <2>. QED
      BY <1>1, <1>2, <2>1, <2>2 DEF StepsLeft
  <1>3. ASSUME todo' = todo,
               \/ pc = "post" /\ pc' \in {"scan", "see"}
               \/ pc = "see" /\ pc' = "scan"
        PROVE  StepsLeft' < StepsLeft
    BY <1>1, <1>3 DEF StepsLeft
  <1>4. CASE \E c \in CommentIds : SkipNote(c) \/ DropEcho(c) \/ Choose(c)
    <2>1. PICK c \in CommentIds : SkipNote(c) \/ DropEcho(c) \/ Choose(c)
      BY <1>4
    <2>2. Reach(c) /\ pc' \in {"scan", "post", "see"}
      BY <2>1 DEF SkipNote, DropEcho, Choose, Reach
    <2>. QED
      BY <1>2, <2>2
  <1>5. CASE PostAccepted \/ PostRefused \/ PostLost
    BY <1>3, <1>5 DEF PostAccepted, PostRefused, PostLost, NextNote
  <1>6. CASE MarkSeen
    BY <1>3, <1>6 DEF MarkSeen, NextNote, Idle
  <1>7. CASE EndPass \/ Crash
    BY <1>7 DEF EndPass, Crash, Idle
  <1>8. CASE Begin \/ ForwardMarks \/ ForwardDone \/ ForwardFails
    BY <1>8 DEF InLoop, Begin, BeginWith, ForwardMarks, ForwardDone, ForwardFails
  <1>9. CASE Publish \/ Link \/ Unbind \/ TimePasses \/ UNCHANGED vars
    BY <1>9 DEF Publish, Link, Unbind, TimePasses, vars, passVars
  <1>. QED
    BY <1>4, <1>5, <1>6, <1>7, <1>8, <1>9 DEF Next, PassStep, Environment

(* reverseGraftToDiscourse is bounded: the steps its loop may still take   *)
(* are a number, and each it takes makes it smaller or is its last.        *)
THEOREM LoopIsBounded == Spec => [](StepsLeft \in Nat) /\ LoopEnds
  <1>1. TypeInv /\ [Next]_vars => TypeInv'
    BY TypeStep
  <1>2. TypeInv => StepsLeft \in Nat
    BY TodoFinite DEF StepsLeft
  <1>3. TypeInv /\ [Next]_vars =>
          [InLoop => pc' = "idle" \/ UNCHANGED passVars \/ StepsLeft' < StepsLeft]_vars
    BY ShorterStep
  <1>. QED
    BY TypeInit, <1>1, <1>2, <1>3, PTL DEF Spec, LoopEnds
=============================================================================
