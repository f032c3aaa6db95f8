--------------------------- MODULE ForwardProofs ---------------------------
(***************************************************************************)
(* What TLAPS proves about the forward direction, for every forum, every   *)
(* set of series and bindings, every cap, window and number of faults.     *)
(***************************************************************************)
EXTENDS Forward, StoreProofs

-----------------------------------------------------------------------------
(* The type invariant is not inductive by itself: that the index stays in  *)
(* range and names a post of the batch depends on where the loop is.       *)

InBody == pc \in {"dedup", "reply", "mark", "hash"}

Located == /\ pc \in {"idle", "fetch"} => at = 0 /\ sent = 0
           /\ pc = "scan" => at >= 1
           /\ InBody => at \in 1..Len(batch) /\ target \in Issues

TypeInv == TypeOK /\ Located

(* The current post's key in PostsDelivered.                               *)
Key == <<SeriesOf[target], at>>

(* In the body of the loop the key is one of the possible keys.            *)
LEMMA KeyType ==
  ASSUME TypeInv, InBody
  PROVE  Key \in Keys /\ SeriesOf[target] \in Series /\ at \in PostIds
  <1>1. at \in 1..MaxForum /\ target \in Issues
    BY ForwardAssumption DEF TypeInv, TypeOK, Located
  <1> QED
    BY <1>1, ForwardAssumption DEF Key, Keys

(* The post the loop is at is a post, and its hash a hash.                 *)
LEMMA BatchType ==
  ASSUME TypeInv, at \in 1..Len(batch)
  PROVE  batch[at] \in Posts /\ HashOf(batch[at]) \in Hashes
  <1>1. batch[at] \in Posts
    BY DEF TypeInv, TypeOK
  <1> QED
    BY <1>1, ForwardAssumption

(* The initial state is well formed.                                       *)
LEMMA TypeInit == Init => TypeInv
  <1> SUFFICES ASSUME Init PROVE TypeInv
    OBVIOUS
  <1>1. StoreTypeOK
    BY NoStateType DEF Init, StoreInit, StoreTypeOK
  <1>2. IsMap(category, Topics, Categories)
    BY DEF Init, IsMap, EmptyMap
  <1>3. posts \in Seq(Posts) /\ batch \in Seq(Posts) /\ Len(posts) = 0 /\ Len(batch) = 0
    BY DEF Init
  <1>4. copies \in [Keys -> Nat]
    BY DEF Init, Keys
  <1>5. Located
    BY DEF Init, Located, InBody
  <1> QED
    BY <1>1, <1>2, <1>3, <1>4, <1>5, ForwardAssumption
    DEF Init, TypeInv, TypeOK, StoreInit, PCs

(* A pass that ends leaves the pass variables well formed.                 *)
LEMMA IdleType ==
  ASSUME TypeInv, Idle, now' \in Nat
  PROVE  /\ pc' \in PCs /\ batch' \in Seq(Posts) /\ Len(batch') <= MaxForum
         /\ at' \in 0..MaxForum + 1 /\ sent' \in Nat
         /\ target' \in Issues \cup {NoTarget}
         /\ IsMap(category', Topics, Categories)
         /\ started' \in 0..now'
         /\ Located'
  <1>1. IsMap(category', Topics, Categories)
    BY DEF Idle, IsMap, EmptyMap
  <1>2. batch' \in Seq(Posts) /\ Len(batch') = 0
    BY DEF Idle
  <1> QED
    BY <1>1, <1>2, ForwardAssumption DEF Idle, PCs, Located, InBody

(* Moving to the next post leaves the pass variables well formed.          *)
LEMMA NextPostType ==
  ASSUME TypeInv, NextPost, at \in 1..Len(batch)
  PROVE  /\ pc' \in PCs
         /\ at' \in 0..MaxForum + 1
         /\ target' \in Issues \cup {NoTarget}
         /\ Located'
  BY ForwardAssumption DEF TypeInv, TypeOK, NextPost, PCs, Located, InBody

(* A comment more in Graft keeps the history well formed.                  *)
LEMMA AcceptType ==
  ASSUME TypeInv, InBody, Accept
  PROVE  copies' \in [Keys -> Nat] /\ burst' \in Nat
  <1>1. Key \in Keys
    BY KeyType
  <1>2. copies' = [copies EXCEPT ![Key] = @ + 1]
    BY DEF Accept, Key
  <1>3. copies \in [Keys -> Nat] /\ burst \in Nat
    BY DEF TypeInv, TypeOK
  <1>4. copies' \in [Keys -> Nat]
    BY <1>1, <1>2, <1>3
  <1> QED
    BY <1>3, <1>4 DEF Accept

(* Every step keeps the state well formed.                                 *)
LEMMA TypeStep ==
  ASSUME TypeInv, [Next]_vars
  PROVE  TypeInv'
  <1> USE DEF passVars, historyVars, storeVars
  <1>1. CASE Begin
    <2>1. IsMap(category', Topics, Categories)
      BY <1>1, ForwardAssumption DEF Begin
    <2>2. StoreTypeOK'
      BY <1>1 DEF Begin, TypeInv, TypeOK, StoreTypeOK
    <2> QED
      BY <1>1, <2>1, <2>2, ForwardAssumption
      DEF Begin, TypeInv, TypeOK, Located, InBody, PCs, StoreTypeOK
  <1>2. CASE FetchPosts
    <2>1. StoreTypeOK'
      BY <1>2 DEF FetchPosts, TypeInv, TypeOK, StoreTypeOK
    <2>2. OldestIn(Len(posts)) \in 1..MaxForum + 1
      BY ForwardAssumption DEF OldestIn, TypeInv, TypeOK
    <2> QED
      BY <1>2, <2>1, <2>2
      DEF FetchPosts, TypeInv, TypeOK, Located, InBody, PCs
  <1>3. CASE FetchFails \/ EndPass
    <2>1. StoreTypeOK' /\ now' \in Nat
      BY <1>3 DEF FetchFails, EndPass, TypeInv, TypeOK, StoreTypeOK
    <2> QED
      BY <1>3, <2>1, IdleType DEF FetchFails, EndPass, TypeInv, TypeOK
  <1>4. CASE Skip
    <2>1. StoreTypeOK' /\ at \in 1..Len(batch)
      BY <1>4 DEF Skip, InLoop, TypeInv, TypeOK, StoreTypeOK, Located
    <2> QED
      BY <1>4, <2>1, NextPostType DEF Skip, NextPost, TypeInv, TypeOK
  <1>5. CASE Pick
    <2>1. StoreTypeOK' /\ at \in 1..Len(batch)
      BY <1>5 DEF Pick, InLoop, TypeInv, TypeOK, StoreTypeOK, Located
    <2>2. target' \in Issues
      BY <1>5 DEF Pick, Mapped, TypeInv, TypeOK, StoreTypeOK, IsState, IsMap
    <2> QED
      BY <1>5, <2>1, <2>2 DEF Pick, TypeInv, TypeOK, Located, InBody, PCs
  <1>6. CASE Dedup
    <2>1. StoreTypeOK' /\ at \in 1..Len(batch)
      BY <1>6 DEF Dedup, TypeInv, TypeOK, StoreTypeOK, Located, InBody
    <2>2. CASE PostDelivered(SeriesOf[target], at)
      BY <1>6, <2>1, <2>2, NextPostType DEF Dedup, NextPost, TypeInv, TypeOK
    <2>3. CASE ~PostDelivered(SeriesOf[target], at)
      BY <1>6, <2>1, <2>3 DEF Dedup, TypeInv, TypeOK, Located, InBody, PCs
    <2> QED
      BY <2>2, <2>3
  <1>7. CASE ReplyAccepted
    <2>1. StoreTypeOK' /\ at \in 1..Len(batch)
      BY <1>7 DEF ReplyAccepted, TypeInv, TypeOK, StoreTypeOK, Located, InBody
    <2>2. copies' \in [Keys -> Nat] /\ burst' \in Nat
      BY <1>7, AcceptType DEF ReplyAccepted, InBody
    <2> QED
      BY <1>7, <2>1, <2>2 DEF ReplyAccepted, TypeInv, TypeOK, Located, InBody, PCs
  <1>8. CASE ReplyRefused
    <2>1. StoreTypeOK' /\ at \in 1..Len(batch)
      BY <1>8 DEF ReplyRefused, TypeInv, TypeOK, StoreTypeOK, Located, InBody
    <2> QED
      BY <1>8, <2>1, NextPostType DEF ReplyRefused, NextPost, TypeInv, TypeOK
  <1>9. CASE ReplyLost
    <2>1. StoreTypeOK' /\ at \in 1..Len(batch)
      BY <1>9 DEF ReplyLost, TypeInv, TypeOK, StoreTypeOK, Located, InBody
    <2>2. lost' \in 0..MaxLost
      BY <1>9, ForwardAssumption DEF ReplyLost, TypeInv, TypeOK
    <2>3. copies' \in [Keys -> Nat] /\ burst' \in Nat
      BY <1>9, AcceptType DEF ReplyLost, InBody
    <2> QED
      BY <1>9, <2>1, <2>2, <2>3, NextPostType DEF ReplyLost, NextPost, TypeInv, TypeOK
  <1>10. CASE MarkPost
    <2> PICK ok \in SaveOutcomes :
          /\ Save(MarkPostDelivered(mem, SeriesOf[target], at), ok)
          /\ IF ok
             THEN pc' = "hash" /\ UNCHANGED <<batch, at, sent, target, category, started>>
             ELSE Idle
      BY <1>10 DEF MarkPost
    <2>1. ok \in BOOLEAN
      BY StoreAssumption
    <2>2. IsState(MarkPostDelivered(mem, SeriesOf[target], at))
      BY <1>10, KeyType, SettersType DEF MarkPost, InBody, TypeInv, TypeOK, StoreTypeOK
    <2>3. StoreTypeOK' /\ now' = now /\ now' \in Nat
      BY <2>1, <2>2, SaveType DEF Save, TypeInv, TypeOK, StoreTypeOK
    <2>4. CASE ok
      BY <1>10, <2>3, <2>4 DEF MarkPost, TypeInv, TypeOK, Located, InBody, PCs
    <2>5. CASE ~ok
      BY <1>10, <2>3, <2>5, IdleType DEF MarkPost, TypeInv, TypeOK
    <2> QED
      BY <2>4, <2>5
  <1>11. CASE MarkHash
    <2> PICK ok \in SaveOutcomes :
          /\ Save(MarkDelivered(mem, HashOf(batch[at])), ok)
          /\ IF ok THEN NextPost /\ sent' = sent + 1 ELSE Idle
      BY <1>11 DEF MarkHash
    <2>1. ok \in BOOLEAN
      BY StoreAssumption
    <2>2. at \in 1..Len(batch)
      BY <1>11 DEF MarkHash, TypeInv, Located, InBody
    <2>3. IsState(MarkDelivered(mem, HashOf(batch[at])))
      BY <2>2, BatchType, SettersType DEF TypeInv, TypeOK, StoreTypeOK
    <2>4. StoreTypeOK' /\ now' = now /\ now' \in Nat
      BY <2>1, <2>3, SaveType DEF Save, TypeInv, TypeOK, StoreTypeOK
    <2>5. CASE ok
      BY <1>11, <2>2, <2>4, <2>5, NextPostType DEF MarkHash, NextPost, TypeInv, TypeOK
    <2>6. CASE ~ok
      BY <1>11, <2>4, <2>6, IdleType DEF MarkHash, TypeInv, TypeOK
    <2> QED
      BY <2>5, <2>6
  <1>12. CASE Crash
    <2>1. StoreTypeOK' /\ now' \in Nat
      BY <1>12 DEF Crash, Load, TypeInv, TypeOK, StoreTypeOK
    <2>2. crashes' \in 0..MaxCrashes
      BY <1>12, ForwardAssumption DEF Crash, TypeInv, TypeOK
    <2> QED
      BY <1>12, <2>1, <2>2, IdleType DEF Crash, TypeInv, TypeOK
  <1>13. CASE UserPosts
    <2>1. posts' \in Seq(Posts) /\ Len(posts') <= MaxForum
      BY <1>13, ForwardAssumption DEF UserPosts, TypeInv, TypeOK
    <2> QED
      BY <1>13, <2>1 DEF UserPosts, TypeInv, TypeOK, StoreTypeOK, Located, InBody
  <1>14. CASE UserEdits
    <2> PICK p \in DOMAIN posts, x \in Edits : posts' = [posts EXCEPT ![p].text = x]
      BY <1>14 DEF UserEdits
    <2>1. posts[p] \in Posts
      BY DEF TypeInv, TypeOK
    <2>2. [posts[p] EXCEPT !.text = x] \in Posts
      BY <2>1 DEF Posts
    <2>3. posts' \in Seq(Posts) /\ Len(posts') = Len(posts)
      BY <2>2 DEF TypeInv, TypeOK
    <2> QED
      BY <1>14, <2>3 DEF UserEdits, TypeInv, TypeOK, StoreTypeOK, Located, InBody
  <1>15. CASE Bind \/ Unbind
    <2>1. PICK t \in Topics, i \in Issues, ok \in BOOLEAN :
            Save(SetTopicNote(mem, t, i), ok) \/ Save(DeleteTopicNote(mem, t), ok)
      BY <1>15, StoreAssumption, ForwardAssumption DEF Bind, Unbind
    <2>2. IsState(SetTopicNote(mem, t, i)) /\ IsState(DeleteTopicNote(mem, t))
      BY SettersType DEF TypeInv, TypeOK, StoreTypeOK
    <2>3. StoreTypeOK' /\ now' = now
      BY <2>1, <2>2, SaveType DEF Save, TypeInv, TypeOK
    <2> QED
      BY <1>15, <2>3 DEF Bind, Unbind, TypeInv, TypeOK, Located, InBody
  <1>16. CASE TimePasses
    <2>1. StoreTypeOK' /\ now' = now + 1
      BY <1>16 DEF TimePasses, Tick, TypeInv, TypeOK, StoreTypeOK, IsState
    <2> QED
      BY <1>16, <2>1 DEF TimePasses, Tick, TypeInv, TypeOK, StoreTypeOK, Located, InBody
  <1>17. CASE UNCHANGED vars
    BY <1>17 DEF vars, TypeInv, TypeOK, StoreTypeOK, Located, InBody
  <1> QED
    BY <1>1, <1>2, <1>3, <1>4, <1>5, <1>6, <1>7, <1>8, <1>9, <1>10, <1>11,
       <1>12, <1>13, <1>14, <1>15, <1>16, <1>17
    DEF Next, PassStep, Environment

(* Type correctness of the forward direction: the loop of                  *)
(* forwardDiscourseToGraft never leaves its batch and the state store      *)
(* stays well formed through saves, failed saves, crashes and prunes.      *)
THEOREM TypeCorrect == Spec => []TypeOK
  <1>1. TypeInv /\ [Next]_vars => TypeInv'
    BY TypeStep
  <1>2. TypeInv => TypeOK
    BY DEF TypeInv
  <1> QED
    BY TypeInit, <1>1, <1>2, PTL DEF Spec

-----------------------------------------------------------------------------
(* Accepted posts and marks.  MarkedIsAccepted holds because the mark of a *)
(* post follows the answer for it; duplicates are bounded because a post   *)
(* without a mark has been accepted at most once per fault, and the loop   *)
(* is past Dedup only with a post that has no mark.                        *)

Outstanding(k) == k \notin Marked /\ ~(pc = "mark" /\ k = Key)

DedupInv ==
  /\ MarkedIsAccepted
  /\ pc = "reply" => Key \notin Marked
  /\ pc = "mark" => copies[Key] > 0

BoundInv ==
  now <= Retention =>
    \A k \in Keys : /\ copies[k] <= 1 + crashes + lost
                    /\ Outstanding(k) => copies[k] <= crashes + lost

(* The steps that leave the store and the history alone.                   *)
Quiet == \/ Begin \/ FetchPosts \/ FetchFails \/ EndPass \/ Skip \/ Pick
         \/ Dedup \/ ReplyRefused \/ UserPosts \/ UserEdits \/ UNCHANGED vars

(* A quiet step reaches the reply only with a post that has no mark, and   *)
(* never the step that marks.                                              *)
LEMMA QuietStep ==
  ASSUME TypeInv, Quiet
  PROVE  /\ UNCHANGED <<storeVars, copies, crashes, lost>>
         /\ pc' = "mark" => pc = "mark" /\ Key' = Key
         /\ pc' = "reply" => Key' = Key /\ (pc = "reply" \/ Key \notin Marked)
         /\ pc = "mark" => pc' = "mark"
  <1> USE DEF passVars, historyVars, storeVars
  <1>1. CASE Begin \/ FetchPosts \/ FetchFails \/ EndPass
    BY <1>1 DEF Begin, FetchPosts, FetchFails, EndPass, Idle
  <1>2. CASE Skip \/ Pick \/ ReplyRefused
    BY <1>2 DEF Skip, Pick, InLoop, ReplyRefused, NextPost
  <1>3. CASE Dedup
    BY <1>3 DEF Dedup, NextPost, PostDelivered, Marked, Key
  <1>4. CASE UserPosts \/ UserEdits \/ UNCHANGED vars
    BY <1>4 DEF UserPosts, UserEdits, vars, Key
  <1> QED
    BY <1>1, <1>2, <1>3, <1>4 DEF Quiet

(* The saves that mark no post.                                            *)
OtherSave == MarkHash \/ Bind \/ Unbind

(* Such a save invents no mark, and forgets none before marks can be old.  *)
LEMMA OtherSaveStep ==
  ASSUME TypeInv, OtherSave
  PROVE  /\ UNCHANGED <<now, copies, crashes, lost>>
         /\ Marked' \subseteq Marked
         /\ DOMAIN disk'.postsDelivered \subseteq Marked \cup DOMAIN disk.postsDelivered
         /\ now <= Retention => Marked' = Marked
         /\ pc' \in {"mark", "reply"} => pc' = pc /\ Key' = Key
         /\ pc = "mark" => pc' = "mark"
  <1> USE DEF passVars, historyVars
  <1>1. PICK st : /\ IsState(st)
                  /\ st.postsDelivered = mem.postsDelivered
                  /\ \E ok \in BOOLEAN : Save(st, ok)
    <2>1. CASE MarkHash
      <3>1. HashOf(batch[at]) \in Hashes
        BY <2>1, BatchType DEF MarkHash, TypeInv, Located, InBody
      <3>2. PICK ok \in BOOLEAN : Save(MarkDelivered(mem, HashOf(batch[at])), ok)
        BY <2>1, StoreAssumption DEF MarkHash
      <3>3. IsState(mem) /\ now \in Nat
        BY DEF TypeInv, TypeOK, StoreTypeOK
      <3> DEFINE st == MarkDelivered(mem, HashOf(batch[at]))
      <3>4. IsState(st) /\ st.postsDelivered = mem.postsDelivered
        BY <3>1, <3>3, SettersType, SettersMarks
      <3>5. Save(st, ok)
        BY <3>2
      <3> HIDE DEF st
      <3> QED
        BY <3>4, <3>5
    <2>2. CASE Bind \/ Unbind
      <3>1. PICK t \in Topics, i \in Issues, ok \in BOOLEAN :
              Save(SetTopicNote(mem, t, i), ok) \/ Save(DeleteTopicNote(mem, t), ok)
        BY <2>2, StoreAssumption, ForwardAssumption DEF Bind, Unbind
      <3>2. IsState(mem) /\ now \in Nat
        BY DEF TypeInv, TypeOK, StoreTypeOK
      <3>3. CASE Save(SetTopicNote(mem, t, i), ok)
        <4> DEFINE st == SetTopicNote(mem, t, i)
        <4>1. IsState(st) /\ st.postsDelivered = mem.postsDelivered
          BY <3>2, SettersType, SettersMarks
        <4>2. Save(st, ok)
          BY <3>3
        <4> HIDE DEF st
        <4> QED
          BY <4>1, <4>2
      <3>4. CASE Save(DeleteTopicNote(mem, t), ok)
        <4> DEFINE st == DeleteTopicNote(mem, t)
        <4>1. IsState(st) /\ st.postsDelivered = mem.postsDelivered
          BY <3>2, SettersType, SettersMarks
        <4>2. Save(st, ok)
          BY <3>4
        <4> HIDE DEF st
        <4> QED
          BY <4>1, <4>2
      <3> QED
        BY <3>1, <3>3, <3>4
    <2> QED
      BY <2>1, <2>2 DEF OtherSave
  <1>2. /\ Marked' \subseteq Marked
        /\ DOMAIN disk'.postsDelivered \subseteq Marked \cup DOMAIN disk.postsDelivered
        /\ now <= Retention => Marked' = Marked
    BY <1>1, SaveMarks DEF Marked, TypeInv, TypeOK
  <1>3. UNCHANGED <<now, copies, crashes, lost>>
    BY <1>1 DEF OtherSave, MarkHash, Bind, Unbind, Save
  <1>4. /\ pc' \in {"mark", "reply"} => pc' = pc /\ Key' = Key
        /\ pc = "mark" => pc' = "mark"
    BY DEF OtherSave, MarkHash, Bind, Unbind, NextPost, Idle, Key
  <1> QED
    BY <1>2, <1>3, <1>4

(* Marking the current post adds its mark and invents no other.            *)
LEMMA MarkPostStep ==
  ASSUME TypeInv, MarkPost
  PROVE  /\ UNCHANGED <<now, copies, crashes, lost>>
         /\ Marked' \subseteq Marked \cup {Key}
         /\ DOMAIN disk'.postsDelivered
              \subseteq Marked \cup {Key} \cup DOMAIN disk.postsDelivered
         /\ now <= Retention => Marked' = Marked \cup {Key}
         /\ pc' \in {"hash", "idle"}
  <1>1. PICK ok \in BOOLEAN :
           Save(MarkPostDelivered(mem, SeriesOf[target], at), ok)
    BY StoreAssumption DEF MarkPost
  <1> DEFINE st == MarkPostDelivered(mem, SeriesOf[target], at)
  <1>2. IsState(st) /\ DOMAIN st.postsDelivered = Marked \cup {Key}
    BY KeyType, SettersType, SettersMarks
    DEF MarkPost, InBody, TypeInv, TypeOK, StoreTypeOK, Marked, Key
  <1> HIDE DEF st
  <1>3. Save(st, ok)
    BY <1>1 DEF st
  <1>4. /\ DOMAIN mem'.postsDelivered \subseteq DOMAIN st.postsDelivered
        /\ DOMAIN disk'.postsDelivered
              \subseteq DOMAIN st.postsDelivered \cup DOMAIN disk.postsDelivered
        /\ now <= Retention => DOMAIN mem'.postsDelivered = DOMAIN st.postsDelivered
    BY <1>2, <1>3, SaveMarks DEF TypeInv, TypeOK
  <1>5. UNCHANGED <<now, copies, crashes, lost>> /\ pc' \in {"hash", "idle"}
    BY <1>1 DEF MarkPost, Save, Idle, historyVars
  <1> QED
    BY <1>2, <1>4, <1>5 DEF Marked

(* Acceptance counts one more copy of the current post, and of no other.   *)
LEMMA AcceptStep ==
  ASSUME TypeInv, ReplyAccepted \/ ReplyLost
  PROVE  /\ UNCHANGED storeVars
         /\ Key \in Keys
         /\ \A k \in Keys : copies[k] \in Nat
         /\ copies'[Key] = copies[Key] + 1
         /\ \A k \in Keys \ {Key} : copies'[k] = copies[k]
         /\ pc = "reply"
         /\ ReplyAccepted => /\ pc' = "mark" /\ Key' = Key
                             /\ UNCHANGED <<crashes, lost>>
         /\ ReplyLost => /\ pc' = "scan"
                         /\ crashes' = crashes /\ lost' = lost + 1
  <1>1. Key \in Keys
    BY KeyType DEF ReplyAccepted, ReplyLost, InBody
  <1>2. copies \in [Keys -> Nat]
    BY DEF TypeInv, TypeOK
  <1>3. copies' = [copies EXCEPT ![Key] = @ + 1]
    BY DEF ReplyAccepted, ReplyLost, Accept, Key
  <1>4. /\ copies'[Key] = copies[Key] + 1
        /\ \A k \in Keys \ {Key} : copies'[k] = copies[k]
    BY <1>1, <1>2, <1>3
  <1> QED
    BY <1>1, <1>2, <1>4 DEF ReplyAccepted, ReplyLost, NextPost, Key, storeVars

(* Marks are keys.                                                         *)
LEMMA MarkedType ==
  ASSUME TypeInv
  PROVE  Marked \subseteq Keys /\ DOMAIN disk.postsDelivered \subseteq Keys
  BY DEF TypeInv, TypeOK, StoreTypeOK, IsState, IsMap, Marked, Keys

(* Every step keeps accepted posts and marks in agreement.                 *)
LEMMA DedupStep ==
  ASSUME TypeInv, DedupInv, [Next]_vars
  PROVE  DedupInv'
  <1>1. CASE Quiet
    BY <1>1, QuietStep DEF DedupInv, MarkedIsAccepted, Marked, storeVars
  <1>2. CASE OtherSave
    BY <1>2, OtherSaveStep DEF DedupInv, MarkedIsAccepted
  <1>3. CASE MarkPost
    <2>1. pc = "mark"
      BY <1>3 DEF MarkPost
    <2> QED
      BY <1>3, <2>1, MarkPostStep DEF DedupInv, MarkedIsAccepted
  <1>4. CASE ReplyAccepted \/ ReplyLost
    <2>1. \A k \in Keys : copies[k] > 0 => copies'[k] > 0
      BY <1>4, AcceptStep
    <2>2. MarkedIsAccepted'
      BY <1>4, <2>1, AcceptStep, MarkedType
      DEF DedupInv, MarkedIsAccepted, Marked, storeVars
    <2> QED
      BY <1>4, <2>2, AcceptStep DEF DedupInv
  <1>5. CASE Crash
    BY <1>5 DEF Crash, Load, Idle, DedupInv, MarkedIsAccepted, Marked
  <1>6. CASE TimePasses
    BY <1>6 DEF TimePasses, Tick, DedupInv, MarkedIsAccepted, Marked, Key,
                passVars, historyVars
  <1> QED
    BY <1>1, <1>2, <1>3, <1>4, <1>5, <1>6
    DEF Next, PassStep, Environment, Quiet, OtherSave

(* Every step keeps the bound on duplicates.                               *)
LEMMA BoundStep ==
  ASSUME TypeInv, DedupInv, BoundInv, [Next]_vars
  PROVE  BoundInv'
  <1>0. /\ now \in Nat /\ crashes \in Nat /\ lost \in Nat
        /\ copies \in [Keys -> Nat]
        /\ Retention \in Nat
    BY ForwardAssumption, StoreAssumption DEF TypeInv, TypeOK, StoreTypeOK
  <1>1. CASE Quiet
    <2>1. \A k \in Keys : Outstanding(k)' => Outstanding(k)
      BY <1>1, QuietStep DEF Outstanding, Marked, storeVars
    <2> QED
      BY <1>1, <2>1, QuietStep DEF BoundInv, storeVars
  <1>2. CASE OtherSave
    <2>1. now <= Retention => \A k \in Keys : Outstanding(k)' => Outstanding(k)
      BY <1>2, OtherSaveStep DEF Outstanding, Key
    <2> QED
      BY <1>2, <2>1, OtherSaveStep DEF BoundInv
  <1>3. CASE MarkPost
    <2>1. now <= Retention => \A k \in Keys : Outstanding(k)' => Outstanding(k)
      BY <1>3, MarkPostStep DEF Outstanding, Key
    <2> QED
      BY <1>3, <2>1, MarkPostStep DEF BoundInv
  <1>4. CASE ReplyAccepted
    <2>1. Outstanding(Key)
      BY <1>4, AcceptStep DEF DedupInv, Outstanding
    <2>2. \A k \in Keys : Outstanding(k)' => Outstanding(k) /\ k # Key
      BY <1>4, AcceptStep DEF Outstanding, Marked, storeVars
    <2> QED
      BY <1>0, <1>4, <2>1, <2>2, AcceptStep DEF BoundInv, storeVars
  <1>5. CASE ReplyLost
    <2>1. Outstanding(Key)
      BY <1>5, AcceptStep DEF DedupInv, Outstanding
    <2>2. \A k \in Keys : Outstanding(k)' => Outstanding(k)
      BY <1>5, AcceptStep DEF Outstanding, Marked, storeVars
    <2> QED
      BY <1>0, <1>5, <2>1, <2>2, AcceptStep DEF BoundInv, storeVars
  <1>6. CASE Crash
    BY <1>0, <1>6 DEF Crash, Load, BoundInv
  <1>7. CASE TimePasses
    <2>1. \A k \in Keys : Outstanding(k)' = Outstanding(k)
      BY <1>7 DEF TimePasses, Tick, Outstanding, Marked, Key, passVars
    <2> QED
      BY <1>0, <1>7, <2>1 DEF TimePasses, Tick, BoundInv, historyVars
  <1> QED
    BY <1>1, <1>2, <1>3, <1>4, <1>5, <1>6, <1>7
    DEF Next, PassStep, Environment, Quiet, OtherSave

(* In the initial state nothing is marked and nothing was accepted.        *)
LEMMA DedupInit == Init => DedupInv /\ BoundInv
  BY DEF Init, StoreInit, NoState, EmptyMap, DedupInv, BoundInv,
         MarkedIsAccepted, Marked, Keys

(* No post is silently dropped: whatever the bridge would skip as already  *)
(* sent, in memory or after a restart, Graft accepted at least once.       *)
THEOREM NothingDropped == Spec => []MarkedIsAccepted
  <1>1. TypeInv /\ DedupInv /\ [Next]_vars => TypeInv' /\ DedupInv'
    BY TypeStep, DedupStep
  <1>2. DedupInv => MarkedIsAccepted
    BY DEF DedupInv
  <1> QED
    BY TypeInit, DedupInit, <1>1, <1>2, PTL DEF Spec

(* Duplicates come from crashes and lost answers only, at most one copy of *)
(* a post in one series for each of them, until marks can be pruned.       *)
THEOREM FewDuplicates == Spec => []DuplicatesBounded
  <1>1. TypeInv /\ DedupInv /\ BoundInv /\ [Next]_vars
          => TypeInv' /\ DedupInv' /\ BoundInv'
    BY TypeStep, DedupStep, BoundStep
  <1>2. BoundInv => DuplicatesBounded
    BY DEF BoundInv, DuplicatesBounded
  <1> QED
    BY TypeInit, DedupInit, <1>1, <1>2, PTL DEF Spec

-----------------------------------------------------------------------------
(* Refinement of Mirror.                                                   *)

(* A step of the pass is a copy, a change of the bookkeeping, or neither.  *)
LEMMA PromiseStep ==
  ASSUME TypeInv, DedupInv, [Next]_vars
  PROVE  [Promise!Next]_(Promise!mirrorVars)
  <1>1. CASE Quiet
    BY <1>1, QuietStep DEF Promise!mirrorVars, Marked, storeVars
  <1>2. CASE OtherSave
    BY <1>2, OtherSaveStep DEF Promise!Next, Promise!Account
  <1>3. CASE MarkPost
    BY <1>3, MarkPostStep DEF MarkPost, DedupInv, Promise!Next, Promise!Account
  <1>4. CASE ReplyAccepted \/ ReplyLost
    <2>1. Key \in Keys /\ Key \notin Marked /\ Marked' = Marked
      BY <1>4, AcceptStep DEF DedupInv, Marked, storeVars
    <2>2. copies' = [copies EXCEPT ![Key] = @ + 1]
      BY <1>4 DEF ReplyAccepted, ReplyLost, Accept, Key
    <2>3. Promise!Copy(Key)
      BY <2>1, <2>2 DEF Promise!Copy
    <2> QED
      BY <2>1, <2>3 DEF Promise!Next
  <1>5. CASE Crash
    <2>1. copies' = copies /\ Marked' = DOMAIN disk.postsDelivered
      BY <1>5 DEF Crash, Load, Marked
    <2> QED
      BY <2>1 DEF DedupInv, MarkedIsAccepted, Promise!Next, Promise!Account
  <1>6. CASE TimePasses
    BY <1>6 DEF TimePasses, Tick, Marked, historyVars, Promise!mirrorVars
  <1> QED
    BY <1>1, <1>2, <1>3, <1>4, <1>5, <1>6
    DEF Next, PassStep, Environment, Quiet, OtherSave

(* The forward direction implements Mirror: a post is never sent while it  *)
(* is marked as sent, and only a post that was accepted becomes marked.    *)
THEOREM ForwardIsMirror == Spec => KeepsPromise
  <1>1. Init => Promise!Init
    BY DEF Init, StoreInit, NoState, EmptyMap, Marked, Keys, Promise!Init
  <1>2. TypeInv /\ DedupInv /\ [Next]_vars
          => TypeInv' /\ DedupInv' /\ [Promise!Next]_(Promise!mirrorVars)
    BY TypeStep, DedupStep, PromiseStep
  <1> QED
    BY TypeInit, DedupInit, <1>1, <1>2, PTL DEF Spec, KeepsPromise, Promise!Spec

-----------------------------------------------------------------------------
(* The delivery cap.  In the loop the comments of this pass are the ones   *)
(* it counted, the ones it does not know of, and the one in flight.        *)

CapInv ==
  Cap > 0 =>
    /\ burst <= Cap + lost
    /\ sent <= Cap
    /\ InBody => sent < Cap
    /\ pc \in {"fetch", "scan", "dedup", "reply"} => burst <= sent + lost
    /\ pc \in {"mark", "hash"} => burst <= sent + 1 + lost

(* Every step keeps the count.                                             *)
LEMMA CapStep ==
  ASSUME TypeInv, CapInv, [Next]_vars
  PROVE  CapInv'
  <1>0. Cap \in Nat /\ burst \in Nat /\ sent \in Nat /\ lost \in Nat /\ pc \in PCs
    BY ForwardAssumption DEF TypeInv, TypeOK
  <1> USE <1>0 DEF CapInv, InBody, PCs, historyVars, passVars
  <1>1. CASE Begin
    BY <1>1 DEF Begin, TypeInv, Located
  <1>2. CASE FetchPosts
    BY <1>2 DEF FetchPosts, TypeInv, Located
  <1>3. CASE FetchFails \/ EndPass
    BY <1>3 DEF FetchFails, EndPass, Idle
  <1>4. CASE Skip \/ Pick \/ Dedup
    BY <1>4 DEF Skip, Pick, Dedup, InLoop, CapReached, NextPost
  <1>5. CASE ReplyAccepted
    BY <1>5 DEF ReplyAccepted, Accept
  <1>6. CASE ReplyRefused
    BY <1>6 DEF ReplyRefused, NextPost
  <1>7. CASE ReplyLost
    BY <1>7 DEF ReplyLost, Accept, NextPost
  <1>8. CASE MarkPost
    <2>1. CASE pc' = "hash"
      BY <1>8, <2>1 DEF MarkPost, Idle
    <2>2. CASE pc' # "hash"
      BY <1>8, <2>2 DEF MarkPost, Idle
    <2> QED
      BY <2>1, <2>2
  <1>9. CASE MarkHash
    <2>1. CASE pc' = "scan"
      BY <1>9, <2>1 DEF MarkHash, NextPost, Idle
    <2>2. CASE pc' # "scan"
      BY <1>9, <2>2 DEF MarkHash, NextPost, Idle
    <2> QED
      BY <2>1, <2>2
  <1>10. CASE Crash
    BY <1>10 DEF Crash, Idle
  <1>11. CASE UserPosts \/ UserEdits \/ Bind \/ Unbind \/ TimePasses
    BY <1>11 DEF UserPosts, UserEdits, Bind, Unbind, TimePasses
  <1>12. CASE UNCHANGED vars
    BY <1>12 DEF vars
  <1> QED
    BY <1>1, <1>2, <1>3, <1>4, <1>5, <1>6, <1>7, <1>8, <1>9, <1>10, <1>11, <1>12
    DEF Next, PassStep, Environment

(* max_deliveries_per_pass bounds the comments of a pass, up to the ones   *)
(* whose answer was lost.                                                  *)
THEOREM CapHolds == Spec => []CapRespected
  <1>1. Init => CapInv
    BY ForwardAssumption DEF Init, CapInv, InBody
  <1>2. TypeInv /\ CapInv /\ [Next]_vars => TypeInv' /\ CapInv'
    BY TypeStep, CapStep
  <1>3. CapInv => CapRespected
    BY DEF CapInv, CapRespected
  <1> QED
    BY TypeInit, <1>1, <1>2, <1>3, PTL DEF Spec

-----------------------------------------------------------------------------
(* The echo guard.  Every mark is at most as old as the hash of its post,  *)
(* because MarkDelivered follows MarkPostDelivered and overwrites the      *)
(* timestamp: whatever prune removes, the mark goes first.                 *)

Undisturbed == crashes = 0 /\ SaveOutcomes = {TRUE} /\ Edits = {}

Covered(k) == /\ HashOf(posts[k[2]]) \in DOMAIN mem.delivered
              /\ mem.delivered[HashOf(posts[k[2]])] >= mem.postsDelivered[k]

EchoInv ==
  Undisturbed =>
    /\ Len(batch) <= Len(posts)
    /\ \A p \in 1..Len(batch) : batch[p] = posts[p]
    /\ \A k \in Marked : /\ k[2] \in 1..Len(posts)
                         /\ mem.postsDelivered[k] <= now
                         /\ Covered(k) \/ (pc = "hash" /\ k = Key)

(* A save of a struct in which marks are covered leaves them covered.      *)
LEMMA SaveCovers ==
  ASSUME TypeInv, NEW st, IsState(st), Save(st, TRUE), UNCHANGED posts,
         NEW k \in Marked',
         HashOf(posts[k[2]]) \in DOMAIN st.delivered,
         st.delivered[HashOf(posts[k[2]])] >= st.postsDelivered[k]
  PROVE  Covered(k)'
  <1> DEFINE h == HashOf(posts[k[2]])
  <1>1. /\ mem'.delivered = Fresh(st.delivered)
        /\ mem'.postsDelivered = Fresh(st.postsDelivered)
    BY PrunedType DEF Save
  <1>2. IsMap(st.delivered, Hashes, Nat) /\ IsMap(st.postsDelivered, Keys, Nat)
    BY DEF IsState, Keys
  <1>3. /\ k \in DOMAIN st.postsDelivered
        /\ st.postsDelivered[k] >= now - Retention
        /\ mem'.postsDelivered[k] = st.postsDelivered[k]
    BY <1>1, <1>2, FreshType DEF Marked
  <1>4. h \in DOMAIN st.delivered /\ st.delivered[h] >= st.postsDelivered[k]
    OBVIOUS
  <1>5. now \in Nat /\ Retention \in Nat
    BY StoreAssumption DEF TypeInv, TypeOK, StoreTypeOK
  <1>6. st.delivered[h] \in Nat /\ st.postsDelivered[k] \in Nat
    BY <1>2, <1>3, <1>4 DEF IsMap
  <1>7. st.delivered[h] >= now - Retention
    BY <1>3, <1>4, <1>5, <1>6
  <1>8. h \in DOMAIN Fresh(st.delivered) /\ Fresh(st.delivered)[h] = st.delivered[h]
    BY <1>2, <1>4, <1>7, FreshType
  <1>9. h' = h
    BY DEF HashOf
  <1> QED
    BY <1>1, <1>3, <1>4, <1>8, <1>9 DEF Covered

(* A save keeps the age of the marks it keeps.                             *)
LEMMA SaveAges ==
  ASSUME TypeInv, NEW st, IsState(st), NEW ok \in BOOLEAN, Save(st, ok), NEW k \in Marked'
  PROVE  /\ k \in DOMAIN st.postsDelivered
         /\ mem'.postsDelivered[k] = st.postsDelivered[k]
  <1>1. mem'.postsDelivered = Fresh(st.postsDelivered)
    BY PrunedType DEF Save
  <1> QED
    BY <1>1, FreshType DEF Marked, IsState

(* Every step keeps the marks covered.                                     *)
LEMMA EchoStep ==
  ASSUME TypeInv, EchoInv, [Next]_vars
  PROVE  EchoInv'
  <1> SUFFICES ASSUME Undisturbed'
               PROVE  /\ Len(batch') <= Len(posts')
                      /\ \A p \in 1..Len(batch') : batch'[p] = posts'[p]
                      /\ \A k \in Marked' : /\ k[2] \in 1..Len(posts')
                                            /\ mem'.postsDelivered[k] <= now'
                                            /\ Covered(k)' \/ (pc' = "hash" /\ k = Key')
    BY DEF EchoInv
  <1>0. Undisturbed /\ ~Crash
    <2>1. crashes \in Nat
      BY DEF TypeInv, TypeOK
    <2>2. ~Crash
      BY <2>1 DEF Crash, Undisturbed
    <2>3. CASE Quiet \/ OtherSave \/ MarkPost \/ ReplyAccepted \/ ReplyLost
      BY <2>2, <2>3, QuietStep, OtherSaveStep, MarkPostStep, AcceptStep DEF Undisturbed
    <2>4. CASE TimePasses
      BY <2>2, <2>4 DEF TimePasses, historyVars, Undisturbed
    <2> QED
      BY <2>2, <2>3, <2>4
      DEF Next, PassStep, Environment, Quiet, OtherSave
  <1>a. /\ Len(batch) <= Len(posts)
        /\ \A p \in 1..Len(batch) : batch[p] = posts[p]
        /\ \A k \in Marked : /\ k[2] \in 1..Len(posts)
                             /\ mem.postsDelivered[k] <= now
                             /\ Covered(k) \/ (pc = "hash" /\ k = Key)
    BY <1>0 DEF EchoInv
  <1>b. /\ now \in Nat /\ posts \in Seq(Posts) /\ batch \in Seq(Posts)
        /\ IsState(mem) /\ IsMap(mem.postsDelivered, Keys, Nat)
    BY DEF TypeInv, TypeOK, StoreTypeOK, IsState, Keys
  <1> USE DEF passVars, historyVars, storeVars
  <1>1. CASE Begin \/ FetchPosts \/ FetchFails \/ EndPass
    <2>1. UNCHANGED <<mem, now, posts>> /\ pc # "hash" /\ (batch' = batch \/ batch' = posts \/ batch' = <<>>)
      BY <1>1 DEF Begin, FetchPosts, FetchFails, EndPass, Idle
    <2>2. \A k \in Marked' : k \in Marked /\ Covered(k)'
      BY <1>a, <2>1 DEF Covered, Marked, HashOf
    <2> QED
      BY <1>a, <1>b, <2>1, <2>2
  <1>2. CASE Skip \/ Pick \/ Dedup \/ ReplyAccepted \/ ReplyRefused \/ ReplyLost
    <2>1. UNCHANGED <<mem, now, posts, batch>> /\ pc # "hash"
      BY <1>2 DEF Skip, Pick, Dedup, ReplyAccepted, ReplyRefused, ReplyLost, NextPost, InLoop
    <2>2. \A k \in Marked' : k \in Marked /\ Covered(k)'
      BY <1>a, <2>1 DEF Covered, Marked, HashOf
    <2> QED
      BY <1>a, <2>1, <2>2
  <1>3. CASE MarkPost
    <2>1. /\ Save(MarkPostDelivered(mem, SeriesOf[target], at), TRUE)
          /\ UNCHANGED <<posts, batch, at, target>>
          /\ pc = "mark" /\ pc' = "hash"
      BY <1>0, <1>3 DEF MarkPost, Undisturbed
    <2> DEFINE st == MarkPostDelivered(mem, SeriesOf[target], at)
    <2>2. /\ IsState(st)
          /\ DOMAIN st.postsDelivered = Marked \cup {Key}
          /\ st.delivered = mem.delivered
          /\ \A k \in Marked \ {Key} : st.postsDelivered[k] = mem.postsDelivered[k]
          /\ st.postsDelivered[Key] = now
      <3>1. IsState(st)
        BY <1>b, <2>1, KeyType, SettersType DEF InBody
      <3> QED
        BY <1>b, <3>1 DEF MarkPostDelivered, Put, Key, Marked, IsState
    <2>3. at \in 1..Len(batch) /\ Key' = Key /\ Key[2] = at
      BY <2>1 DEF TypeInv, Located, InBody, Key
    <2>4. Save(st, TRUE)
      BY <2>1
    <2> HIDE DEF st
    <2>5. ASSUME NEW k \in Marked'
          PROVE  /\ k[2] \in 1..Len(posts')
                 /\ mem'.postsDelivered[k] <= now'
                 /\ Covered(k)' \/ (pc' = "hash" /\ k = Key')
      <3>1. k \in Marked \cup {Key} /\ mem'.postsDelivered[k] = st.postsDelivered[k]
        BY <2>2, <2>4, SaveAges
      <3>2. CASE k = Key
        BY <1>a, <1>b, <2>1, <2>2, <2>3, <2>4, <3>1, <3>2 DEF Save
      <3>3. CASE k # Key
        <4>1. Covered(k) /\ k[2] \in 1..Len(posts) /\ mem.postsDelivered[k] <= now
          BY <1>a, <2>1, <3>1, <3>3
        <4>2. Covered(k)'
          BY <2>1, <2>2, <2>4, <3>1, <3>3, <4>1, SaveCovers DEF Covered
        <4> QED
          BY <2>1, <2>2, <2>4, <3>1, <3>3, <4>1, <4>2 DEF Save
      <3> QED
        BY <3>2, <3>3
    <2> QED
      BY <1>a, <2>1, <2>5
  <1>4. CASE MarkHash
    <2>1. /\ Save(MarkDelivered(mem, HashOf(batch[at])), TRUE)
          /\ UNCHANGED <<posts, batch>>
          /\ pc = "hash"
      BY <1>0, <1>4 DEF MarkHash, NextPost, Undisturbed
    <2>2. at \in 1..Len(batch) /\ batch[at] = posts[at] /\ Key[2] = at
      BY <1>a, <2>1 DEF TypeInv, Located, InBody, Key
    <2> DEFINE st == MarkDelivered(mem, HashOf(batch[at]))
    <2>3. /\ IsState(st)
          /\ st.postsDelivered = mem.postsDelivered
          /\ DOMAIN st.delivered = DOMAIN mem.delivered \cup {HashOf(posts[at])}
          /\ st.delivered[HashOf(posts[at])] = now
          /\ \A h \in DOMAIN mem.delivered \ {HashOf(posts[at])} :
               st.delivered[h] = mem.delivered[h]
      <3>1. IsState(st)
        BY <1>b, <2>2, BatchType, SettersType
      <3> QED
        BY <1>b, <2>2, <3>1 DEF MarkDelivered, Put, IsState
    <2>4. Save(st, TRUE)
      BY <2>1
    <2> HIDE DEF st
    <2>5. ASSUME NEW k \in Marked'
          PROVE  /\ k[2] \in 1..Len(posts')
                 /\ mem'.postsDelivered[k] <= now'
                 /\ Covered(k)'
      <3>1. k \in Marked /\ mem'.postsDelivered[k] = mem.postsDelivered[k]
        BY <2>3, <2>4, SaveAges DEF Marked
      <3>2. k[2] \in 1..Len(posts) /\ mem.postsDelivered[k] <= now
        BY <1>a, <3>1
      <3>3. /\ HashOf(posts[k[2]]) \in DOMAIN st.delivered
            /\ st.delivered[HashOf(posts[k[2]])] >= st.postsDelivered[k]
        <4>1. CASE HashOf(posts[k[2]]) = HashOf(posts[at])
          BY <1>b, <2>3, <3>1, <3>2, <4>1
        <4>2. CASE HashOf(posts[k[2]]) # HashOf(posts[at])
          <5>1. Covered(k)
            BY <1>a, <2>2, <3>1, <4>2
          <5> QED
            BY <2>3, <4>2, <5>1 DEF Covered
        <4> QED
          BY <4>1, <4>2
      <3>4. Covered(k)'
        BY <2>1, <2>3, <2>4, <3>3, SaveCovers
      <3> QED
        BY <2>1, <2>4, <3>1, <3>2, <3>4 DEF Save
    <2> QED
      BY <1>a, <1>4, <2>1, <2>5
  <1>5. CASE Bind \/ Unbind
    <2>1. UNCHANGED <<posts, batch, pc, at, target>>
      BY <1>5 DEF Bind, Unbind
    <2>2. PICK st : /\ IsState(st)
                    /\ st.postsDelivered = mem.postsDelivered
                    /\ st.delivered = mem.delivered
                    /\ Save(st, TRUE)
      <3>0. PICK b \in Bindings, ok \in SaveOutcomes :
              \/ Save(SetTopicNote(mem, b[1], b[2]), ok)
              \/ Save(DeleteTopicNote(mem, b[1]), ok)
        BY <1>5 DEF Bind, Unbind
      <3>1. PICK t \in Topics, i \in Issues :
              Save(SetTopicNote(mem, t, i), TRUE) \/ Save(DeleteTopicNote(mem, t), TRUE)
        <4>1. ok = TRUE
          BY <1>0 DEF Undisturbed
        <4>2. b[1] \in Topics /\ b[2] \in Issues
          BY ForwardAssumption
        <4> QED
          BY <3>0, <4>1, <4>2
      <3>2. CASE Save(SetTopicNote(mem, t, i), TRUE)
        <4> DEFINE st == SetTopicNote(mem, t, i)
        <4>1. /\ IsState(st) /\ st.postsDelivered = mem.postsDelivered
              /\ st.delivered = mem.delivered /\ Save(st, TRUE)
          BY <1>b, <3>2, SettersType DEF SetTopicNote, IsState
        <4> QED
          BY <4>1
      <3>3. CASE Save(DeleteTopicNote(mem, t), TRUE)
        <4> DEFINE st == DeleteTopicNote(mem, t)
        <4>1. /\ IsState(st) /\ st.postsDelivered = mem.postsDelivered
              /\ st.delivered = mem.delivered /\ Save(st, TRUE)
          BY <1>b, <3>3, SettersType DEF DeleteTopicNote, IsState
        <4> QED
          BY <4>1
      <3> QED
        BY <3>1, <3>2, <3>3
    <2>3. ASSUME NEW k \in Marked'
          PROVE  /\ k[2] \in 1..Len(posts)
                 /\ mem'.postsDelivered[k] <= now
                 /\ Covered(k)' \/ (pc = "hash" /\ k = Key)
      <3>1. k \in Marked /\ mem'.postsDelivered[k] = mem.postsDelivered[k]
        BY <2>2, SaveAges DEF Marked
      <3>2. Covered(k) => Covered(k)'
        BY <2>1, <2>2, SaveCovers DEF Covered
      <3> QED
        BY <1>a, <3>1, <3>2
    <2> QED
      BY <1>a, <2>1, <2>2, <2>3 DEF Save, Key
  <1>6. CASE UserPosts
    <2>1. /\ Len(posts') = Len(posts) + 1
          /\ \A p \in 1..Len(posts) : posts'[p] = posts[p]
          /\ UNCHANGED <<mem, now, batch, pc, at, target>>
      BY <1>6, <1>b, ForwardAssumption DEF UserPosts
    <2>2. \A k \in Marked : Covered(k) => Covered(k)'
      BY <1>a, <2>1 DEF Covered, HashOf
    <2> QED
      BY <1>a, <1>b, <2>1, <2>2 DEF Marked, Key
  <1>7. CASE TimePasses
    <2>1. now' = now + 1 /\ UNCHANGED <<mem, posts, batch, pc, at, target>>
      BY <1>7 DEF TimePasses, Tick
    <2>2. \A k \in Marked : mem.postsDelivered[k] \in Nat
      BY <1>b DEF IsMap, Marked
    <2> QED
      BY <1>a, <1>b, <2>1, <2>2 DEF Covered, Marked, Key, HashOf
  <1>8. CASE UNCHANGED vars
    BY <1>a, <1>8 DEF vars, Covered, Marked, Key, HashOf
  <1> QED
    BY <1>0, <1>1, <1>2, <1>3, <1>4, <1>5, <1>6, <1>7, <1>8
    DEF Next, PassStep, Environment, UserEdits, Undisturbed

(* The echo of every post the bridge would not send again is recognisable, *)
(* whatever was pruned, in an undisturbed run.                             *)
THEOREM EchoGuardHolds == Spec => []EchoGuardOutlivesMark
  <1>1. Init => EchoInv
    BY DEF Init, StoreInit, NoState, EmptyMap, EchoInv, Marked
  <1>2. TypeInv /\ EchoInv /\ [Next]_vars => TypeInv' /\ EchoInv'
    BY TypeStep, EchoStep
  <1>3. EchoInv => EchoGuardOutlivesMark
    BY DEF EchoInv, EchoGuardOutlivesMark, Undisturbed, Covered, Key
  <1> QED
    BY TypeInit, <1>1, <1>2, <1>3, PTL DEF Spec

-----------------------------------------------------------------------------
(* No post is passed over, and passes end: the safety half of NoStarvation *)
(* and of the bound on what a pass does.                                   *)

(* The batch stays a beginning of the forum, but for texts, which users    *)
(* edit; and the pass works with a topic list the forum gave.              *)
BatchInv ==
  /\ Len(batch) <= Len(posts)
  /\ \A i \in 1..Len(batch) : /\ batch[i].topic = posts[i].topic
                              /\ batch[i].opening = posts[i].opening
                              /\ batch[i].author = posts[i].author
  /\ pc # "idle" => category \in TopicLists

(* What the loop may pass over: a post it tried to send, one it found sent *)
(* or one it has just marked.                                              *)
Settled(p) == Handled(p) \/ (at = p /\ pc = "hash")

(* The loop never moves past a post that is eligible then and is not       *)
(* settled; where it begins, none is left behind either.                   *)
NoneSkipped ==
  [][\A p \in PostIds : at <= p /\ p < at' /\ Eligible(p) => Settled(p)]_vars

(* An upper bound on the steps the pass still takes.                       *)
StepsLeft == 5 * (MaxForum + 1 - at)
             + (CASE pc = "scan" -> 4 [] pc = "dedup" -> 3 [] pc = "reply" -> 2
                  [] pc = "mark" -> 1 [] OTHER -> 0)

(* Every step of a pass ends it or leaves fewer steps to take, whatever    *)
(* the others do in between.                                               *)
LoopEnds ==
  [][pc # "idle" => pc' = "idle" \/ UNCHANGED passVars \/ StepsLeft' < StepsLeft]_vars

(* Every step keeps the batch one of the forum.                            *)
LEMMA BatchStep ==
  ASSUME TypeInv, BatchInv, [Next]_vars
  PROVE  BatchInv'
  <1>0. posts \in Seq(Posts) /\ batch \in Seq(Posts)
    BY DEF TypeInv, TypeOK
  <1>. USE DEF passVars, historyVars
  <1>1. CASE Begin
    BY <1>1 DEF Begin, BatchInv
  <1>2. CASE FetchPosts
    BY <1>0, <1>2 DEF FetchPosts, BatchInv
  <1>3. CASE FetchFails \/ EndPass \/ Crash
    BY <1>0, <1>3 DEF FetchFails, EndPass, Crash, Idle, BatchInv
  <1>4. CASE Skip \/ Pick \/ ReplyAccepted \/ ReplyRefused \/ ReplyLost
    BY <1>4 DEF Skip, Pick, InLoop, ReplyAccepted, ReplyRefused, ReplyLost, NextPost, BatchInv
  <1>5. CASE Dedup
    BY <1>5 DEF Dedup, NextPost, BatchInv
  <1>6. CASE MarkPost \/ MarkHash
    <2>1. posts' = posts /\ pc # "idle"
      BY <1>6 DEF MarkPost, MarkHash
    <2>2. CASE MarkPost
      BY <2>1, <2>2 DEF MarkPost, Idle, BatchInv
    <2>3. CASE MarkHash
      BY <2>1, <2>3 DEF MarkHash, NextPost, Idle, BatchInv
    <2>. QED
      BY <1>6, <2>2, <2>3
  <1>7. CASE UserPosts
    <2>1. PICK d \in Drafts : posts' = Append(posts, d)
      BY <1>7 DEF UserPosts
    <2>2. UNCHANGED passVars
      BY <1>7 DEF UserPosts
    <2>3. Len(posts') = Len(posts) + 1 /\ \A i \in 1..Len(posts) : posts'[i] = posts[i]
      BY <1>0, <2>1, ForwardAssumption
    <2>. QED
      BY <1>0, <2>2, <2>3 DEF BatchInv
  <1>8. CASE UserEdits
    <2>1. PICK p \in DOMAIN posts, x \in Edits : posts' = [posts EXCEPT ![p].text = x]
      BY <1>8 DEF UserEdits
    <2>2. UNCHANGED passVars
      BY <1>8 DEF UserEdits
    <2>3. Len(posts') = Len(posts)
      BY <1>0, <2>1
    <2>4. \A i \in 1..Len(posts) : /\ posts'[i].topic = posts[i].topic
                                   /\ posts'[i].opening = posts[i].opening
                                   /\ posts'[i].author = posts[i].author
      BY <1>0, <2>1 DEF Posts
    <2>. QED
      BY <1>0, <2>2, <2>3, <2>4 DEF BatchInv
  <1>9. CASE Bind \/ Unbind \/ TimePasses \/ UNCHANGED vars
    BY <1>9 DEF Bind, Unbind, TimePasses, vars, BatchInv
  <1>. QED
    BY <1>1, <1>2, <1>3, <1>4, <1>5, <1>6, <1>7, <1>8, <1>9 DEF Next, PassStep, Environment

(* The loop skips no eligible post.                                        *)
LEMMA SkipIsRight ==
  ASSUME TypeInv, BatchInv, Skip
  PROVE  ~Eligible(at)
  <1>1. at \in 1..Len(batch) /\ pc = "scan" /\ (Wanted(batch[at]) => ~Mapped(batch[at].topic))
    BY DEF Skip, InLoop, TypeInv, TypeOK, Located
  <1>2. /\ batch[at].topic = posts[at].topic
        /\ batch[at].opening = posts[at].opening
        /\ batch[at].author = posts[at].author
        /\ category \in TopicLists
    BY <1>1 DEF BatchInv
  <1>3. ASSUME Eligible(at)
        PROVE  FALSE
    <2>1. CategoryAllowed(CategoryOf(posts[at].topic))
      BY <1>2, <1>3 DEF Eligible, CategoryOf
    <2>2. Wanted(batch[at]) /\ Mapped(batch[at].topic)
      BY <1>2, <1>3, <2>1 DEF Wanted, Eligible
    <2>. QED
      BY <1>1, <2>2
  <1>. QED
    BY <1>3

(* A step moves the loop past an eligible post only when it is settled.    *)
LEMMA SettledStep ==
  ASSUME TypeInv, BatchInv, [Next]_vars, NEW p \in PostIds, at <= p, p < at', Eligible(p)
  PROVE  Settled(p)
  <1>0. at \in Nat /\ p \in Nat /\ p >= 1
    BY ForwardAssumption DEF TypeInv, TypeOK
  <1>. USE DEF passVars, historyVars
  <1>1. CASE FetchPosts
    BY <1>0, <1>1 DEF FetchPosts, Eligible, OldestIn, TypeInv, TypeOK
  <1>2. CASE FetchFails \/ EndPass \/ Crash
    BY <1>0, <1>2 DEF FetchFails, EndPass, Crash, Idle
  <1>3. CASE Skip
    <2>1. p = at
      BY <1>0, <1>3 DEF Skip, NextPost
    <2>. QED
      BY <1>3, <2>1, SkipIsRight
  <1>4. CASE Dedup
    <2>1. pc = "dedup" /\ PostDelivered(SeriesOf[target], at) /\ p = at
      BY <1>0, <1>4 DEF Dedup, NextPost
    <2>. QED
      BY <2>1 DEF Settled, Handled
  <1>5. CASE ReplyRefused \/ ReplyLost
    <2>1. pc = "reply" /\ p = at
      BY <1>0, <1>5 DEF ReplyRefused, ReplyLost, NextPost
    <2>. QED
      BY <2>1 DEF Settled, Handled
  <1>6. CASE MarkHash
    <2>1. pc = "hash" /\ p = at
      BY <1>0, <1>6 DEF MarkHash, NextPost, Idle
    <2>. QED
      BY <2>1 DEF Settled
  <1>7. CASE MarkPost
    BY <1>0, <1>7 DEF MarkPost, Idle
  <1>8. CASE Begin \/ Pick \/ ReplyAccepted
    BY <1>0, <1>8 DEF Begin, Pick, ReplyAccepted
  <1>9. CASE UserPosts \/ UserEdits \/ Bind \/ Unbind \/ TimePasses \/ UNCHANGED vars
    BY <1>0, <1>9 DEF UserPosts, UserEdits, Bind, Unbind, TimePasses, vars
  <1>. QED
    BY <1>1, <1>2, <1>3, <1>4, <1>5, <1>6, <1>7, <1>8, <1>9 DEF Next, PassStep, Environment

(* forwardDiscourseToGraft, the loop: whatever was bound, edited, written, *)
(* refused or lost meanwhile, a pass that gets beyond a post which is      *)
(* eligible at that moment has tried to send it or knows it as sent.       *)
THEOREM NoPostIsSkipped == Spec => NoneSkipped
  <1>1. Init => BatchInv
    BY DEF Init, BatchInv
  <1>2. TypeInv /\ BatchInv /\ [Next]_vars => TypeInv' /\ BatchInv'
    BY TypeStep, BatchStep
  <1>3. TypeInv /\ BatchInv /\ [Next]_vars =>
          [\A p \in PostIds : at <= p /\ p < at' /\ Eligible(p) => Settled(p)]_vars
    BY SettledStep
  <1>. QED
    BY TypeInit, <1>1, <1>2, <1>3, PTL DEF Spec, NoneSkipped

(* A step of the pass that does not end it leaves fewer.                   *)
LEMMA ShorterStep ==
  ASSUME TypeInv, [Next]_vars, pc # "idle", pc' # "idle", ~UNCHANGED passVars
  PROVE  StepsLeft' < StepsLeft
  <1>0. at \in Nat /\ MaxForum \in Nat /\ (pc = "fetch" => at = 0)
    BY ForwardAssumption DEF TypeInv, TypeOK, Located
  <1>1. \/ pc = "fetch" /\ pc' = "scan" /\ at' \in Nat \ {0}
        \/ pc = "scan" /\ pc' = "dedup" /\ at' = at
        \/ pc = "dedup" /\ pc' = "reply" /\ at' = at
        \/ pc = "reply" /\ pc' = "mark" /\ at' = at
        \/ pc = "mark" /\ pc' = "hash" /\ at' = at
        \/ pc' = "scan" /\ at' = at + 1
    <2>1. CASE FetchPosts
      BY <2>1, ForwardAssumption DEF FetchPosts, OldestIn, TypeInv, TypeOK
    <2>2. CASE Skip \/ Pick \/ Dedup \/ ReplyAccepted \/ ReplyRefused \/ ReplyLost
      BY <2>2 DEF Skip, Pick, InLoop, Dedup, ReplyAccepted, ReplyRefused, ReplyLost, NextPost
    <2>3. CASE MarkPost \/ MarkHash
      BY <2>3 DEF MarkPost, MarkHash, NextPost, Idle
    <2>4. CASE Begin \/ FetchFails \/ EndPass \/ Crash
      BY <2>4 DEF Begin, FetchFails, EndPass, Crash, Idle
    <2>5. CASE UserPosts \/ UserEdits \/ Bind \/ Unbind \/ TimePasses \/ UNCHANGED vars
      BY <2>5 DEF UserPosts, UserEdits, Bind, Unbind, TimePasses, vars, passVars
    <2>. QED
      BY <2>1, <2>2, <2>3, <2>4, <2>5 DEF Next, PassStep, Environment
  <1>. QED
    BY <1>0, <1>1 DEF StepsLeft

(* forwardDiscourseToGraft is bounded: the steps a pass may still take are *)
(* a number, and each it takes makes it smaller or is the pass's last.     *)
THEOREM PassesAreBounded == Spec => [](StepsLeft \in Nat) /\ LoopEnds
  <1>1. TypeInv /\ [Next]_vars => TypeInv'
    BY TypeStep
  <1>2. TypeInv => StepsLeft \in Nat
    <2>1. ASSUME TypeInv
          PROVE  MaxForum + 1 - at \in Nat
      BY <2>1, ForwardAssumption DEF TypeInv, TypeOK
    <2>. QED
      BY <2>1 DEF StepsLeft
  <1>3. TypeInv /\ [Next]_vars =>
          [pc # "idle" => pc' = "idle" \/ UNCHANGED passVars \/ StepsLeft' < StepsLeft]_vars
    BY ShorterStep
  <1>. QED
    BY TypeInit, <1>1, <1>2, <1>3, PTL DEF Spec, LoopEnds
=============================================================================
