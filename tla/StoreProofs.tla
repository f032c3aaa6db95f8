---------------------------- MODULE StoreProofs ----------------------------
(***************************************************************************)
(* Lemmas about the state store: the setters keep the struct well formed,  *)
(* a save keeps every fresh entry of a dedup set, invents none, and leaves *)
(* mappings and links alone.  They hold for any number of topics, series,  *)
(* posts and comments.                                                     *)
(***************************************************************************)
EXTENDS Store, TLAPS

(* Assigning one entry of a map keeps its type.                            *)
LEMMA PutType ==
  ASSUME NEW K, NEW V, NEW m, IsMap(m, K, V), NEW k \in K, NEW v \in V
  PROVE  IsMap(Put(m, k, v), K, V)
  BY DEF IsMap, Put

(* Deleting entries of a map keeps its type.                               *)
LEMMA RestrictType ==
  ASSUME NEW K, NEW V, NEW m, IsMap(m, K, V), NEW S, S \subseteq DOMAIN m
  PROVE  IsMap(Restrict(m, S), K, V)
  BY DEF IsMap, Restrict

(* Pruning a dedup set keeps its type and removes old entries only.        *)
LEMMA FreshType ==
  ASSUME NEW K, NEW m, IsMap(m, K, Nat)
  PROVE  /\ IsMap(Fresh(m), K, Nat)
         /\ DOMAIN Fresh(m) = {k \in DOMAIN m : m[k] >= now - Retention}
         /\ \A k \in DOMAIN Fresh(m) : Fresh(m)[k] = m[k]
  BY RestrictType DEF Fresh, Restrict, IsMap

(* The empty struct is well formed.                                        *)
LEMMA NoStateType == IsState(NoState)
  BY DEF IsState, IsMap, NoState, EmptyMap

(* prune keeps the struct well formed.                                     *)
LEMMA PrunedType ==
  ASSUME NEW st, IsState(st)
  PROVE  /\ IsState(Pruned(st))
         /\ Pruned(st).topicNotes = st.topicNotes
         /\ Pruned(st).issueTopics = st.issueTopics
         /\ Pruned(st).delivered = Fresh(st.delivered)
         /\ Pruned(st).postsDelivered = Fresh(st.postsDelivered)
         /\ Pruned(st).seenNotes = Fresh(st.seenNotes)
  <1>1. /\ IsMap(Fresh(st.delivered), Hashes, Nat)
        /\ IsMap(Fresh(st.postsDelivered), Series \X PostIds, Nat)
        /\ IsMap(Fresh(st.seenNotes), Series \X CommentIds, Nat)
    BY FreshType DEF IsState
  <1> QED
    BY <1>1 DEF IsState, Pruned

(* A save, successful or not, keeps memory and file well formed.           *)
LEMMA SaveType ==
  ASSUME StoreTypeOK, NEW st, IsState(st), NEW ok \in BOOLEAN, Save(st, ok)
  PROVE  StoreTypeOK'
  <1>1. IsState(Pruned(st))
    BY PrunedType
  <1>2. IsState(mem')
    BY <1>1 DEF Save
  <1>3. IsState(disk')
    BY <1>1 DEF Save, StoreTypeOK
  <1> QED
    BY <1>2, <1>3 DEF Save, StoreTypeOK, IsState

(* A save invents no entry of PostsDelivered, in memory or on disk, and     *)
(* forgets none before the clock has passed the retention once.            *)
LEMMA SaveMarks ==
  ASSUME StoreTypeOK, NEW st, IsState(st), NEW ok \in BOOLEAN, Save(st, ok)
  PROVE  /\ DOMAIN mem'.postsDelivered \subseteq DOMAIN st.postsDelivered
         /\ DOMAIN disk'.postsDelivered
              \subseteq DOMAIN st.postsDelivered \cup DOMAIN disk.postsDelivered
         /\ now <= Retention =>
              DOMAIN mem'.postsDelivered = DOMAIN st.postsDelivered
  <1>1. mem'.postsDelivered = Fresh(st.postsDelivered)
    BY PrunedType DEF Save
  <1>2. disk'.postsDelivered = IF ok THEN Fresh(st.postsDelivered)
                                     ELSE disk.postsDelivered
    BY PrunedType DEF Save
  <1>3. IsMap(st.postsDelivered, Series \X PostIds, Nat)
    BY DEF IsState
  <1>4. DOMAIN Fresh(st.postsDelivered)
          = {k \in DOMAIN st.postsDelivered : st.postsDelivered[k] >= now - Retention}
    BY <1>3, FreshType
  <1>5. ASSUME now <= Retention, NEW k \in DOMAIN st.postsDelivered
        PROVE  st.postsDelivered[k] >= now - Retention
    BY <1>3, <1>5, StoreAssumption DEF IsMap, StoreTypeOK
  <1> QED
    BY <1>1, <1>2, <1>4, <1>5

(* The same of SeenNotes.                                                  *)
LEMMA SaveSeen ==
  ASSUME StoreTypeOK, NEW st, IsState(st), NEW ok \in BOOLEAN, Save(st, ok)
  PROVE  /\ DOMAIN mem'.seenNotes \subseteq DOMAIN st.seenNotes
         /\ DOMAIN disk'.seenNotes
              \subseteq DOMAIN st.seenNotes \cup DOMAIN disk.seenNotes
         /\ now <= Retention => DOMAIN mem'.seenNotes = DOMAIN st.seenNotes
  <1>1. mem'.seenNotes = Fresh(st.seenNotes)
    BY PrunedType DEF Save
  <1>2. disk'.seenNotes = IF ok THEN Fresh(st.seenNotes) ELSE disk.seenNotes
    BY PrunedType DEF Save
  <1>3. IsMap(st.seenNotes, Series \X CommentIds, Nat)
    BY DEF IsState
  <1>4. DOMAIN Fresh(st.seenNotes)
          = {k \in DOMAIN st.seenNotes : st.seenNotes[k] >= now - Retention}
    BY <1>3, FreshType
  <1>5. ASSUME now <= Retention, NEW k \in DOMAIN st.seenNotes
        PROVE  st.seenNotes[k] >= now - Retention
    BY <1>3, <1>5, StoreAssumption DEF IsMap, StoreTypeOK
  <1> QED
    BY <1>1, <1>2, <1>4, <1>5

(* Nor does it forget a content hash before the clock has passed the       *)
(* retention once.                                                         *)
LEMMA SaveHashes ==
  ASSUME StoreTypeOK, NEW st, IsState(st), NEW ok \in BOOLEAN, Save(st, ok), now <= Retention
  PROVE  DOMAIN mem'.delivered = DOMAIN st.delivered
  <1>1. mem'.delivered = Fresh(st.delivered)
    BY PrunedType DEF Save
  <1>2. IsMap(st.delivered, Hashes, Nat)
    BY DEF IsState
  <1>3. ASSUME NEW k \in DOMAIN st.delivered
        PROVE  st.delivered[k] >= now - Retention
    BY <1>2, StoreAssumption DEF IsMap, StoreTypeOK
  <1> QED
    BY <1>1, <1>2, <1>3, FreshType

(* A save does not touch mappings and links.                               *)
LEMMA SaveBindings ==
  ASSUME NEW st, IsState(st), NEW ok \in BOOLEAN, Save(st, ok)
  PROVE  /\ mem'.topicNotes = st.topicNotes
         /\ mem'.issueTopics = st.issueTopics
         /\ disk'.topicNotes = IF ok THEN st.topicNotes ELSE disk.topicNotes
         /\ disk'.issueTopics = IF ok THEN st.issueTopics ELSE disk.issueTopics
         /\ now' = now
  BY PrunedType DEF Save

(* What the setters do to mappings and links.                              *)
LEMMA SettersBindings ==
  ASSUME NEW st, IsState(st)
  PROVE  /\ \A t, i : LET new == SetTopicNote(st, t, i)
                     IN  /\ new.topicNotes = Put(st.topicNotes, t, i)
                         /\ new.issueTopics = st.issueTopics
         /\ \A t : LET new == DeleteTopicNote(st, t)
                  IN  /\ new.topicNotes = Without(st.topicNotes, t)
                      /\ new.issueTopics = Restrict(st.issueTopics,
                            {k \in DOMAIN st.issueTopics : st.issueTopics[k] # t})
         /\ \A s, u, t : LET new == SetIssueTopic(st, s, u, t)
                        IN  /\ new.topicNotes = st.topicNotes
                            /\ new.issueTopics = Put(st.issueTopics, <<s, u>>, t)
         /\ \A h : LET new == MarkDelivered(st, h)
                  IN  new.topicNotes = st.topicNotes /\ new.issueTopics = st.issueTopics
         /\ \A s, p : LET new == MarkPostDelivered(st, s, p)
                     IN  new.topicNotes = st.topicNotes /\ new.issueTopics = st.issueTopics
         /\ \A s, c : LET new == MarkSeenNote(st, s, c)
                     IN  new.topicNotes = st.topicNotes /\ new.issueTopics = st.issueTopics
  BY DEF SetTopicNote, DeleteTopicNote, SetIssueTopic, MarkDelivered, MarkPostDelivered,
         MarkSeenNote, IsState

(* Only MarkSeenNote changes the marks of comments, by one key.            *)
LEMMA SettersSeen ==
  ASSUME NEW st, IsState(st)
  PROVE  /\ \A t, i : SetTopicNote(st, t, i).seenNotes = st.seenNotes
         /\ \A t : DeleteTopicNote(st, t).seenNotes = st.seenNotes
         /\ \A s, u, t : SetIssueTopic(st, s, u, t).seenNotes = st.seenNotes
         /\ \A h : MarkDelivered(st, h).seenNotes = st.seenNotes
         /\ \A s, p : MarkPostDelivered(st, s, p).seenNotes = st.seenNotes
         /\ \A s, c : DOMAIN MarkSeenNote(st, s, c).seenNotes
                        = DOMAIN st.seenNotes \cup {<<s, c>>}
  BY DEF SetTopicNote, DeleteTopicNote, SetIssueTopic, MarkDelivered, MarkPostDelivered,
         MarkSeenNote, Put, IsState

(* Only MarkPostDelivered changes the marks of posts, by one key.          *)
LEMMA SettersMarks ==
  ASSUME NEW st, IsState(st)
  PROVE  /\ \A t, i : SetTopicNote(st, t, i).postsDelivered = st.postsDelivered
         /\ \A t : DeleteTopicNote(st, t).postsDelivered = st.postsDelivered
         /\ \A h : MarkDelivered(st, h).postsDelivered = st.postsDelivered
         /\ \A s, p : DOMAIN MarkPostDelivered(st, s, p).postsDelivered
                        = DOMAIN st.postsDelivered \cup {<<s, p>>}
  BY DEF SetTopicNote, DeleteTopicNote, MarkDelivered, MarkPostDelivered, Put, IsState

(* No setter removes a content hash, and MarkDelivered adds one.           *)
LEMMA SettersHashes ==
  ASSUME NEW st, IsState(st)
  PROVE  /\ \A t, i : SetTopicNote(st, t, i).delivered = st.delivered
         /\ \A t : DeleteTopicNote(st, t).delivered = st.delivered
         /\ \A s, u, t : SetIssueTopic(st, s, u, t).delivered = st.delivered
         /\ \A h : DOMAIN MarkDelivered(st, h).delivered = DOMAIN st.delivered \cup {h}
         /\ \A s, p : MarkPostDelivered(st, s, p).delivered = st.delivered
         /\ \A s, c : MarkSeenNote(st, s, c).delivered = st.delivered
  BY DEF SetTopicNote, DeleteTopicNote, SetIssueTopic, MarkDelivered, MarkPostDelivered,
         MarkSeenNote, Put, IsState

(* Each setter assigns a value of the right type to the fields it changes. *)
LEMMA SettersType ==
  ASSUME NEW st, IsState(st), now \in Nat
  PROVE  /\ \A t \in Topics, i \in Issues : IsState(SetTopicNote(st, t, i))
         /\ \A t \in Topics : IsState(DeleteTopicNote(st, t))
         /\ \A s \in Series, u \in Urls, t \in Topics : IsState(SetIssueTopic(st, s, u, t))
         /\ \A h \in Hashes : IsState(MarkDelivered(st, h))
         /\ \A s \in Series, p \in PostIds : IsState(MarkPostDelivered(st, s, p))
         /\ \A s \in Series, c \in CommentIds : IsState(MarkSeenNote(st, s, c))
  <1>1. ASSUME NEW t \in Topics, NEW i \in Issues
        PROVE  IsState(SetTopicNote(st, t, i))
    <2>1. IsMap(Put(st.topicNotes, t, i), Topics, Issues)
      BY PutType DEF IsState
    <2> QED
      BY <2>1 DEF SetTopicNote, IsState
  <1>2. ASSUME NEW t \in Topics
        PROVE  IsState(DeleteTopicNote(st, t))
    <2>1. IsMap(Without(st.topicNotes, t), Topics, Issues)
      BY RestrictType DEF IsState, Without
    <2>2. IsMap(Restrict(st.issueTopics, {k \in DOMAIN st.issueTopics : st.issueTopics[k] # t}),
                Series \X Urls, Topics)
      BY RestrictType DEF IsState
    <2> QED
      BY <2>1, <2>2 DEF DeleteTopicNote, IsState
  <1>3. ASSUME NEW s \in Series, NEW u \in Urls, NEW t \in Topics
        PROVE  IsState(SetIssueTopic(st, s, u, t))
    <2>1. IsMap(Put(st.issueTopics, <<s, u>>, t), Series \X Urls, Topics)
      BY PutType DEF IsState
    <2> QED
      BY <2>1 DEF SetIssueTopic, IsState
  <1>4. ASSUME NEW h \in Hashes
        PROVE  IsState(MarkDelivered(st, h))
    <2>1. IsMap(Put(st.delivered, h, now), Hashes, Nat)
      BY PutType DEF IsState
    <2> QED
      BY <2>1 DEF MarkDelivered, IsState
  <1>5. ASSUME NEW s \in Series, NEW p \in PostIds
        PROVE  IsState(MarkPostDelivered(st, s, p))
    <2>1. IsMap(Put(st.postsDelivered, <<s, p>>, now), Series \X PostIds, Nat)
      BY PutType DEF IsState
    <2> QED
      BY <2>1 DEF MarkPostDelivered, IsState
  <1>6. ASSUME NEW s \in Series, NEW c \in CommentIds
        PROVE  IsState(MarkSeenNote(st, s, c))
    <2>1. IsMap(Put(st.seenNotes, <<s, c>>, now), Series \X CommentIds, Nat)
      BY PutType DEF IsState
    <2> QED
      BY <2>1 DEF MarkSeenNote, IsState
  <1> QED
    BY <1>1, <1>2, <1>3, <1>4, <1>5, <1>6
=============================================================================
