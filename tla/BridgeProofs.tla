---------------------------- MODULE BridgeProofs ----------------------------
(***************************************************************************)
(* What TLAPS proves about whole passes: the proofs about the three phases *)
(* hold inside the composition, in which each phase sees the others only   *)
(* as saves of a struct that keeps its own dedup set.                      *)
(***************************************************************************)
EXTENDS Bridge, StoreProofs, FiniteSetTheorems

MP == INSTANCE MappingProofs WITH
        pc <- mpc, Handlers <- {}, Replyable <- Issues, Configured <- Series,
        Requests <- {}, Unbinds <- {}, request <- [h \in {} |-> Nobody],
        said <- [t \in Topics |-> {Unbound}], since <- [h \in {} |-> {}], raced <- {}

FP == INSTANCE ForwardProofs WITH
        pc <- fpc, target <- ftarget, copies <- fcopies, lost <- flost,
        Drafts <- AllDrafts, Edits <- {}, Bindings <- {}

RP == INSTANCE ReverseProofs WITH
        pc <- rpc, target <- rtarget, copies <- rcopies, lost <- rlost,
        Notes <- AllNotes, Forwarded <- {}, Links <- {},
        bound <- {}

-----------------------------------------------------------------------------
(* The invariants of the phases, and what only holds of all of them.       *)

Phases == /\ mpc = "idle" \/ fpc = "idle"
          /\ rpc = "forward" <=> mpc # "idle" \/ fpc # "idle"

Histories == /\ posts \in Seq(AllDrafts)
             /\ source \in Seq({Nobody} \cup Acceptances) /\ Len(source) = Len(outbox)
             /\ failed \in 0..MaxFailed

TypeInv == MP!TypeInv /\ FP!TypeInv /\ RP!TypeInv /\ Phases /\ Histories

PromiseInv == FP!DedupInv /\ RP!SeenInv

(* The loop works on a beginning of the forum, whose posts stay what they  *)
(* are; what it sends is not the bot's, and nothing else was sent.         *)
HomeInv ==
  /\ Len(batch) <= Len(posts)
  /\ \A p \in 1..Len(batch) : batch[p] = posts[p]
  /\ FP!InBody => batch[at].author # BotUsername
  /\ \A s \in Series, p \in PostIds :
       (p \in DOMAIN posts => posts[p].author = BotUsername) => fcopies[<<s, p>>] = 0

-----------------------------------------------------------------------------
(* The constants of the composition are what each phase assumes of its own.*)

(* The posts there may be are posts, with hashes.                          *)
LEMMA DraftTypes ==
  /\ AllDrafts \subseteq FP!Posts
  /\ \A p \in FP!Posts : FP!HashOf(p) \in Hashes
  /\ \A t \in Topics : MirrorPost(t) \in AllDrafts
  <1>1. ASSUME NEW d \in AllDrafts
        PROVE  d \in [topic : Topics, opening : BOOLEAN, author : {d.author}, text : {d.text}]
    <2>1. CASE d \in UserDrafts
      BY <2>1, BridgeAssumption
    <2>2. CASE \E t \in Topics : d = MirrorPost(t)
      BY <2>2 DEF MirrorPost
    <2>. QED
      BY <2>1, <2>2 DEF AllDrafts
  <1>2. ASSUME NEW d \in AllDrafts
        PROVE  d \in FP!Posts
    BY <1>1 DEF FP!Posts
  <1>3. ASSUME NEW p \in FP!Posts
        PROVE  FP!HashOf(p) \in Hashes
    <2>1. PICK d \in AllDrafts, e \in AllDrafts : p.author = d.author /\ p.text = e.text
      BY DEF FP!Posts
    <2>. QED
      BY <2>1, BridgeAssumption DEF FP!HashOf
  <1>4. \A t \in Topics : MirrorPost(t) \in AllDrafts
    BY DEF AllDrafts
  <1>. QED
    BY <1>2, <1>3, <1>4

(* The notes there may be are notes.                                       *)
LEMMA NoteTypes ==
  AllNotes \subseteq [series : Series, url : Urls, comment : BOOLEAN,
                      hash : Hashes, marked : BOOLEAN]
  <1>1. ASSUME NEW i \in Issues, UrlOf[i] # NoUrl, NEW d \in AllDrafts
        PROVE  EchoNote(i, d.author, d.text) \in [series : Series, url : Urls, comment : BOOLEAN,
                                                  hash : Hashes, marked : BOOLEAN]
    <2>1. SeriesOf[i] \in Series /\ UrlOf[i] \in Urls
      BY <1>1, BridgeAssumption
    <2>2. <<d.author, d.text>> \in Hashes
      BY BridgeAssumption
    <2>. QED
      BY <2>1, <2>2 DEF EchoNote
  <1>2. Natives \subseteq [series : Series, url : Urls, comment : BOOLEAN,
                          hash : Hashes, marked : BOOLEAN]
    BY BridgeAssumption
  <1>. QED
    BY <1>1, <1>2 DEF AllNotes

(* What Store, Forward, Reverse and Mapping assume.                        *)
LEMMA Assumptions ==
  /\ FP!StoreAssumption /\ FP!ForwardAssumption
  /\ RP!StoreAssumption /\ RP!ReverseAssumption
  /\ MP!StoreAssumption /\ MP!MappingAssumption
  <1>1. FP!StoreAssumption /\ RP!StoreAssumption /\ MP!StoreAssumption
    BY StoreAssumption DEF FP!StoreAssumption, RP!StoreAssumption, MP!StoreAssumption
  <1>2. FP!ForwardAssumption
    <2>1. \A list \in TopicLists : FP!IsMap(list, Topics, Categories)
      BY BridgeAssumption DEF IsMap, FP!IsMap
    <2>2. {} \subseteq Topics \X Issues
      OBVIOUS
    <2>. QED
      BY <2>1, <2>2, DraftTypes, BridgeAssumption DEF FP!ForwardAssumption
  <1>3. RP!ReverseAssumption
    BY NoteTypes, BridgeAssumption DEF RP!ReverseAssumption
  <1>4. MP!MappingAssumption
    <2>1. MP!IsMap(Explicit, Topics, Issues \cup {BadURI})
      BY BridgeAssumption DEF IsMap, MP!IsMap
    <2>. QED
      BY <2>1, BridgeAssumption DEF MP!MappingAssumption
  <1>. QED
    BY <1>1, <1>2, <1>3, <1>4

-----------------------------------------------------------------------------
(* A step of a phase is a step of the module its proofs are about.         *)

(* Of the mapping phase.                                                   *)
LEMMA MappingActions ==
  /\ \A up, listed : M!Refresh(up, listed) => MP!Refresh(up, listed)
  /\ \A t : M!TakeExplicit(t) => MP!TakeExplicit(t)
  /\ \A t : M!RefuseExplicit(t) => MP!RefuseExplicit(t)
  /\ \A s, t : M!TakeTitle(s, t) => MP!TakeTitle(s, t)
  /\ M!SetExplicit => MP!SetExplicit
  /\ M!LinkExplicit => MP!LinkExplicit
  /\ M!SetTitle => MP!SetTitle
  /\ M!LinkTitle => MP!LinkTitle
  /\ M!ExplicitDone => MP!ExplicitDone
  /\ M!PhaseDone => MP!PhaseDone
  /\ M!Crash => MP!Crash
  <1>. USE DEF M!passVars, MP!passVars, M!historyVars, MP!historyVars, M!Idle, MP!Idle,
               M!NoJob, MP!NoJob, M!NoRequest, MP!NoRequest, M!HasUrl, MP!HasUrl,
               M!Record, MP!Record, M!LinkBack, MP!LinkBack, M!Mapped, MP!Mapped,
               M!NextJob, MP!NextJob, M!SetJob, MP!SetJob, M!LinkJob, MP!LinkJob,
               M!Matches, MP!Matches, M!SetTopicNote, MP!SetTopicNote,
               M!SetIssueTopic, MP!SetIssueTopic, M!storeVars, MP!storeVars,
               M!Save, MP!Save, M!Pruned, MP!Pruned, M!Fresh, MP!Fresh,
               M!Restrict, MP!Restrict, M!Put, MP!Put, M!Load, MP!Load
  <1>1. \A up, listed : M!Refresh(up, listed) => MP!Refresh(up, listed)
    BY DEF M!Refresh, MP!Refresh
  <1>2. \A t : M!TakeExplicit(t) => MP!TakeExplicit(t)
    BY DEF M!TakeExplicit, MP!TakeExplicit
  <1>3. \A t : M!RefuseExplicit(t) => MP!RefuseExplicit(t)
    BY DEF M!RefuseExplicit, MP!RefuseExplicit
  <1>4. \A s, t : M!TakeTitle(s, t) => MP!TakeTitle(s, t)
    BY DEF M!TakeTitle, MP!TakeTitle
  <1>5. M!SetExplicit => MP!SetExplicit
    BY DEF M!SetExplicit, MP!SetExplicit
  <1>6. M!LinkExplicit => MP!LinkExplicit
    BY DEF M!LinkExplicit, MP!LinkExplicit
  <1>7. M!SetTitle => MP!SetTitle
    BY DEF M!SetTitle, MP!SetTitle
  <1>8. M!LinkTitle => MP!LinkTitle
    BY DEF M!LinkTitle, MP!LinkTitle
  <1>9. M!ExplicitDone => MP!ExplicitDone
    BY DEF M!ExplicitDone, MP!ExplicitDone
  <1>10. M!PhaseDone => MP!PhaseDone
    BY DEF M!PhaseDone, MP!PhaseDone
  <1>11. M!Crash => MP!Crash
    BY DEF M!Crash, MP!Crash, M!Pending, MP!Pending
  <1>. QED
    BY <1>1, <1>2, <1>3, <1>4, <1>5, <1>6, <1>7, <1>8, <1>9, <1>10, <1>11

(* Of the forward direction.                                               *)
LEMMA ForwardActions ==
  /\ F!Begin => FP!Begin
  /\ F!FetchPosts => FP!FetchPosts
  /\ F!FetchFails => FP!FetchFails
  /\ F!Skip => FP!Skip
  /\ F!Pick => FP!Pick
  /\ F!Dedup => FP!Dedup
  /\ F!ReplyAccepted => FP!ReplyAccepted
  /\ F!ReplyRefused => FP!ReplyRefused
  /\ F!ReplyLost => FP!ReplyLost
  /\ F!MarkPost => FP!MarkPost
  /\ F!MarkHash => FP!MarkHash
  /\ F!EndPass => FP!EndPass
  /\ F!Crash => FP!Crash
  /\ F!TimePasses => FP!TimePasses
  <1>. USE DEF F!passVars, FP!passVars, F!historyVars, FP!historyVars,
               F!EmptyMap, FP!EmptyMap, F!NextPost, FP!NextPost, F!Idle, FP!Idle,
               F!InLoop, FP!InLoop, F!CapReached, FP!CapReached, F!Wanted, FP!Wanted,
               F!CategoryAllowed, FP!CategoryAllowed, F!CategoryOf, FP!CategoryOf,
               F!Mapped, FP!Mapped, F!PostDelivered, FP!PostDelivered, F!Accept, FP!Accept,
               F!OldestIn, FP!OldestIn, F!HashOf, FP!HashOf,
               F!MarkPostDelivered, FP!MarkPostDelivered,
               F!MarkDelivered, FP!MarkDelivered, F!storeVars, FP!storeVars,
               F!Save, FP!Save, F!Pruned, FP!Pruned, F!Fresh, FP!Fresh,
               F!Restrict, FP!Restrict, F!Put, FP!Put, F!Load, FP!Load
  <1>1. F!Begin => FP!Begin
    BY DEF F!Begin, FP!Begin
  <1>2. F!FetchPosts => FP!FetchPosts
    BY DEF F!FetchPosts, FP!FetchPosts
  <1>3. F!FetchFails => FP!FetchFails
    BY DEF F!FetchFails, FP!FetchFails
  <1>4. F!Skip => FP!Skip
    BY DEF F!Skip, FP!Skip
  <1>5. F!Pick => FP!Pick
    BY DEF F!Pick, FP!Pick
  <1>6. F!Dedup => FP!Dedup
    BY DEF F!Dedup, FP!Dedup
  <1>7. F!ReplyAccepted => FP!ReplyAccepted
    BY DEF F!ReplyAccepted, FP!ReplyAccepted
  <1>8. F!ReplyRefused => FP!ReplyRefused
    BY DEF F!ReplyRefused, FP!ReplyRefused
  <1>9. F!ReplyLost => FP!ReplyLost
    BY DEF F!ReplyLost, FP!ReplyLost
  <1>10. F!MarkPost => FP!MarkPost
    BY DEF F!MarkPost, FP!MarkPost
  <1>11. F!MarkHash => FP!MarkHash
    BY DEF F!MarkHash, FP!MarkHash
  <1>12. F!EndPass => FP!EndPass
    BY DEF F!EndPass, FP!EndPass
  <1>13. F!Crash => FP!Crash
    BY DEF F!Crash, FP!Crash
  <1>14. F!TimePasses => FP!TimePasses
    BY DEF F!TimePasses, FP!TimePasses, F!Tick, FP!Tick
  <1>. QED
    BY <1>1, <1>2, <1>3, <1>4, <1>5, <1>6, <1>7, <1>8, <1>9, <1>10, <1>11, <1>12, <1>13,
       <1>14

(* Of the reverse direction.                                               *)
LEMMA ReverseActions ==
  /\ \A up : R!BeginWith(up) => RP!BeginWith(up)
  /\ \A c : R!SkipNote(c) => RP!SkipNote(c)
  /\ \A c : R!DropEcho(c) => RP!DropEcho(c)
  /\ \A c : R!Choose(c) => RP!Choose(c)
  /\ R!ForwardDone => RP!ForwardDone
  /\ R!PostAccepted => RP!PostAccepted
  /\ R!PostRefused => RP!PostRefused
  /\ R!PostLost => RP!PostLost
  /\ R!MarkSeen => RP!MarkSeen
  /\ R!EndPass => RP!EndPass
  /\ R!Crash => RP!Crash
  /\ R!TimePasses => RP!TimePasses
  <1>. USE DEF R!passVars, RP!passVars, R!historyVars, RP!historyVars,
               R!NextNote, RP!NextNote, R!Idle, RP!Idle, R!Shown, RP!Shown,
               R!IsEcho, RP!IsEcho, R!IsDelivered, RP!IsDelivered, R!HasLink, RP!HasLink,
               R!LinkOf, RP!LinkOf, R!Reach, RP!Reach, R!SeenNote, RP!SeenNote,
               R!KeyOf, RP!KeyOf, R!Create, RP!Create, R!MarkSeenNote, RP!MarkSeenNote,
               R!Cardinality, RP!Cardinality, R!storeVars, RP!storeVars, R!Save, RP!Save,
               R!Pruned, RP!Pruned, R!Fresh, RP!Fresh, R!Restrict, RP!Restrict,
               R!Put, RP!Put, R!Load, RP!Load
  <1>1. \A up : R!BeginWith(up) => RP!BeginWith(up)
    BY DEF R!BeginWith, RP!BeginWith
  <1>2. \A c : R!SkipNote(c) => RP!SkipNote(c)
    BY DEF R!SkipNote, RP!SkipNote
  <1>3. \A c : R!DropEcho(c) => RP!DropEcho(c)
    BY DEF R!DropEcho, RP!DropEcho
  <1>4. \A c : R!Choose(c) => RP!Choose(c)
    BY DEF R!Choose, RP!Choose
  <1>5. R!ForwardDone => RP!ForwardDone
    BY DEF R!ForwardDone, RP!ForwardDone
  <1>6. R!PostAccepted => RP!PostAccepted
    BY DEF R!PostAccepted, RP!PostAccepted
  <1>7. R!PostRefused => RP!PostRefused
    BY DEF R!PostRefused, RP!PostRefused
  <1>8. R!PostLost => RP!PostLost
    BY DEF R!PostLost, RP!PostLost
  <1>9. R!MarkSeen => RP!MarkSeen
    BY DEF R!MarkSeen, RP!MarkSeen
  <1>10. R!EndPass => RP!EndPass
    BY DEF R!EndPass, RP!EndPass
  <1>11. R!Crash => RP!Crash
    BY DEF R!Crash, RP!Crash
  <1>12. R!TimePasses => RP!TimePasses
    BY DEF R!TimePasses, RP!TimePasses, R!Tick, RP!Tick
  <1>. QED
    BY <1>1, <1>2, <1>3, <1>4, <1>5, <1>6, <1>7, <1>8, <1>9, <1>10, <1>11, <1>12

(* The store of the phases is the store.                                   *)
LEMMA OneStore ==
  /\ \A st : (MP!IsState(st) <=> IsState(st)) /\ (FP!IsState(st) <=> IsState(st))
            /\ (RP!IsState(st) <=> IsState(st))
  /\ MP!StoreTypeOK <=> StoreTypeOK
  /\ FP!StoreTypeOK <=> StoreTypeOK
  /\ RP!StoreTypeOK <=> StoreTypeOK
  /\ \A st, ok : (MP!Save(st, ok) <=> Save(st, ok)) /\ (FP!Save(st, ok) <=> Save(st, ok))
                /\ (RP!Save(st, ok) <=> Save(st, ok))
  <1>1. \A st : (MP!IsState(st) <=> IsState(st)) /\ (FP!IsState(st) <=> IsState(st))
               /\ (RP!IsState(st) <=> IsState(st))
    BY DEF IsState, MP!IsState, FP!IsState, RP!IsState, IsMap, MP!IsMap, FP!IsMap, RP!IsMap
  <1>2. /\ MP!StoreTypeOK <=> StoreTypeOK
        /\ FP!StoreTypeOK <=> StoreTypeOK
        /\ RP!StoreTypeOK <=> StoreTypeOK
    BY <1>1 DEF StoreTypeOK, MP!StoreTypeOK, FP!StoreTypeOK, RP!StoreTypeOK
  <1>3. ASSUME NEW st, NEW ok
        PROVE  /\ MP!Save(st, ok) <=> Save(st, ok)
               /\ FP!Save(st, ok) <=> Save(st, ok)
               /\ RP!Save(st, ok) <=> Save(st, ok)
    <2>1. MP!Save(st, ok) <=> Save(st, ok)
      BY DEF Save, Pruned, Fresh, Restrict, MP!Save, MP!Pruned, MP!Fresh, MP!Restrict
    <2>2. FP!Save(st, ok) <=> Save(st, ok)
      BY DEF Save, Pruned, Fresh, Restrict, FP!Save, FP!Pruned, FP!Fresh, FP!Restrict
    <2>3. RP!Save(st, ok) <=> Save(st, ok)
      BY DEF Save, Pruned, Fresh, Restrict, RP!Save, RP!Pruned, RP!Fresh, RP!Restrict
    <2>. QED
      BY <2>1, <2>2, <2>3
  <1>. QED
    BY <1>1, <1>2, <1>3

-----------------------------------------------------------------------------
(* How the phases see each other.                                          *)

(* Struct st has every entry of the dedup sets of old.                     *)
Within(old, st) == /\ DOMAIN old.delivered \subseteq DOMAIN st.delivered
                   /\ DOMAIN old.postsDelivered \subseteq DOMAIN st.postsDelivered
                   /\ DOMAIN old.seenNotes \subseteq DOMAIN st.seenNotes

Grown(st) == IsState(st) /\ Within(mem, st)

(* A save of a struct that has every entry of the one in memory; one that  *)
(* leaves the marks of posts, or of comments, to prune.                    *)
Grows == \E st : Grown(st) /\ \E ok \in BOOLEAN : Save(st, ok)

KeepsPosts == \E st : /\ Grown(st) /\ st.postsDelivered = mem.postsDelivered
                      /\ \E ok \in BOOLEAN : Save(st, ok)

KeepsNotes == \E st : /\ Grown(st) /\ st.seenNotes = mem.seenNotes
                      /\ \E ok \in BOOLEAN : Save(st, ok)

MappingView == \/ [MP!Next]_(MP!vars)
               \/ /\ KeepsPosts \/ KeepsNotes \/ Tick
                  /\ UNCHANGED <<mappingVars, crashes>>

ForwardView == \/ [FP!Next]_(FP!vars)
               \/ KeepsPosts /\ UNCHANGED <<posts, forwardVars, forwardHistory, crashes>>

ReverseView == \/ [RP!Next]_(RP!vars)
               \/ /\ KeepsNotes \/ UNCHANGED storeVars
                  /\ R!Idle \/ UNCHANGED reverseVars
                  /\ UNCHANGED <<outbox, reverseHistory, crashes>>

(* What only changes when a phase is not at work does not change at all.   *)
LEMMA Stutters ==
  /\ UNCHANGED <<storeVars, mappingVars, crashes>> => UNCHANGED MP!vars
  /\ UNCHANGED <<storeVars, posts, forwardVars, forwardHistory, crashes>> => UNCHANGED FP!vars
  /\ UNCHANGED <<storeVars, outbox, reverseVars, reverseHistory, crashes>> => UNCHANGED RP!vars
  BY DEF storeVars, mappingVars, forwardVars, reverseVars, forwardHistory, reverseHistory,
         MP!vars, MP!storeVars, MP!passVars, MP!historyVars,
         FP!vars, FP!storeVars, FP!passVars, FP!historyVars,
         RP!vars, RP!storeVars, RP!passVars, RP!historyVars

(* The mapping phase saves mappings and links.                             *)
LEMMA MappingSaves ==
  ASSUME TypeInv, MP!RecordsJob \/ MP!LinksJob
  PROVE  KeepsPosts /\ KeepsNotes
  <1>0. MP!TypeInv /\ IsState(mem) /\ now \in Nat
    BY OneStore DEF TypeInv, MP!TypeInv, MP!TypeOK, StoreTypeOK
  <1>1. CASE MP!RecordsJob
    <2>1. /\ job[1] \in Topics /\ job[2] \in Issues
          /\ \E ok \in BOOLEAN : MP!Save(MP!Record(job[1], job[2]), ok)
      BY <1>0, <1>1, Assumptions, MP!RecordsJobStep
    <2>2. PICK st : st = SetTopicNote(mem, job[1], job[2])
      OBVIOUS
    <2>3. MP!Record(job[1], job[2]) = st
      BY <2>2 DEF MP!Record, MP!SetTopicNote, SetTopicNote, MP!Put, Put
    <2>4. /\ IsState(st) /\ st.postsDelivered = mem.postsDelivered
          /\ st.seenNotes = mem.seenNotes /\ st.delivered = mem.delivered
      BY <1>0, <2>1, <2>2, SettersType, SettersMarks, SettersSeen, SettersHashes
    <2>5. PICK ok \in BOOLEAN : Save(st, ok)
      BY <2>1, <2>3, OneStore
    <2>. QED
      BY <2>4, <2>5 DEF KeepsPosts, KeepsNotes, Grown, Within
  <1>2. CASE MP!LinksJob
    <2>1. /\ job[1] \in Topics /\ job[2] \in Issues /\ UrlOf[job[2]] # NoUrl
          /\ \E ok \in BOOLEAN : MP!Save(MP!LinkBack(job[1], job[2]), ok)
      BY <1>0, <1>2, Assumptions, MP!LinksJobStep
    <2>2. PICK st : st = SetIssueTopic(mem, SeriesOf[job[2]], UrlOf[job[2]], job[1])
      OBVIOUS
    <2>3. MP!LinkBack(job[1], job[2]) = st
      BY <2>2 DEF MP!LinkBack, MP!SetIssueTopic, SetIssueTopic, MP!Put, Put
    <2>4. SeriesOf[job[2]] \in Series /\ UrlOf[job[2]] \in Urls
      BY <2>1, BridgeAssumption
    <2>5. IsState(st) /\ st.seenNotes = mem.seenNotes /\ st.delivered = mem.delivered
      BY <1>0, <2>1, <2>2, <2>4, SettersType, SettersSeen, SettersHashes
    <2>6. st.postsDelivered = mem.postsDelivered
      BY <1>0, <2>2 DEF SetIssueTopic, IsState
    <2>7. PICK ok \in BOOLEAN : Save(st, ok)
      BY <2>1, <2>3, OneStore
    <2>. QED
      BY <2>5, <2>6, <2>7 DEF KeepsPosts, KeepsNotes, Grown, Within
  <1>. QED
    BY <1>1, <1>2

(* The forward direction saves marks of posts and hashes.                  *)
LEMMA ForwardSaves ==
  ASSUME TypeInv, FP!MarkPost \/ FP!MarkHash
  PROVE  KeepsNotes
  <1>0. FP!TypeInv /\ IsState(mem) /\ now \in Nat
    BY OneStore DEF TypeInv, FP!TypeInv, FP!TypeOK, StoreTypeOK
  <1>1. FP!InBody
    BY DEF FP!MarkPost, FP!MarkHash, FP!InBody
  <1>2. CASE FP!MarkPost
    <2>1. SeriesOf[ftarget] \in Series /\ at \in PostIds
      BY <1>0, <1>1, Assumptions, FP!KeyType
    <2>2. PICK st : st = MarkPostDelivered(mem, SeriesOf[ftarget], at)
      OBVIOUS
    <2>3. IsState(st)
      BY <1>0, <2>1, <2>2, SettersType
    <2>4. /\ st.seenNotes = mem.seenNotes /\ st.delivered = mem.delivered
          /\ DOMAIN mem.postsDelivered \subseteq DOMAIN st.postsDelivered
      BY <1>0, <2>2, SettersSeen, SettersHashes, SettersMarks
    <2>5. FP!MarkPostDelivered(mem, SeriesOf[ftarget], at) = st
      BY <2>2 DEF FP!MarkPostDelivered, MarkPostDelivered, FP!Put, Put
    <2>6. PICK ok \in BOOLEAN : Save(st, ok)
      BY <1>2, <2>5, OneStore, StoreAssumption DEF FP!MarkPost
    <2>. QED
      BY <2>3, <2>4, <2>6 DEF KeepsNotes, Grown, Within
  <1>3. CASE FP!MarkHash
    <2>1. FP!HashOf(batch[at]) \in Hashes
      BY <1>0, <1>1, Assumptions, FP!BatchType DEF FP!TypeInv, FP!Located
    <2>2. PICK st : st = MarkDelivered(mem, FP!HashOf(batch[at]))
      OBVIOUS
    <2>3. /\ IsState(st) /\ st.seenNotes = mem.seenNotes
          /\ st.postsDelivered = mem.postsDelivered
          /\ DOMAIN mem.delivered \subseteq DOMAIN st.delivered
      BY <1>0, <2>1, <2>2, SettersType, SettersSeen, SettersHashes, SettersMarks
    <2>4. FP!MarkDelivered(mem, FP!HashOf(batch[at])) = st
      BY <2>2 DEF FP!MarkDelivered, MarkDelivered, FP!Put, Put
    <2>5. PICK ok \in BOOLEAN : Save(st, ok)
      BY <1>3, <2>4, OneStore, StoreAssumption DEF FP!MarkHash
    <2>. QED
      BY <2>3, <2>5 DEF KeepsNotes, Grown, Within
  <1>. QED
    BY <1>2, <1>3

(* The reverse direction saves marks of comments.                          *)
LEMMA ReverseSaves ==
  ASSUME TypeInv, RP!MarkSeen
  PROVE  KeepsPosts
  <1>0. RP!TypeInv /\ IsState(mem) /\ now \in Nat
    BY OneStore DEF TypeInv, RP!TypeInv, RP!TypeOK, StoreTypeOK
  <1>1. note \in DOMAIN outbox
    BY <1>0 DEF RP!MarkSeen, RP!TypeInv, RP!Located, RP!InHand
  <1>2. outbox[note].series \in Series /\ note \in CommentIds
    <2>1. outbox[note] \in AllNotes /\ note \in CommentIds
      BY <1>0, <1>1, Assumptions, RP!KeyType
    <2>. QED
      BY <2>1, NoteTypes
  <1>3. PICK st : st = MarkSeenNote(mem, outbox[note].series, note)
    OBVIOUS
  <1>4. IsState(st)
    BY <1>0, <1>2, <1>3, SettersType
  <1>5. st.postsDelivered = mem.postsDelivered /\ st.delivered = mem.delivered
    BY <1>0, <1>3, SettersHashes DEF MarkSeenNote, IsState
  <1>6. DOMAIN mem.seenNotes \subseteq DOMAIN st.seenNotes
    BY <1>0, <1>3, SettersSeen
  <1>7. RP!MarkSeenNote(mem, outbox[note].series, note) = st
    BY <1>3 DEF RP!MarkSeenNote, MarkSeenNote, RP!Put, Put
  <1>8. PICK ok \in BOOLEAN : Save(st, ok)
    BY <1>7, OneStore, StoreAssumption DEF RP!MarkSeen
  <1>. QED
    BY <1>4, <1>5, <1>8, <1>6 DEF KeepsPosts, Grown, Within

(* Also of the next state.                                                 *)
LEMMA OneStoreNext ==
  /\ MP!StoreTypeOK' <=> StoreTypeOK'
  /\ FP!StoreTypeOK' <=> StoreTypeOK'
  /\ RP!StoreTypeOK' <=> StoreTypeOK'
  BY DEF StoreTypeOK, MP!StoreTypeOK, FP!StoreTypeOK, RP!StoreTypeOK, IsState, MP!IsState,
         FP!IsState, RP!IsState, IsMap, MP!IsMap, FP!IsMap, RP!IsMap

(* A save of this kind keeps the store well formed, and of the marks it    *)
(* leaves to prune it invents none.                                        *)
LEMMA KeepsStep ==
  ASSUME StoreTypeOK
  PROVE  /\ KeepsPosts \/ KeepsNotes => StoreTypeOK' /\ now' = now
         /\ KeepsPosts =>
              /\ DOMAIN mem'.postsDelivered \subseteq DOMAIN mem.postsDelivered
              /\ DOMAIN disk'.postsDelivered
                   \subseteq DOMAIN mem.postsDelivered \cup DOMAIN disk.postsDelivered
         /\ KeepsNotes =>
              /\ DOMAIN mem'.seenNotes \subseteq DOMAIN mem.seenNotes
              /\ DOMAIN disk'.seenNotes
                   \subseteq DOMAIN mem.seenNotes \cup DOMAIN disk.seenNotes
  <1>1. ASSUME KeepsPosts
        PROVE  /\ StoreTypeOK' /\ now' = now
               /\ DOMAIN mem'.postsDelivered \subseteq DOMAIN mem.postsDelivered
               /\ DOMAIN disk'.postsDelivered
                    \subseteq DOMAIN mem.postsDelivered \cup DOMAIN disk.postsDelivered
    <2>0. PICK st : /\ IsState(st) /\ st.postsDelivered = mem.postsDelivered
                    /\ \E ok \in BOOLEAN : Save(st, ok)
      BY <1>1 DEF KeepsPosts, Grown
    <2>1. PICK ok \in BOOLEAN : Save(st, ok)
      BY <2>0
    <2>2. StoreTypeOK'
      BY <2>0, <2>1, SaveType
    <2>3. now' = now
      BY <2>1 DEF Save
    <2>4. /\ DOMAIN mem'.postsDelivered \subseteq DOMAIN st.postsDelivered
          /\ DOMAIN disk'.postsDelivered
               \subseteq DOMAIN st.postsDelivered \cup DOMAIN disk.postsDelivered
      BY <2>0, <2>1, SaveMarks
    <2>. QED
      BY <2>0, <2>2, <2>3, <2>4
  <1>2. ASSUME KeepsNotes
        PROVE  /\ StoreTypeOK' /\ now' = now
               /\ DOMAIN mem'.seenNotes \subseteq DOMAIN mem.seenNotes
               /\ DOMAIN disk'.seenNotes
                    \subseteq DOMAIN mem.seenNotes \cup DOMAIN disk.seenNotes
    <2>0. PICK st : /\ IsState(st) /\ st.seenNotes = mem.seenNotes
                    /\ \E ok \in BOOLEAN : Save(st, ok)
      BY <1>2 DEF KeepsNotes, Grown
    <2>1. PICK ok \in BOOLEAN : Save(st, ok)
      BY <2>0
    <2>2. StoreTypeOK'
      BY <2>0, <2>1, SaveType
    <2>3. now' = now
      BY <2>1 DEF Save
    <2>4. /\ DOMAIN mem'.seenNotes \subseteq DOMAIN st.seenNotes
          /\ DOMAIN disk'.seenNotes \subseteq DOMAIN st.seenNotes \cup DOMAIN disk.seenNotes
      BY <2>0, <2>1, SaveSeen
    <2>. QED
      BY <2>0, <2>2, <2>3, <2>4
  <1>. QED
    BY <1>1, <1>2

-----------------------------------------------------------------------------
(* What each phase keeps, whoever steps. *)

(* The mapping phase stays well formed.                                    *)
LEMMA MappingKeeps ==
  ASSUME MP!TypeInv, MappingView
  PROVE  MP!TypeInv'
  <1>1. CASE [MP!Next]_(MP!vars)
    BY <1>1, Assumptions, MP!TypeStep
  <1>2. CASE (KeepsPosts \/ KeepsNotes \/ Tick) /\ UNCHANGED <<mappingVars, crashes>>
    <2>0. StoreTypeOK
      BY OneStore DEF MP!TypeInv, MP!TypeOK
    <2>1. MP!StoreTypeOK'
      <3>1. CASE KeepsPosts \/ KeepsNotes
        BY <2>0, <3>1, KeepsStep, OneStoreNext
      <3>2. CASE Tick
        BY <2>0, <3>2, OneStoreNext DEF Tick, StoreTypeOK, IsState, IsMap
      <3>. QED
        BY <1>2, <3>1, <3>2
    <2>. QED
      BY <1>2, <2>1 DEF mappingVars, MP!TypeInv, MP!TypeOK, MP!Located, MP!JobPcs, MP!Linking
  <1>. QED
    BY <1>1, <1>2 DEF MappingView

(* The forward direction stays well formed, its marks and its copies in    *)
(* agreement, and its step is one of Mirror.                               *)
LEMMA ForwardKeeps ==
  ASSUME FP!TypeInv, FP!DedupInv, ForwardView
  PROVE  /\ FP!TypeInv' /\ FP!DedupInv'
         /\ [FP!Promise!Next]_(FP!Promise!mirrorVars)
  <1>1. CASE [FP!Next]_(FP!vars)
    <2>1. FP!TypeInv'
      BY <1>1, Assumptions, FP!TypeStep
    <2>2. FP!DedupInv'
      BY <1>1, Assumptions, FP!DedupStep
    <2>3. [FP!Promise!Next]_(FP!Promise!mirrorVars)
      BY <1>1, Assumptions, FP!PromiseStep
    <2>. QED
      BY <2>1, <2>2, <2>3
  <1>2. CASE KeepsPosts /\ UNCHANGED <<posts, forwardVars, forwardHistory, crashes>>
    <2>0. StoreTypeOK
      BY OneStore DEF FP!TypeInv, FP!TypeOK
    <2>1. FP!StoreTypeOK' /\ now' = now
      BY <1>2, <2>0, KeepsStep, OneStoreNext
    <2>2. /\ FP!Marked' \subseteq FP!Marked
          /\ DOMAIN disk'.postsDelivered \subseteq FP!Marked \cup DOMAIN disk.postsDelivered
      BY <1>2, <2>0, KeepsStep DEF FP!Marked
    <2>4. FP!TypeInv'
      BY <1>2, <2>1
      DEF forwardVars, forwardHistory, FP!TypeInv, FP!TypeOK, FP!Located, FP!InBody, FP!IsMap
    <2>5. FP!DedupInv'
      BY <1>2, <2>2 DEF forwardVars, forwardHistory, FP!DedupInv, FP!MarkedIsAccepted, FP!Key
    <2>6. FP!Promise!Account
      BY <1>2, <2>2 DEF forwardHistory, FP!Promise!Account
    <2>. QED
      BY <2>4, <2>5, <2>6 DEF FP!Promise!Next
  <1>. QED
    BY <1>1, <1>2 DEF ForwardView

(* And so does the reverse direction.                                      *)
LEMMA ReverseKeeps ==
  ASSUME RP!TypeInv, RP!SeenInv, ReverseView
  PROVE  /\ RP!TypeInv' /\ RP!SeenInv'
         /\ [RP!Promise!Next]_(RP!Promise!mirrorVars)
  <1>1. CASE [RP!Next]_(RP!vars)
    <2>1. RP!TypeInv'
      BY <1>1, Assumptions, RP!TypeStep
    <2>2. RP!SeenInv'
      BY <1>1, Assumptions, RP!SeenStep
    <2>3. [RP!Promise!Next]_(RP!Promise!mirrorVars)
      BY <1>1, Assumptions, RP!PromiseStep
    <2>. QED
      BY <2>1, <2>2, <2>3
  <1>2. CASE /\ KeepsNotes \/ UNCHANGED storeVars
             /\ R!Idle \/ UNCHANGED reverseVars
             /\ UNCHANGED <<outbox, reverseHistory, crashes>>
    <2>0. StoreTypeOK
      BY OneStore DEF RP!TypeInv, RP!TypeOK
    <2>1. RP!StoreTypeOK'
      <3>1. CASE KeepsNotes
        BY <2>0, <3>1, KeepsStep, OneStoreNext
      <3>2. CASE UNCHANGED storeVars
        BY <3>2 DEF storeVars, RP!TypeInv, RP!TypeOK, RP!StoreTypeOK, RP!IsState, RP!IsMap
      <3>. QED
        BY <1>2, <3>1, <3>2
    <2>2. /\ RP!Seen' \subseteq RP!Seen
          /\ DOMAIN disk'.seenNotes \subseteq RP!Seen \cup DOMAIN disk.seenNotes
      <3>1. CASE KeepsNotes
        BY <2>0, <3>1, KeepsStep DEF RP!Seen
      <3>2. CASE UNCHANGED storeVars
        BY <3>2 DEF storeVars, RP!Seen
      <3>. QED
        BY <1>2, <3>1, <3>2
    <2>3. /\ outbox' = outbox /\ rcopies' = rcopies /\ echoes' = echoes /\ late' = late
          /\ rlost' = rlost /\ crashes' = crashes
      BY <1>2 DEF reverseHistory
    <2>4. ASSUME UNCHANGED reverseVars
          PROVE  RP!TypeInv' /\ RP!SeenInv'
      <3>1. RP!TypeInv'
        BY <2>1, <2>3, <2>4
        DEF reverseVars, RP!TypeInv, RP!TypeOK, RP!Located, RP!InHand, RP!Keys
      <3>2. RP!SeenInv'
        BY <2>2, <2>3, <2>4 DEF reverseVars, RP!SeenInv, RP!Accounted, RP!Current, RP!KeyOf
      <3>. QED
        BY <3>1, <3>2
    <2>5. ASSUME R!Idle
          PROVE  RP!TypeInv' /\ RP!SeenInv'
      <3>1. /\ rpc' = "idle" /\ todo' = {} /\ series' = Nothing
            /\ note' = Nothing /\ rtarget' = Nothing
        BY <2>5 DEF R!Idle
      <3>2. RP!TypeInv'
        BY <2>1, <2>3, <3>1
        DEF RP!TypeInv, RP!TypeOK, RP!Located, RP!InHand, RP!Keys, RP!PCs
      <3>3. RP!SeenInv'
        BY <2>2, <2>3, <3>1 DEF RP!SeenInv, RP!Accounted
      <3>. QED
        BY <3>2, <3>3
    <2>6. RP!Promise!Account
      BY <2>2, <2>3 DEF RP!Promise!Account, RP!TypeInv, RP!TypeOK
    <2>. QED
      BY <1>2, <2>4, <2>5, <2>6 DEF RP!Promise!Next
  <1>. QED
    BY <1>1, <1>2 DEF ReverseView

-----------------------------------------------------------------------------
(* Every step of the composition, as each phase sees it.                   *)

Views == MappingView /\ ForwardView /\ ReverseView

(* A step of the mapping phase saves, or leaves the store alone.           *)
LEMMA MapStepSaves ==
  ASSUME TypeInv, MapStep
  PROVE  (KeepsPosts /\ KeepsNotes) \/ UNCHANGED storeVars
  <1>1. CASE M!SetExplicit \/ M!SetTitle \/ M!LinkExplicit \/ M!LinkTitle
    BY <1>1, MappingActions, MappingSaves DEF MP!RecordsJob, MP!LinksJob
  <1>2. CASE \/ \E t \in Topics : M!TakeExplicit(t) \/ M!RefuseExplicit(t)
             \/ M!ExplicitDone
             \/ \E s \in Series, t \in Topics : M!TakeTitle(s, t)
    BY <1>2 DEF M!TakeExplicit, M!RefuseExplicit, M!ExplicitDone, M!TakeTitle,
                M!storeVars, storeVars
  <1>. QED
    BY <1>1, <1>2 DEF MapStep

(* A step of the mapping phase: a save, or nothing to the store.           *)
LEMMA MapStepViews ==
  ASSUME TypeInv, MapStep
  PROVE  Views
  <1>1. MP!Next
    BY MappingActions DEF MapStep, MP!Next, MP!PassStep
  <1>2. (KeepsPosts /\ KeepsNotes) \/ UNCHANGED storeVars
    BY MapStepSaves
  <1>3. UNCHANGED crashes
    BY DEF MapStep, M!TakeExplicit, M!RefuseExplicit, M!ExplicitDone, M!TakeTitle,
           M!SetExplicit, M!SetTitle, M!SetJob, M!LinkExplicit, M!LinkTitle, M!LinkJob,
           M!historyVars
  <1>4. /\ R!Idle \/ UNCHANGED reverseVars
        /\ UNCHANGED <<posts, forwardVars, outbox, forwardHistory, reverseHistory>>
    BY DEF MapStep, GiveUpIf, forumVars, graftVars
  <1>5. ForwardView
    BY <1>2, <1>3, <1>4, Stutters DEF ForwardView
  <1>6. ReverseView
    BY <1>2, <1>3, <1>4 DEF ReverseView
  <1>. QED
    BY <1>1, <1>5, <1>6 DEF Views, MappingView

(* So does one of the forward direction,                                   *)
LEMMA ForwardStepSaves ==
  ASSUME TypeInv, ForwardStep
  PROVE  KeepsNotes \/ UNCHANGED storeVars
  <1>1. CASE F!MarkPost \/ F!MarkHash
    BY <1>1, ForwardActions, ForwardSaves
  <1>2. CASE \/ F!FetchPosts \/ F!FetchFails \/ F!Skip \/ F!Pick \/ F!Dedup
             \/ F!ReplyAccepted \/ F!ReplyRefused \/ F!ReplyLost
    BY <1>2 DEF F!FetchPosts, F!FetchFails, F!Skip, F!Pick, F!Dedup, F!ReplyAccepted,
                F!ReplyRefused, F!ReplyLost, F!storeVars, storeVars
  <1>. QED
    BY <1>1, <1>2 DEF ForwardStep

(* A step of the forward direction.                                        *)
LEMMA ForwardStepViews ==
  ASSUME TypeInv, ForwardStep
  PROVE  Views
  <1>1. FP!Next
    BY ForwardActions DEF ForwardStep, FP!Next, FP!PassStep
  <1>2. KeepsNotes \/ UNCHANGED storeVars
    BY ForwardStepSaves
  <1>3. UNCHANGED crashes
    BY DEF ForwardStep, F!FetchPosts, F!FetchFails, F!Skip, F!Pick, F!Dedup,
           F!ReplyAccepted, F!ReplyRefused, F!ReplyLost, F!MarkPost, F!MarkHash,
           F!historyVars
  <1>4. /\ R!Idle \/ UNCHANGED reverseVars
        /\ UNCHANGED <<mappingVars, outbox, reverseHistory>>
    BY DEF ForwardStep, GiveUpIf, graftVars
  <1>5. MappingView
    BY <1>2, <1>3, <1>4, Stutters DEF MappingView
  <1>6. ReverseView
    BY <1>2, <1>3, <1>4 DEF ReverseView
  <1>. QED
    BY <1>1, <1>5, <1>6 DEF Views, ForwardView

(* and one of the reverse direction.                                       *)
LEMMA ReverseStepSaves ==
  ASSUME TypeInv, ReverseStep
  PROVE  KeepsPosts \/ UNCHANGED storeVars
  <1>1. CASE R!MarkSeen
    BY <1>1, ReverseActions, ReverseSaves
  <1>2. CASE \/ \E c \in CommentIds : R!SkipNote(c) \/ R!DropEcho(c) \/ R!Choose(c)
             \/ R!PostRefused \/ R!EndPass
    BY <1>2 DEF R!SkipNote, R!DropEcho, R!Choose, R!PostRefused, R!EndPass,
                R!storeVars, storeVars
  <1>. QED
    BY <1>1, <1>2 DEF ReverseStep

(* A step of the reverse direction that creates no post.                   *)
LEMMA ReverseStepViews ==
  ASSUME TypeInv, ReverseStep
  PROVE  Views
  <1>1. RP!Next
    BY ReverseActions DEF ReverseStep, RP!Next, RP!PassStep
  <1>2. KeepsPosts \/ UNCHANGED storeVars
    BY ReverseStepSaves
  <1>3. UNCHANGED crashes
    BY DEF ReverseStep, R!SkipNote, R!DropEcho, R!Choose, R!PostRefused, R!EndPass,
           R!MarkSeen, R!historyVars
  <1>4. UNCHANGED <<posts, mappingVars, forwardVars, forwardHistory>>
    BY DEF ReverseStep, forumVars
  <1>5. MappingView
    BY <1>2, <1>3, <1>4, Stutters DEF MappingView
  <1>6. ForwardView
    BY <1>2, <1>3, <1>4, Stutters DEF ForwardView
  <1>. QED
    BY <1>1, <1>5, <1>6 DEF Views, ReverseView

(* The reverse direction creates a post: to the forward direction, a user  *)
(* wrote one.                                                              *)
LEMMA ReverseCreatesViews ==
  ASSUME TypeInv, ReverseCreates
  PROVE  Views
  <1>1. RP!Next
    BY ReverseActions DEF ReverseCreates, RP!Next, RP!PassStep
  <1>2. UNCHANGED <<storeVars, crashes>>
    BY DEF ReverseCreates, R!PostAccepted, R!PostLost, R!storeVars, storeVars
  <1>3. UNCHANGED <<mappingVars, forwardVars, forwardHistory>>
    BY DEF ReverseCreates
  <1>4. MirrorPost(rtarget) \in AllDrafts
    <2>1. rtarget \in Topics
      BY DEF ReverseCreates, R!PostAccepted, R!PostLost, TypeInv, RP!TypeInv, RP!Located
    <2>. QED
      BY <2>1, DraftTypes
  <1>5. FP!UserPosts
    BY <1>2, <1>3, <1>4
    DEF ReverseCreates, FP!UserPosts, forwardVars, forwardHistory, storeVars,
        FP!storeVars, FP!passVars, FP!historyVars
  <1>6. MappingView
    BY <1>2, <1>3, Stutters DEF MappingView
  <1>. QED
    BY <1>1, <1>5, <1>6 DEF Views, ForwardView, ReverseView, FP!Next, FP!Environment

(* A phase begins, or hands over to the next.                              *)
LEMMA HandOverViews ==
  ASSUME TypeInv, Start \/ MappingDone \/ ForwardDone
  PROVE  Views
  <1>1. CASE Start
    <2>1. PICK up \in SUBSET Series : M!Refresh(up, Topics) /\ R!BeginWith(up)
      BY <1>1 DEF Start
    <2>2. MP!Next
      BY <2>1, MappingActions DEF MP!Next, MP!PassStep, MP!Begin
    <2>3. RP!Next
      BY <2>1, ReverseActions DEF RP!Next, RP!PassStep, RP!Begin
    <2>4. UNCHANGED <<storeVars, posts, forwardVars, forwardHistory, crashes>>
      BY <1>1, <2>1 DEF Start, R!BeginWith, R!storeVars, R!historyVars, storeVars
    <2>. QED
      BY <2>2, <2>3, <2>4, Stutters DEF Views, MappingView, ForwardView, ReverseView
  <1>2. CASE MappingDone
    <2>1. MP!Next
      BY <1>2, MappingActions DEF MappingDone, MP!Next, MP!PassStep
    <2>2. FP!Next
      BY <1>2, ForwardActions DEF MappingDone, FP!Next, FP!PassStep
    <2>3. UNCHANGED <<storeVars, outbox, reverseVars, reverseHistory, crashes>>
      BY <1>2 DEF MappingDone, M!PhaseDone, M!storeVars, M!historyVars, storeVars, graftVars
    <2>. QED
      BY <2>1, <2>2, <2>3, Stutters DEF Views, MappingView, ForwardView, ReverseView
  <1>3. CASE ForwardDone
    <2>1. FP!Next
      BY <1>3, ForwardActions DEF ForwardDone, FP!Next, FP!PassStep
    <2>2. RP!Next
      BY <1>3, ReverseActions DEF ForwardDone, RP!Next, RP!PassStep
    <2>3. UNCHANGED <<storeVars, mappingVars, crashes>>
      BY <1>3 DEF ForwardDone, F!EndPass, F!storeVars, F!historyVars, storeVars
    <2>. QED
      BY <2>1, <2>2, <2>3, Stutters DEF Views, MappingView, ForwardView, ReverseView
  <1>. QED
    BY <1>1, <1>2, <1>3

(* What the two sides do on their own, crashes, and nothing.               *)
LEMMA WorldViews ==
  ASSUME TypeInv,
         UserPosts \/ NativeComment \/ Republish \/ Crash \/ TimePasses \/ UNCHANGED vars
  PROVE  Views
  <1>1. CASE UserPosts
    <2>1. UNCHANGED <<storeVars, mappingVars, forwardVars, reverseVars, outbox,
                      forwardHistory, reverseHistory, crashes>>
      BY <1>1 DEF UserPosts, Rest, graftVars
    <2>2. FP!UserPosts
      BY <1>1, <2>1 DEF UserPosts, AllDrafts, FP!UserPosts, forwardVars, forwardHistory,
                        storeVars, FP!storeVars, FP!passVars, FP!historyVars
    <2>. QED
      BY <2>1, <2>2, Stutters
      DEF Views, MappingView, ForwardView, ReverseView, FP!Next, FP!Environment
  <1>2. CASE NativeComment \/ Republish
    <2>1. PICK n \in AllNotes : \E q : Publish(n, q)
      <3>1. CASE NativeComment
        BY <3>1 DEF NativeComment, AllNotes
      <3>2. CASE Republish
        <4>1. PICK i \in Issues, p \in DOMAIN posts :
                /\ UrlOf[i] # NoUrl
                /\ \E q : Publish(EchoNote(i, posts[p].author, posts[p].text), q)
          BY <3>2 DEF Republish
        <4>2. posts[p] \in AllDrafts
          BY DEF TypeInv, Histories
        <4>. QED
          BY <4>1, <4>2 DEF AllNotes
      <3>. QED
        BY <1>2, <3>1, <3>2
    <2>2. UNCHANGED <<storeVars, posts, mappingVars, forwardVars, reverseVars,
                      forwardHistory, reverseHistory, crashes>>
      BY <2>1 DEF Publish, Rest
    <2>3. RP!Publish
      BY <2>1, <2>2 DEF Publish, RP!Publish, reverseVars, reverseHistory, storeVars,
                        RP!storeVars, RP!passVars, RP!historyVars
    <2>. QED
      BY <2>2, <2>3, Stutters
      DEF Views, MappingView, ForwardView, ReverseView, RP!Next, RP!Environment
  <1>3. CASE Crash
    <2>1. MP!Next /\ FP!Next /\ RP!Next
      BY <1>3, MappingActions, ForwardActions, ReverseActions
      DEF Crash, MP!Next, FP!Next, FP!Environment, RP!Next, RP!Environment
    <2>. QED
      BY <2>1 DEF Views, MappingView, ForwardView, ReverseView
  <1>4. CASE UNCHANGED vars
    BY <1>4, Stutters DEF vars, forumVars, graftVars, Views, MappingView, ForwardView, ReverseView
  <1>5. CASE TimePasses
    <2>1. FP!Next /\ RP!Next
      BY <1>5, ForwardActions, ReverseActions
      DEF TimePasses, FP!Next, FP!Environment, RP!Next, RP!Environment
    <2>2. Tick /\ UNCHANGED <<mappingVars, crashes>>
      BY <1>5 DEF TimePasses, F!TimePasses, F!Tick, F!historyVars, Tick
    <2>. QED
      BY <2>1, <2>2 DEF Views, MappingView, ForwardView, ReverseView
  <1>. QED
    BY <1>1, <1>2, <1>3, <1>4, <1>5

(* All of them.                                                            *)
LEMMA NextViews ==
  ASSUME TypeInv, [Next]_vars
  PROVE  Views
  BY MapStepViews, ForwardStepViews, ReverseStepViews, ReverseCreatesViews, HandOverViews,
     WorldViews DEF Next, PassStep

-----------------------------------------------------------------------------
(* The invariants of the composition. *)

(* One phase runs at a time.                                               *)
LEMMA PhasesStep ==
  ASSUME TypeInv, [Next]_vars
  PROVE  Phases'
  <1>0. /\ mpc = "idle" \/ fpc = "idle"
        /\ rpc = "forward" <=> mpc # "idle" \/ fpc # "idle"
    BY DEF TypeInv, Phases
  <1>1. CASE Start
    BY <1>0, <1>1 DEF Start, M!Refresh, R!BeginWith, forwardVars, Phases
  <1>2. CASE MapStep
    <2>1. mpc # "idle" /\ fpc' = fpc
      BY <1>2 DEF MapStep, M!TakeExplicit, M!RefuseExplicit, M!ExplicitDone, M!TakeTitle,
                  M!SetExplicit, M!SetTitle, M!SetJob, M!LinkExplicit, M!LinkTitle,
                  M!LinkJob, forwardVars
    <2>2. IF mpc' = "idle" THEN rpc' = "idle" ELSE rpc' = rpc
      BY <1>2 DEF MapStep, GiveUpIf, R!Idle, reverseVars
    <2>. QED
      BY <1>0, <2>1, <2>2 DEF Phases
  <1>3. CASE MappingDone
    BY <1>0, <1>3 DEF MappingDone, M!PhaseDone, M!Idle, F!Begin, reverseVars, Phases
  <1>4. CASE ForwardStep
    <2>1. fpc # "idle" /\ mpc' = mpc
      BY <1>4 DEF ForwardStep, F!FetchPosts, F!FetchFails, F!Skip, F!Pick, F!Dedup, F!InLoop,
                  F!ReplyAccepted, F!ReplyRefused, F!ReplyLost, F!MarkPost, F!MarkHash,
                  mappingVars
    <2>2. IF fpc' = "idle" THEN rpc' = "idle" ELSE rpc' = rpc
      BY <1>4 DEF ForwardStep, GiveUpIf, R!Idle, reverseVars
    <2>. QED
      BY <1>0, <2>1, <2>2 DEF Phases
  <1>5. CASE ForwardDone
    BY <1>0, <1>5 DEF ForwardDone, F!EndPass, F!Idle, R!ForwardDone, mappingVars, Phases
  <1>6. CASE ReverseStep
    <2>1. rpc # "forward" /\ rpc' # "forward"
      BY <1>6 DEF ReverseStep, R!SkipNote, R!DropEcho, R!Choose, R!Reach, R!PostRefused,
                  R!NextNote, R!MarkSeen, R!EndPass, R!Idle
    <2>. QED
      BY <1>0, <1>6, <2>1 DEF ReverseStep, mappingVars, forwardVars, Phases
  <1>7. CASE ReverseCreates
    BY <1>0, <1>7 DEF ReverseCreates, R!PostAccepted, R!PostLost, R!NextNote,
                      mappingVars, forwardVars, Phases
  <1>8. CASE Crash
    BY <1>8 DEF Crash, M!Crash, M!Idle, F!Crash, F!Idle, R!Crash, R!Idle, Phases
  <1>9. CASE UserPosts \/ NativeComment \/ Republish \/ UNCHANGED vars
    BY <1>0, <1>9 DEF UserPosts, NativeComment, Republish, Publish, Rest, vars,
                      mappingVars, forwardVars, reverseVars, Phases
  <1>10. CASE TimePasses
    BY <1>0, <1>10 DEF TimePasses, F!TimePasses, F!passVars, R!TimePasses, R!passVars,
                       mappingVars, Phases
  <1>. QED
    BY <1>1, <1>2, <1>3, <1>4, <1>5, <1>6, <1>7, <1>8, <1>9, <1>10 DEF Next, PassStep

(* The forum grows by posts that may be written.                           *)
LEMMA PostsGrow ==
  ASSUME TypeInv, [Next]_vars
  PROVE  posts' = posts \/ \E d \in AllDrafts : posts' = Append(posts, d)
  <1>1. CASE UserPosts
    BY <1>1 DEF UserPosts, AllDrafts
  <1>2. CASE ReverseCreates
    <2>1. rtarget \in Topics
      BY <1>2 DEF ReverseCreates, R!PostAccepted, R!PostLost, TypeInv, RP!TypeInv, RP!Located
    <2>. QED
      BY <1>2, <2>1, DraftTypes DEF ReverseCreates
  <1>3. CASE ~UserPosts /\ ~ReverseCreates
    BY <1>3
    DEF Next, PassStep, Start, MapStep, MappingDone, F!Begin, ForwardStep, F!FetchPosts,
        F!FetchFails, F!Skip, F!Pick, F!Dedup, F!ReplyAccepted, F!ReplyRefused,
        F!ReplyLost, F!MarkPost, F!MarkHash, ForwardDone, F!EndPass, ReverseStep,
        NativeComment, Republish, Publish, Crash, F!Crash, TimePasses, F!TimePasses, vars,
        forumVars
  <1>. QED
    BY <1>1, <1>2, <1>3

(* What was copied is counted.                                             *)
LEMMA CopyTypes ==
  ASSUME TypeInv
  PROVE  /\ fcopies \in [Series \X PostIds -> Nat]
         /\ rcopies \in [Series \X CommentIds -> Nat]
  <1>1. fcopies \in [Series \X PostIds -> Nat]
    BY DEF TypeInv, FP!TypeInv, FP!TypeOK, FP!Keys
  <1>2. rcopies \in [Series \X CommentIds -> Nat]
    BY DEF TypeInv, RP!TypeInv, RP!TypeOK, RP!Keys
  <1>. QED
    BY <1>1, <1>2

(* The index of a post is an id.                                           *)
LEMMA PostIndex ==
  ASSUME TypeInv
  PROVE  \A p \in DOMAIN posts : p \in PostIds
  <1>1. posts \in Seq(AllDrafts) /\ Len(posts) <= MaxForum /\ MaxForum \in Nat
    BY BridgeAssumption DEF TypeInv, Histories, FP!TypeInv, FP!TypeOK
  <1>. QED
    BY <1>1, BridgeAssumption

(* A note that republishes acceptance q is made of the post Graft accepted. *)
Republishes(n, q) == /\ q \in Acceptances
                     /\ q[2] \in DOMAIN posts
                     /\ n.hash = FP!HashOf(posts[q[2]])
                     /\ q[3] \in 1..fcopies[<<q[1], q[2]>>]

(* Graft republishes comments it accepted only, each once.                 *)
LEMMA RepublishStep ==
  ASSUME TypeInv, Republish
  PROVE  \E n \in AllNotes, q \in Acceptances :
           Publish(n, q) /\ Republishes(n, q) /\ q \notin Range(source)
  <1>0. posts \in Seq(AllDrafts) /\ fcopies \in [Series \X PostIds -> Nat]
    BY DEF TypeInv, Histories, FP!TypeInv, FP!TypeOK, FP!Keys
  <1>1. PICK i \in Issues, p \in DOMAIN posts :
          /\ UrlOf[i] # NoUrl
          /\ \E k \in 1..fcopies[<<SeriesOf[i], p>>] :
               /\ <<SeriesOf[i], p, k>> \notin Range(source)
               /\ Publish(EchoNote(i, posts[p].author, posts[p].text), <<SeriesOf[i], p, k>>)
    BY DEF Republish
  <1>2. PICK k \in 1..fcopies[<<SeriesOf[i], p>>] :
          /\ <<SeriesOf[i], p, k>> \notin Range(source)
          /\ Publish(EchoNote(i, posts[p].author, posts[p].text), <<SeriesOf[i], p, k>>)
    BY <1>1
  <1>3. PICK n : n = EchoNote(i, posts[p].author, posts[p].text)
    OBVIOUS
  <1>4. posts[p] \in AllDrafts /\ p \in PostIds
    BY <1>0, PostIndex
  <1>5. n \in AllNotes /\ n.hash = FP!HashOf(posts[p])
    <2>1. PICK d \in AllDrafts : d = posts[p]
      BY <1>4
    <2>2. n = EchoNote(i, d.author, d.text)
      BY <1>3, <2>1
    <2>3. n \in AllNotes
      BY <1>1, <2>2 DEF AllNotes
    <2>4. n.hash = FP!HashOf(d)
      BY <2>2 DEF EchoNote, FP!HashOf
    <2>. QED
      BY <2>1, <2>3, <2>4
  <1>6. <<SeriesOf[i], p, k>> \in Acceptances
    <2>1. SeriesOf[i] \in Series
      BY BridgeAssumption
    <2>2. k \in Nat
      BY <1>0, <1>4, <2>1
    <2>. QED
      BY <1>4, <2>1, <2>2 DEF Acceptances
  <1>. QED
    BY <1>2, <1>3, <1>5, <1>6 DEF Republishes

(* The outbox grows by native notes, whose source is nobody's, and by      *)
(* republished comments.                                                   *)
LEMMA OutboxGrows ==
  ASSUME TypeInv, [Next]_vars
  PROVE  \/ UNCHANGED <<source, outbox>>
         \/ \E n \in AllNotes, q \in {Nobody} \cup Acceptances :
              /\ outbox' = Append(outbox, n) /\ source' = Append(source, q)
              /\ q # Nobody => Republishes(n, q) /\ q \notin Range(source)
  <1>1. CASE NativeComment
    BY <1>1 DEF NativeComment, Publish, AllNotes
  <1>2. CASE Republish
    BY <1>2, RepublishStep DEF Publish
  <1>3. CASE ~NativeComment /\ ~Republish
    BY <1>3
    DEF Next, PassStep, Start, R!BeginWith, MapStep, MappingDone, ForwardStep, ForwardDone,
        R!ForwardDone, ReverseStep, R!SkipNote, R!DropEcho, R!Choose, R!PostRefused,
        R!MarkSeen, R!EndPass, ReverseCreates, R!PostAccepted, R!PostLost, UserPosts,
        Crash, R!Crash, TimePasses, R!TimePasses, vars, graftVars
  <1>. QED
    BY <1>1, <1>2, <1>3

(* Posts are posts, every note has a source, and failed saves are counted  *)
(* up to the bound.                                                        *)
LEMMA HistoriesStep ==
  ASSUME TypeInv, [Next]_vars
  PROVE  Histories'
  <1>0. /\ posts \in Seq(AllDrafts)
        /\ source \in Seq({Nobody} \cup Acceptances) /\ Len(source) = Len(outbox)
        /\ failed \in 0..MaxFailed /\ outbox \in Seq(AllNotes) /\ MaxFailed \in Nat
    BY BridgeAssumption DEF TypeInv, Histories, RP!TypeInv, RP!TypeOK
  <1>1. posts' \in Seq(AllDrafts)
    <2>1. ASSUME NEW d \in AllDrafts, posts' = Append(posts, d)
          PROVE  posts' \in Seq(AllDrafts)
      BY <1>0, <2>1
    <2>. QED
      BY <1>0, <2>1, PostsGrow
  <1>3. failed' \in 0..MaxFailed
    <2>1. CASE CountFailed
      BY <1>0, <2>1 DEF CountFailed
    <2>2. CASE UNCHANGED failed
      BY <1>0, <2>2
    <2>. QED
      BY <2>1, <2>2
      DEF Next, PassStep, Start, MapStep, MappingDone, ForwardStep, ForwardDone, ReverseStep,
          ReverseCreates, UserPosts, NativeComment, Republish, Publish, Rest, Crash,
          TimePasses, vars
  <1>4. source' \in Seq({Nobody} \cup Acceptances) /\ Len(source') = Len(outbox')
    <2>1. CASE UNCHANGED <<source, outbox>>
      BY <1>0, <2>1
    <2>2. ASSUME NEW n \in AllNotes, NEW q \in {Nobody} \cup Acceptances,
                 outbox' = Append(outbox, n), source' = Append(source, q)
          PROVE  source' \in Seq({Nobody} \cup Acceptances) /\ Len(source') = Len(outbox')
      <3>1. source' \in Seq({Nobody} \cup Acceptances) /\ Len(source') = Len(source) + 1
        BY <1>0, <2>2
      <3>2. Len(outbox') = Len(outbox) + 1
        BY <1>0, <2>2
      <3>. QED
        BY <1>0, <3>1, <3>2
    <2>. QED
      BY OutboxGrows, <2>1, <2>2
  <1>. QED
    BY <1>1, <1>3, <1>4 DEF Histories

(* The forward direction sends nothing of the bot's: it decides on the     *)
(* author of a post of its batch, which is that post of the forum.         *)
LEMMA HomeStep ==
  ASSUME FP!TypeInv, HomeInv, ForwardView
  PROVE  HomeInv'
  <1>0. /\ posts \in Seq(FP!Posts) /\ batch \in Seq(FP!Posts)
        /\ fcopies \in [FP!Keys -> Nat] /\ FP!Keys = Series \X PostIds
        /\ FP!InBody => at \in 1..Len(batch)
    BY DEF FP!TypeInv, FP!TypeOK, FP!Located, FP!Keys
  <1>1. /\ Len(batch) <= Len(posts)
        /\ \A p \in 1..Len(batch) : batch[p] = posts[p]
        /\ FP!InBody => batch[at].author # BotUsername
        /\ \A s \in Series, p \in PostIds :
             (p \in DOMAIN posts => posts[p].author = BotUsername) => fcopies[<<s, p>>] = 0
    BY DEF HomeInv
  <1>. USE DEF FP!historyVars, FP!passVars
  <1>2. CASE FP!FetchPosts \/ FP!FetchFails \/ FP!EndPass \/ FP!Crash
    BY <1>0, <1>1, <1>2
    DEF FP!FetchPosts, FP!FetchFails, FP!EndPass, FP!Crash, FP!Idle, HomeInv, FP!InBody
  <1>3. CASE FP!Pick
    BY <1>0, <1>1, <1>3 DEF FP!Pick, FP!Wanted, HomeInv
  <1>4. CASE FP!Skip \/ FP!ReplyRefused \/ FP!Dedup
    BY <1>0, <1>1, <1>4
    DEF FP!Skip, FP!ReplyRefused, FP!Dedup, FP!NextPost, HomeInv, FP!InBody
  <1>5. CASE FP!ReplyAccepted \/ FP!ReplyLost
    <2>1. FP!InBody
      BY <1>5 DEF FP!ReplyAccepted, FP!ReplyLost, FP!InBody
    <2>2. at \in DOMAIN posts /\ posts[at].author # BotUsername
      BY <1>0, <1>1, <2>1
    <2>3. posts' = posts /\ batch' = batch /\ fcopies' = [fcopies EXCEPT ![FP!Key] = @ + 1]
      BY <1>5 DEF FP!ReplyAccepted, FP!ReplyLost, FP!Accept, FP!NextPost, FP!Key
    <2>4. ASSUME NEW s \in Series, NEW p \in PostIds,
                 p \in DOMAIN posts => posts[p].author = BotUsername
          PROVE  fcopies'[<<s, p>>] = 0
      <3>1. <<s, p>> # FP!Key /\ <<s, p>> \in DOMAIN fcopies
        BY <1>0, <2>2, <2>4 DEF FP!Key
      <3>. QED
        BY <1>1, <2>3, <2>4, <3>1
    <2>5. FP!InBody' => batch'[at'].author # BotUsername
      BY <1>1, <1>5, <2>1, <2>3
      DEF FP!ReplyAccepted, FP!ReplyLost, FP!NextPost, FP!InBody
    <2>. QED
      BY <1>1, <2>3, <2>4, <2>5 DEF HomeInv
  <1>6. CASE FP!MarkPost \/ FP!MarkHash
    <2>1. FP!InBody /\ posts' = posts /\ fcopies' = fcopies
      BY <1>6 DEF FP!MarkPost, FP!MarkHash, FP!InBody
    <2>2. \/ batch' = <<>> /\ ~FP!InBody'
          \/ batch' = batch /\ at' = at
          \/ batch' = batch /\ ~FP!InBody'
      BY <1>6 DEF FP!MarkPost, FP!MarkHash, FP!Idle, FP!NextPost, FP!InBody
    <2>. QED
      BY <1>0, <1>1, <2>1, <2>2 DEF HomeInv
  <1>7. CASE FP!UserPosts
    <2>1. PICK d \in AllDrafts : posts' = Append(posts, d)
      BY <1>7 DEF FP!UserPosts
    <2>2. /\ UNCHANGED <<batch, at, fpc, fcopies>>
          /\ Len(posts') = Len(posts) + 1
          /\ \A p \in DOMAIN posts : p \in DOMAIN posts' /\ posts'[p] = posts[p]
      BY <1>0, <1>7, <2>1, DraftTypes DEF FP!UserPosts
    <2>. QED
      BY <1>0, <1>1, <2>2 DEF HomeInv, FP!InBody
  <1>8. CASE \/ FP!Begin \/ FP!Bind \/ FP!Unbind \/ FP!TimePasses \/ UNCHANGED FP!vars
             \/ KeepsPosts /\ UNCHANGED <<posts, forwardVars, forwardHistory, crashes>>
    <2>1. /\ UNCHANGED <<posts, batch, at, fcopies>>
          /\ fpc' = fpc \/ ~FP!InBody'
      BY <1>8 DEF FP!Begin, FP!Bind, FP!Unbind, FP!TimePasses, FP!vars, FP!InBody,
                  forwardVars, forwardHistory
    <2>. QED
      BY <1>1, <2>1 DEF HomeInv, FP!InBody
  <1>9. CASE FP!UserEdits
    BY <1>9 DEF FP!UserEdits
  <1>. QED
    BY <1>2, <1>3, <1>4, <1>5, <1>6, <1>7, <1>8, <1>9
    DEF ForwardView, FP!Next, FP!PassStep, FP!Environment

-----------------------------------------------------------------------------
(* The theorems. *)

(* The initial state of the composition is the phases' own.                *)
LEMMA BridgeInit == Init => TypeInv /\ PromiseInv /\ HomeInv
  <1> SUFFICES ASSUME Init PROVE TypeInv /\ PromiseInv /\ HomeInv
    OBVIOUS
  <1>1. MP!Init
    BY DEF Init, M!Init, M!StoreInit, M!NoState, M!EmptyMap, M!NoJob, M!NoRequest,
           MP!Init, MP!StoreInit, MP!NoState, MP!EmptyMap, MP!NoJob, MP!NoRequest
  <1>2. FP!Init
    BY DEF Init, F!Init, F!StoreInit, F!NoState, F!EmptyMap,
           FP!Init, FP!StoreInit, FP!NoState, FP!EmptyMap
  <1>3. RP!Init
    BY DEF Init, R!Init, R!StoreInit, R!NoState, R!EmptyMap, R!Keys,
           RP!Init, RP!StoreInit, RP!NoState, RP!EmptyMap, RP!Keys
  <1>4. MP!TypeInv /\ FP!TypeInv /\ RP!TypeInv
    BY <1>1, <1>2, <1>3, Assumptions, MP!TypeInit, FP!TypeInit, RP!TypeInit
  <1>5. PromiseInv
    BY <1>2, <1>3, Assumptions, FP!DedupInit, RP!SeenInit DEF PromiseInv
  <1>6. Phases
    BY DEF Init, M!Init, F!Init, R!Init, Phases
  <1>7. Histories
    BY BridgeAssumption DEF Init, F!Init, R!Init, Histories
  <1>8. HomeInv
    BY DEF Init, F!Init, HomeInv, FP!InBody
  <1>. QED
    BY <1>4, <1>5, <1>6, <1>7, <1>8 DEF TypeInv

(* Every step keeps the three invariants and is, in both directions, a     *)
(* step of Mirror.                                                         *)
LEMMA BridgeStep ==
  ASSUME TypeInv, PromiseInv, HomeInv, [Next]_vars
  PROVE  /\ TypeInv' /\ PromiseInv' /\ HomeInv'
         /\ [FP!Promise!Next]_(FP!Promise!mirrorVars)
         /\ [RP!Promise!Next]_(RP!Promise!mirrorVars)
  <1>1. MappingView /\ ForwardView /\ ReverseView
    BY NextViews DEF Views
  <1>2. /\ MP!TypeInv /\ FP!TypeInv /\ RP!TypeInv
        /\ FP!DedupInv /\ RP!SeenInv
    BY DEF TypeInv, PromiseInv
  <1>3. MP!TypeInv'
    BY <1>1, <1>2, MappingKeeps
  <1>4. FP!TypeInv' /\ FP!DedupInv' /\ [FP!Promise!Next]_(FP!Promise!mirrorVars)
    BY <1>1, <1>2, ForwardKeeps
  <1>5. RP!TypeInv' /\ RP!SeenInv' /\ [RP!Promise!Next]_(RP!Promise!mirrorVars)
    BY <1>1, <1>2, ReverseKeeps
  <1>6. HomeInv'
    BY <1>1, <1>2, HomeStep
  <1>7. Phases' /\ Histories'
    BY PhasesStep, HistoriesStep
  <1>. QED
    BY <1>3, <1>4, <1>5, <1>6, <1>7 DEF TypeInv, PromiseInv

(* Whatever the phases, the users, Graft and crashes do, every variable    *)
(* stays well typed in its phase and only one phase runs at a time.        *)
THEOREM TypeCorrect == Spec => []TypeOK
  <1>1. TypeInv /\ PromiseInv /\ HomeInv /\ [Next]_vars
          => TypeInv' /\ PromiseInv' /\ HomeInv'
    BY BridgeStep
  <1>2. TypeInv => TypeOK
    <2> SUFFICES ASSUME TypeInv PROVE TypeOK
      OBVIOUS
    <2>1. M!TypeOK
      BY DEF TypeInv, MP!TypeInv, MP!TypeOK, MP!StoreTypeOK, MP!IsState, MP!IsMap, MP!PCs,
             MP!Jobs, MP!NoJob, MP!NoRequest, M!TypeOK, M!StoreTypeOK, M!IsState, M!IsMap,
             M!PCs, M!Jobs, M!NoJob, M!NoRequest
    <2>2. F!TypeOK
      BY DEF TypeInv, FP!TypeInv, FP!TypeOK, FP!StoreTypeOK, FP!IsState, FP!IsMap, FP!PCs,
             FP!Keys, FP!Posts, F!TypeOK, F!StoreTypeOK, F!IsState, F!IsMap, F!PCs,
             F!Keys, F!Posts
    <2>3. R!TypeOK
      BY DEF TypeInv, RP!TypeInv, RP!TypeOK, RP!StoreTypeOK, RP!IsState, RP!IsMap, RP!PCs,
             RP!Keys, R!TypeOK, R!StoreTypeOK, R!IsState, R!IsMap, R!PCs, R!Keys
    <2>. QED
      BY <2>1, <2>2, <2>3 DEF TypeOK, TypeInv, Phases, Histories
  <1> QED
    BY BridgeInit, <1>1, <1>2, PTL DEF Spec

(* Both directions implement Mirror while they share the store, prune and  *)
(* save each other's sets, and write what the other one reads.             *)
THEOREM BothKeep == Spec => BothKeepPromise
  <1>1. Init => F!Promise!Init /\ R!Promise!Init
    BY DEF Init, F!Init, F!StoreInit, F!NoState, F!EmptyMap, F!Marked, F!Keys,
           F!Promise!Init, R!Init, R!StoreInit, R!NoState, R!EmptyMap, R!Seen, R!Keys,
           R!Promise!Init
  <1>2. [FP!Promise!Next]_(FP!Promise!mirrorVars) => [F!Promise!Next]_(F!Promise!mirrorVars)
    BY DEF FP!Promise!Next, FP!Promise!Account, FP!Promise!Copy, FP!Promise!mirrorVars,
           FP!Marked, FP!Keys, F!Promise!Next, F!Promise!Account, F!Promise!Copy,
           F!Promise!mirrorVars, F!Marked, F!Keys
  <1>3. [RP!Promise!Next]_(RP!Promise!mirrorVars) => [R!Promise!Next]_(R!Promise!mirrorVars)
    BY DEF RP!Promise!Next, RP!Promise!Account, RP!Promise!Copy, RP!Promise!mirrorVars,
           RP!Seen, RP!Keys, R!Promise!Next, R!Promise!Account, R!Promise!Copy,
           R!Promise!mirrorVars, R!Seen, R!Keys
  <1>4. TypeInv /\ PromiseInv /\ HomeInv /\ [Next]_vars
          => /\ TypeInv' /\ PromiseInv' /\ HomeInv'
             /\ [F!Promise!Next]_(F!Promise!mirrorVars)
             /\ [R!Promise!Next]_(R!Promise!mirrorVars)
    BY BridgeStep, <1>2, <1>3
  <1> QED
    BY BridgeInit, <1>1, <1>4, PTL
    DEF Spec, BothKeepPromise, F!KeepsPromise, R!KeepsPromise, F!Promise!Spec, R!Promise!Spec

(* A comment mirrored into the forum is never sent to Graft as if a user   *)
(* had written it, whatever failed before.                                 *)
THEOREM MirrorsStay == Spec => []MirrorsStayHome
  <1>1. TypeInv /\ PromiseInv /\ HomeInv /\ [Next]_vars
          => TypeInv' /\ PromiseInv' /\ HomeInv'
    BY BridgeStep
  <1>2. TypeInv /\ HomeInv => MirrorsStayHome
    <2> SUFFICES ASSUME TypeInv, HomeInv,
                        NEW p \in DOMAIN posts, NEW s \in Series,
                        posts[p].author = BotUsername
                 PROVE  fcopies[<<s, p>>] = 0
      BY DEF MirrorsStayHome
    <2>1. p \in PostIds
      <3>1. Len(posts) <= MaxForum
        BY DEF TypeInv, FP!TypeInv, FP!TypeOK
      <3>2. posts \in Seq(AllDrafts)
        BY DEF TypeInv, Histories
      <3>3. MaxForum \in Nat /\ PostIds = 1..MaxForum
        BY BridgeAssumption
      <3>. QED
        BY <3>1, <3>2, <3>3
    <2>. QED
      BY <2>1 DEF HomeInv
  <1> QED
    BY BridgeInit, <1>1, <1>2, PTL DEF Spec

=============================================================================
