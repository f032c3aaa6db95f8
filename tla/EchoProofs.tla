----------------------------- MODULE EchoProofs -----------------------------
(***************************************************************************)
(* What TLAPS proves about echoes: what Discourse users wrote does not     *)
(* come back without a fault, and at most once per fault, for every forum, *)
(* every set of series and notes and every number of faults.               *)
(***************************************************************************)
EXTENDS BridgeProofs

-----------------------------------------------------------------------------
(* What a step does to the faults, the store and the two sides.            *)

NoFault == crashes + flost + failed = 0

(* Faults are counted, one at most of each kind in a step.                 *)
LEMMA FaultsStep ==
  ASSUME TypeInv, [Next]_vars
  PROVE  /\ crashes \in Nat /\ flost \in Nat /\ rlost \in Nat /\ failed \in Nat
         /\ crashes' = crashes \/ crashes' = crashes + 1
         /\ flost' = flost \/ flost' = flost + 1
         /\ rlost' = rlost \/ rlost' = rlost + 1
         /\ failed' = failed \/ failed' = failed + 1
         /\ Crash => crashes' = crashes + 1
  <1>1. crashes \in Nat /\ flost \in Nat /\ rlost \in Nat /\ failed \in Nat
    <2>1. crashes \in Nat /\ flost \in Nat
      BY BridgeAssumption DEF TypeInv, FP!TypeInv, FP!TypeOK
    <2>2. rlost \in Nat
      BY BridgeAssumption DEF TypeInv, RP!TypeInv, RP!TypeOK
    <2>. QED
      BY <2>1, <2>2, BridgeAssumption DEF TypeInv, Histories
  <1>2. ForwardView /\ ReverseView
    BY NextViews DEF Views
  <1>3. /\ crashes' = crashes \/ crashes' = crashes + 1
        /\ flost' = flost \/ flost' = flost + 1
    <2>1. CASE [FP!Next]_(FP!vars)
      BY <2>1
      DEF FP!Next, FP!PassStep, FP!Environment, FP!Begin, FP!FetchPosts, FP!FetchFails,
          FP!EndPass, FP!Skip, FP!Pick, FP!Dedup, FP!ReplyAccepted, FP!ReplyRefused,
          FP!ReplyLost, FP!MarkPost, FP!MarkHash, FP!Crash, FP!UserPosts, FP!UserEdits,
          FP!Bind, FP!Unbind, FP!TimePasses, FP!vars, FP!historyVars
    <2>2. CASE KeepsPosts /\ UNCHANGED <<posts, forwardVars, forwardHistory, crashes>>
      BY <2>2 DEF forwardHistory
    <2>. QED
      BY <1>2, <2>1, <2>2 DEF ForwardView
  <1>4. rlost' = rlost \/ rlost' = rlost + 1
    <2>1. CASE [RP!Next]_(RP!vars)
      BY <2>1
      DEF RP!Next, RP!PassStep, RP!Environment, RP!Begin, RP!BeginWith, RP!ForwardMarks,
          RP!ForwardDone, RP!ForwardFails, RP!SkipNote, RP!DropEcho, RP!Choose,
          RP!PostAccepted, RP!PostRefused, RP!PostLost, RP!MarkSeen, RP!EndPass, RP!Crash,
          RP!Publish, RP!Link, RP!Unbind, RP!TimePasses, RP!vars, RP!historyVars
    <2>2. CASE UNCHANGED reverseHistory
      BY <2>2 DEF reverseHistory
    <2>. QED
      BY <1>2, <2>1, <2>2 DEF ReverseView
  <1>5. failed' = failed \/ failed' = failed + 1
    BY DEF Next, PassStep, Start, MapStep, MappingDone, ForwardStep, ForwardDone, ReverseStep,
           ReverseCreates, CountFailed, UserPosts, NativeComment, Republish, Publish, Rest,
           Crash, TimePasses, vars
  <1>6. Crash => crashes' = crashes + 1
    BY DEF Crash, F!Crash
  <1>. QED
    BY <1>1, <1>3, <1>4, <1>5, <1>6

(* Without faults so far there was none before.                            *)
LEMMA FaultsStay ==
  ASSUME TypeInv, [Next]_vars, NoFault'
  PROVE  NoFault /\ ~Crash /\ failed = 0 /\ failed' = 0 /\ flost' = flost
  BY FaultsStep DEF NoFault

(* How a step moves the store.                                             *)
LEMMA StoreMoves ==
  ASSUME TypeInv, [Next]_vars
  PROVE  \/ (MapStep \/ ForwardStep \/ ReverseStep) /\ Grows
         \/ UNCHANGED storeVars \/ Crash \/ TimePasses
  <1>1. CASE MapStep \/ ForwardStep \/ ReverseStep
    <2>1. KeepsPosts \/ KeepsNotes => Grows
      BY DEF KeepsPosts, KeepsNotes, Grows
    <2>. QED
      BY <1>1, <2>1, MapStepSaves, ForwardStepSaves, ReverseStepSaves
  <1>2. CASE ~(MapStep \/ ForwardStep \/ ReverseStep \/ Crash \/ TimePasses)
    BY <1>2
    DEF Next, PassStep, Start, R!BeginWith, R!storeVars, MappingDone, M!PhaseDone,
        M!storeVars, ForwardDone, R!ForwardDone, ReverseCreates, R!PostAccepted, R!PostLost,
        UserPosts, NativeComment, Republish, Publish, Rest, vars, storeVars
  <1>. QED
    BY <1>1, <1>2

(* Until an entry can be old, what is recorded stays recorded but for a    *)
(* crash; the file is replaced by the struct or stays; a failed save that  *)
(* leaves the file behind is counted.                                      *)
LEMMA StoreStep ==
  ASSUME TypeInv, [Next]_vars
  PROVE  /\ now \in Nat /\ now' \in Nat /\ now <= now'
         /\ now <= Retention /\ ~Crash => Within(mem, mem')
         /\ disk' = disk \/ disk' = mem'
         /\ Crash => mem' = disk /\ disk' = disk
         /\ failed = 0 /\ failed' = 0 /\ disk = mem => disk' = mem'
  <1>0. StoreTypeOK /\ now \in Nat /\ Retention \in Nat
    BY StoreAssumption, OneStore DEF TypeInv, MP!TypeInv, MP!TypeOK, StoreTypeOK
  <1>1. CASE UNCHANGED storeVars
    BY <1>0, <1>1 DEF storeVars, Within, Crash, M!Crash, M!Load
  <1>2. CASE Crash
    BY <1>0, <1>2 DEF Crash, M!Crash, M!Load
  <1>3. CASE TimePasses
    BY <1>0, <1>3 DEF TimePasses, F!TimePasses, F!Tick, Within, Crash, M!Crash, M!Load
  <1>4. CASE (MapStep \/ ForwardStep \/ ReverseStep) /\ Grows
    <2>1. CountFailed
      BY <1>4 DEF MapStep, ForwardStep, ReverseStep
    <2>2. PICK st : Grown(st) /\ \E ok \in BOOLEAN : Save(st, ok)
      BY <1>4 DEF Grows
    <2>3. PICK ok \in BOOLEAN : Save(st, ok)
      BY <2>2
    <2>4. now <= Retention => Within(mem, mem')
      BY <1>0, <2>2, <2>3, SaveMarks, SaveSeen, SaveHashes DEF Grown, Within
    <2>5. now' = now /\ (disk' = mem' \/ disk' = disk)
      BY <2>3 DEF Save
    <2>6. failed = 0 /\ failed' = 0 /\ disk = mem => disk' = mem'
      BY <2>1, <2>5 DEF CountFailed
    <2>7. Crash => mem' = disk /\ disk' = disk
      BY DEF Crash, M!Crash, M!Load
    <2>. QED
      BY <1>0, <2>4, <2>5, <2>6, <2>7
  <1>. QED
    BY <1>1, <1>2, <1>3, <1>4, StoreMoves

(* What Graft accepted stays accepted, and posts stay what they are.       *)
LEMMA ForumStep ==
  ASSUME TypeInv, PromiseInv, [Next]_vars
  PROVE  /\ \A p \in DOMAIN posts : p \in DOMAIN posts' /\ posts'[p] = posts[p]
         /\ fcopies' \in [Series \X PostIds -> Nat]
         /\ \A k \in Series \X PostIds : fcopies[k] <= fcopies'[k]
  <1>1. \A p \in DOMAIN posts : p \in DOMAIN posts' /\ posts'[p] = posts[p]
    <2>1. posts \in Seq(AllDrafts)
      BY DEF TypeInv, Histories
    <2>2. ASSUME NEW d \in AllDrafts, posts' = Append(posts, d)
          PROVE  \A p \in DOMAIN posts : p \in DOMAIN posts' /\ posts'[p] = posts[p]
      BY <2>1, <2>2
    <2>. QED
      BY <2>2, PostsGrow
  <1>2. fcopies \in [FP!Keys -> Nat] /\ FP!Keys = Series \X PostIds
    BY DEF TypeInv, FP!TypeInv, FP!TypeOK, FP!Keys
  <1>3. [FP!Promise!Next]_(FP!Promise!mirrorVars)
    BY NextViews, ForwardKeeps DEF TypeInv, PromiseInv, Views
  <1>4. \A k \in Series \X PostIds : fcopies[k] <= fcopies'[k] /\ fcopies'[k] \in Nat
    BY <1>2, <1>3 DEF FP!Promise!Next, FP!Promise!Account, FP!Promise!Copy, FP!Promise!mirrorVars
  <1>5. fcopies' \in [Series \X PostIds -> Nat]
    BY NextViews, ForwardKeeps
    DEF TypeInv, PromiseInv, Views, FP!TypeInv, FP!TypeOK, FP!Keys
  <1>. QED
    BY <1>1, <1>4, <1>5

(* An echo of the next state is one already, or was just published, of an  *)
(* acceptance no other echo is of.                                         *)
LEMMA EchoesStep ==
  ASSUME TypeInv, [Next]_vars
  PROVE  /\ Echoes \subseteq Echoes' /\ DOMAIN source' = DOMAIN outbox'
         /\ \A c \in DOMAIN outbox : c \in DOMAIN outbox' /\ outbox'[c] = outbox[c]
         /\ \A c \in Echoes' :
              \/ c \in Echoes /\ c \in DOMAIN outbox /\ source'[c] = source[c]
              \/ /\ c \notin DOMAIN outbox /\ Republishes(outbox'[c], source'[c])
                 /\ \A d \in Echoes' : source'[d] = source'[c] => d = c
  <1>0. /\ source \in Seq({Nobody} \cup Acceptances) /\ Len(source) = Len(outbox)
        /\ outbox \in Seq(AllNotes)
    BY DEF TypeInv, Histories, RP!TypeInv, RP!TypeOK
  <1>1. CASE UNCHANGED <<source, outbox>>
    BY <1>0, <1>1 DEF Echoes
  <1>2. ASSUME NEW n \in AllNotes, NEW q \in {Nobody} \cup Acceptances,
               outbox' = Append(outbox, n), source' = Append(source, q),
               q # Nobody => Republishes(n, q) /\ q \notin Range(source)
        PROVE  /\ Echoes \subseteq Echoes' /\ DOMAIN source' = DOMAIN outbox'
               /\ \A c \in DOMAIN outbox : c \in DOMAIN outbox' /\ outbox'[c] = outbox[c]
               /\ \A c \in Echoes' :
                    \/ c \in Echoes /\ c \in DOMAIN outbox /\ source'[c] = source[c]
                    \/ /\ c \notin DOMAIN outbox /\ Republishes(outbox'[c], source'[c])
                       /\ \A d \in Echoes' : source'[d] = source'[c] => d = c
    <2>1. /\ DOMAIN source = DOMAIN outbox /\ DOMAIN outbox = 1..Len(outbox)
          /\ DOMAIN source' = 1..Len(outbox) + 1 /\ DOMAIN outbox' = 1..Len(outbox) + 1
          /\ Len(outbox) \in Nat
      BY <1>0, <1>2
    <2>2. \A c \in 1..Len(outbox) : source'[c] = source[c] /\ outbox'[c] = outbox[c]
      BY <1>0, <1>2
    <2>3. source'[Len(outbox) + 1] = q /\ outbox'[Len(outbox) + 1] = n
      BY <1>0, <1>2
    <2>4. ASSUME NEW d \in DOMAIN source PROVE source[d] \in Range(source)
      BY DEF Range
    <2>. QED
      BY <1>2, <2>1, <2>2, <2>3, <2>4 DEF Echoes
  <1>. QED
    BY <1>1, <1>2, OutboxGrows

(* Discourse creates posts of the comment in hand only.                    *)
LEMMA MirrorStep ==
  ASSUME TypeInv, [Next]_vars
  PROVE  \/ rcopies' = rcopies
         \/ /\ ReverseCreates /\ rpc = "post" /\ note \in DOMAIN outbox
            /\ rcopies' = [rcopies EXCEPT ![RP!KeyOf(note)] = @ + 1]
  <1>1. CASE ReverseCreates
    <2>1. rcopies' = [rcopies EXCEPT ![RP!KeyOf(note)] = @ + 1] /\ rpc = "post"
      BY <1>1 DEF ReverseCreates, R!PostAccepted, R!PostLost, R!Create, R!KeyOf, RP!KeyOf
    <2>. QED
      BY <1>1, <2>1 DEF TypeInv, RP!TypeInv, RP!Located, RP!InHand
  <1>2. CASE ~ReverseCreates
    BY <1>2
    DEF Next, PassStep, Start, R!BeginWith, MapStep, MappingDone, ForwardStep, ForwardDone,
        R!ForwardDone, ReverseStep, R!SkipNote, R!DropEcho, R!Choose, R!PostRefused,
        R!MarkSeen, R!EndPass, UserPosts, NativeComment, Republish, Publish, Rest,
        Crash, R!Crash, TimePasses, R!TimePasses, R!historyVars, reverseHistory, vars
  <1>. QED
    BY <1>1, <1>2

(* The reverse direction is not at work while the forward direction is.    *)
LEMMA Apart ==
  ASSUME TypeInv
  PROVE  /\ rpc \in {"idle", "scan", "post", "see"} => fpc = "idle" /\ mpc = "idle"
         /\ mpc # "idle" => fpc = "idle"
  BY DEF TypeInv, Phases

(* The forward direction marks a post: the mark is in the struct; with the *)
(* save it goes on to the hash, without it the pass ends.                  *)
LEMMA MarkPostStep ==
  ASSUME TypeInv, ForwardStep, F!MarkPost, now <= Retention
  PROVE  /\ fpc = "mark" /\ fcopies' = fcopies
         /\ FP!Key \in DOMAIN mem'.postsDelivered
         /\ \/ disk' = mem' /\ fpc' = "hash" /\ at' = at /\ ftarget' = ftarget
            \/ disk' = disk /\ fpc' = "idle"
  <1>1. FP!MarkPost /\ fpc = "mark" /\ fcopies' = fcopies
    BY ForwardActions DEF F!MarkPost, F!historyVars
  <1>2. PICK ok \in BOOLEAN :
          /\ FP!Save(FP!MarkPostDelivered(mem, SeriesOf[ftarget], at), ok)
          /\ IF ok THEN fpc' = "hash" /\ at' = at /\ ftarget' = ftarget ELSE fpc' = "idle"
    BY <1>1, StoreAssumption DEF FP!MarkPost, FP!Idle
  <1>3. PICK st : st = MarkPostDelivered(mem, SeriesOf[ftarget], at)
    OBVIOUS
  <1>4. FP!MarkPostDelivered(mem, SeriesOf[ftarget], at) = st
    BY <1>3 DEF FP!MarkPostDelivered, MarkPostDelivered, FP!Put, Put
  <1>5. StoreTypeOK /\ FP!TypeInv
    BY OneStore DEF TypeInv, FP!TypeInv, FP!TypeOK
  <1>6. SeriesOf[ftarget] \in Series /\ at \in PostIds
    BY <1>1, <1>5, Assumptions, FP!KeyType DEF FP!InBody
  <1>7. IsState(st) /\ FP!Key \in DOMAIN st.postsDelivered
    BY <1>3, <1>5, <1>6, SettersType, SettersMarks DEF StoreTypeOK, FP!Key
  <1>8. Save(st, ok)
    BY <1>2, <1>4, OneStore
  <1>9. DOMAIN mem'.postsDelivered = DOMAIN st.postsDelivered
    BY <1>5, <1>7, <1>8, SaveMarks
  <1>. QED
    BY <1>1, <1>2, <1>7, <1>8, <1>9 DEF Save

(* It records the hash of a post, with which it is done with the post.     *)
LEMMA MarkHashStep ==
  ASSUME TypeInv, ForwardStep, F!MarkHash, now <= Retention
  PROVE  /\ fpc = "hash" /\ fcopies' = fcopies /\ fpc' \notin {"mark", "hash"}
         /\ FP!HashOf(batch[at]) \in DOMAIN mem'.delivered
         /\ disk' = mem' \/ disk' = disk
  <1>1. FP!MarkHash /\ fpc = "hash" /\ fcopies' = fcopies /\ fpc' \notin {"mark", "hash"}
    BY ForwardActions DEF F!MarkHash, F!historyVars, F!NextPost, F!Idle
  <1>2. PICK ok \in BOOLEAN : FP!Save(FP!MarkDelivered(mem, FP!HashOf(batch[at])), ok)
    BY <1>1, StoreAssumption DEF FP!MarkHash
  <1>3. PICK st : st = MarkDelivered(mem, FP!HashOf(batch[at]))
    OBVIOUS
  <1>4. FP!MarkDelivered(mem, FP!HashOf(batch[at])) = st
    BY <1>3 DEF FP!MarkDelivered, MarkDelivered, FP!Put, Put
  <1>5. StoreTypeOK /\ FP!TypeInv
    BY OneStore DEF TypeInv, FP!TypeInv, FP!TypeOK
  <1>6. FP!HashOf(batch[at]) \in Hashes
    BY <1>1, <1>5, Assumptions, FP!BatchType DEF FP!TypeInv, FP!Located, FP!InBody
  <1>7. IsState(st) /\ FP!HashOf(batch[at]) \in DOMAIN st.delivered
    BY <1>3, <1>5, <1>6, SettersType, SettersHashes DEF StoreTypeOK
  <1>8. Save(st, ok)
    BY <1>2, <1>4, OneStore
  <1>9. DOMAIN mem'.delivered = DOMAIN st.delivered
    BY <1>5, <1>7, <1>8, SaveHashes
  <1>. QED
    BY <1>1, <1>7, <1>8, <1>9 DEF Save

(* The reverse direction marks a comment seen and is done with it.         *)
LEMMA MarkSeenStep ==
  ASSUME TypeInv, ReverseStep, R!MarkSeen, now <= Retention
  PROVE  /\ rpc = "see" /\ rpc' \notin {"post", "see"} /\ note \in DOMAIN outbox
         /\ RP!KeyOf(note) \in DOMAIN mem'.seenNotes
         /\ disk' = mem' \/ disk' = disk
  <1>1. RP!MarkSeen /\ rpc = "see" /\ rpc' \notin {"post", "see"}
    BY ReverseActions DEF R!MarkSeen, R!NextNote, R!Idle
  <1>2. PICK ok \in BOOLEAN : RP!Save(RP!MarkSeenNote(mem, outbox[note].series, note), ok)
    BY <1>1, StoreAssumption DEF RP!MarkSeen
  <1>3. PICK st : st = MarkSeenNote(mem, outbox[note].series, note)
    OBVIOUS
  <1>4. RP!MarkSeenNote(mem, outbox[note].series, note) = st
    BY <1>3 DEF RP!MarkSeenNote, MarkSeenNote, RP!Put, Put
  <1>5. StoreTypeOK /\ RP!TypeInv
    BY OneStore DEF TypeInv, RP!TypeInv, RP!TypeOK
  <1>6. note \in DOMAIN outbox /\ outbox[note].series \in Series /\ note \in CommentIds
    <2>1. note \in DOMAIN outbox
      BY <1>1, <1>5 DEF RP!TypeInv, RP!Located, RP!InHand
    <2>2. outbox[note] \in AllNotes /\ note \in CommentIds
      BY <1>5, <2>1, Assumptions, RP!KeyType
    <2>. QED
      BY <2>1, <2>2, NoteTypes
  <1>7. IsState(st) /\ RP!KeyOf(note) \in DOMAIN st.seenNotes
    BY <1>3, <1>5, <1>6, SettersType, SettersSeen DEF StoreTypeOK, RP!KeyOf
  <1>8. Save(st, ok)
    BY <1>2, <1>4, OneStore
  <1>9. DOMAIN mem'.seenNotes = DOMAIN st.seenNotes
    BY <1>5, <1>7, <1>8, SaveSeen
  <1>. QED
    BY <1>1, <1>6, <1>7, <1>8, <1>9 DEF Save

(* No other step marks or records for the forward direction, and only a    *)
(* crash takes the post it is marking out of its hands.                    *)
LEMMA PostInHand ==
  ASSUME TypeInv, [Next]_vars,
         ~(ForwardStep /\ (F!MarkPost \/ F!MarkHash \/ F!ReplyAccepted))
  PROVE  /\ fcopies' = fcopies \/ (ForwardStep /\ F!ReplyLost)
         /\ fpc' \in {"mark", "hash"} =>
              fpc' = fpc /\ at' = at /\ ftarget' = ftarget /\ UNCHANGED <<mem, disk>>
         /\ fpc \in {"mark", "hash"} =>
              Crash \/ (fpc' = fpc /\ at' = at /\ ftarget' = ftarget)
  <1>1. CASE ForwardStep
    BY <1>1
    DEF ForwardStep, F!FetchPosts, F!FetchFails, F!Skip, F!Pick, F!Dedup, F!InLoop,
        F!ReplyRefused, F!ReplyLost, F!NextPost, F!Idle, F!historyVars
  <1>2. CASE Start \/ MapStep \/ ReverseStep \/ ReverseCreates
    <2>1. fpc = "idle"
      BY <1>2, Apart
      DEF Start, R!BeginWith, MapStep, M!TakeExplicit, M!RefuseExplicit, M!ExplicitDone,
          M!TakeTitle, M!SetExplicit, M!SetTitle, M!SetJob, M!LinkExplicit, M!LinkTitle,
          M!LinkJob, ReverseStep, R!SkipNote, R!DropEcho, R!Choose, R!Reach,
          R!PostRefused, R!MarkSeen, R!EndPass, ReverseCreates, R!PostAccepted, R!PostLost
    <2>. QED
      BY <1>2, <2>1
      DEF Start, MapStep, ReverseStep, ReverseCreates, forwardVars, forwardHistory
  <1>3. CASE MappingDone \/ ForwardDone
    BY <1>3 DEF MappingDone, F!Begin, ForwardDone, F!EndPass, F!Idle, F!historyVars
  <1>4. CASE UserPosts \/ NativeComment \/ Republish \/ UNCHANGED vars
    BY <1>4 DEF UserPosts, NativeComment, Republish, Publish, Rest, vars, storeVars,
                forwardVars, forwardHistory
  <1>5. CASE TimePasses
    BY <1>5 DEF TimePasses, F!TimePasses, F!Tick, F!passVars, F!historyVars
  <1>6. CASE Crash
    BY <1>6 DEF Crash, F!Crash, F!Idle
  <1>. QED
    BY <1>1, <1>2, <1>3, <1>4, <1>5, <1>6 DEF Next, PassStep

(* What the reverse direction may come to hold, and how it lets go of a    *)
(* comment it is about to mark.                                            *)
LEMMA NoteInHand ==
  ASSUME TypeInv, [Next]_vars
  PROVE  /\ rpc' \in {"post", "see"} =>
              \/ \E c \in CommentIds : ReverseStep /\ (R!DropEcho(c) \/ R!Choose(c))
              \/ ReverseCreates /\ R!PostAccepted
              \/ rpc' = rpc /\ note' = note /\ UNCHANGED <<mem, disk>>
         /\ rpc = "see" =>
              \/ ReverseStep /\ R!MarkSeen
              \/ Crash
              \/ rpc' = "see" /\ note' = note
  <1>1. CASE ReverseStep
    BY <1>1
    DEF ReverseStep, R!SkipNote, R!DropEcho, R!Choose, R!Reach, R!PostRefused, R!NextNote,
        R!MarkSeen, R!EndPass, R!Idle
  <1>2. CASE ReverseCreates
    BY <1>2 DEF ReverseCreates, R!PostAccepted, R!PostLost, R!NextNote
  <1>3. CASE Start \/ ForwardDone
    BY <1>3 DEF Start, R!BeginWith, ForwardDone, R!ForwardDone
  <1>4. CASE MapStep \/ MappingDone \/ ForwardStep
    <2>1. rpc = "forward"
      BY <1>4, Apart DEF TypeInv, Phases, MapStep, M!TakeExplicit, M!RefuseExplicit,
         M!ExplicitDone, M!TakeTitle, M!SetExplicit, M!SetTitle, M!SetJob, M!LinkExplicit,
         M!LinkTitle, M!LinkJob, MappingDone, M!PhaseDone, ForwardStep, F!FetchPosts,
         F!FetchFails, F!Skip, F!Pick, F!Dedup, F!InLoop, F!ReplyAccepted, F!ReplyRefused,
         F!ReplyLost, F!MarkPost, F!MarkHash
    <2>. QED
      BY <1>4, <2>1 DEF MapStep, MappingDone, ForwardStep, GiveUpIf, R!Idle, reverseVars
  <1>5. CASE UserPosts \/ NativeComment \/ Republish \/ UNCHANGED vars
    BY <1>5 DEF UserPosts, NativeComment, Republish, Publish, Rest, vars, storeVars, reverseVars
  <1>6. CASE TimePasses
    BY <1>6 DEF TimePasses, R!TimePasses, R!Tick, R!passVars
  <1>7. CASE Crash
    BY <1>7 DEF Crash, R!Crash, R!Idle
  <1>. QED
    BY <1>1, <1>2, <1>3, <1>4, <1>5, <1>6, <1>7 DEF Next, PassStep

-----------------------------------------------------------------------------
(* The echo guard.                                                         *)

(* An echo is of an acceptance, no two of the same one, no comment is      *)
(* mirrored before it is published, and a struct ahead of its file was     *)
(* counted.                                                                *)
EchoInv ==
  /\ \A c \in Echoes : Republishes(outbox[c], source[c])
  /\ \A c, d \in Echoes : source[c] = source[d] => c = d
  /\ \A s \in Series, c \in CommentIds : c \notin DOMAIN outbox => rcopies[<<s, c>>] = 0
  /\ failed = 0 => disk = mem

(* What is in hand is not recorded yet: the post being marked has no mark, *)
(* nor has the comment being mirrored or marked, whose hash is not one the *)
(* bridge forwarded; and once the mark of a post is saved, file and struct *)
(* agree.                                                                  *)
HandInv ==
  /\ fpc = "mark" => FP!Key \notin FP!Marked
  /\ fpc = "hash" => disk = mem
  /\ rpc \in {"post", "see"} => RP!KeyOf(note) \notin DOMAIN mem.seenNotes
  /\ rpc = "post" => outbox[note].hash \notin DOMAIN mem.delivered

(* Until an entry can be old, the struct has every entry of the file.      *)
AheadInv == now <= Retention => Within(disk, mem)

(* Without faults the hash of every accepted post is recorded, but for the *)
(* one the loop is about to record; the reverse direction, which does not  *)
(* run then, has mirrored no echo and does not hold one.                   *)
Guarded ==
  /\ \A s \in Series, p \in DOMAIN posts :
       fcopies[<<s, p>>] > 0 => \/ FP!HashOf(posts[p]) \in DOMAIN mem.delivered
                                \/ (fpc \in {"mark", "hash"} /\ p = at)
  /\ rpc = "post" => note \notin Echoes
  /\ \A c \in Echoes : rcopies[RP!KeyOf(c)] = 0

GuardInv == now <= Retention /\ NoFault => Guarded

(* An invariant of every step, faults or not.                              *)
LEMMA EchoStep ==
  ASSUME TypeInv, PromiseInv, EchoInv, [Next]_vars
  PROVE  EchoInv'
  <1>0. /\ failed \in Nat /\ failed' \in Nat
        /\ rcopies \in [Series \X CommentIds -> Nat]
        /\ fcopies \in [Series \X PostIds -> Nat]
    BY HistoriesStep, CopyTypes, BridgeAssumption DEF TypeInv, Histories
  <1>1. ASSUME NEW c \in Echoes', NEW d \in Echoes', source'[c] = source'[d]
        PROVE  c = d
    BY <1>1, EchoesStep DEF EchoInv
  <1>2. ASSUME NEW c \in Echoes'
        PROVE  Republishes(outbox[c], source[c])'
    <2>1. Republishes(outbox'[c], source'[c])
      <3>1. CASE c \in Echoes /\ c \in DOMAIN outbox /\ source'[c] = source[c]
        BY <3>1, EchoesStep DEF EchoInv
      <3>. QED
        BY <1>2, <3>1, EchoesStep
    <2>2. PICK q : q = source'[c]
      OBVIOUS
    <2>3. /\ q \in Acceptances /\ q[2] \in DOMAIN posts
          /\ outbox'[c].hash = FP!HashOf(posts[q[2]])
          /\ q[3] \in 1..fcopies[<<q[1], q[2]>>]
      BY <2>1, <2>2 DEF Republishes
    <2>4. <<q[1], q[2]>> \in Series \X PostIds
      BY <2>3 DEF Acceptances
    <2>5. /\ q[2] \in DOMAIN posts' /\ posts'[q[2]] = posts[q[2]]
          /\ q[3] \in 1..fcopies'[<<q[1], q[2]>>]
      <3>1. /\ fcopies[<<q[1], q[2]>>] \in Nat /\ fcopies'[<<q[1], q[2]>>] \in Nat
            /\ fcopies[<<q[1], q[2]>>] <= fcopies'[<<q[1], q[2]>>]
        BY <1>0, <2>4, ForumStep
      <3>. QED
        BY <2>3, <3>1, ForumStep
    <2>. QED
      BY <2>2, <2>3, <2>5 DEF Republishes, FP!HashOf
  <1>3. ASSUME NEW s \in Series, NEW c \in CommentIds, c \notin DOMAIN outbox'
        PROVE  rcopies'[<<s, c>>] = 0
    <2>1. c \notin DOMAIN outbox
      BY <1>3, EchoesStep
    <2>2. rcopies[<<s, c>>] = 0
      BY <2>1 DEF EchoInv
    <2>3. CASE rcopies' = rcopies
      BY <2>2, <2>3
    <2>4. CASE /\ note \in DOMAIN outbox
               /\ rcopies' = [rcopies EXCEPT ![RP!KeyOf(note)] = @ + 1]
      BY <1>0, <2>1, <2>2, <2>4 DEF RP!KeyOf
    <2>. QED
      BY <2>3, <2>4, MirrorStep
  <1>4. failed' = 0 => disk' = mem'
    <2>1. failed' = failed \/ failed' = failed + 1
      BY DEF Next, PassStep, Start, MapStep, MappingDone, ForwardStep, ForwardDone,
             ReverseStep, ReverseCreates, CountFailed, UserPosts, NativeComment, Republish,
             Publish, Rest, Crash, TimePasses, vars
    <2>. QED
      BY <1>0, <2>1, StoreStep DEF EchoInv
  <1>. QED
    BY <1>1, <1>2, <1>3, <1>4 DEF EchoInv

(* The struct stays ahead of the file, and the file grows.                 *)
LEMMA AheadStep ==
  ASSUME TypeInv, AheadInv, [Next]_vars
  PROVE  AheadInv' /\ (now' <= Retention => now <= Retention /\ Within(disk, disk'))
  <1>1. now' <= Retention => now <= Retention
    BY StoreStep, StoreAssumption
  <1>2. ASSUME now <= Retention
        PROVE  Within(disk', mem') /\ Within(disk, disk')
    <2>1. Within(disk, mem)
      BY <1>2 DEF AheadInv
    <2>2. CASE Crash
      BY <2>2, StoreStep DEF Within
    <2>3. CASE ~Crash
      BY <1>2, <2>1, <2>3, StoreStep DEF Within
    <2>. QED
      BY <2>2, <2>3
  <1>. QED
    BY <1>1, <1>2 DEF AheadInv, Within

(* What comes into hand is not recorded, and only the step that records it *)
(* leaves it recorded.                                                     *)
LEMMA HandStep ==
  ASSUME TypeInv, PromiseInv, HandInv, [Next]_vars
  PROVE  HandInv'
  <1>1. /\ fpc' = "mark" => FP!Key' \notin FP!Marked'
        /\ fpc' = "hash" => disk' = mem'
    <2>1. CASE ForwardStep /\ F!MarkPost
      <3>1. FP!MarkPost
        BY <2>1, ForwardActions
      <3>2. PICK ok \in BOOLEAN :
              /\ FP!Save(FP!MarkPostDelivered(mem, SeriesOf[ftarget], at), ok)
              /\ IF ok THEN fpc' = "hash" ELSE fpc' = "idle"
        BY <3>1, StoreAssumption DEF FP!MarkPost, FP!Idle
      <3>3. Save(FP!MarkPostDelivered(mem, SeriesOf[ftarget], at), ok)
        BY <3>2, OneStore
      <3>. QED
        BY <3>2, <3>3 DEF Save
    <2>2. CASE ForwardStep /\ F!MarkHash
      BY <2>2 DEF F!MarkHash, F!NextPost, F!Idle
    <2>3. CASE ForwardStep /\ F!ReplyAccepted
      <3>1. /\ fpc = "reply" /\ fpc' = "mark" /\ at' = at /\ ftarget' = ftarget
            /\ UNCHANGED storeVars
        BY <2>3 DEF F!ReplyAccepted, F!storeVars, storeVars
      <3>. QED
        BY <3>1 DEF PromiseInv, FP!DedupInv, FP!Key, FP!Marked, storeVars
    <2>4. CASE ~(ForwardStep /\ (F!MarkPost \/ F!MarkHash \/ F!ReplyAccepted))
      BY <2>4, PostInHand DEF HandInv, FP!Key, FP!Marked
    <2>. QED
      BY <2>1, <2>2, <2>3, <2>4
  <1>2. /\ rpc' \in {"post", "see"} => RP!KeyOf(note)' \notin DOMAIN mem'.seenNotes
        /\ rpc' = "post" => outbox'[note'].hash \notin DOMAIN mem'.delivered
    <2>1. ASSUME NEW c \in CommentIds, ReverseStep, R!DropEcho(c) \/ R!Choose(c)
          PROVE  /\ RP!KeyOf(note)' \notin DOMAIN mem'.seenNotes
                 /\ rpc' = "post" => outbox'[note'].hash \notin DOMAIN mem'.delivered
      BY <2>1 DEF R!DropEcho, R!Choose, R!SeenNote, R!IsEcho, R!IsDelivered, RP!KeyOf,
                  R!storeVars
    <2>2. ASSUME ReverseCreates, R!PostAccepted
          PROVE  RP!KeyOf(note)' \notin DOMAIN mem'.seenNotes /\ rpc' = "see"
      BY <2>2 DEF R!PostAccepted, HandInv, RP!KeyOf, R!storeVars
    <2>3. ASSUME rpc' = rpc, note' = note, UNCHANGED <<mem, disk>>, rpc \in {"post", "see"}
          PROVE  /\ RP!KeyOf(note)' \notin DOMAIN mem'.seenNotes
                 /\ rpc' = "post" => outbox'[note'].hash \notin DOMAIN mem'.delivered
      <3>1. note \in DOMAIN outbox
        BY <2>3 DEF TypeInv, RP!TypeInv, RP!Located, RP!InHand
      <3>2. outbox'[note] = outbox[note]
        BY <3>1, EchoesStep
      <3>. QED
        BY <2>3, <3>2 DEF HandInv, RP!KeyOf
    <2>. QED
      BY <2>1, <2>2, <2>3, NoteInHand
  <1>. QED
    BY <1>1, <1>2 DEF HandInv, RP!KeyOf

(* A comment that was not there is mirrored later.                         *)
LEMMA NewEchoes ==
  ASSUME TypeInv, PromiseInv, EchoInv, [Next]_vars, NEW c \in Echoes', c \notin DOMAIN outbox
  PROVE  rcopies'[RP!KeyOf(c)'] = 0
  <1>1. RP!TypeInv'
    BY NextViews, ReverseKeeps DEF TypeInv, PromiseInv, Views
  <1>2. c \in DOMAIN outbox'
    BY EchoesStep DEF Echoes
  <1>3. outbox'[c].series \in Series /\ c \in CommentIds
    <2>1. /\ outbox' \in Seq(AllNotes) /\ Len(outbox') <= MaxNotes /\ MaxNotes \in Nat
      BY <1>1, BridgeAssumption DEF RP!TypeInv, RP!TypeOK
    <2>2. outbox'[c] \in AllNotes /\ c \in CommentIds
      BY <1>2, <2>1, BridgeAssumption
    <2>. QED
      BY <2>2, NoteTypes
  <1>4. RP!KeyOf(c)' = <<outbox'[c].series, c>> /\ rcopies[<<outbox'[c].series, c>>] = 0
    BY <1>3 DEF RP!KeyOf, EchoInv
  <1>5. rcopies \in [Series \X CommentIds -> Nat]
    BY CopyTypes
  <1>6. CASE /\ note \in DOMAIN outbox
             /\ rcopies' = [rcopies EXCEPT ![RP!KeyOf(note)] = @ + 1]
    BY <1>3, <1>4, <1>5, <1>6 DEF RP!KeyOf
  <1>. QED
    BY <1>4, <1>6, MirrorStep

(* Without faults the hash of every accepted post is recorded in time.     *)
LEMMA RecordedStep ==
  ASSUME TypeInv, PromiseInv, HomeInv, EchoInv, HandInv, Guarded, NoFault', [Next]_vars,
         now <= Retention
  PROVE  \A s \in Series, p \in DOMAIN posts' :
            fcopies'[<<s, p>>] > 0 => \/ FP!HashOf(posts'[p]) \in DOMAIN mem'.delivered
                                      \/ (fpc' \in {"mark", "hash"} /\ p = at')
  <1>0. /\ NoFault /\ ~Crash /\ failed = 0 /\ failed' = 0 /\ flost' = flost
        /\ DOMAIN mem.delivered \subseteq DOMAIN mem'.delivered
        /\ disk = mem /\ disk' = mem'
    BY FaultsStay, StoreStep DEF EchoInv, Within
  <1>1. /\ fcopies \in [Series \X PostIds -> Nat]
        /\ \A p \in DOMAIN posts' : p \in PostIds
        /\ \A p \in DOMAIN posts : p \in DOMAIN posts' /\ posts'[p] = posts[p]
    <2>1. FP!TypeInv'
      BY NextViews, ForwardKeeps DEF TypeInv, PromiseInv, Views
    <2>2. posts' \in Seq(FP!Posts) /\ Len(posts') <= MaxForum /\ MaxForum \in Nat
      BY <2>1, BridgeAssumption DEF FP!TypeInv, FP!TypeOK, FP!Posts
    <2>3. \A p \in DOMAIN posts' : p \in PostIds
      BY <2>2, BridgeAssumption
    <2>4. fcopies \in [Series \X PostIds -> Nat]
      BY DEF TypeInv, FP!TypeInv, FP!TypeOK, FP!Keys
    <2>. QED
      BY <2>3, <2>4, ForumStep
  <1>2. ASSUME NEW s \in Series, NEW p \in DOMAIN posts', fcopies[<<s, p>>] > 0
        PROVE  \/ FP!HashOf(posts'[p]) \in DOMAIN mem'.delivered
               \/ (fpc \in {"mark", "hash"} /\ p = at /\ p \in DOMAIN posts)
    <2>1. p \in DOMAIN posts
      BY <1>1, <1>2 DEF HomeInv
    <2>2. FP!HashOf(posts'[p]) = FP!HashOf(posts[p])
      BY <1>1, <2>1 DEF FP!HashOf
    <2>. QED
      BY <1>0, <1>2, <2>1, <2>2 DEF Guarded
  <1>3. CASE ForwardStep /\ F!MarkPost
    <2>1. /\ fpc = "mark" /\ fcopies' = fcopies
          /\ FP!Key \in DOMAIN mem'.postsDelivered
          /\ \/ disk' = mem' /\ fpc' = "hash" /\ at' = at
             \/ disk' = disk /\ fpc' = "idle"
      BY <1>3, MarkPostStep
    <2>2. disk' # disk
      BY <1>0, <2>1 DEF HandInv, FP!Marked
    <2>. QED
      BY <1>2, <2>1, <2>2
  <1>4. CASE ForwardStep /\ F!MarkHash
    <2>1. /\ fpc = "hash" /\ fcopies' = fcopies
          /\ FP!HashOf(batch[at]) \in DOMAIN mem'.delivered
      BY <1>4, MarkHashStep
    <2>2. at \in DOMAIN posts => batch[at] = posts[at] /\ posts'[at] = posts[at]
      BY <1>1, <2>1 DEF HomeInv, TypeInv, FP!TypeInv, FP!Located, FP!InBody
    <2>. QED
      BY <1>2, <2>1, <2>2
  <1>5. CASE ForwardStep /\ F!ReplyAccepted
    <2>1. /\ fpc' = "mark" /\ at' = at
          /\ fcopies' = [fcopies EXCEPT ![FP!Key] = @ + 1]
      BY <1>5 DEF F!ReplyAccepted, F!Accept, FP!Key
    <2>2. ASSUME NEW s \in Series, NEW p \in DOMAIN posts', fcopies'[<<s, p>>] > 0
          PROVE  fcopies[<<s, p>>] > 0 \/ p = at
      <3>1. p \in PostIds
        BY <1>1
      <3>. QED
        BY <1>1, <2>1, <2>2, <3>1 DEF FP!Key
    <2>. QED
      BY <1>2, <2>1, <2>2
  <1>6. CASE ~(ForwardStep /\ (F!MarkPost \/ F!MarkHash \/ F!ReplyAccepted))
    <2>1. flost \in Nat /\ ~(ForwardStep /\ F!ReplyLost)
      BY <1>0, FaultsStep DEF F!ReplyLost
    <2>. QED
      BY <1>0, <1>2, <1>6, <2>1, PostInHand
  <1>. QED
    BY <1>3, <1>4, <1>5, <1>6

(* Without faults the reverse direction neither holds nor has mirrored      *)
(* an echo: it sees the hash of every one, because the forward direction   *)
(* is through.                                                             *)
LEMMA MirroredStep ==
  ASSUME TypeInv, PromiseInv, EchoInv, Guarded, NoFault', [Next]_vars
  PROVE  /\ rpc' = "post" => note' \notin Echoes'
         /\ \A c \in Echoes' : rcopies'[RP!KeyOf(c)'] = 0
  <1>0. /\ ~Crash
        /\ rcopies \in [Series \X CommentIds -> Nat] /\ outbox \in Seq(AllNotes)
        /\ note \in DOMAIN outbox \cup {Nothing}
        /\ rpc \in {"post", "see"} => note \in DOMAIN outbox
    BY FaultsStay
    DEF TypeInv, RP!TypeInv, RP!TypeOK, RP!Keys, RP!Located, RP!InHand
  <1>1. CASE \E c \in CommentIds : ReverseStep /\ R!Choose(c)
    <2>1. PICK c \in CommentIds : ReverseStep /\ R!Choose(c)
      BY <1>1
    <2>2. /\ rpc = "scan" /\ ~R!IsEcho(outbox[c]) /\ note' = c
          /\ UNCHANGED <<outbox, source, rcopies>>
      BY <2>1 DEF R!Choose, R!Reach, R!historyVars, ReverseStep
    <2>3. fpc = "idle"
      BY <2>2, Apart
    <2>4. c \notin Echoes
      <3>1. SUFFICES ASSUME c \in Echoes PROVE FALSE
        OBVIOUS
      <3>2. PICK q \in Acceptances : /\ q[2] \in DOMAIN posts
                                     /\ outbox[c].hash = FP!HashOf(posts[q[2]])
                                     /\ q[3] \in 1..fcopies[<<q[1], q[2]>>]
        BY <3>1 DEF EchoInv, Republishes
      <3>3. q[1] \in Series /\ fcopies[<<q[1], q[2]>>] > 0
        <4>1. <<q[1], q[2]>> \in Series \X PostIds
          BY DEF Acceptances
        <4>2. fcopies[<<q[1], q[2]>>] \in Nat
          BY <4>1 DEF TypeInv, FP!TypeInv, FP!TypeOK, FP!Keys
        <4>. QED
          BY <3>2, <4>1, <4>2
      <3>4. FP!HashOf(posts[q[2]]) \in DOMAIN mem.delivered
        BY <2>3, <3>2, <3>3 DEF Guarded
      <3>. QED
        BY <2>2, <3>2, <3>4 DEF R!IsEcho, R!IsDelivered
    <2>. QED
      BY <2>2, <2>4 DEF Guarded, Echoes, RP!KeyOf
  <1>2. CASE ReverseCreates
    <2>1. /\ rpc = "post" /\ rpc' # "post" /\ UNCHANGED <<outbox, source>>
          /\ rcopies' = [rcopies EXCEPT ![RP!KeyOf(note)] = @ + 1]
      BY <1>2 DEF ReverseCreates, R!PostAccepted, R!PostLost, R!NextNote, R!Create,
                  R!KeyOf, RP!KeyOf
    <2>2. ASSUME NEW c \in Echoes'
          PROVE  rcopies'[RP!KeyOf(c)'] = 0
      <3>1. c \in Echoes /\ RP!KeyOf(c)' = RP!KeyOf(c) /\ rcopies[RP!KeyOf(c)] = 0
        BY <2>1 DEF Guarded, Echoes, RP!KeyOf
      <3>2. c # note
        BY <2>1, <3>1 DEF Guarded
      <3>3. RP!KeyOf(c) # RP!KeyOf(note)
        BY <3>2 DEF RP!KeyOf
      <3>. QED
        BY <1>0, <2>1, <3>1, <3>3
    <2>. QED
      BY <2>1, <2>2
  <1>3. CASE ~ReverseCreates /\ ~\E c \in CommentIds : ReverseStep /\ R!Choose(c)
    <2>1. rcopies' = rcopies /\ (rpc' = "post" => rpc = "post" /\ note' = note)
      <3>1. CASE ReverseStep
        BY <1>3, <3>1
        DEF ReverseStep, R!SkipNote, R!DropEcho, R!Reach, R!PostRefused, R!NextNote, R!MarkSeen,
            R!EndPass, R!Idle, R!historyVars
      <3>2. CASE Start \/ ForwardDone
        BY <3>2 DEF Start, R!BeginWith, ForwardDone, R!ForwardDone, R!historyVars
      <3>3. CASE MapStep \/ MappingDone \/ ForwardStep
        BY <3>3 DEF MapStep, MappingDone, ForwardStep, GiveUpIf, R!Idle, reverseVars,
                    reverseHistory
      <3>4. CASE UserPosts \/ NativeComment \/ Republish \/ UNCHANGED vars
        BY <3>4 DEF UserPosts, NativeComment, Republish, Publish, Rest, vars, reverseVars,
                    reverseHistory
      <3>5. CASE TimePasses
        BY <3>5 DEF TimePasses, R!TimePasses, R!passVars, R!historyVars
      <3>. QED
        BY <1>0, <1>3, <3>1, <3>2, <3>3, <3>4, <3>5 DEF Next, PassStep
    <2>2. ASSUME NEW c \in Echoes'
          PROVE  /\ rcopies'[RP!KeyOf(c)'] = 0
                 /\ c \in Echoes \/ c \notin DOMAIN outbox
      <3>1. CASE c \in Echoes /\ c \in DOMAIN outbox
        BY <2>1, <3>1, EchoesStep DEF Guarded, RP!KeyOf
      <3>2. CASE c \notin DOMAIN outbox
        BY <2>2, <3>2, NewEchoes
      <3>. QED
        BY <2>2, <3>1, <3>2, EchoesStep
    <2>. QED
      BY <1>0, <2>1, <2>2 DEF Guarded
  <1>. QED
    BY <1>1, <1>2, <1>3

(* The invariants of the echo guard are kept.                              *)
LEMMA GuardStep ==
  ASSUME TypeInv, PromiseInv, HomeInv, EchoInv, HandInv, GuardInv, [Next]_vars
  PROVE  EchoInv' /\ GuardInv'
  <1>1. EchoInv'
    BY EchoStep
  <1>2. ASSUME now' <= Retention, NoFault'
        PROVE  Guarded'
    <2>0. now <= Retention
      BY <1>2, StoreStep, StoreAssumption
    <2>1. Guarded
      BY <1>2, <2>0, FaultsStay DEF GuardInv
    <2>2. \A s \in Series, p \in DOMAIN posts' :
             fcopies'[<<s, p>>] > 0 => \/ FP!HashOf(posts'[p]) \in DOMAIN mem'.delivered
                                       \/ (fpc' \in {"mark", "hash"} /\ p = at')
      BY <1>2, <2>0, <2>1, RecordedStep
    <2>3. /\ rpc' = "post" => note' \notin Echoes'
          /\ \A c \in Echoes' : rcopies'[RP!KeyOf(c)'] = 0
      BY <1>2, <2>1, MirroredStep
    <2>. QED
      BY <2>2, <2>3 DEF Guarded, FP!HashOf, RP!KeyOf
  <1>. QED
    BY <1>1, <1>2 DEF GuardInv

-----------------------------------------------------------------------------
(* One echo per fault.  An acceptance is open while its echo might still   *)
(* be mirrored: its hash is not in the file, the loop is not about to      *)
(* record it, and its echo, if published, is not settled.  A fault opens   *)
(* at most one, and mirroring an echo closes the one it is of.             *)

Recording(q) == /\ fpc \in {"mark", "hash"}
                /\ q = <<SeriesOf[ftarget], at, fcopies[FP!Key]>>

Settled(c) == \/ RP!KeyOf(c) \in DOMAIN disk.seenNotes
              \/ rpc = "see" /\ note = c

Open == {q \in Acceptances :
           /\ q[2] \in DOMAIN posts
           /\ q[3] \in 1..fcopies[<<q[1], q[2]>>]
           /\ ~Recording(q)
           /\ FP!HashOf(posts[q[2]]) \notin DOMAIN disk.delivered
           /\ \A c \in Echoes : source[c] = q => ~Settled(c)}

CountInv ==
  now <= Retention =>
    /\ IsFiniteSet(Open) /\ IsFiniteSet(Returned)
    /\ Cardinality(Open) + Cardinality(Returned) <= Faults

(* The acceptance a fault of this state would open.                        *)
Suspect == CASE fpc \in {"mark", "hash"} -> <<SeriesOf[ftarget], at, fcopies[FP!Key]>>
             [] fpc = "reply"            -> <<SeriesOf[ftarget], at, fcopies[FP!Key] + 1>>
             [] OTHER                    -> source[note]

(* How the three ways to remain within a finite set bound its size.        *)
LEMMA Counting ==
  ASSUME NEW A, IsFiniteSet(A), NEW B
  PROVE  /\ B \subseteq A =>
              IsFiniteSet(B) /\ Cardinality(B) <= Cardinality(A)
         /\ \A x : B \subseteq A \cup {x} =>
              IsFiniteSet(B) /\ Cardinality(B) <= Cardinality(A) + 1
         /\ \A x \in A : B \subseteq A \ {x} =>
              IsFiniteSet(B) /\ Cardinality(B) + 1 <= Cardinality(A)
         /\ Cardinality(A) \in Nat
         /\ IsFiniteSet(B) => Cardinality(B) \in Nat
  <1>1. /\ B \subseteq A => IsFiniteSet(B) /\ Cardinality(B) <= Cardinality(A)
        /\ Cardinality(A) \in Nat
        /\ IsFiniteSet(B) => Cardinality(B) \in Nat
    BY FS_Subset, FS_CardinalityType
  <1>2. ASSUME NEW x, B \subseteq A \cup {x}
        PROVE  IsFiniteSet(B) /\ Cardinality(B) <= Cardinality(A) + 1
    <2>1. /\ IsFiniteSet(A \cup {x})
          /\ Cardinality(A \cup {x}) = Cardinality(A) \/ Cardinality(A \cup {x}) = Cardinality(A) + 1
      BY FS_AddElement
    <2>2. IsFiniteSet(B) /\ Cardinality(B) <= Cardinality(A \cup {x})
      BY <1>2, <2>1, FS_Subset
    <2>3. Cardinality(B) \in Nat
      BY <2>2, FS_CardinalityType
    <2>. QED
      BY <1>1, <2>1, <2>2, <2>3
  <1>3. ASSUME NEW x \in A, B \subseteq A \ {x}
        PROVE  IsFiniteSet(B) /\ Cardinality(B) + 1 <= Cardinality(A)
    <2>1. IsFiniteSet(A \ {x}) /\ Cardinality(A \ {x}) = Cardinality(A) - 1
      BY FS_RemoveElement
    <2>2. IsFiniteSet(B) /\ Cardinality(B) <= Cardinality(A \ {x})
      BY <1>3, <2>1, FS_Subset
    <2>3. Cardinality(B) \in Nat
      BY <2>2, FS_CardinalityType
    <2>. QED
      BY <1>1, <2>1, <2>2, <2>3
  <1>. QED
    BY <1>1, <1>2, <1>3

(* Graft accepts comments of the post in hand only, which is of the forum. *)
LEMMA AcceptanceStep ==
  ASSUME TypeInv, PromiseInv, HomeInv, [Next]_vars,
         NEW s \in Series, NEW p \in PostIds, fcopies'[<<s, p>>] # fcopies[<<s, p>>]
  PROVE  /\ p \in DOMAIN posts /\ <<s, p>> = FP!Key /\ fpc = "reply"
         /\ fcopies'[<<s, p>>] = fcopies[<<s, p>>] + 1
         /\ \/ F!ReplyLost /\ ForwardStep
            \/ fpc' = "mark" /\ at' = at /\ ftarget' = ftarget
  <1>1. ForwardStep /\ (F!ReplyAccepted \/ F!ReplyLost)
    BY PostInHand, ForwardActions DEF F!MarkPost, F!MarkHash, F!historyVars
  <1>2. /\ fpc = "reply" /\ fcopies' = [fcopies EXCEPT ![FP!Key] = @ + 1]
        /\ \/ F!ReplyLost /\ ForwardStep
           \/ fpc' = "mark" /\ at' = at /\ ftarget' = ftarget
    BY <1>1 DEF F!ReplyAccepted, F!ReplyLost, F!Accept, FP!Key
  <1>3. fcopies \in [Series \X PostIds -> Nat]
    BY CopyTypes
  <1>4. <<s, p>> = FP!Key /\ fcopies'[<<s, p>>] = fcopies[<<s, p>>] + 1
    BY <1>2, <1>3
  <1>5. p = at /\ at \in 1..Len(batch)
    BY <1>2, <1>4 DEF FP!Key, TypeInv, FP!TypeInv, FP!Located, FP!InBody
  <1>6. p \in DOMAIN posts
    BY <1>5 DEF HomeInv, TypeInv, Histories, FP!TypeInv, FP!TypeOK
  <1>. QED
    BY <1>2, <1>4, <1>6

(* What a step opens, it opens because an answer is lost, because the post *)
(* in hand is let go of, or because the comment in hand is.                *)
LEMMA WhyOpen ==
  ASSUME TypeInv, PromiseInv, HomeInv, EchoInv, AheadInv, [Next]_vars, now' <= Retention,
         NEW q \in Open', q \notin Open
  PROVE  \/ F!ReplyLost /\ ForwardStep /\ fpc = "reply"
            /\ q = <<SeriesOf[ftarget], at, fcopies[FP!Key] + 1>>
         \/ Recording(q) /\ ~Recording(q)'
         \/ \E c \in Echoes : source[c] = q /\ Settled(c) /\ ~Settled(c)'
  <1>0. /\ fcopies \in [Series \X PostIds -> Nat] /\ fcopies' \in [Series \X PostIds -> Nat]
        /\ \A p \in DOMAIN posts : p \in DOMAIN posts' /\ posts'[p] = posts[p]
        /\ DOMAIN disk.delivered \subseteq DOMAIN disk'.delivered
    BY CopyTypes, ForumStep, AheadStep DEF Within
  <1>1. /\ q \in Acceptances /\ q = <<q[1], q[2], q[3]>>
        /\ q[1] \in Series /\ q[2] \in PostIds /\ q[3] \in Nat
        /\ q[3] \in 1..fcopies'[<<q[1], q[2]>>]
        /\ ~Recording(q)'
        /\ FP!HashOf(posts'[q[2]]) \notin DOMAIN disk'.delivered
        /\ \A c \in Echoes' : source'[c] = q => ~Settled(c)'
    BY DEF Open, Acceptances, FP!HashOf
  <1>2. CASE fcopies'[<<q[1], q[2]>>] # fcopies[<<q[1], q[2]>>] /\ q[3] \notin 1..fcopies[<<q[1], q[2]>>]
    <2>1. /\ <<q[1], q[2]>> = FP!Key /\ fpc = "reply"
          /\ fcopies'[FP!Key] = fcopies[FP!Key] + 1
          /\ \/ F!ReplyLost /\ ForwardStep
             \/ fpc' = "mark" /\ at' = at /\ ftarget' = ftarget
      BY <1>1, <1>2, AcceptanceStep
    <2>2. fcopies[<<q[1], q[2]>>] \in Nat
      BY <1>0, <1>1
    <2>3. q[3] = fcopies[FP!Key] + 1 /\ q[3] = fcopies'[FP!Key]
      BY <1>1, <1>2, <2>1, <2>2
    <2>4. q = <<SeriesOf[ftarget], at, q[3]>>
      BY <1>1, <2>1 DEF FP!Key
    <2>5. fpc' # "mark" \/ at' # at \/ ftarget' # ftarget
      BY <1>1, <2>3, <2>4 DEF Recording, FP!Key
    <2>. QED
      BY <2>1, <2>3, <2>4, <2>5
  <1>3. CASE q[3] \in 1..fcopies[<<q[1], q[2]>>]
    <2>1. q[2] \in DOMAIN posts
      <3>1. fcopies[<<q[1], q[2]>>] # 0
        BY <1>0, <1>1, <1>3
      <3>. QED
        BY <1>1, <3>1 DEF HomeInv
    <2>2. FP!HashOf(posts[q[2]]) \notin DOMAIN disk.delivered
      BY <1>0, <1>1, <2>1 DEF FP!HashOf
    <2>3. Recording(q) \/ \E c \in Echoes : source[c] = q /\ Settled(c)
      BY <1>1, <1>3, <2>1, <2>2 DEF Open
    <2>4. ASSUME NEW c \in Echoes, source[c] = q
          PROVE  c \in Echoes' /\ source'[c] = q
      <3>1. c \in DOMAIN outbox
        BY DEF Echoes, TypeInv, Histories, RP!TypeInv, RP!TypeOK
      <3>2. c \in Echoes'
        BY EchoesStep
      <3>. QED
        BY <2>4, <3>1, <3>2, EchoesStep
    <2>. QED
      BY <1>1, <2>3, <2>4
  <1>. QED
    BY <1>1, <1>2, <1>3

(* Letting go of the post in hand is a fault, unless its hash is saved.    *)
LEMMA PostLetGo ==
  ASSUME TypeInv, PromiseInv, HomeInv, HandInv, AheadInv, [Next]_vars, now' <= Retention,
         NEW q \in Open', Recording(q), ~Recording(q)'
  PROVE  crashes' = crashes + 1 \/ failed' = failed + 1
  <1>0. /\ fpc \in {"mark", "hash"} /\ q = <<SeriesOf[ftarget], at, fcopies[FP!Key]>>
        /\ now <= Retention /\ Within(disk, mem)
    BY AheadStep DEF Recording, AheadInv
  <1>1. CASE ForwardStep /\ F!MarkPost
    <2>1. /\ fcopies' = fcopies /\ FP!Key \in DOMAIN mem'.postsDelivered
          /\ \/ fpc' = "hash" /\ at' = at /\ ftarget' = ftarget
             \/ disk' = disk
      BY <1>0, <1>1, MarkPostStep
    <2>2. disk' = disk
      BY <1>0, <2>1 DEF Recording, FP!Key
    <2>3. FP!Key \notin DOMAIN mem.postsDelivered /\ FP!Key \notin DOMAIN disk.postsDelivered
      BY <1>0, <1>1 DEF F!MarkPost, HandInv, FP!Marked, Within
    <2>4. mem' # mem /\ disk' # mem'
      BY <2>1, <2>2, <2>3
    <2>. QED
      BY <1>1, <2>4 DEF ForwardStep, CountFailed
  <1>2. CASE ForwardStep /\ F!MarkHash
    <2>1. /\ fpc = "hash" /\ FP!HashOf(batch[at]) \in DOMAIN mem'.delivered
          /\ disk' = mem' \/ disk' = disk
      BY <1>0, <1>2, MarkHashStep
    <2>2. at \in DOMAIN posts /\ batch[at] = posts[at]
      BY <2>1 DEF HomeInv, TypeInv, Histories, FP!TypeInv, FP!TypeOK, FP!Located, FP!InBody
    <2>3. FP!HashOf(batch[at]) \notin DOMAIN disk'.delivered
      <3>1. posts'[at] = posts[at]
        BY <2>2, ForumStep
      <3>2. FP!HashOf(posts'[q[2]]) \notin DOMAIN disk'.delivered
        BY DEF Open, FP!HashOf
      <3>. QED
        BY <1>0, <2>2, <3>1, <3>2
    <2>4. disk' = disk /\ disk = mem
      BY <2>1, <2>3 DEF HandInv
    <2>5. mem' # mem /\ disk' # mem'
      BY <2>1, <2>3, <2>4
    <2>. QED
      BY <1>2, <2>5 DEF ForwardStep, CountFailed
  <1>3. CASE ForwardStep /\ F!ReplyAccepted
    BY <1>0, <1>3 DEF F!ReplyAccepted
  <1>4. CASE ~(ForwardStep /\ (F!MarkPost \/ F!MarkHash \/ F!ReplyAccepted))
    <2>1. fcopies' = fcopies
      BY <1>0, <1>4, PostInHand DEF F!ReplyLost
    <2>2. Crash
      BY <1>0, <1>4, <2>1, PostInHand DEF Recording, FP!Key
    <2>. QED
      BY <2>2, FaultsStep
  <1>. QED
    BY <1>1, <1>2, <1>3, <1>4

(* Letting go of a settled comment is one too.                             *)
LEMMA NoteLetGo ==
  ASSUME TypeInv, PromiseInv, HandInv, AheadInv, [Next]_vars, now' <= Retention,
         NEW c \in Echoes, Settled(c), ~Settled(c)'
  PROVE  /\ rpc = "see" /\ note = c
         /\ crashes' = crashes + 1 \/ failed' = failed + 1
  <1>0. now <= Retention /\ Within(disk, mem) /\ Within(disk, disk')
    BY AheadStep DEF AheadInv
  <1>1. RP!KeyOf(c)' = RP!KeyOf(c)
    <2>1. c \in DOMAIN outbox
      BY DEF Echoes, TypeInv, Histories, RP!TypeInv, RP!TypeOK
    <2>. QED
      BY <2>1, EchoesStep DEF RP!KeyOf
  <1>2. RP!KeyOf(c) \notin DOMAIN disk'.seenNotes /\ ~(rpc' = "see" /\ note' = c)
    BY <1>1 DEF Settled
  <1>3. rpc = "see" /\ note = c
    BY <1>0, <1>2 DEF Settled, Within
  <1>4. CASE ReverseStep /\ R!MarkSeen
    <2>1. RP!KeyOf(c) \in DOMAIN mem'.seenNotes /\ (disk' = mem' \/ disk' = disk)
      BY <1>0, <1>3, <1>4, MarkSeenStep
    <2>2. RP!KeyOf(c) \notin DOMAIN mem.seenNotes
      BY <1>3 DEF HandInv
    <2>3. mem' # mem /\ disk' # mem'
      BY <1>2, <2>1, <2>2
    <2>. QED
      BY <1>3, <1>4, <2>3 DEF ReverseStep, CountFailed
  <1>5. CASE Crash
    BY <1>3, <1>5, FaultsStep
  <1>. QED
    BY <1>2, <1>3, <1>4, <1>5, NoteInHand

(* A step opens nothing, or the suspect, and then there was a fault.       *)
LEMMA OpenStep ==
  ASSUME TypeInv, PromiseInv, HomeInv, EchoInv, HandInv, AheadInv, [Next]_vars,
         now' <= Retention
  PROVE  \/ Open' \subseteq Open
         \/ /\ Open' \subseteq Open \cup {Suspect} /\ rpc # "post"
            /\ \/ crashes' = crashes + 1 \/ failed' = failed + 1 \/ flost' = flost + 1
  <1>1. ASSUME NEW q \in Open', q \notin Open
        PROVE  /\ q = Suspect /\ rpc # "post"
               /\ \/ crashes' = crashes + 1 \/ failed' = failed + 1 \/ flost' = flost + 1
    <2>1. CASE /\ F!ReplyLost /\ ForwardStep /\ fpc = "reply"
               /\ q = <<SeriesOf[ftarget], at, fcopies[FP!Key] + 1>>
      BY <2>1, Apart DEF Suspect, F!ReplyLost
    <2>2. CASE Recording(q) /\ ~Recording(q)'
      BY <2>2, PostLetGo, Apart DEF Suspect, Recording
    <2>3. CASE \E c \in Echoes : source[c] = q /\ Settled(c) /\ ~Settled(c)'
      <3>1. PICK c \in Echoes : source[c] = q /\ Settled(c) /\ ~Settled(c)'
        BY <2>3
      <3>2. /\ rpc = "see" /\ note = c
            /\ crashes' = crashes + 1 \/ failed' = failed + 1
        BY <3>1, NoteLetGo
      <3>. QED
        BY <3>1, <3>2, Apart DEF Suspect
    <2>. QED
      BY <1>1, <2>1, <2>2, <2>3, WhyOpen
  <1>. QED
    BY <1>1

(* What comes back is the echo in hand.                                    *)
LEMMA ReturnedStep ==
  ASSUME TypeInv, PromiseInv, EchoInv, [Next]_vars
  PROVE  \/ Returned' \subseteq Returned
         \/ /\ ReverseCreates /\ rpc = "post" /\ note \in Echoes
            /\ \E r : Returned' \subseteq Returned \cup {r}
  <1>0. /\ rcopies \in [Series \X CommentIds -> Nat]
        /\ Returned' = UNION {{c} \X (1..rcopies'[RP!KeyOf(c)']) : c \in Echoes'}
        /\ Returned = UNION {{c} \X (1..rcopies[RP!KeyOf(c)]) : c \in Echoes}
    BY CopyTypes DEF Returned, R!KeyOf, RP!KeyOf
  <1>1. ASSUME NEW r \in Returned'
        PROVE  /\ r[1] \in Echoes /\ r = <<r[1], r[2]>>
               /\ RP!KeyOf(r[1])' = RP!KeyOf(r[1])
               /\ RP!KeyOf(r[1]) \in Series \X CommentIds
               /\ r[2] \in 1..rcopies'[RP!KeyOf(r[1])]
    <2>1. PICK c \in Echoes' : r \in {c} \X (1..rcopies'[RP!KeyOf(c)'])
      BY <1>0
    <2>2. r = <<c, r[2]>> /\ r[1] = c /\ r[2] \in 1..rcopies'[RP!KeyOf(c)']
      BY <2>1
    <2>3. c \in DOMAIN outbox
      BY <2>2, NewEchoes
    <2>4. c \in Echoes /\ RP!KeyOf(c)' = RP!KeyOf(c)
      BY <2>3, EchoesStep DEF RP!KeyOf
    <2>5. RP!KeyOf(c) \in Series \X CommentIds
      BY <2>3, Assumptions, RP!KeyType DEF TypeInv, RP!Keys
    <2>. QED
      BY <2>2, <2>4, <2>5
  <1>2. CASE rcopies' = rcopies
    <2>1. ASSUME NEW r \in Returned' PROVE r \in Returned
      BY <1>0, <1>1, <1>2
    <2>. QED
      BY <2>1
  <1>3. CASE /\ ReverseCreates /\ rpc = "post" /\ note \in DOMAIN outbox
             /\ rcopies' = [rcopies EXCEPT ![RP!KeyOf(note)] = @ + 1]
    <2>1. PICK k : k = rcopies[RP!KeyOf(note)] + 1
      OBVIOUS
    <2>2. ASSUME NEW r \in Returned'
          PROVE  r \in Returned \/ (r = <<note, k>> /\ note \in Echoes)
      <3>1. CASE r[1] = note
        BY <1>0, <1>1, <1>3, <2>1, <3>1
      <3>2. CASE r[1] # note
        <4>1. RP!KeyOf(r[1]) # RP!KeyOf(note)
          BY <3>2 DEF RP!KeyOf
        <4>2. rcopies'[RP!KeyOf(r[1])] = rcopies[RP!KeyOf(r[1])]
          BY <1>0, <1>1, <1>3, <4>1
        <4>. QED
          BY <1>0, <1>1, <4>2
      <3>. QED
        BY <3>1, <3>2
    <2>. QED
      BY <1>3, <2>2
  <1>. QED
    BY <1>2, <1>3, MirrorStep

(* Mirroring an echo closes the acceptance it is of.                       *)
LEMMA EchoCloses ==
  ASSUME TypeInv, EchoInv, HandInv, AheadInv, [Next]_vars, now <= Retention,
         ReverseCreates, R!PostAccepted, note \in Echoes
  PROVE  source[note] \in Open /\ source[note] \notin Open'
  <1>0. Within(disk, mem) /\ rpc = "post" /\ fpc = "idle" /\ note \in DOMAIN outbox
    BY Apart DEF AheadInv, R!PostAccepted, TypeInv, RP!TypeInv, RP!Located, RP!InHand
  <1>1. PICK q : q = source[note]
    OBVIOUS
  <1>2. /\ q \in Acceptances /\ q[2] \in DOMAIN posts
        /\ outbox[note].hash = FP!HashOf(posts[q[2]])
        /\ q[3] \in 1..fcopies[<<q[1], q[2]>>]
    BY <1>1 DEF EchoInv, Republishes
  <1>3. FP!HashOf(posts[q[2]]) \notin DOMAIN disk.delivered
    BY <1>0, <1>2 DEF HandInv, Within
  <1>4. ~Settled(note) /\ \A c \in Echoes : source[c] = q => c = note
    BY <1>0, <1>1 DEF HandInv, Within, Settled, EchoInv
  <1>5. q \in Open
    BY <1>0, <1>2, <1>3, <1>4 DEF Open, Recording
  <1>6. note \in Echoes' /\ source'[note] = q
    BY <1>0, <1>1, EchoesStep
  <1>7. Settled(note)'
    BY DEF R!PostAccepted, Settled
  <1>8. q \notin Open'
    BY <1>6, <1>7 DEF Open, R!PostAccepted, Settled
  <1>. QED
    BY <1>1, <1>5, <1>8

(* Every step keeps the count.                                             *)
LEMMA CountStep ==
  ASSUME TypeInv, PromiseInv, HomeInv, EchoInv, HandInv, AheadInv, CountInv, [Next]_vars
  PROVE  CountInv'
  <1> SUFFICES ASSUME now' <= Retention
               PROVE  /\ IsFiniteSet(Open') /\ IsFiniteSet(Returned')
                      /\ Cardinality(Open') + Cardinality(Returned') <= Faults'
    BY DEF CountInv
  <1>0. now <= Retention
    BY AheadStep
  <1>1. /\ IsFiniteSet(Open) /\ IsFiniteSet(Returned)
        /\ Cardinality(Open) + Cardinality(Returned) <= Faults
        /\ Cardinality(Open) \in Nat /\ Cardinality(Returned) \in Nat
    BY <1>0, FS_CardinalityType DEF CountInv
  <1>2. /\ Faults \in Nat /\ Faults' \in Nat /\ Faults <= Faults'
        /\ (\/ crashes' = crashes + 1 \/ failed' = failed + 1 \/ flost' = flost + 1
            \/ rlost' = rlost + 1) => Faults + 1 <= Faults'
    BY FaultsStep DEF Faults
  <1>3. CASE Returned' \subseteq Returned
    <2>1. IsFiniteSet(Returned') /\ Cardinality(Returned') <= Cardinality(Returned)
      BY <1>1, <1>3, Counting
    <2>2. CASE Open' \subseteq Open
      <3>1. IsFiniteSet(Open') /\ Cardinality(Open') <= Cardinality(Open)
        BY <1>1, <2>2, Counting
      <3>2. Cardinality(Open') \in Nat /\ Cardinality(Returned') \in Nat
        BY <2>1, <3>1, FS_CardinalityType
      <3>. QED
        BY <1>1, <1>2, <2>1, <3>1, <3>2
    <2>3. CASE /\ Open' \subseteq Open \cup {Suspect}
               /\ \/ crashes' = crashes + 1 \/ failed' = failed + 1 \/ flost' = flost + 1
      <3>1. IsFiniteSet(Open') /\ Cardinality(Open') <= Cardinality(Open) + 1
        BY <1>1, <2>3, Counting
      <3>2. Cardinality(Open') \in Nat /\ Cardinality(Returned') \in Nat
        BY <2>1, <3>1, FS_CardinalityType
      <3>. QED
        BY <1>1, <1>2, <2>1, <2>3, <3>1, <3>2
    <2>. QED
      BY <2>2, <2>3, OpenStep
  <1>4. CASE /\ ReverseCreates /\ rpc = "post" /\ note \in Echoes
             /\ \E r : Returned' \subseteq Returned \cup {r}
    <2>1. IsFiniteSet(Returned') /\ Cardinality(Returned') <= Cardinality(Returned) + 1
      BY <1>1, <1>4, Counting
    <2>2. Open' \subseteq Open
      BY <1>4, OpenStep
    <2>3. CASE R!PostAccepted
      <3>1. source[note] \in Open /\ Open' \subseteq Open \ {source[note]}
        BY <1>0, <1>4, <2>2, <2>3, EchoCloses
      <3>2. IsFiniteSet(Open') /\ Cardinality(Open') + 1 <= Cardinality(Open)
        BY <1>1, <3>1, Counting
      <3>3. Cardinality(Open') \in Nat /\ Cardinality(Returned') \in Nat
        BY <2>1, <3>2, FS_CardinalityType
      <3>. QED
        BY <1>1, <1>2, <2>1, <3>2, <3>3
    <2>4. CASE R!PostLost
      <3>1. rlost' = rlost + 1
        BY <2>4 DEF R!PostLost
      <3>2. IsFiniteSet(Open') /\ Cardinality(Open') <= Cardinality(Open)
        BY <1>1, <2>2, Counting
      <3>3. Cardinality(Open') \in Nat /\ Cardinality(Returned') \in Nat
        BY <2>1, <3>2, FS_CardinalityType
      <3>. QED
        BY <1>1, <1>2, <2>1, <3>1, <3>2, <3>3
    <2>. QED
      BY <1>4, <2>3, <2>4 DEF ReverseCreates
  <1>. QED
    BY <1>3, <1>4, ReturnedStep

-----------------------------------------------------------------------------
(* The theorems. *)

(* Without faults nothing comes back: while no crash, no lost answer of    *)
(* Graft and no failed save intervened, no delivered post is mirrored into *)
(* the forum, in whatever order passes, posts and publications mix.        *)
THEOREM NothingComesBack == Spec => []NoEchoUnprovoked
  <1>1. Init => EchoInv /\ HandInv /\ GuardInv
    <2> SUFFICES ASSUME Init PROVE EchoInv /\ HandInv /\ Guarded
      BY DEF GuardInv
    <2>1. disk = mem
      BY DEF Init, F!Init, F!StoreInit
    <2>2. rcopies = [k \in Series \X CommentIds |-> 0] /\ Echoes = {}
      BY DEF Init, R!Init, R!Keys, Echoes
    <2>3. posts = <<>> /\ fpc = "idle" /\ rpc = "idle"
      BY DEF Init, F!Init, R!Init
    <2>. QED
      BY <2>1, <2>2, <2>3 DEF EchoInv, HandInv, Guarded
  <1>2. TypeInv /\ PromiseInv /\ HomeInv /\ EchoInv /\ HandInv /\ GuardInv /\ [Next]_vars
          => TypeInv' /\ PromiseInv' /\ HomeInv' /\ EchoInv' /\ HandInv' /\ GuardInv'
    BY BridgeStep, HandStep, GuardStep
  <1>3. GuardInv => NoEchoUnprovoked
    BY DEF GuardInv, NoFault, Guarded, NoEchoUnprovoked, RP!KeyOf, R!KeyOf
  <1> QED
    BY BridgeInit, <1>1, <1>2, <1>3, PTL DEF Spec

(* The two directions do not feed each other: until a hash can be pruned,  *)
(* what Discourse users wrote comes back at most once per fault, whatever  *)
(* fails, crashes or is lost and whenever Graft publishes it.              *)
THEOREM EchoesArePaid == Spec => []EchoesBounded
  <1>1. Init => EchoInv /\ HandInv /\ AheadInv /\ CountInv
    <2> SUFFICES ASSUME Init PROVE EchoInv /\ HandInv /\ AheadInv /\ CountInv
      OBVIOUS
    <2>1. disk = mem /\ posts = <<>> /\ fpc = "idle" /\ rpc = "idle"
      BY DEF Init, F!Init, F!StoreInit, R!Init
    <2>2. rcopies = [k \in Series \X CommentIds |-> 0] /\ Echoes = {}
      BY DEF Init, R!Init, R!Keys, Echoes
    <2>3. Faults = 0
      BY DEF Init, F!Init, R!Init, Faults
    <2>4. Open = {} /\ Returned = {}
      BY <2>1, <2>2 DEF Open, Returned
    <2>5. CountInv
      BY <2>3, <2>4, FS_EmptySet DEF CountInv
    <2>. QED
      BY <2>1, <2>2, <2>5 DEF EchoInv, HandInv, AheadInv, Within
  <1>2. /\ TypeInv /\ PromiseInv /\ HomeInv /\ EchoInv /\ HandInv /\ AheadInv /\ CountInv
        /\ [Next]_vars
        => /\ TypeInv' /\ PromiseInv' /\ HomeInv' /\ EchoInv' /\ HandInv' /\ AheadInv'
           /\ CountInv'
    BY BridgeStep, EchoStep, HandStep, AheadStep, CountStep
  <1>3. TypeInv /\ CountInv => EchoesBounded
    <2> SUFFICES ASSUME TypeInv, CountInv, now <= Retention
                 PROVE  Cardinality(Returned) <= Faults
      BY DEF EchoesBounded
    <2>1. /\ Cardinality(Open) + Cardinality(Returned) <= Faults
          /\ Cardinality(Open) \in Nat /\ Cardinality(Returned) \in Nat
      BY FS_CardinalityType DEF CountInv
    <2>2. crashes \in Nat /\ flost \in Nat
      BY BridgeAssumption DEF TypeInv, FP!TypeInv, FP!TypeOK
    <2>3. rlost \in Nat /\ failed \in Nat
      <3>1. rlost \in Nat
        BY BridgeAssumption DEF TypeInv, RP!TypeInv, RP!TypeOK
      <3>. QED
        BY <3>1, BridgeAssumption DEF TypeInv, Histories
    <2>4. Faults \in Nat
      BY <2>2, <2>3 DEF Faults
    <2>. QED
      BY <2>1, <2>4
  <1> QED
    BY BridgeInit, <1>1, <1>2, <1>3, PTL DEF Spec

=============================================================================
