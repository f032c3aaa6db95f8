------------------------------ MODULE Forward ------------------------------
(***************************************************************************)
(* Discourse posts to repository comments: forwardDiscourseToGraft of      *)
(* src/internal/bridge/bridge.go, run by the one goroutine that runs       *)
(* passes, against a forum that gains and changes posts, an operator who   *)
(* binds and unbinds topics through the admin API, a Graft that may        *)
(* refuse a comment or accept it and lose the answer, and a process that   *)
(* may crash between any two steps.                                        *)
(*                                                                         *)
(* One step is one call that another actor can interleave with: a remote   *)
(* call, or one critical section of State.mu.                              *)
(***************************************************************************)
EXTENDS Store, Sequences

CONSTANTS
  SeriesOf,           \* the series a note URI names (ParseNoteURI)
  Categories,         \* the category ids of the forum; 0 stands for none
  TopicLists,         \* the answers /latest.json may give: topic -> category
  Drafts,             \* the posts users may write
  Edits,              \* the texts users may change a post to
  MaxForum,           \* bound on the number of posts
  Bindings,           \* the <<topic, note>> pairs an operator may bind
  BotUsername,        \* Options.BotUsername; the empty one is nobody's name
  AllowedCategories,  \* Options.AllowedCategories, {} when not configured
  MaxPosts,           \* Bridge.MaxPosts
  Cap,                \* Options.MaxDeliveriesPerPass
  MaxCrashes,         \* bound on crashes
  MaxLost,            \* bound on comments accepted with their answer lost
  NoTarget            \* target between two posts

(* The hash covers the first 200 runes of the content, which starts with   *)
(* the author's name: the author and (that much of) the text decide it.    *)
HashOf(p) == <<p.author, p.text>>

(* opening: post_number is 1; text: the first 200 runes of the content.    *)
Posts == [topic : Topics, opening : BOOLEAN,
          author : {d.author : d \in Drafts},
          text : {d.text : d \in Drafts} \cup Edits]

ASSUME ForwardAssumption ==
  /\ SeriesOf \in [Issues -> Series]
  /\ MaxForum \in Nat
  /\ PostIds = 1..MaxForum
  /\ MaxPosts \in Nat
  /\ Cap \in Nat
  /\ MaxCrashes \in Nat
  /\ MaxLost \in Nat
  /\ Drafts \subseteq Posts
  /\ \A p \in Posts : HashOf(p) \in Hashes
  /\ Bindings \subseteq Topics \X Issues
  /\ \A list \in TopicLists : IsMap(list, Topics, Categories)
  /\ 0 \in Categories
  /\ NoTarget \notin Issues

VARIABLES
  posts,     \* the forum: post p is posts[p], oldest first
  pc,        \* where the pass is
  batch,     \* the posts LatestPosts returned to this pass, oldest first
  at,        \* the post the loop is at
  sent,      \* the counter "delivered" of the loop
  target,    \* noteURI, read for the current post
  category,  \* the categories of the topics this pass listed
  started,   \* the clock when the pass began
  copies,    \* history: comments Graft accepted, per series and post
  burst,     \* history: comments Graft accepted in this pass
  crashes,   \* history: crashes so far
  lost       \* history: answers lost so far

passVars    == <<pc, batch, at, sent, target, category, started>>
historyVars == <<copies, burst, crashes, lost>>
vars        == <<storeVars, posts, passVars, historyVars>>

PCs == {"idle", "fetch", "scan", "dedup", "reply", "mark", "hash"}

Idle == /\ pc' = "idle"
        /\ batch' = <<>>
        /\ at' = 0
        /\ sent' = 0
        /\ target' = NoTarget
        /\ category' = EmptyMap
        /\ started' = 0

Init == /\ StoreInit
        /\ posts = <<>>
        /\ pc = "idle"
        /\ batch = <<>>
        /\ at = 0
        /\ sent = 0
        /\ target = NoTarget
        /\ category = EmptyMap
        /\ started = 0
        /\ copies = [k \in Series \X PostIds |-> 0]
        /\ burst = 0
        /\ crashes = 0
        /\ lost = 0

-----------------------------------------------------------------------------
(* The pass. *)

(* RunOnce listed the topics and reached the forward direction.            *)
Begin == /\ pc = "idle"
         /\ pc' = "fetch"
         /\ category' \in TopicLists
         /\ started' = now
         /\ burst' = 0
         /\ UNCHANGED <<storeVars, posts, batch, at, sent, target, copies, crashes, lost>>

(* LatestPosts answers, newest first; the loop starts at the oldest of the *)
(* MaxPosts newest.                                                        *)
OldestIn(n) == IF MaxPosts > 0 /\ n > MaxPosts THEN n - MaxPosts + 1 ELSE 1

FetchPosts == /\ pc = "fetch"
              /\ pc' = "scan"
              /\ batch' = posts
              /\ at' = OldestIn(Len(posts))
              /\ UNCHANGED <<storeVars, posts, sent, target, category, started, historyVars>>

(* LatestPosts fails and the pass with it. *)
FetchFails == /\ pc = "fetch"
              /\ Idle
              /\ UNCHANGED <<storeVars, posts, historyVars>>

(* Faulty variant: one delivery too many before the cap is noticed.        *)
CapReachedLate == Cap > 0 /\ sent > Cap

CapReached == Cap > 0 /\ sent >= Cap

CategoryOf(t) == IF t \in DOMAIN category THEN category[t] ELSE 0

CategoryAllowed(c) == AllowedCategories = {} \/ c \in AllowedCategories

(* Faulty variant: the posts of the bridge's own account count.            *)
WantedOfAnyone(p) == ~p.opening /\ CategoryAllowed(CategoryOf(p.topic))

(* Neither an opening post, nor the bridge's own, nor in another category. *)
Wanted(p) == /\ ~p.opening
             /\ p.author # BotUsername
             /\ CategoryAllowed(CategoryOf(p.topic))

InLoop == pc = "scan" /\ at <= Len(batch) /\ ~CapReached

(* The loop reaches the newest post, or the cap. *)
EndPass == /\ pc = "scan"
           /\ (at > Len(batch) \/ CapReached)
           /\ Idle
           /\ UNCHANGED <<storeVars, posts, historyVars>>

(* Faulty variant: the index moves twice.                                  *)
NextPostTwice == /\ pc' = "scan"
                 /\ at' = at + 2
                 /\ target' = NoTarget
                 /\ UNCHANGED <<batch, category, started>>

NextPost == /\ pc' = "scan"
            /\ at' = at + 1
            /\ target' = NoTarget
            /\ UNCHANGED <<batch, category, started>>

(* The current post is not forwarded: not wanted, or its topic not bound.  *)
Skip == /\ InLoop
        /\ Wanted(batch[at]) => ~Mapped(batch[at].topic)
        /\ NextPost
        /\ UNCHANGED <<storeVars, posts, sent, historyVars>>

(* TopicNote answers for the current post. *)
Pick == /\ InLoop
        /\ Wanted(batch[at])
        /\ Mapped(batch[at].topic)
        /\ pc' = "dedup"
        /\ target' = mem.topicNotes[batch[at].topic]
        /\ UNCHANGED <<storeVars, posts, batch, at, sent, category, started, historyVars>>

(* Faulty variant: the answer of PostDelivered is ignored.                 *)
DedupIgnored == /\ pc = "dedup"
                /\ pc' = "reply"
                /\ UNCHANGED <<storeVars, posts, batch, at, sent, target, category, started, historyVars>>

(* PostDelivered answers for the current post. *)
Dedup == /\ pc = "dedup"
         /\ IF PostDelivered(SeriesOf[target], at)
            THEN NextPost
            ELSE pc' = "reply" /\ UNCHANGED <<batch, at, target, category, started>>
         /\ UNCHANGED <<storeVars, posts, sent, historyVars>>

(* Graft's inbox takes the comment: every attempt carries a fresh note id, *)
(* so Graft cannot tell a repeated one.                                    *)
Accept == /\ copies' = [copies EXCEPT ![<<SeriesOf[target], at>>] = @ + 1]
          /\ burst' = burst + 1

ReplyAccepted == /\ pc = "reply"
                 /\ Accept
                 /\ pc' = "mark"
                 /\ UNCHANGED <<storeVars, posts, batch, at, sent, target, category, started, crashes, lost>>

(* Faulty variants: the "continue" after a failed delivery is missing, and *)
(* a failed delivery counts toward the cap.                                *)
RefusedIsMarked == /\ pc = "reply"
                   /\ pc' = "mark"
                   /\ UNCHANGED <<storeVars, posts, batch, at, sent, target, category, started, historyVars>>

RefusedCounts == /\ pc = "reply"
                 /\ NextPost
                 /\ sent' = sent + 1
                 /\ UNCHANGED <<storeVars, posts, historyVars>>

(* ReplyToIssue fails before Graft took the comment: on to the next post.  *)
ReplyRefused == /\ pc = "reply"
                /\ NextPost
                /\ UNCHANGED <<storeVars, posts, sent, historyVars>>

(* Graft took the comment and ReplyToIssue fails all the same: a timeout,  *)
(* a lost connection, a status that is not 2xx.                            *)
ReplyLost == /\ pc = "reply"
             /\ lost < MaxLost
             /\ lost' = lost + 1
             /\ Accept
             /\ NextPost
             /\ UNCHANGED <<storeVars, posts, sent, crashes>>

MarkPost == /\ pc = "mark"
            /\ \E ok \in SaveOutcomes :
                 /\ Save(MarkPostDelivered(mem, SeriesOf[target], at), ok)
                 /\ IF ok
                    THEN pc' = "hash" /\ UNCHANGED <<batch, at, sent, target, category, started>>
                    ELSE Idle
            /\ UNCHANGED <<posts, historyVars>>

MarkHash == /\ pc = "hash"
            /\ \E ok \in SaveOutcomes :
                 /\ Save(MarkDelivered(mem, HashOf(batch[at])), ok)
                 /\ IF ok
                    THEN NextPost /\ sent' = sent + 1
                    ELSE Idle
            /\ UNCHANGED <<posts, historyVars>>

PassStep == \/ Begin \/ FetchPosts \/ FetchFails
            \/ EndPass \/ Skip \/ Pick \/ Dedup
            \/ ReplyAccepted \/ ReplyRefused \/ ReplyLost
            \/ MarkPost \/ MarkHash

-----------------------------------------------------------------------------
(* The environment of the pass. *)

(* The process dies and starts again from the state file. *)
Crash == /\ crashes < MaxCrashes
         /\ crashes' = crashes + 1
         /\ Load
         /\ Idle
         /\ UNCHANGED <<posts, copies, burst, lost>>

UserPosts == /\ Len(posts) < MaxForum
             /\ \E d \in Drafts : posts' = Append(posts, d)
             /\ UNCHANGED <<storeVars, passVars, historyVars>>

UserEdits == /\ \E p \in DOMAIN posts, x \in Edits :
                  posts' = [posts EXCEPT ![p].text = x]
             /\ UNCHANGED <<storeVars, passVars, historyVars>>

(* The mapping changes, by the admin API's goroutine or between passes.    *)
Bind == /\ \E b \in Bindings, ok \in SaveOutcomes :
             Save(SetTopicNote(mem, b[1], b[2]), ok)
        /\ UNCHANGED <<posts, passVars, historyVars>>

Unbind == /\ \E b \in Bindings, ok \in SaveOutcomes :
               Save(DeleteTopicNote(mem, b[1]), ok)
          /\ UNCHANGED <<posts, passVars, historyVars>>

(* A pass has a timeout far below one unit of the clock: it sees at most   *)
(* one tick.                                                               *)
TimePasses == /\ pc = "idle" \/ now = started
              /\ Tick
              /\ UNCHANGED <<posts, passVars, historyVars>>

Environment == Crash \/ UserPosts \/ UserEdits \/ Bind \/ Unbind \/ TimePasses

Next == PassStep \/ Environment

Spec == Init /\ [][Next]_vars

(* main runs a pass on every tick of its ticker and a pass never waits for *)
(* anything but bounded calls, so the goroutine keeps going; a forum that  *)
(* is up now and then answers LatestPosts now and then.  Nothing is        *)
(* assumed of Graft or of the disk.                                        *)
Fairness == WF_vars(PassStep) /\ SF_vars(FetchPosts)

FairSpec == Spec /\ Fairness

-----------------------------------------------------------------------------
(* Properties. *)

Keys == Series \X PostIds

Marked == DOMAIN mem.postsDelivered

(* Every variable holds a value the code's types and loop allow.           *)
TypeOK == /\ StoreTypeOK
          /\ posts \in Seq(Posts) /\ Len(posts) <= MaxForum
          /\ pc \in PCs
          /\ batch \in Seq(Posts) /\ Len(batch) <= MaxForum
          /\ at \in 0..MaxForum + 1
          /\ sent \in Nat
          /\ target \in Issues \cup {NoTarget}
          /\ IsMap(category, Topics, Categories)
          /\ started \in 0..now
          /\ copies \in [Keys -> Nat]
          /\ burst \in Nat
          /\ crashes \in 0..MaxCrashes
          /\ lost \in 0..MaxLost

(* No post is silently dropped: a post the bridge would skip as already    *)
(* sent (PostDelivered), now or after a restart from the state file, was   *)
(* accepted by Graft for that series at least once, whatever crashed,      *)
(* failed to save, was rebound or was answered with an error on the way.   *)
MarkedIsAccepted ==
  \A k \in Marked \cup DOMAIN disk.postsDelivered : copies[k] > 0

(* Duplicates come from faults only: until an entry can be old enough to   *)
(* be pruned, a post reaches one series at most once more than there were  *)
(* crashes and lost answers.  Failed saves, edits of the post, rebinding   *)
(* its topic and repeated passes add none.                                 *)
DuplicatesBounded ==
  now <= Retention => \A k \in Keys : copies[k] <= 1 + crashes + lost

(* max_deliveries_per_pass bounds what a pass puts into Graft, but for the *)
(* comments Graft took without the bridge learning of it.                  *)
CapRespected == Cap > 0 => burst <= Cap + lost

(* The echo guard outlives the dedup mark: while nothing crashed and every *)
(* save succeeded, the bridge can recognise the echo of every post it      *)
(* would not send again, also after both sets were pruned; the one post    *)
(* between its two marks is the exception.                                 *)
EchoGuardOutlivesMark ==
  (crashes = 0 /\ SaveOutcomes = {TRUE} /\ Edits = {}) =>
    \A k \in Marked :
      \/ HashOf(posts[k[2]]) \in DOMAIN mem.delivered
      \/ (pc = "hash" /\ k = <<SeriesOf[target], at>>)

(* Nothing in the way of post p for good: the forum still lists it, it is  *)
(* neither an opening post nor the bridge's own, its topic is bound and in *)
(* an allowed category in every topic list the forum gives.                *)
Eligible(p) ==
  /\ p \in DOMAIN posts
  /\ p >= OldestIn(Len(posts))
  /\ ~posts[p].opening
  /\ posts[p].author # BotUsername
  /\ Mapped(posts[p].topic)
  /\ \A list \in TopicLists :
        CategoryAllowed(IF posts[p].topic \in DOMAIN list
                        THEN list[posts[p].topic] ELSE 0)

(* The loop came to post p and tried to send it, or found it sent.         *)
Handled(p) == /\ at = p
              /\ \/ pc = "reply"
                 \/ pc = "dedup" /\ PostDelivered(SeriesOf[target], p)

(* No post starves: the loop comes back again and again to every post that *)
(* stays eligible, although the cap cuts passes short, saves fail and end  *)
(* passes, and Graft refuses other posts for ever.                         *)
NoStarvation == \A p \in PostIds : <>[]Eligible(p) => []<>Handled(p)

(* This direction keeps the promise of Mirror: a post marked as sent is    *)
(* not sent again while the mark lasts, and only an accepted post is       *)
(* marked.  No post is exempt.                                             *)
Promise == INSTANCE Mirror WITH copies <- copies, done <- Marked, exempt <- {}

KeepsPromise == Promise!Spec

-----------------------------------------------------------------------------
(* What the repository says of this direction, where the code differs.     *)

(* bridge.go:266 "deliver oldest-first to preserve order": a post reaches  *)
(* its issue only after every older post of the topic did.                 *)
OrderPreserved ==
  \A i \in Issues : \A p, q \in DOMAIN posts :
    (p < q /\ posts[p].topic = posts[q].topic /\ copies[<<SeriesOf[i], q>>] > 0)
      => copies[<<SeriesOf[i], p>>] > 0
=============================================================================
