------------------------------- MODULE Bridge -------------------------------
(***************************************************************************)
(* A whole pass: RunOnce of src/internal/bridge/bridge.go composes the     *)
(* mapping phase, the forward and the reverse direction over one store,    *)
(* between a forum that gains the posts the reverse direction creates and  *)
(* a Graft whose outboxes publish, sooner or later, the comments the       *)
(* forward direction delivered.                                            *)
(*                                                                         *)
(* The phases are the pass steps of Mapping, Forward and Reverse.  Their   *)
(* environments are replaced by one another: Reverse is at "forward" while *)
(* the other two run.  The admin API and edits are left to Mapping and     *)
(* Forward.                                                                *)
(***************************************************************************)
EXTENDS Store, Sequences, FiniteSets

CONSTANTS
  SeriesOf, UrlOf, NoUrl,          \* of notes, as in Mapping
  Explicit, BadURI,                \* Options.Explicit
  AllowTitleMatching, Titled,      \* Options.AllowTitleMatching
  Categories, TopicLists,          \* as in Forward
  BotUsername, AllowedCategories, MaxPosts, Cap,
  UserDrafts,                      \* the posts users may write
  MirrorText,                      \* what the text of a mirrored comment starts with
  MaxUserPosts, MaxForum,          \* bounds on the posts of users, on all posts
  Natives,                         \* the notes Graft may publish of its own
  MaxNotes, OutboxSize,            \* as in Reverse
  MaxCrashes, MaxLost,             \* bounds; MaxLost is per direction
  MaxFailed,                       \* bound on failed saves
  MaxFaults,                       \* bound on crashes, lost answers and failed saves in all
  NoTarget, Nothing, Nobody, Unbound

(* CreatePost is made with the API key of the bot account, whose name the  *)
(* configuration gives: api_username is not empty here.                    *)
MirrorPost(t) == [topic |-> t, opening |-> FALSE, author |-> BotUsername, text |-> MirrorText]

AllDrafts == UserDrafts \cup {MirrorPost(t) : t \in Topics}

(* The comments Graft accepts: the k-th of post p for series s.            *)
Acceptances == Series \X PostIds \X Nat

ASSUME BridgeAssumption ==
  /\ {MaxForum, MaxNotes, MaxPosts, Cap, OutboxSize} \subseteq Nat
  /\ {MaxCrashes, MaxLost, MaxFailed, MaxFaults} \subseteq Nat
  /\ PostIds = 1..MaxForum /\ CommentIds = 1..MaxNotes
  /\ SeriesOf \in [Issues -> Series]
  /\ UrlOf \in [Issues -> Urls \cup {NoUrl}] /\ NoUrl \notin Urls
  /\ IsMap(Explicit, Topics, Issues \cup {BadURI}) /\ BadURI \notin Issues
  /\ AllowTitleMatching \in BOOLEAN
  /\ Titled \subseteq Topics \X Issues
  /\ 0 \in Categories /\ \A list \in TopicLists : IsMap(list, Topics, Categories)
  /\ \A d \in UserDrafts :
        d \in [topic : Topics, opening : BOOLEAN, author : {d.author}, text : {d.text}]
  /\ \A d, e \in AllDrafts : <<d.author, e.text>> \in Hashes
  /\ Natives \subseteq [series : Series, url : Urls, comment : BOOLEAN,
                        hash : Hashes, marked : BOOLEAN]
  /\ NoTarget \notin Issues /\ Nothing \notin CommentIds \cup Topics \cup Series
  /\ Nobody \notin Topics \cup Issues \cup Acceptances
  /\ Unbound \notin Issues

VARIABLES
  posts, batch, at, sent, category, started,  \* of Forward
  fpc, ftarget, fcopies, burst, flost,        \* its pc, target, copies, burst, lost
  outbox, todo, series, note, echoes,         \* of Reverse
  rpc, rtarget, rcopies, rlost, late,         \* its pc, target, copies, lost, late
  index, explicit, titles, job,               \* of Mapping
  mpc,                                        \* its pc
  source,   \* history: what note c republishes; Nobody's, for a native note
  crashes,  \* history: crashes so far
  failed    \* history: saves that failed and left mem ahead of disk

(* What a note looks like that republishes post p: Graft keeps the text,   *)
(* and its own "via Fediverse" marker is not counted on.                   *)
EchoNote(i, author, text) == [series |-> SeriesOf[i], url |-> UrlOf[i], comment |-> TRUE,
                              hash |-> <<author, text>>, marked |-> FALSE]

AllNotes == Natives \cup {EchoNote(i, d.author, d.text) :
                            i \in {j \in Issues : UrlOf[j] # NoUrl}, d \in AllDrafts}

M == INSTANCE Mapping WITH
       pc <- mpc, Handlers <- {}, Replyable <- Issues, Configured <- Series,
       Requests <- {}, Unbinds <- {}, request <- [h \in {} |-> Nobody],
       said <- [t \in Topics |-> {Unbound}], since <- [h \in {} |-> {}], raced <- {}

F == INSTANCE Forward WITH
       pc <- fpc, target <- ftarget, copies <- fcopies, lost <- flost,
       Drafts <- AllDrafts, Edits <- {}, Bindings <- {}

R == INSTANCE Reverse WITH
       pc <- rpc, target <- rtarget, copies <- rcopies, lost <- rlost,
       Notes <- AllNotes, Forwarded <- {}, Links <- {},
       bound <- {}

forumVars   == posts
mappingVars == <<mpc, index, explicit, titles, job>>
forwardVars == <<fpc, batch, at, sent, ftarget, category, started>>
reverseVars == <<rpc, todo, series, note, rtarget>>
graftVars   == <<outbox, source>>
forwardHistory == <<fcopies, burst, flost>>
reverseHistory == <<rcopies, echoes, rlost, late>>
vars == <<storeVars, forumVars, mappingVars, forwardVars, reverseVars, graftVars,
          forwardHistory, reverseHistory, crashes, failed>>

Init == M!Init /\ F!Init /\ R!Init /\ source = <<>> /\ failed = 0

-----------------------------------------------------------------------------
(* RunOnce. *)

(* A save that fails counts when it leaves the file behind the struct.     *)
CountFailed == /\ failed' = IF UNCHANGED mem \/ disk' = mem' THEN failed ELSE failed + 1
               /\ failed' <= MaxFailed

(* The topic list is there and the outboxes of the series in up answer.    *)
Start == /\ \E up \in SUBSET Series : M!Refresh(up, Topics) /\ R!BeginWith(up)
         /\ UNCHANGED <<forwardVars, forwardHistory, source, failed>>
         /\ UNCHANGED posts

(* RunOnce returns early: a phase before the reverse direction failed.     *)
GiveUpIf(condition) == IF condition THEN R!Idle ELSE UNCHANGED reverseVars

MapStep == /\ \/ \E t \in Topics : M!TakeExplicit(t) \/ M!RefuseExplicit(t)
              \/ M!SetExplicit \/ M!LinkExplicit \/ M!ExplicitDone
              \/ \E s \in Series, t \in Topics : M!TakeTitle(s, t)
              \/ M!SetTitle \/ M!LinkTitle
           /\ GiveUpIf(mpc' = "idle")
           /\ CountFailed
           /\ UNCHANGED <<forumVars, forwardVars, graftVars, forwardHistory, reverseHistory>>

MappingDone == /\ M!PhaseDone
               /\ F!Begin
               /\ UNCHANGED <<reverseVars, graftVars, reverseHistory, failed>>

ForwardStep == /\ \/ F!FetchPosts \/ F!FetchFails \/ F!Skip \/ F!Pick \/ F!Dedup
                  \/ F!ReplyAccepted \/ F!ReplyRefused \/ F!ReplyLost
                  \/ F!MarkPost \/ F!MarkHash
               /\ GiveUpIf(fpc' = "idle")
               /\ CountFailed
               /\ UNCHANGED <<mappingVars, graftVars, reverseHistory>>

ForwardDone == /\ F!EndPass
               /\ R!ForwardDone
               /\ UNCHANGED <<mappingVars, source, failed>>

(* The steps of the reverse direction that create no post.                 *)
ReverseStep == /\ \/ \E c \in CommentIds : R!SkipNote(c) \/ R!DropEcho(c) \/ R!Choose(c)
                  \/ R!PostRefused \/ R!MarkSeen \/ R!EndPass
               /\ CountFailed
               /\ UNCHANGED <<forumVars, mappingVars, forwardVars, source, forwardHistory>>

(* The forum has the comment as a post of the bot account.                 *)
ReverseCreates == /\ Len(posts) < MaxForum
                  /\ R!PostAccepted \/ R!PostLost
                  /\ posts' = Append(posts, MirrorPost(rtarget))
                  /\ UNCHANGED <<mappingVars, forwardVars, source, forwardHistory, failed>>

PassStep == \/ Start \/ MapStep \/ MappingDone \/ ForwardStep \/ ForwardDone
            \/ ReverseStep \/ ReverseCreates

-----------------------------------------------------------------------------
(* The two sides, and crashes. *)

Rest == UNCHANGED <<storeVars, mappingVars, forwardVars, reverseVars,
                    forwardHistory, reverseHistory, crashes, failed>>

UserPosts == /\ Len(posts) < MaxForum
             /\ Cardinality({p \in DOMAIN posts : posts[p].author # BotUsername}) < MaxUserPosts
             /\ \E d \in UserDrafts : posts' = Append(posts, d)
             /\ Rest /\ UNCHANGED graftVars

Publish(n, q) == /\ Len(outbox) < MaxNotes
                 /\ outbox' = Append(outbox, n)
                 /\ source' = Append(source, q)
                 /\ Rest /\ UNCHANGED posts

NativeComment == \E n \in Natives : Publish(n, Nobody)

(* Graft publishes a comment it accepted, once for each time it did.       *)
Republish == \E i \in Issues, p \in DOMAIN posts :
               /\ UrlOf[i] # NoUrl
               /\ \E k \in 1..fcopies[<<SeriesOf[i], p>>] :
                    /\ <<SeriesOf[i], p, k>> \notin Range(source)
                    /\ Publish(EchoNote(i, posts[p].author, posts[p].text),
                               <<SeriesOf[i], p, k>>)

Crash == /\ M!Crash /\ F!Crash /\ R!Crash
         /\ UNCHANGED <<source, failed>>

TimePasses == /\ F!TimePasses /\ R!TimePasses
              /\ UNCHANGED <<mappingVars, source, failed>>

Faults == crashes + flost + rlost + failed

Next == /\ PassStep \/ UserPosts \/ NativeComment \/ Republish \/ Crash \/ TimePasses
        /\ Faults' <= MaxFaults

Spec == Init /\ [][Next]_vars

-----------------------------------------------------------------------------
(* Properties. *)

(* Every variable of the composition is well typed in its component, and   *)
(* only one phase runs at a time.                                          *)
TypeOK == /\ M!TypeOK /\ F!TypeOK /\ R!TypeOK
          /\ source \in Seq({Nobody} \cup Acceptances) /\ Len(source) = Len(outbox)
          /\ failed \in 0..MaxFailed
          /\ mpc = "idle" \/ fpc = "idle"
          /\ rpc = "forward" <=> mpc # "idle" \/ fpc # "idle"

Echoes == {c \in DOMAIN source : source[c] # Nobody}

(* What was mirrored back: the k-th copy of echo c.                        *)
Returned == UNION {{c} \X (1..rcopies[R!KeyOf(c)]) : c \in Echoes}

(* The two directions do not feed each other: until a hash can be old      *)
(* enough to be pruned, what Discourse users wrote comes back into the     *)
(* forum at most once per fault (a crash, a lost answer, a failed save),   *)
(* whenever Graft publishes it and in whatever order passes, posts and     *)
(* comments mix.                                                           *)
EchoesBounded == now <= Retention => Cardinality(Returned) <= Faults

(* Nothing comes back unprovoked: until a hash can be pruned, and while no *)
(* crash, no lost answer of Graft and no failed save intervened, no        *)
(* delivered post is mirrored, however late Graft publishes it.  Answers   *)
(* lost by Discourse change nothing.                                       *)
NoEchoUnprovoked ==
  now <= Retention /\ crashes + flost + failed = 0 =>
    \A c \in Echoes : rcopies[R!KeyOf(c)] = 0

(* A comment mirrored into the forum is never delivered to Graft as if a   *)
(* user had written it, whatever failed before.                            *)
MirrorsStayHome ==
  \A p \in DOMAIN posts, s \in Series :
    posts[p].author = BotUsername => fcopies[<<s, p>>] = 0

(* Both directions keep the promise of Mirror while they share the store   *)
(* and prune and save each other's sets.                                   *)
BothKeepPromise == F!KeepsPromise /\ R!KeepsPromise
=============================================================================
