------------------------------ MODULE Reverse ------------------------------
(***************************************************************************)
(* Repository comments to Discourse posts: reverseGraftToDiscourse of      *)
(* src/internal/bridge/bridge.go.  A pass works on the notes refreshMapping*)
(* took from the outboxes before the forward direction ran; meanwhile the  *)
(* outboxes grow, the operator binds and unbinds, a post may be created    *)
(* with its answer lost, and the process may crash.                        *)
(*                                                                         *)
(* SeenNote, IsDelivered and IssueTopic of one note are one step.  They    *)
(* are three critical sections, but only the pass adds to SeenNotes and    *)
(* Delivered, so a negative answer of the first two still holds when the   *)
(* next is asked: the note is decided by the last one it asks.             *)
(***************************************************************************)
EXTENDS Store, Sequences, FiniteSets

CONSTANTS
  Notes,        \* the notes Graft may publish
  MaxNotes,     \* bound on the number of published notes
  OutboxSize,   \* how many notes of a series its outbox shows
  Forwarded,    \* the hashes the forward direction records
  Links,        \* the <<series, URL, topic>> links a binding may record
  MaxCrashes,   \* bound on crashes
  MaxLost,      \* bound on posts created with their answer lost
  Nothing       \* current note and topic between two notes

(* comment: Kind is "comment"; hash: of the first 200 runes of Summary;    *)
(* marked: Summary holds "via Fediverse" or "via Bluesky".                 *)
ASSUME ReverseAssumption ==
  /\ Notes \subseteq [series : Series, url : Urls, comment : BOOLEAN,
                      hash : Hashes, marked : BOOLEAN]
  /\ MaxNotes \in Nat
  /\ CommentIds = 1..MaxNotes
  /\ OutboxSize \in Nat
  /\ Forwarded \subseteq Hashes
  /\ Links \subseteq Series \X Urls \X Topics
  /\ MaxCrashes \in Nat
  /\ MaxLost \in Nat
  /\ Nothing \notin CommentIds \cup Topics \cup Series

VARIABLES
  outbox,    \* every note Graft published, oldest first; note c is outbox[c]
  pc,        \* where the pass is
  todo,      \* the notes of this pass that the loop has not reached
  series,    \* the series whose list the loop is in
  note,      \* the note being mirrored
  target,    \* topicID, read for that note
  copies,    \* history: posts created on Discourse, per series and note
  echoes,    \* history: the notes dropped as echoes
  bound,     \* history: topics bound and not unbound with success since
  late,      \* history: posts created in a topic since it left bound
  crashes,   \* history: crashes so far
  lost       \* history: answers lost so far

passVars    == <<pc, todo, series, note, target>>
historyVars == <<copies, echoes, bound, late, crashes, lost>>
vars        == <<storeVars, outbox, passVars, historyVars>>

PCs == {"idle", "forward", "scan", "post", "see"}

Keys == Series \X CommentIds

KeyOf(c) == <<outbox[c].series, c>>

(* The notes an outbox request answers with.                               *)
Shown == {c \in DOMAIN outbox :
            Cardinality({d \in DOMAIN outbox :
                           d > c /\ outbox[d].series = outbox[c].series}) < OutboxSize}

Idle == /\ pc' = "idle"
        /\ todo' = {}
        /\ series' = Nothing
        /\ note' = Nothing
        /\ target' = Nothing

Init == /\ StoreInit
        /\ outbox = <<>>
        /\ pc = "idle"
        /\ todo = {}
        /\ series = Nothing
        /\ note = Nothing
        /\ target = Nothing
        /\ copies = [k \in Keys |-> 0]
        /\ echoes = {}
        /\ bound = {}
        /\ late = [t \in Topics |-> 0]
        /\ crashes = 0
        /\ lost = 0

-----------------------------------------------------------------------------
(* The pass up to the reverse direction. *)

(* refreshMapping fetches the outboxes; a series whose outbox fails is     *)
(* left out of this pass.                                                  *)
BeginWith(up) == /\ pc = "idle"
                 /\ pc' = "forward"
                 /\ todo' = {c \in Shown : outbox[c].series \in up}
                 /\ UNCHANGED <<storeVars, outbox, series, note, target, historyVars>>

Begin == \E up \in SUBSET Series : BeginWith(up)

(* The forward direction records the hash of a post it delivered.          *)
ForwardMarks == /\ pc = "forward"
                /\ \E h \in Forwarded, ok \in SaveOutcomes :
                     /\ Save(MarkDelivered(mem, h), ok)
                     /\ IF ok THEN UNCHANGED passVars ELSE Idle
                /\ UNCHANGED <<outbox, historyVars>>

ForwardDone == /\ pc = "forward"
               /\ pc' = "scan"
               /\ UNCHANGED <<storeVars, outbox, todo, series, note, target, historyVars>>

(* The forward direction fails and RunOnce returns before the reverse one. *)
ForwardFails == /\ pc = "forward"
                /\ Idle
                /\ UNCHANGED <<storeVars, outbox, historyVars>>

-----------------------------------------------------------------------------
(* The loop over series, in any order, and over the notes of each. *)

(* Faulty variant: only Graft's marker is looked at.                       *)
MarkerOnly(n) == n.marked

(* The content was forwarded by the bridge, or carries a marker.           *)
IsEcho(n) == IsDelivered(n.hash) \/ n.marked

HasLink(n) == <<n.series, n.url>> \in DOMAIN mem.issueTopics

LinkOf(n) == mem.issueTopics[<<n.series, n.url>>]

(* The loop reaches note c.                                                *)
Reach(c) == /\ pc = "scan"
            /\ c \in todo
            /\ \/ outbox[c].series = series
               \/ \A d \in todo : outbox[d].series # series
            /\ series' = outbox[c].series
            /\ todo' = todo \ {c}

(* Not a comment, or seen, or of an issue no topic is bound to: the last   *)
(* one stays unseen, for a later pass.                                     *)
SkipNote(c) == /\ Reach(c)
               /\ LET n == outbox[c] IN
                    \/ ~n.comment
                    \/ SeenNote(n.series, c)
                    \/ ~IsEcho(n) /\ ~HasLink(n)
               /\ UNCHANGED <<storeVars, outbox, pc, note, target, historyVars>>

(* An echo of the bridge's own comment, or of another social platform, is  *)
(* marked seen and dropped.                                                *)
DropEcho(c) == /\ Reach(c)
               /\ outbox[c].comment
               /\ ~SeenNote(outbox[c].series, c)
               /\ IsEcho(outbox[c])
               /\ note' = c
               /\ pc' = "see"
               /\ echoes' = echoes \cup {KeyOf(c)}
               /\ UNCHANGED <<storeVars, outbox, target, copies, bound, late,
                              crashes, lost>>

(* IssueTopic answers for a comment to mirror.                             *)
Choose(c) == /\ Reach(c)
             /\ outbox[c].comment
             /\ ~SeenNote(outbox[c].series, c)
             /\ ~IsEcho(outbox[c])
             /\ HasLink(outbox[c])
             /\ note' = c
             /\ target' = LinkOf(outbox[c])
             /\ pc' = "post"
             /\ UNCHANGED <<storeVars, outbox, historyVars>>

NextNote == /\ pc' = "scan"
            /\ note' = Nothing
            /\ target' = Nothing
            /\ UNCHANGED <<todo, series>>

(* Discourse creates the post in the topic.                                *)
Create == /\ copies' = [copies EXCEPT ![KeyOf(note)] = @ + 1]
          /\ late' = [late EXCEPT ![target] = IF target \in bound THEN 0 ELSE @ + 1]

PostAccepted == /\ pc = "post"
                /\ Create
                /\ pc' = "see"
                /\ UNCHANGED <<storeVars, outbox, todo, series, note, target,
                               echoes, bound, crashes, lost>>

(* Faulty variants: the "continue" after a failed post is missing; a       *)
(* refused post ends the pass.                                             *)
RefusedIsSeen == /\ pc = "post"
                 /\ pc' = "see"
                 /\ UNCHANGED <<storeVars, outbox, todo, series, note, target, historyVars>>

RefusedEndsPass == /\ pc = "post"
                   /\ Idle
                   /\ UNCHANGED <<storeVars, outbox, historyVars>>

(* CreatePost fails before Discourse created the post: on to the next one. *)
PostRefused == /\ pc = "post"
               /\ NextNote
               /\ UNCHANGED <<storeVars, outbox, historyVars>>

(* Discourse created the post and CreatePost fails all the same.           *)
PostLost == /\ pc = "post"
            /\ lost < MaxLost
            /\ lost' = lost + 1
            /\ Create
            /\ NextNote
            /\ UNCHANGED <<storeVars, outbox, echoes, bound, crashes>>

(* MarkSeenNote, for a mirrored comment and for an echo.                   *)
MarkSeen == /\ pc = "see"
            /\ \E ok \in SaveOutcomes :
                 /\ Save(MarkSeenNote(mem, outbox[note].series, note), ok)
                 /\ IF ok THEN NextNote ELSE Idle
            /\ UNCHANGED <<outbox, historyVars>>

EndPass == /\ pc = "scan"
           /\ todo = {}
           /\ Idle
           /\ UNCHANGED <<storeVars, outbox, historyVars>>

PassStep == \/ Begin \/ ForwardMarks \/ ForwardDone \/ ForwardFails
            \/ \E c \in CommentIds : SkipNote(c) \/ DropEcho(c) \/ Choose(c)
            \/ PostAccepted \/ PostRefused \/ PostLost \/ MarkSeen \/ EndPass

-----------------------------------------------------------------------------
(* The environment of the pass. *)

Crash == /\ crashes < MaxCrashes
         /\ crashes' = crashes + 1
         /\ Load
         /\ Idle
         /\ UNCHANGED <<outbox, copies, echoes, bound, late, lost>>

Publish == /\ Len(outbox) < MaxNotes
           /\ \E n \in Notes : outbox' = Append(outbox, n)
           /\ UNCHANGED <<storeVars, passVars, historyVars>>

(* The second half of a Bind, or a link the mapping phase records.         *)
Link == /\ \E l \in Links, ok \in SaveOutcomes :
             /\ Save(SetIssueTopic(mem, l[1], l[2], l[3]), ok)
             /\ bound' = bound \cup {l[3]}
             /\ late' = [late EXCEPT ![l[3]] = 0]
        /\ UNCHANGED <<outbox, passVars, copies, echoes, crashes, lost>>

Unbind == /\ \E l \in Links, ok \in SaveOutcomes :
               /\ Save(DeleteTopicNote(mem, l[3]), ok)
               /\ bound' = IF ok THEN bound \ {l[3]} ELSE bound
          /\ UNCHANGED <<outbox, passVars, copies, echoes, late, crashes, lost>>

TimePasses == /\ Tick
              /\ UNCHANGED <<outbox, passVars, historyVars>>

Environment == Crash \/ Publish \/ Link \/ Unbind \/ TimePasses

Next == PassStep \/ Environment

Spec == Init /\ [][Next]_vars

(* As for Forward: passes keep running, and the forward direction loops    *)
(* over a finite batch.  Again and again all outboxes answer, and again    *)
(* and again the forward direction of such a pass succeeds.  Nothing is    *)
(* assumed of CreatePost or of the disk.                                   *)
Fairness == /\ WF_vars(PassStep)
            /\ WF_vars(ForwardDone \/ ForwardFails)
            /\ SF_vars(BeginWith(Series))
            /\ SF_vars(ForwardDone /\ todo = Shown)

FairSpec == Spec /\ Fairness

-----------------------------------------------------------------------------
(* Properties. *)

Seen == DOMAIN mem.seenNotes

(* Every variable holds a value the code's types and loop allow.           *)
TypeOK == /\ StoreTypeOK
          /\ outbox \in Seq(Notes) /\ Len(outbox) <= MaxNotes
          /\ pc \in PCs
          /\ todo \subseteq DOMAIN outbox
          /\ series \in Series \cup {Nothing}
          /\ note \in DOMAIN outbox \cup {Nothing}
          /\ target \in Topics \cup {Nothing}
          /\ copies \in [Keys -> Nat]
          /\ echoes \subseteq Keys
          /\ bound \subseteq Topics
          /\ late \in [Topics -> Nat]
          /\ crashes \in 0..MaxCrashes
          /\ lost \in 0..MaxLost

(* Until an entry can be old enough to be pruned, a comment is posted at   *)
(* most once more than there were crashes and lost answers; failed saves,  *)
(* new bindings and series left out of a pass add no copies.               *)
DuplicatesBounded ==
  now <= Retention => \A k \in Keys : copies[k] <= 1 + crashes + lost

(* An acknowledged unbind holds: from its answer until the topic is bound  *)
(* again at most one comment is still posted there, the one the loop had   *)
(* looked the topic up for; also when the process crashes in between.      *)
UnbindHolds == \A t \in Topics \ bound : late[t] <= 1

(* Nothing in the way of comment c for good.                               *)
Eligible(c) == /\ c \in Shown
               /\ outbox[c].comment
               /\ ~IsEcho(outbox[c])
               /\ HasLink(outbox[c])

(* The loop came to comment c and tried to post it, or found it seen.      *)
Handled(c) == (pc = "post" /\ note = c) \/ (c \in DOMAIN outbox /\ KeyOf(c) \in Seen)

(* No comment starves, in particular not one that waited unseen for its    *)
(* topic to be bound, or that comes after one Discourse always refuses.    *)
NoStarvation == \A c \in CommentIds : <>[]Eligible(c) => []<>Handled(c)

(* This direction keeps the promise of Mirror: a comment marked as seen is *)
(* not posted again while the mark lasts, and only a comment that was      *)
(* posted, or dropped as an echo, is marked.                               *)
Promise == INSTANCE Mirror WITH copies <- copies, done <- Seen, exempt <- echoes

KeepsPromise == Promise!Spec
=============================================================================
