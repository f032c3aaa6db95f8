------------------------------- MODULE Store -------------------------------
(***************************************************************************)
(* The bridge's durable bookkeeping (src/internal/state/state.go): the     *)
(* State struct in memory, the JSON file it is saved to, and the setters   *)
(* that change both.  Every setter runs under State.mu from its first      *)
(* assignment to the end of saveLocked, so a setter is one atomic step:    *)
(* it changes the struct, prunes the dedup sets and then either replaces   *)
(* the file or fails and leaves the file as it was.  The struct keeps the  *)
(* change in both cases.                                                   *)
(*                                                                         *)
(* A Go map is a function whose domain is the set of its keys.  The keys   *)
(* "series|x" of the code are pairs <<series, x>>.                         *)
(***************************************************************************)
EXTENDS Integers, Functions

CONSTANTS
  Topics,        \* Discourse topic ids
  Series,        \* Graft series the bridge is configured for
  Issues,        \* note URIs of issues and patches
  Urls,          \* web URLs of issues and patches
  Hashes,        \* content hashes of forwarded posts
  PostIds,       \* Discourse post ids
  CommentIds,    \* note URIs of repository comments
  Retention,     \* dedupRetention, in units of the coarse clock
  MaxTime,       \* bound on the coarse clock
  SaveOutcomes   \* outcomes a write of the state file may have

ASSUME StoreAssumption ==
  /\ Retention \in Nat
  /\ MaxTime \in Nat
  /\ SaveOutcomes \in (SUBSET BOOLEAN) \ {{}}

VARIABLES
  mem,    \* the State struct of the running process
  disk,   \* what Load would read from the state file now
  now     \* coarse clock behind time.Now

storeVars == <<mem, disk, now>>

-----------------------------------------------------------------------------
(* Go maps. *)

IsMap(m, K, V) == DOMAIN m \subseteq K /\ m \in [DOMAIN m -> V]

EmptyMap == [k \in {} |-> 0]

Put(m, k, v) == [x \in DOMAIN m \cup {k} |-> IF x = k THEN v ELSE m[x]]

Without(m, k) == Restrict(m, DOMAIN m \ {k})

-----------------------------------------------------------------------------
(* The State struct; a timestamped map is a dedup set. *)

IsState(st) ==
  /\ DOMAIN st = {"topicNotes", "issueTopics", "delivered", "postsDelivered", "seenNotes"}
  /\ IsMap(st.topicNotes, Topics, Issues)
  /\ IsMap(st.issueTopics, Series \X Urls, Topics)
  /\ IsMap(st.delivered, Hashes, Nat)
  /\ IsMap(st.postsDelivered, Series \X PostIds, Nat)
  /\ IsMap(st.seenNotes, Series \X CommentIds, Nat)

NoState == [topicNotes     |-> EmptyMap,
            issueTopics    |-> EmptyMap,
            delivered      |-> EmptyMap,
            postsDelivered |-> EmptyMap,
            seenNotes      |-> EmptyMap]

(* Faulty variant: an entry goes once it is as old as the retention.       *)
FreshYounger(m) == Restrict(m, {k \in DOMAIN m : m[k] > now - Retention})

(* prune: an entry goes once it is strictly older than the retention. *)
Fresh(m) == Restrict(m, {k \in DOMAIN m : m[k] >= now - Retention})

Pruned(st) == [st EXCEPT !.delivered      = Fresh(@),
                         !.postsDelivered = Fresh(@),
                         !.seenNotes      = Fresh(@)]

(* Faulty variant: a failed save takes the change back. *)
SaveOrRollBack(st, ok) == /\ mem' = IF ok THEN Pruned(st) ELSE mem
                          /\ disk' = IF ok THEN Pruned(st) ELSE disk
                          /\ UNCHANGED now

(* saveLocked on the struct st; ok says whether the file was replaced. *)
Save(st, ok) == /\ mem' = Pruned(st)
                /\ disk' = IF ok THEN Pruned(st) ELSE disk
                /\ UNCHANGED now

(* What the setters assign before they call saveLocked. *)
SetTopicNote(st, t, i) == [st EXCEPT !.topicNotes = Put(@, t, i)]

(* Faulty variant: the issue links of the topic stay. *)
DeleteTopicOnly(st, t) == [st EXCEPT !.topicNotes = Without(@, t)]

DeleteTopicNote(st, t) ==
  [st EXCEPT !.topicNotes  = Without(@, t),
             !.issueTopics = Restrict(@, {k \in DOMAIN @ : @[k] # t})]

(* Faulty variant: the two halves of the key are swapped. *)
SetTopicSwapped(st, s, u, t) == [st EXCEPT !.issueTopics = Put(@, <<u, s>>, t)]

SetIssueTopic(st, s, u, t) == [st EXCEPT !.issueTopics = Put(@, <<s, u>>, t)]

(* Faulty variant: the timestamp of the first record is kept. *)
MarkDeliveredOnce(st, h) ==
  IF h \in DOMAIN st.delivered THEN st
  ELSE [st EXCEPT !.delivered = Put(@, h, now)]

MarkDelivered(st, h) == [st EXCEPT !.delivered = Put(@, h, now)]

MarkPostDelivered(st, s, p) ==
  [st EXCEPT !.postsDelivered = Put(@, <<s, p>>, now)]

MarkSeenNote(st, s, c) == [st EXCEPT !.seenNotes = Put(@, <<s, c>>, now)]

(* The getters the bridge branches on. *)
Mapped(t)           == t \in DOMAIN mem.topicNotes
IsDelivered(h)      == h \in DOMAIN mem.delivered
PostDelivered(s, p) == <<s, p>> \in DOMAIN mem.postsDelivered
SeenNote(s, c)      == <<s, c>> \in DOMAIN mem.seenNotes

-----------------------------------------------------------------------------
StoreInit == mem = NoState /\ disk = NoState /\ now = 0

(* Load at the start of a new process. *)
Load == mem' = disk /\ UNCHANGED <<disk, now>>

(* Time passes by one unit of the coarse clock. *)
Tick == now < MaxTime /\ now' = now + 1 /\ UNCHANGED <<mem, disk>>

StoreTypeOK == IsState(mem) /\ IsState(disk) /\ now \in Nat
=============================================================================
