# Verification of graft-discourse

graft-discourse is a bridge process between a Discourse forum and Graft, a
service that mirrors repository issues as ActivityPub notes.  A *pass* of the
bridge delivers new forum replies to Graft as signed comments and mirrors new
repository comments back into the forum.  The modules here model the bridge's
own logic, from the state file and the HTTP clients up to whole passes and the
life of the process; TLC checks them on small instances, and TLAPS proves the
safety properties of both directions, of the mapping, of whole passes, of the
process with its state file and of the HTTP calls for every instance.

## The system

| Part | Source | State | Operations |
|---|---|---|---|
| State | `internal/state/state.go` | in memory and in one JSON file: actor keys, topic -> note mapping, issue -> topic links, three dedup sets with timestamps | getters; setters that change the struct, prune the dedup sets and replace the file, all under one mutex; `Load` |
| Bridge | `internal/bridge/bridge.go` | none of its own | `RunOnce`: list topics, refresh the mapping, forward direction, reverse direction; `Bind`, `Unbind`, `Mappings`, `Issues` for the admin API |
| Admin API | `internal/admin/admin.go` | none | authenticated `GET`/`POST`/`DELETE` of mappings, list of issues; one goroutine per request |
| Graft client | `internal/graft/client.go`, `note.go` | none | fetch an outbox, deliver a signed reply, parse notes, match titles |
| Discourse client | `internal/discourse/client.go` | none | latest topics, latest posts, create a post |
| Process | `cmd/bridge/main.go` | ticker, signal context | load configuration and state, ensure keys, serve HTTP, run a pass per tick, shut down |
| ActivityPub | `internal/ap` | key pair | actor documents, HTTP signatures, note URIs |
| Network guard | `internal/netguard` | none | validates URLs, redirects and dialled addresses |
| Configuration | `internal/config` | none | load and validate |

How they interact: one goroutine runs passes, one after the other; each admin
request runs in a goroutine of its own.  Both work on the same `State`, whose
mutex makes each getter and each setter atomic and nothing more.  Between two
calls of `State` the pass calls Discourse and Graft over HTTP; such a call may
fail, may take effect and fail all the same, and may take long.  Everything the
bridge knows after a restart is what the last successful save wrote.

What is hard about it:

- *Crashes* between a remote effect and its record (`ReplyToIssue` and
  `MarkPostDelivered`, `CreatePost` and `MarkSeenNote`).
- *Lost answers*: the remote side did what was asked, the caller sees an error.
- *Failed saves*: a setter leaves its change in memory although it reports an
  error, and the error ends the pass between two records that belong together.
- *Interleaving*: the operator binds, rebinds and unbinds while the pass holds
  a note or a topic it looked up before a remote call; a binding is written in
  two critical sections.
- *Bounds*: a limit of deliveries per pass, a window of posts, an outbox that
  shows the newest notes only, dedup entries that are pruned by age.
- *The state file*: the process may be killed between any two steps of a save.
- *The end*: SIGTERM comes during a pass, a save or an admin request.
- *The wire*: redirects change host, scheme, method and what headers mean; a
  resolver answers one thing now and another later; clocks differ.
- *Progress*: a post or comment the other side always refuses must not hold up
  the rest, and an item left unseen must be picked up later.

What makes each component correct:

- State: what was acknowledged is in the file; a restart finds a whole file.
- Forward direction: no post is dropped silently, no post is sent twice without
  a fault, the limit holds, no eligible post starves, its echo is recognised.
- Reverse direction: the same for comments; a comment is not posted into a
  topic that was unbound before.
- Mapping: what the operator was told was done is in force until a later
  request, configured mappings are in force, issue links lead to bound topics.
- Both directions together: what one direction copied, the other does not copy
  back.
- Process: one identity for ever; everything sent is recorded before a clean
  exit; it does exit.
- Clients: keys and signatures are good only where they belong, connections go
  where the policy says, calls end, and a call that reports success did what it
  is for; texts come back recognisable.

`PROJECT.json` lists the hazards at their lines and the properties aimed at
them.

## The modules

| Module | What it is |
|---|---|
| `Store` | `State`: the struct `mem`, the file `disk`, the clock `now`; the setters as functions on the struct, `Save` as the one way to store a struct |
| `Mirror` | abstract: what a sync direction promises, without any of its mechanism |
| `Forward` | `forwardDiscourseToGraft` with forum, operator, Graft, clock and crashes around it; extends `Store`, implements `Mirror` |
| `Reverse` | `reverseGraftToDiscourse` likewise; extends `Store`, implements `Mirror` |
| `Mapping` | `refreshMapping`, `applyExplicit`, `applyTitleMatching`, `Bind`, `Unbind`: the pass and several admin handlers over one `Store` |
| `Bridge` | `RunOnce`: the pass steps of `Mapping`, `Forward` and `Reverse` (by INSTANCE) over one `Store`, the forum and Graft's outbox feeding one direction into the other |
| `AtomicStore` | abstract: a save as one step, which is what `Store` assumes |
| `StateFile` | `saveLocked` and `Load` step by step: mutex, temporary file, write, close, chmod, rename, any of which may fail |
| `Config` | which configuration files start a bridge, the interval, the policies of the two HTTP clients |
| `Process` | `main`: start, `ensureActor`, loop, ticker, SIGTERM, shutdown, admin handlers, kills; extends `StateFile` and `Config`, implements `AtomicStore` |
| `Netguard` | URL validation, dialling, redirects |
| `Signature` | `SignRequest` and `VerifyRequest` with symbolic cryptography |
| `Text` | note URIs, note kinds, titles, hashes of contents |
| `Wire` | the calls of both clients, exchange by exchange, against servers and resolvers; extends `Netguard`, `Signature`, `Text` and `Config` |
| `MCForward`, `MCReverse`, `MCMapping`, `MCBridge`, `MCProcess`, `MCWire` | the small instances TLC checks |
| `StoreProofs` | lemmas about the store: typing, what saving and setting do to the dedup sets and to the mappings |
| `ForwardProofs`, `ReverseProofs`, `MappingProofs` | the theorems about the three phases of a pass |
| `BridgeProofs` | the theorems about whole passes, from those about the phases |
| `EchoProofs` | the theorems about echoes in whole passes: none without a fault, one per fault |
| `ProcessProofs` | the theorems about `Process`, the refinement of `AtomicStore` among them |
| `WireProofs` | the theorems about `Wire` |

### Correspondence with the code

One action is one step that another actor can interleave with: a remote call,
or one critical section of `State.mu`.  Code between two such steps belongs to
the step before it or after it.

*Store.*  A Go map is a function on the set of its keys; the key strings
`"series|x"` are pairs.  A setter is `Save(Setter(mem, ...), ok)`: the change,
the pruning and the write happen under the mutex; `ok` is whether the file was
replaced.  As in `saveLocked`, a failed write keeps both the change and the
pruning in memory.  `Load` is what a restart does.

*Forward.*  `pc` says where the pass is: `Begin` (the topic list is there),
`FetchPosts`/`FetchFails` (`LatestPosts`), then per post `Skip`, `Pick`
(`TopicNote`), `Dedup` (`PostDelivered`), `ReplyAccepted`/`ReplyRefused`/
`ReplyLost` (`ReplyToIssue`), `MarkPost`, `MarkHash`, and `EndPass`.  `at` is
the loop's index, counted from the oldest post, `sent` its counter `delivered`.
A post is its topic, whether it opens the topic, its author and its text; the
first 200 runes of the content, which the hash covers, are decided by author
and text.  `BotUsername` is compared always: an empty `api_username` switches the
comparison off, and nobody has that name.  The forum's post `p` is `posts[p]`;
posts are never reordered and, like Graft, the bridge ignores deletions.
`ParseNoteURI` of a stored URI cannot fail, because every URI was parsed before
it was stored: that branch is left out.

*Reverse.*  `Begin` fetches the outboxes, of those series that answer; the
notes fetched are `todo`.  While `pc = "forward"` the forward direction of the
same pass records content hashes, fails or ends.  Then per note `SkipNote`,
`DropEcho`, `Choose` (a topic is bound), `PostAccepted`/`PostRefused`/
`PostLost` (`CreatePost`), `MarkSeen`.  Go's random map order over the series is
a choice; the notes of one series come in any order as well, which includes the
order of the outbox.

*Mapping.*  The pass takes the explicit mappings in any order, then, when
enabled, the titles; `SetJob` is a `SetTopicNote` and `LinkJob` a
`SetIssueTopic`.  A handler's request is at `note` or `link`: the two writes of
`Bind`.  `Unbind` is one setter.  `Titled` says which titles match.  A failing
`LatestTopics` ends a pass before this phase and changes nothing: `Begin` leaves
it out.  Two histories say what the API answered: `said[t]` has the answers about
topic `t` that may still be in force, `since[h]` those of them given since the
request of handler `h` arrived.  A success (`Answered`) puts an end to the answers
given before its own request arrived, and to no others; an error, or a crash
during the request, puts an end to none and adds what was asked for, since the
change may have been made all the same.

*Bridge.*  `Start` is `refreshMapping`'s fetch, `MapStep` to `MappingDone` the
mapping phase, `ForwardStep` to `ForwardDone` the forward direction,
`ReverseStep` and `ReverseCreates` the reverse one.  Each is an action of the
component's module together with what it means to the others: a phase that goes
idle before its end makes `RunOnce` return, and the note list fetched at
`Start` is dropped; a post created by the reverse direction is appended to the
forum under the bot's account; a comment Graft accepted becomes a note of the
outbox later, once per acceptance (`Republish`): the history `source` says of
every note which acceptance it republishes, the `k`-th of post `p` for series
`s`.  `TimePasses` is a tick of the clock at any time, but at most one during the
forward direction of a pass, as in `Forward`.  The other environment actions of
the components are not used: the other components take their place.

*StateFile and Process.*  `step` is the next call `saveLocked` makes, `holder` the
goroutine that has `State.mu`, `tmp` and `path` the two files with what is in
them, whether it is complete, and its mode.  `pc` is where `main` is: `load`,
`key`/`keysave` (`ensureActor`), `boot` (the HTTP server is up, signals are not
caught yet), `pass`/`call`/`record`/`recordsave` (a pass), `select`, `shutdown`;
`down` between two processes.  A pass is abstracted to *calls with an effect* and
*records*: it looks for an item without a record, calls, and records a call that
succeeded.  Once the context of the signal is done no call begins; the one under
way may still succeed.  A handler is `asked`, `saving` or `idle`.  `Exits` ends
the process with all its goroutines, as the return of `main` does.  `Stored` and
`mem`, taken before the setter under way, map `StateFile` to `AtomicStore`.
The other modules rest on that: they take a save for one step.

*Wire.*  A call is one chain of requests, or two for `ReplyToIssue` (the actor
document, then the delivery).  Each request is dialled (`Connect`), and the
server answers it (`Succeeds`, `Redirect`, `Deliver` for the actor document),
or the answer is lost, or the attempt fails.  `Dials` is the set of addresses a
connection may end at when the resolver gives any answer; `Turned` is what
net/http does to method and body, in the Go 1.26 of `go.mod`.  Headers are
those of the first request of the chain, and `CheckRedirect` takes the key off
whenever the host is not that of the first request, so that it comes back
when the chain does.  Cryptography is symbolic: a digest is the
body, a signature the string that was signed.  Time is counted in ticks, `Second`
of them to the second: `SignRequest` signs at one of `Moments` (`op.at`), cuts the
Date header to whole seconds (`HttpDate`), and Graft checks the request one of
`Delays` later by a clock that is `skew` ahead.

*Text.*  A text is a sequence of letters, white space and punctuation; the words
Graft puts before a note are single symbols.  The loop of `NormalizeTitle` is the
recursive function `Scan`, whose value at `k` is what the loop holds after `k`
runes.  An outbox, and what `ParseNotes` makes of it, are functions on the places
of the items: which items are left out does not move the others, and the first
issue of a title is the one at the least place.  `TextAssumption` says that the
texts are sequences, that a hash is of one rune at least, that a content does not
begin with white space (the code puts the author's name first, bridge.go:297),
and that Graft numbers the comments it takes on from its own notes.

*External.*  What users, the operator, Graft and Discourse do is modelled from
how the code uses them: a Graft inbox accepts each comment it gets (the code
gives every attempt a fresh note id), an outbox shows the newest notes.

## What is checked

Every run stops at the bounds its `.cfg` names; deadlock is checked everywhere.
"Failed save" is `SaveOutcomes = {TRUE, FALSE}`.

| Run | Question | Instance |
|---|---|---|
| `forward_faults` | Can faults and rebinding make the bridge drop a post, or send it more often than there were faults? `TypeOK`, `MarkedIsAccepted`, `DuplicatesBounded`, `KeepsPromise` | one post, two series, 2 crashes, 1 lost answer, failed saves, edits |
| `forward_bounds` | Does the limit hold, does the echo guard outlive the mark? `CapRespected`, `EchoGuardOutlivesMark` | 3 posts of 3 kinds, window 2, limit 1, retention 1 of 2 ticks, 1 lost answer |
| `forward_live` | Does any post starve? `NoStarvation` | 2 topics, 2 posts, limit 1, failed saves, 1 crash, 1 lost answer |
| `forward_order` | Do posts of a topic arrive in order? `OrderPreserved` (violated) | 2 posts of one topic, no crash and no lost answer |
| `reverse_faults` | The same for comments, and does an unbind hold? `TypeOK`, `DuplicatesBounded`, `UnbindHolds`, `KeepsPromise` | 2 notes of 3 kinds, one issue bound to either of 2 topics, 1 crash, 1 lost answer, failed saves |
| `reverse_live` | Does any comment starve? `NoStarvation` | 2 series, outboxes of one note, pruning, failed saves |
| `mapping_admin` | Is in force what the operator was told, do links lead to bound topics? `OperatorDecides`, `LinksFollowMappings` | 2 concurrent requests, failed saves, 1 crash, one malformed configured mapping |
| `mapping_links` | Links again, with configuration and titles; do configured mappings come back? `TypeOK`, `LinksFollowMappings`, `ExplicitInForce` | 2 topics, 1 request at a time, configured mapping, title matching, outbox that may be down, 1 crash |
| `bridge_loop` | Do the two directions feed each other, under faults and without, with each pruning the other's sets? `TypeOK`, `EchoesBounded`, `NoEchoUnprovoked`, `MirrorsStayHome`, `BothKeepPromise` | 1 topic bound by configuration, 1 user post, 3 posts in all, 2 notes, retention 0 of 1 tick, 2 faults in all: 1 crash, 1 lost answer per direction, 2 failed saves |
| `process` | Is the file whole at every instant, is a save atomic, do answers and the key last, does the process end properly? `TypeOK`, `FileLoads`, `AtomicSave`, `AckedIsDurable`, `IdentityStable`, `QuietAfterSignal`, `CleanExit`, `PassesEnd`, `StopsWhenTold` | 2 items, 1 handler, 2 key pairs, 4 configurations; kills, failures, signals and ticks without bound |
| `wire` | Do key, signature and connections stay where they belong, are honest deliveries accepted, do texts survive? `TypeOK`, `DialsPublicOnly`, `KeyStaysHome`, `NothingInTheClear`, `HonestIsAccepted`, `EchoRecognised`, `TitlesMatchByWords`, `CallsEnd`, `SignedForThisInbox` | 2 series, 6 hosts and addresses, 7 places to redirect to, chains of 3, Graft's clock behind by 5 minutes and half a second, ahead by 5 minutes, or by a second less, 2 signing times, no delay or half a second, 5 contents, 2 comments, 87 titles, 4 configurations |
| `wire_redirect` | Does success mean delivered? `SuccessIsDelivered` (violated) | a forum that redirects to HTTPS |

Why these bounds are enough to be interesting: two of each thing that may be
confused (series, topics, handlers, posts, notes) and one more item than each
limit; one crash and one lost answer per gap, two crashes where the property
counts them; a clock that runs past the retention.  Every property has a
faulty variant of the code next to the definition it replaces (marked *Faulty
variant*), which the run that checks the property refutes: a rolled-back save, a
`continue` left out, an index moved twice, a limit noticed late, a link left
behind, a state file written in place, a signature made before its digest, a
redirect compared with the last host instead of the first, an echo guard that
trusts the marker alone, entries pruned a tick too early.  The bounds of
`EchoesBounded` and `DuplicatesBounded` are tight: with one fault less on the
right-hand side TLC finds a violation (for `EchoesBounded` a failed save of
`MarkPostDelivered`: the post counts as sent, its hash is not recorded, and
its echo is mirrored into the topic it came from).

`bridge_loop` bounds its faults together (`MaxFaults`), as each kind multiplies
the states by all the others.  Two are enough for one to undo what the other
left behind, such as a crash after a failed save.  With retention 0 an entry can
be pruned in the tick after the one it was made in; `EchoesBounded` and
`NoEchoUnprovoked` then speak of the first tick, with however many passes, and
the theorems of `EchoProofs` of every retention.

`process` has no bound on kills, failures or signals: its state space is finite
because items, keys and handlers are.  Two items let one be recorded while the
other is under way, two keys let a second start make another key, and one
handler is enough to compete for the mutex and to hang in shutdown.
In `wire` the count of requests saturates at `MaxRedirects`, so that a client
that forgot the limit would loop for ever instead of running out of numbers; the
targets cover both schemes of the forum, the other series' inbox, a stranger, a
private address, a local name and a URL with userinfo.  A tick is half a second,
so that a Date header can lack a fraction and a delay carry a request over the
edge of the window.  `HashRunes` is 4 instead of 200:
contents are shorter, as long, and longer.  `EchoRecognised` leaves out texts
that end, or whose hashed part ends, in white space; see below.

### Fairness

`Forward` and `Reverse`: weak fairness of the pass, because `main` starts a pass
on every tick and a pass makes bounded calls only; and that remote reads succeed
now and then, as strong fairness of `FetchPosts` and of an outbox round
that reaches all series.  `Reverse` also assumes that again and again the
forward direction of such a pass succeeds: `RunOnce` does not reach the reverse
direction otherwise.  `Mapping`: weak fairness of the pass alone.  Nothing is
assumed of deliveries, saves or the operator.  The liveness properties say
*the loop comes back to every item that stays eligible*; whether an item then
arrives is up to the other side.

`Process`: weak fairness of the main goroutine and of the save under way (no
file operation blocks for ever), and strong fairness of the three steps that
compete: two that take the mutex, which Go's mutex hands to a waiter after a
millisecond, and the signal's branch of `select`, which picks among ready
branches at random.  Calls end because every pass has a deadline.  Nothing is
assumed of handlers: one may hang for ever, and shutdown's timeout covers it.
`Wire`: weak fairness of an exchange, which the client's timeout of 20 seconds
ends if nothing else does.

### Where code and comments disagree

Two runs end in a counterexample to what a comment says:

- `forward_order`: bridge.go:266 says the loop delivers "oldest-first to
  preserve order".  The loop goes on after a failed delivery, so a newer post of
  the same topic arrives before the older one; and it reads the mapping anew for
  each post, so a topic bound while the loop is between two of its posts gets
  the newer one first.
- `wire_redirect`: discourse/client.go:77 says `CreatePost` "posts raw (markdown)
  into an existing topic and returns the new post".  When the forum answers with
  301, 302 or 303, net/http repeats the request as a GET without body; the list
  of posts comes back with 200, which decodes into an empty `Post`, and
  `CreatePost` succeeds.  The comment is marked as seen and never mirrored.  The
  ordinary redirect of a forum from HTTP to HTTPS is enough.  `postSigned` has
  the same gap.

Seen while modelling, visible in the models, and not given a run of their own:

- state.go:17-19 says that pruning "can't cause a duplicate delivery in
  practice".  `/posts.json` lists the newest posts whatever their age: on a
  forum where a post stays listed longer than the retention it is delivered
  again.  `DuplicatesBounded` therefore holds up to the retention only.
- state.go:177 says `DeleteTopicNote` removes the mapping "and any issue-URL
  links that point at it".  A DELETE between the two writes of a POST leaves a
  link to a topic without mapping, and comments are still mirrored there.
  `LinksFollowMappings` exempts that case by its variable `raced`.
- Two binds of one topic, or a bind and an unbind, may overlap: the first records
  its note, the second comes and is answered, then the first writes its link and
  is told 201, although memory and file say what the second asked for.  An answer
  is therefore a promise only as far as no other request overlapped:
  `OperatorDecides` lets any of those that did be in force, and demands that no
  earlier one, answered before a successful one arrived, ever is.
- The issue link of a configured mapping is written on every pass, also when the
  operator has bound the topic to another note; link and mapping then name
  different notes.  `LinksFollowMappings` only wants the topic of a link bound.
- sign.go:89 compares a time that goes on with a Date header of whole seconds: a
  request signed at the end of a second looks almost a second older than it is,
  and is refused when Graft's clock is ahead by the 5 minutes of the window.
  `HonestIsAccepted` keeps a second away from that edge.
- With an empty `api_username`, which `config.Load` accepts, the bridge takes its
  own mirrored comments for posts of users.  `MirrorsStayHome` is about a bridge
  that knows its name.
- A pass whose `LatestPosts` fails never gets to the reverse direction: a forum
  that lists topics but no posts starves the comments, and the fairness of
  `Reverse` assumes otherwise.  A post that leaves the window of `MaxPosts`
  undelivered stays undelivered: `NoStarvation` is about posts still listed.
- `splitKind` trims white space from a note's text, the hash is made without
  trimming: a delivered text that ends in white space, or whose first 200 runes
  do when Graft shortens to them, is not recognised as an echo by its hash.
- A negative `poll_interval` passes `config.Load` (only zero gets the default)
  and `NewTicker` panics, after the HTTP server has started.
- After a failed rename the temporary file, a complete copy of the state with
  the private key, stays in the directory under its owner-only mode.
- A crash between `ReplyToIssue` and `MarkPostDelivered` sends a post twice
  (SECURITY.md names that duplicate under M5; `DuplicatesBounded` bounds it).
- A delivery answered too late does not count toward the limit per pass
  (`CapRespected` adds the lost answers to it).
- The title heuristic overwrites a binding made between its check and its write
  (`OperatorDecides` excludes title matching).
- Unbinding a topic without mapping still removes stray links; binding a topic
  to another note leaves the link of the old one; an unbound topic of a
  configured mapping is bound again by the next pass; a failed save leaves the
  change active although the caller got an error.

## What is proved

Every theorem holds for all values of the constants that satisfy the named
assumptions of its module: any number of posts, comments, topics, series,
issues, handlers, hosts and configurations, any limits, retention, numbers of
crashes and lost answers.  The assumptions say that a constant has its type and
that a marker value (`NoTarget`, `Nothing`, `NoKey`, `Absent` and the like) is
none of the values it stands apart from; TLC evaluates them in the runs of the
module.  `StoreProofs` has the lemmas the others share, among them what a save
of any struct, pruning included, leaves of the dedup sets and of the mappings.

### The forward direction (`ForwardProofs`)

| Theorem | Statement | Argument |
|---|---|---|
| `TypeCorrect` | `Spec => []TypeOK` | `TypeInv` adds where the loop is: outside `idle` and `fetch` the index points into the batch, and from `dedup` on `target` is an issue |
| `NothingDropped` | `Spec => []MarkedIsAccepted` | `DedupInv`: marks in memory and in the file are accepted posts, and at `mark` the current post is; `Save` only forgets marks or adds the current one |
| `FewDuplicates` | `Spec => []DuplicatesBounded` | `BoundInv` counts separately the posts that are marked, that are about to be marked, and the rest: an unmarked post has at most as many copies as faults, since `Fresh` forgets nothing before the retention and every way of losing a mark is a crash |
| `CapHolds` | `Spec => []CapRespected` | `CapInv`: `burst` is at most `sent`, plus the delivery under way, plus the lost answers; `sent` stays below the limit while a delivery is under way |
| `EchoGuardHolds` | `Spec => []EchoGuardOutlivesMark` | `EchoInv`: the hash of a marked post carries a timestamp not older than the mark's, which pruning respects; at `hash` a pass has seen at most one tick |
| `NoPostIsSkipped` | `Spec => NoneSkipped` | `BatchInv`: the batch is a beginning of the forum but for texts, and the topic list one the forum gave; so the post the loop skips is not eligible in the forum as it is *now* (`SkipIsRight`) |
| `PassesAreBounded` | `Spec => [](StepsLeft \in Nat) /\ LoopEnds` | at most five steps for a post: every step of the pass lowers `StepsLeft` or ends the pass, the steps of others leave it alone |
| `ForwardIsMirror` | `Spec => KeepsPromise` | each action maps to `Copy`, `Account` or a stutter; `DedupInv` supplies that a new mark is an accepted post and that the post at `reply` is unmarked |

`MarkedIsAccepted` is not inductive: at `mark` the property says nothing about
the post that is going to be marked, hence `DedupInv`.  `DuplicatesBounded` is
not either: it does not say that an unmarked post has one copy less to its
account.

`NoneSkipped` and `LoopEnds` are the safety half of `NoStarvation`: whatever is
bound, edited, written, refused or lost meanwhile, the index of the loop gets
beyond a post that is eligible at that moment only when the post was tried or
found sent, and a pass gets on or ends.  That an eligible post is reached at all
then needs only that passes begin, fetch the posts and are not always cut short
before it, which is the fairness half.

### The reverse direction (`ReverseProofs`)

| Theorem | Statement | Argument |
|---|---|---|
| `TypeCorrect` | `Spec => []TypeOK` | `TypeInv` adds `Located`: with a comment in hand the loop holds a note of the outbox, and before a post a topic |
| `FewDuplicates` | `Spec => []DuplicatesBounded` | `BoundInv`, as in the forward direction: an outstanding comment (no mark, and none about to be made) has one copy less to its account |
| `ReverseIsMirror` | `Spec => KeepsPromise` | `SeenInv`: a mark in memory or file has a copy or an echo behind it, and the comment at `post` has no mark, also after the saves of others |
| `UnbindingHolds` | `Spec => []UnbindHolds` | `UnbindInv`: every link, in memory *and in the file*, leads to a topic whose unbinding was not acknowledged; `late` stays 0 while the one topic looked up before is still to be posted to |
| `LoopIsBounded` | `Spec => [](StepsLeft \in Nat) /\ LoopEnds` | three steps for a note of `todo`, a finite set which only the loop changes |

`UnbindHolds` says nothing about links: a crash could bring back a link from the
file, and only the second half of `UnbindInv` excludes it.

### The mapping (`MappingProofs`)

| Theorem | Statement | Argument |
|---|---|---|
| `TypeCorrect` | `Spec => []TypeOK` | `TypeInv` adds that the pass has a pair in hand between the writes of a job, and that a link is only written for a note with a URL |
| `LinksAreLed` | `Spec => []LinksFollowMappings` | `LinkInv`: who is about to write a link, pass or handler, does so for a topic that is mapped or in `raced`; so a new link is led, in memory and in the file |
| `OperatorHasTheSay` | `Spec => []OperatorDecides` | `DecideInv`: memory and file say of a topic outside the configuration what `said` has or a request under way asks for; for a handler about to write its link they say what was answered since it arrived (`since`), or what is under way. The pass writes configured topics only, as title matching is off |
| `ConfigurationWins` | `Spec => []ConfiguredComesFirst` | `ConfiguredInv`: what the loop over the configured mappings took is mapped, or in hand and about to be; nothing but a crash, which ends the pass, and the operator's unbinding takes a mapping away (`MappingStays`) |

Without the part about `since` `OperatorDecides` is not inductive: a bind is
answered a critical section after the write the answer speaks of, and its success
puts an end to older answers although others may have written in between.
`AnswerKeepsAnswers` is the step common to all three ways a request ends.

`ConfiguredComesFirst` is the safety half of `ExplicitInForce`, for the topics the
operator does not unbind (`Unbinds`): the phase does not get as far as the titles
without them, and the heuristic never has such a topic in hand.

### Whole passes (`BridgeProofs`)

Every step of `Bridge` is, for each of the three phases, a step of that phase's
own module, a stutter, a tick, or a save by another phase that leaves its dedup
set alone but for pruning (`NextViews`).  So the invariants proved about the
phases carry over (`PhasesStep`), taken by INSTANCE with the constants of the
composition, whose assumptions `BridgeAssumption` implies (`Assumptions`).

| Theorem | Statement | Argument |
|---|---|---|
| `TypeCorrect` | `Spec => []TypeOK` | `TypeInv` joins the phases' `TypeInv` with `Phases` (one phase at a time) and `Histories` |
| `BothKeep` | `Spec => BothKeepPromise` | `PromiseInv` is `DedupInv` and `SeenInv`; the save of the other direction only forgets marks, an `Account` of `Mirror` |
| `MirrorsStay` | `Spec => []MirrorsStayHome` | `HomeInv`: the batch is a beginning of the forum, which only grows, and the post in the loop's body is not the bot's |

### Echoes (`EchoProofs`)

| Theorem | Statement | Argument |
|---|---|---|
| `NothingComesBack` | `Spec => []NoEchoUnprovoked` | `GuardInv`: up to the retention and while nothing failed, the hash of every accepted post is recorded but for the one in hand, and then the reverse direction is not running; so it never holds an echo it takes for a comment |
| `EchoesArePaid` | `Spec => []EchoesBounded` | `CountInv`: up to the retention, *open* acceptances and returned echoes together are at most as many as the faults |

`NoEchoUnprovoked` is about steps far apart: the hash recorded by one pass, the
note published any time later, the comparison in another pass.  `GuardInv` ties
the two dedup sets, the two program counters and Graft's outbox together.

`EchoesBounded` compares the number of pairs in a set that two actors fill with
a count of faults that may have happened long before, and is far from inductive:
it would allow a fault that has been paid for already to let a second echo
through.  `Open` is the debt it leaves out: the acceptances whose echo might still
be mirrored, because their hash is not *in the file*, the loop is not about to
record it, and no mark of the echo is in the file or about to be made.  Each
fault opens one acceptance at most, the one the loop had in hand (`Suspect`);
every other step opens none (`WhyOpen`, `OpenStep`).  Mirroring an echo closes
the acceptance it is of as it returns (`EchoCloses`, `ReturnedStep`), because no
two echoes are of one acceptance (`EchoInv`).  That what is recorded stays
recorded needs `AheadInv`: up to the retention memory has everything the file
has, so a save forgets nothing; and `HandInv`: what is in hand is not recorded
yet.  The cardinalities are handled by three cases (`Counting`): a set that
stays, grows by one, or trades one element for another.

### The process and the state file (`ProcessProofs`)

The handlers are the callers of setters besides the main goroutine.

| Theorem | Statement | Argument |
|---|---|---|
| `TypeCorrect` | `Spec => []TypeOK` | `TypeInv` adds `Waits` (a result is known only to the caller that waits for it, and there are no handlers before the server runs), `Drafts` (what the temporary file holds before each step of a save) and `Busy` (nobody saves outside a running process) |
| `FileAlwaysLoads` | `Spec => FileLoads` | only `Rename` changes the file of a running process, and by `Drafts` the temporary file is then whole and its owner's |
| `PromisesKept` | `Spec => []AckedIsDurable` | `Ahead`: memory is never behind the file while the process runs, so a rename takes nothing away; `AckInv`: a handler that holds the mutex, or was told "ok", finds its record in memory, or in the file |
| `OneIdentity` | `Spec => []IdentityStable` | `KeyInv`: a key that was served is the key in the file; the main goroutine serves its key only after it was loaded from there or saved |
| `NoisyOnceAtMost` | `Spec => []QuietAfterSignal` | `QuietInv`: a call under way was begun before the signal, when none had succeeded late |
| `ExitIsClean` | `Spec => CleanExit` | `ExitInv`: what was sent is in memory, but for the call that returned just now; with all handlers idle and `main` in shutdown nobody holds the mutex |
| `SavesAreAtomic` | `Spec => AtomicSave` | `ChangeInv`: a setter under way has made one change. Taking the mutex stutters, the return of the setter is `Save`, the end of the process is `Restart` |
| `NobodyWaitsInVain` | `Spec => []SavesAreAnswered` | `AnswerInv`: whoever waits for a setter holds the mutex or has the result, and a held mutex has a step of the save to take; every exit of a save that fails returns and releases |
| `PassesAreBounded` | `IsFiniteSet(Posts) => (Spec => [](StepsLeft \in Nat) /\ PassShrinks)` | at most four steps of the main goroutine for an item not tried yet: each lowers `StepsLeft` or ends the pass, those of handlers, disk and signals leave it alone |

None of these is inductive by itself: `AckedIsDurable`
would be lost by a rename that replaces the file by a struct that lacks a record,
and only `Ahead` excludes one.  The same four facts (`Ahead`, `AckInv`, `KeyInv`,
`ChangeInv`) are carried together through every step (`StoreStep`), and three of
the theorems are read off them.

### The wire (`WireProofs`)

| Theorem | Statement | Argument |
|---|---|---|
| `TypeCorrect` | `Spec => []TypeOK` | `Typed` adds the fields of call and request, and that a reply is under way only while Graft has room for a comment |
| `GraftIsPublic` | `Spec => []DialsPublicOnly` | `DialInv`: an open connection is to an address the policy of the call allows, whatever was resolved |
| `KeyIsSafe` | `Spec => []KeyStaysHome` | `KeyInv`: a request with the key belongs to a call to the forum and is at its host; the comparison of a redirect is with the *first* host, which for these calls is the forum |
| `NoPlainText` | `Spec => []NothingInTheClear` | `SchemeInv`, from the schemes `config.Load` accepts and the check of every redirect and inbox |
| `OwnSignaturesVerify` | `Spec => []HonestIsAccepted` | `SignInv`: a POST to Graft is the request that was signed at `op.at`, but for the URL a redirect gave it; its date is less than a second behind (`DateType`) |
| `SignedForOneInbox` | `Spec => SignedForThisInbox` | `SignInv` again: the string `VerifyRequest` builds has host and path of where the request is, the signature those of `first`, and equal strings have equal lines |
| `EchoesAreRecognised` | `Spec => []EchoRecognised` | `TextInv`: the `i`-th comment Graft took carries the `i`-th number after Graft's own notes and is a reply, whole or shortened (`Numbered`); every note read is `Note` of an item of Graft (`ReadInv`). So a URI names one item, and `SplitComment` computes what `splitKind` makes of its content |
| `TitlesAreMatchedByWords` | `Spec => []TitlesMatchByWords` | normalised titles are equal exactly when the words are the same (`NormalFormOfWords`), for texts of every length |
| `CallsAreBounded` | `Spec => [](... => StepsLeft \in Nat) /\ CallShrinks` | two steps for each request that `MaxRedirects` leaves, and one more chain for a reply that has yet to learn of its inbox |

The first six and the last are read off one invariant, `Inv`, because each
conjunct needs others: `SchemeInv` and `DialInv` depend on which policy the call
under way has.

The two theorems about texts hold for contents and titles of any length, so they
need induction, over the runes of a text and over the letters of two.  It is done
on sets: a set of numbers that holds the first and, with each, the next holds all
(`SetInduction`, from the least element of a set, `MinIsLeast`); applied to the
set of places where an invariant of the loop holds.  `ScanEquation` gives the
recursive function its equation.  The argument for titles:

1. `Taken` is the invariant of the loop of `NormalizeTitle`: after `k` runes the
   letters of what is written are those read so far, lowered, in their order
   (the bijection `f` of `Fits`), blanks are single and never first, and the flag
   `lastSpace` says whether a blank is last (`TakeStep`, `ScanTakes`).
2. Hence a normalised title is `Normal` (letters in lower case, single blanks
   between them, none at the ends) and has the `SameWords` as the title
   (`NormalizeKeepsWords`).
3. `SameWords` is symmetric and transitive, and two `Normal` texts with the same
   words agree rune by rune (`NormalPrefix`, `NormalIsUnique`).

`SameWords` itself speaks of letters and of what stands between them, and uses no
operator of the code but `ToLower`.

### Only model-checked

Liveness (`NoStarvation` of both directions, `ExplicitInForce`, `PassesEnd`,
`StopsWhenTold`, `CallsEnd`): fairness and ENABLED are outside the prover.  Of
`NoStarvation`, `ExplicitInForce`, `PassesEnd` and `CallsEnd` the theorems above
have a safety half.  Their statements (`NoneSkipped`, both `LoopEnds`,
`ConfiguredComesFirst`, `SavesAreAnswered`, `PassShrinks`, `CallShrinks`) stand
beside their proofs and are in no run.

## What is not modelled, and the plan

What would come next: the safety half of `StopsWhenTold`, a bound on the steps of
the process between a signal and its exit; and of the reverse direction's
`NoStarvation`, that a pass which reached all outboxes leaves no eligible
comment out.

Left out: power loss (there is no fsync before the rename, so a machine that
goes down may lose more than a process that is killed); an HTTP proxy from the
environment, which would dial in the bridge's place; authentication and the
read-only routes of the admin API, and the routes of the actor server, which
answer from constants; `LatestTopics`, a GET like `LatestPosts`; the value of
the pass timeout; the ranges of addresses that are not public, a constant set;
`PostSigned` and `Save`, which nothing in the bridge calls; wording of messages,
permalinks and logging; JSON and HTTP encodings; RSA and the TLS stack.
