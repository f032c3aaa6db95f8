------------------------------ MODULE Mapping ------------------------------
(***************************************************************************)
(* Which topic is bound to which issue: refreshMapping, applyExplicit and  *)
(* applyTitleMatching of src/internal/bridge/bridge.go, run by the pass,   *)
(* against Bind and Unbind, run by the admin API's handlers, each in a     *)
(* goroutine of its own.  State.mu makes every getter and setter atomic    *)
(* and nothing more: a check and the setter it guards are two steps.       *)
(***************************************************************************)
EXTENDS Store, FiniteSets

CONSTANTS
  Handlers,            \* admin requests that may run at once
  SeriesOf,            \* the series a note URI names (ParseNoteURI)
  UrlOf,               \* the web URL of a note
  NoUrl,               \* the URL of a note without one
  Replyable,           \* the notes of kind issue or patch
  Configured,          \* Bridge.Series
  Explicit,            \* Options.Explicit: topic -> note URI
  BadURI,              \* an explicit note URI that ParseNoteURI refuses
  AllowTitleMatching,  \* Options.AllowTitleMatching
  Titled,              \* <<topic, note>> pairs of an issue with equal title
  Requests,            \* <<topic, note>> pairs the operator may try to bind
  Unbinds,             \* topics the operator may unbind
  MaxCrashes,          \* bound on crashes
  Nobody, Unbound

ASSUME MappingAssumption ==
  /\ SeriesOf \in [Issues -> Series]
  /\ UrlOf \in [Issues -> Urls \cup {NoUrl}] /\ NoUrl \notin Urls
  /\ Replyable \subseteq Issues
  /\ Configured \subseteq Series
  /\ IsMap(Explicit, Topics, Issues \cup {BadURI}) /\ BadURI \notin Issues
  /\ AllowTitleMatching \in BOOLEAN
  /\ Titled \subseteq Topics \X Issues
  /\ Requests \subseteq Topics \X Issues
  /\ Unbinds \subseteq Topics
  /\ MaxCrashes \in Nat
  /\ Nobody \notin Handlers \cup Topics \cup Issues
  /\ Unbound \notin Issues

VARIABLES
  pc,        \* where the mapping phase of the pass is
  index,     \* the notes the outboxes showed this pass
  explicit,  \* the explicit mappings of this pass not applied yet
  titles,    \* the <<series, topic>> pairs not matched by title yet
  job,       \* the <<topic, note>> pair the pass is recording
  request,   \* what each handler is doing: [at, topic, note]
  said,      \* history: the answers about each topic that may be in force
  since,     \* history: those of them given since each request arrived
  raced,     \* history: topics unbound while being bound by someone else
  crashes    \* history: crashes so far

passVars    == <<pc, index, explicit, titles, job>>
historyVars == <<said, since, raced, crashes>>
vars        == <<storeVars, passVars, request, historyVars>>

PCs == {"idle", "explicit", "setExplicit", "linkExplicit",
        "titles", "setTitle", "linkTitle"}

NoJob     == <<Nobody, Nobody>>
NoRequest == [at |-> "idle", topic |-> Nobody, note |-> Nobody]

Idle == /\ pc' = "idle"
        /\ index' = {}
        /\ explicit' = {}
        /\ titles' = {}
        /\ job' = NoJob

Init == /\ StoreInit
        /\ pc = "idle"
        /\ index = {}
        /\ explicit = {}
        /\ titles = {}
        /\ job = NoJob
        /\ request = [h \in Handlers |-> NoRequest]
        /\ said = [t \in Topics |-> {Unbound}]
        /\ since = [h \in Handlers |-> {}]
        /\ raced = {}
        /\ crashes = 0

-----------------------------------------------------------------------------
(* The mapping phase of a pass. *)

(* The outboxes of the series that are up answer; the topic list came with *)
(* the topics in listed.                                                   *)
Refresh(up, listed) ==
  /\ pc = "idle"
  /\ pc' = "explicit"
  /\ index' = {i \in Issues : SeriesOf[i] \in up}
  /\ explicit' = DOMAIN Explicit
  /\ titles' = IF AllowTitleMatching THEN up \X listed ELSE {}
  /\ UNCHANGED <<storeVars, job, request, historyVars>>

Begin == \E up \in SUBSET Configured, listed \in SUBSET Topics : Refresh(up, listed)

HasUrl(i) == i \in index /\ UrlOf[i] # NoUrl

Record(t, i) == SetTopicNote(mem, t, i)

LinkBack(t, i) == SetIssueTopic(mem, SeriesOf[i], UrlOf[i], t)

(* Faulty variant: a mapping whose issue no outbox shows is passed over.   *)
TakeListed(t) ==
  /\ pc = "explicit"
  /\ t \in explicit
  /\ Explicit[t] # BadURI
  /\ explicit' = explicit \ {t}
  /\ IF Explicit[t] \in index
     THEN /\ pc' = IF Mapped(t) THEN "linkExplicit" ELSE "setExplicit"
          /\ job' = <<t, Explicit[t]>>
     ELSE UNCHANGED <<pc, job>>
  /\ UNCHANGED <<storeVars, index, titles, request, historyVars>>

(* The loop takes an explicit mapping, in any order, and asks TopicNote.   *)
TakeExplicit(t) ==
  /\ pc = "explicit"
  /\ t \in explicit
  /\ Explicit[t] # BadURI
  /\ explicit' = explicit \ {t}
  /\ IF ~Mapped(t) \/ HasUrl(Explicit[t])
     THEN /\ pc' = IF Mapped(t) THEN "linkExplicit" ELSE "setExplicit"
          /\ job' = <<t, Explicit[t]>>
     ELSE UNCHANGED <<pc, job>>
  /\ UNCHANGED <<storeVars, index, titles, request, historyVars>>

(* An explicit mapping that is not a note URI of the Graft host ends the   *)
(* pass.                                                                   *)
RefuseExplicit(t) ==
  /\ pc = "explicit"
  /\ t \in explicit
  /\ Explicit[t] = BadURI
  /\ Idle
  /\ UNCHANGED <<storeVars, request, historyVars>>

NextJob(scan) == /\ pc' = scan
                 /\ job' = NoJob
                 /\ UNCHANGED <<index, explicit, titles>>

(* SetTopicNote for the current pair; then its issue link, if it has one.  *)
SetJob(here, link, scan) ==
  /\ pc = here
  /\ \E ok \in SaveOutcomes :
       /\ Save(Record(job[1], job[2]), ok)
       /\ IF ~ok THEN Idle
          ELSE IF HasUrl(job[2])
               THEN pc' = link /\ UNCHANGED <<index, explicit, titles, job>>
               ELSE NextJob(scan)
  /\ UNCHANGED <<request, historyVars>>

SetExplicit == SetJob("setExplicit", "linkExplicit", "explicit")
SetTitle    == SetJob("setTitle", "linkTitle", "titles")

(* SetIssueTopic for the current pair.                                     *)
LinkJob(here, scan) ==
  /\ pc = here
  /\ \E ok \in SaveOutcomes :
       /\ Save(LinkBack(job[1], job[2]), ok)
       /\ IF ok THEN NextJob(scan) ELSE Idle
  /\ UNCHANGED <<request, historyVars>>

LinkExplicit == LinkJob("linkExplicit", "explicit")
LinkTitle    == LinkJob("linkTitle", "titles")

ExplicitDone == /\ pc = "explicit"
                /\ explicit = {}
                /\ pc' = "titles"
                /\ UNCHANGED <<storeVars, index, explicit, titles, job, request, historyVars>>

(* The issues of a series that MatchIssueByTitle may find for a topic.     *)
Matches(s, t) == {i \in index : SeriesOf[i] = s /\ <<t, i>> \in Titled}

(* The loop takes a listed topic of one series and asks TopicNote.         *)
TakeTitle(s, t) ==
  /\ pc = "titles"
  /\ <<s, t>> \in titles
  /\ titles' = titles \ {<<s, t>>}
  /\ IF Mapped(t) \/ Matches(s, t) = {}
     THEN UNCHANGED <<pc, job>>
     ELSE /\ pc' = "setTitle"
          /\ \E i \in Matches(s, t) : job' = <<t, i>>
  /\ UNCHANGED <<storeVars, index, explicit, request, historyVars>>

PhaseDone == /\ pc = "titles"
             /\ titles = {}
             /\ Idle
             /\ UNCHANGED <<storeVars, request, historyVars>>

PassStep == \/ Begin
            \/ \E t \in Topics : TakeExplicit(t) \/ RefuseExplicit(t)
            \/ SetExplicit \/ LinkExplicit \/ ExplicitDone
            \/ \E s \in Series, t \in Topics : TakeTitle(s, t)
            \/ SetTitle \/ LinkTitle \/ PhaseDone

-----------------------------------------------------------------------------
(* The admin API. *)

(* A POST names a note that the outbox of a configured series lists as an  *)
(* issue or patch; every other request is refused and changes nothing.     *)
BindArrives(h) ==
  /\ request[h] = NoRequest
  /\ \E r \in Requests :
       /\ SeriesOf[r[2]] \in Configured
       /\ r[2] \in Replyable
       /\ request' = [request EXCEPT ![h] = [at |-> "note", topic |-> r[1], note |-> r[2]]]
  /\ UNCHANGED <<storeVars, passVars, historyVars>>

(* A request for topic t to say i is answered.  A success puts an end to   *)
(* the answers given before the request arrived, those in meantime stay:   *)
(* the two overlapped, and either may have been last.  After an error i    *)
(* may be in force, and so may what was.                                   *)
Answered(t, i, ok, meantime) ==
  LET Standing(old) == {i} \cup (IF ok THEN old \cap meantime ELSE old)
  IN  /\ said' = [said EXCEPT ![t] = Standing(@)]
      /\ since' = [h \in Handlers |-> IF request'[h] = NoRequest THEN {}
                                      ELSE IF request'[h].topic = t THEN Standing(since[h])
                                      ELSE since[h]]

(* Faulty variant: the error of SetTopicNote is ignored.                   *)
BindNoteUnchecked(h) ==
  LET t == request[h].topic
      i == request[h].note
  IN  /\ request[h].at = "note"
      /\ \E ok \in SaveOutcomes : Save(Record(t, i), ok)
      /\ request' = [request EXCEPT ![h] =
                        IF UrlOf[i] # NoUrl THEN [@ EXCEPT !.at = "link"] ELSE NoRequest]
      /\ IF UrlOf[i] # NoUrl THEN UNCHANGED <<said, since>>
                             ELSE Answered(t, i, TRUE, since[h])
      /\ UNCHANGED <<passVars, raced, crashes>>

(* Bind records the note; a note without URL is done, a failure ends it.   *)
BindNote(h) ==
  LET t == request[h].topic
      i == request[h].note
  IN  /\ request[h].at = "note"
      /\ \E ok \in SaveOutcomes :
           /\ Save(Record(t, i), ok)
           /\ IF ok /\ UrlOf[i] # NoUrl
              THEN /\ request' = [request EXCEPT ![h].at = "link"]
                   /\ UNCHANGED <<said, since>>
              ELSE /\ request' = [request EXCEPT ![h] = NoRequest]
                   /\ Answered(t, i, ok, since[h])
      /\ UNCHANGED <<passVars, raced, crashes>>

(* Bind records the issue link and answers.                                *)
BindLink(h) ==
  LET t == request[h].topic
      i == request[h].note
  IN  /\ request[h].at = "link"
      /\ request' = [request EXCEPT ![h] = NoRequest]
      /\ \E ok \in SaveOutcomes :
           /\ Save(LinkBack(t, i), ok)
           /\ Answered(t, i, ok, since[h])
      /\ UNCHANGED <<passVars, raced, crashes>>

(* Someone is between two steps of binding topic t.                        *)
InFlight(t) == job[1] = t \/ \E h \in Handlers : request[h].topic = t

(* A DELETE is one setter.                                                 *)
Unbind(t) ==
  /\ t \in Unbinds
  /\ UNCHANGED request
  /\ \E ok \in SaveOutcomes :
       /\ Save(DeleteTopicNote(mem, t), ok)
       /\ Answered(t, Unbound, ok, {})
       /\ raced' = IF InFlight(t) THEN raced \cup {t}
                   ELSE IF ok THEN raced \ {t} ELSE raced
  /\ UNCHANGED <<passVars, crashes>>

AdminStep == \/ \E h \in Handlers : BindArrives(h) \/ BindNote(h) \/ BindLink(h)
             \/ \E t \in Topics : Unbind(t)

-----------------------------------------------------------------------------
(* What the requests under way ask for topic t to say.                     *)
Pending(t) == {request[h].note : h \in {g \in Handlers : request[g].topic = t}}

(* A request that is cut off may have had its effect, or part of it.       *)
Crash == /\ crashes < MaxCrashes
         /\ crashes' = crashes + 1
         /\ Load
         /\ Idle
         /\ request' = [h \in Handlers |-> NoRequest]
         /\ said' = [t \in Topics |-> said[t] \cup Pending(t)]
         /\ since' = [h \in Handlers |-> {}]
         /\ UNCHANGED raced

Next == PassStep \/ AdminStep \/ Crash

Spec == Init /\ [][Next]_vars

(* Passes keep running; nothing is assumed of the operator.                *)
FairSpec == Spec /\ WF_vars(PassStep)

-----------------------------------------------------------------------------
(* Properties. *)

Jobs == ((Topics \X Issues) \cup {NoJob})

(* Every variable holds a value the code's types and steps allow.          *)
TypeOK ==
  /\ StoreTypeOK
  /\ pc \in PCs
  /\ index \subseteq Issues
  /\ explicit \subseteq DOMAIN Explicit
  /\ titles \subseteq Series \X Topics
  /\ job \in Jobs
  /\ \A h \in Handlers :
       \/ request[h] = NoRequest
       \/ /\ request[h].at \in {"note", "link"}
          /\ request[h].topic \in Topics
          /\ request[h].note \in Issues
  /\ said \in [Topics -> SUBSET (Issues \cup {Unbound})]
  /\ since \in [Handlers -> SUBSET (Issues \cup {Unbound})]
  /\ raced \subseteq Topics
  /\ crashes \in 0..MaxCrashes

(* What the struct st says of topic t.                                     *)
Binding(t, st) == IF t \in DOMAIN st.topicNotes THEN st.topicNotes[t] ELSE Unbound

(* The operator decides: what memory says of a topic, and what the process *)
(* would say after a restart, is what some request asked for that no later *)
(* one has overtaken, one that arrived after its answer and was told of    *)
(* success.  So a success nothing overlapped is in force until the next    *)
(* request; of those that overlapped any may be, whichever was answered    *)
(* last.  Saves fail and the process crashes meanwhile; for topics that    *)
(* the configuration does not map and with title matching off.             *)
OperatorDecides ==
  ~AllowTitleMatching =>
    \A t \in Topics \ DOMAIN Explicit : \A st \in {mem, disk} :
      Binding(t, st) \in said[t] \cup Pending(t)

(* Every issue link leads to a topic that is bound, in memory and on disk, *)
(* so that a comment is only mirrored into a bound topic; except where a   *)
(* topic was unbound while somebody was binding it.                        *)
LinksFollowMappings ==
  \A st \in {mem, disk} : \A k \in DOMAIN st.issueTopics :
    \/ st.issueTopics[k] \in DOMAIN st.topicNotes
    \/ st.issueTopics[k] \in raced

(* A configured mapping is in force again and again, whatever the operator *)
(* unbinds and whichever outboxes are down.                                *)
ExplicitInForce == \A t \in DOMAIN Explicit : []<>Mapped(t)
=============================================================================
