--------------------------- MODULE MappingProofs ---------------------------
(***************************************************************************)
(* What TLAPS proves about the topic mapping, for every configuration,     *)
(* every number of admin requests at once and every number of crashes.     *)
(***************************************************************************)
EXTENDS Mapping, StoreProofs

-----------------------------------------------------------------------------
(* The type invariant is not inductive by itself: that the pass has a pair *)
(* in hand depends on where it is, and a link is only written for a note   *)
(* that has a URL.                                                         *)

JobPcs == {"setExplicit", "linkExplicit", "setTitle", "linkTitle"}

Linking == pc \in {"linkExplicit", "linkTitle"}

RequestStates ==
  {NoRequest} \cup [at : {"note", "link"}, topic : Topics, note : Issues]

Located ==
  /\ request \in [Handlers -> RequestStates]
  /\ pc \in JobPcs => job \in Topics \X Issues
  /\ Linking => UrlOf[job[2]] # NoUrl
  /\ \A h \in Handlers : request[h].at = "link" => UrlOf[request[h].note] # NoUrl

TypeInv == TypeOK /\ Located

(* The steps that leave the store and the history alone.                   *)
Quiet == \/ Begin \/ ExplicitDone \/ PhaseDone
         \/ (\E t \in Topics : TakeExplicit(t) \/ RefuseExplicit(t))
         \/ (\E s \in Series, t \in Topics : TakeTitle(s, t))
         \/ (\E h \in Handlers : BindArrives(h))
         \/ UNCHANGED vars

(* The pass records, or links, the pair in hand.                           *)
RecordsJob == SetExplicit \/ SetTitle
LinksJob   == LinkExplicit \/ LinkTitle

(* A step of the system is of one of these kinds.                          *)
LEMMA StepKinds ==
  [Next]_vars => \/ Quiet \/ RecordsJob \/ LinksJob
                 \/ (\E h \in Handlers : BindNote(h) \/ BindLink(h))
                 \/ (\E t \in Topics : Unbind(t))
                 \/ Crash
  BY DEF Next, PassStep, AdminStep, Quiet, RecordsJob, LinksJob

(* A handler that binds has a topic and a note in hand.                    *)
LEMMA RequestType ==
  ASSUME TypeInv, NEW h \in Handlers, request[h].at \in {"note", "link"}
  PROVE  /\ request[h] \in [at : {"note", "link"}, topic : Topics, note : Issues]
         /\ request[h].topic \in Topics /\ request[h].note \in Issues
  <1>1. request[h] \in RequestStates
    BY DEF TypeInv, Located
  <1> QED
    BY <1>1 DEF RequestStates, NoRequest

-----------------------------------------------------------------------------
(* What the three saves of this module do to mappings and links.           *)

(* Recording a pair adds or replaces one mapping.                          *)
LEMMA RecordStep ==
  ASSUME StoreTypeOK, NEW t \in Topics, NEW i \in Issues, NEW ok \in BOOLEAN,
         Save(Record(t, i), ok)
  PROVE  /\ StoreTypeOK' /\ now' = now
         /\ mem'.topicNotes = Put(mem.topicNotes, t, i)
         /\ mem'.issueTopics = mem.issueTopics
         /\ disk'.topicNotes = IF ok THEN mem'.topicNotes ELSE disk.topicNotes
         /\ disk'.issueTopics = IF ok THEN mem'.issueTopics ELSE disk.issueTopics
  <1>1. IsState(mem) /\ now \in Nat
    BY DEF StoreTypeOK
  <1> DEFINE st == Record(t, i)
  <1>2. IsState(st)
    BY <1>1, SettersType DEF Record
  <1>3. /\ st.topicNotes = Put(mem.topicNotes, t, i)
        /\ st.issueTopics = mem.issueTopics
    BY <1>1, SettersBindings DEF Record
  <1>4. Save(st, ok)
    OBVIOUS
  <1> HIDE DEF st
  <1>5. StoreTypeOK'
    BY <1>2, <1>4, SaveType
  <1>6. /\ mem'.topicNotes = st.topicNotes
        /\ mem'.issueTopics = st.issueTopics
        /\ disk'.topicNotes = IF ok THEN st.topicNotes ELSE disk.topicNotes
        /\ disk'.issueTopics = IF ok THEN st.issueTopics ELSE disk.issueTopics
        /\ now' = now
    BY <1>2, <1>4, SaveBindings
  <1> QED
    BY <1>3, <1>5, <1>6

(* Recording a link adds or replaces one link, to the topic given.         *)
LEMMA LinkStep ==
  ASSUME StoreTypeOK, NEW t \in Topics, NEW i \in Issues, UrlOf[i] # NoUrl,
         NEW ok \in BOOLEAN, Save(LinkBack(t, i), ok)
  PROVE  /\ StoreTypeOK' /\ now' = now
         /\ mem'.topicNotes = mem.topicNotes
         /\ \A k \in DOMAIN mem'.issueTopics :
              \/ mem'.issueTopics[k] = t
              \/ k \in DOMAIN mem.issueTopics /\ mem'.issueTopics[k] = mem.issueTopics[k]
         /\ disk'.topicNotes = IF ok THEN mem'.topicNotes ELSE disk.topicNotes
         /\ disk'.issueTopics = IF ok THEN mem'.issueTopics ELSE disk.issueTopics
  <1>1. IsState(mem) /\ now \in Nat
    BY DEF StoreTypeOK
  <1>2. SeriesOf[i] \in Series /\ UrlOf[i] \in Urls
    BY MappingAssumption
  <1> DEFINE st == LinkBack(t, i)
             k == <<SeriesOf[i], UrlOf[i]>>
  <1>3. IsState(st)
    BY <1>1, <1>2, SettersType DEF LinkBack
  <1>4. /\ st.topicNotes = mem.topicNotes
        /\ st.issueTopics = Put(mem.issueTopics, k, t)
    BY <1>1, SettersBindings DEF LinkBack
  <1>5. Save(st, ok)
    OBVIOUS
  <1> HIDE DEF st, k
  <1>6. StoreTypeOK'
    BY <1>3, <1>5, SaveType
  <1>7. /\ mem'.topicNotes = st.topicNotes
        /\ mem'.issueTopics = st.issueTopics
        /\ disk'.topicNotes = IF ok THEN st.topicNotes ELSE disk.topicNotes
        /\ disk'.issueTopics = IF ok THEN st.issueTopics ELSE disk.issueTopics
        /\ now' = now
    BY <1>3, <1>5, SaveBindings
  <1>8. \A x \in DOMAIN mem'.issueTopics :
          \/ mem'.issueTopics[x] = t
          \/ x \in DOMAIN mem.issueTopics /\ mem'.issueTopics[x] = mem.issueTopics[x]
    BY <1>4, <1>7 DEF Put
  <1> QED
    BY <1>4, <1>6, <1>7, <1>8

(* Deleting a topic removes its mapping and every link to it.              *)
LEMMA DeleteStep ==
  ASSUME StoreTypeOK, NEW t \in Topics, NEW ok \in BOOLEAN,
         Save(DeleteTopicNote(mem, t), ok)
  PROVE  /\ StoreTypeOK' /\ now' = now
         /\ DOMAIN mem'.topicNotes = DOMAIN mem.topicNotes \ {t}
         /\ \A x \in DOMAIN mem'.topicNotes : mem'.topicNotes[x] = mem.topicNotes[x]
         /\ \A k \in DOMAIN mem'.issueTopics :
              /\ mem'.issueTopics[k] # t
              /\ k \in DOMAIN mem.issueTopics /\ mem'.issueTopics[k] = mem.issueTopics[k]
         /\ disk'.topicNotes = IF ok THEN mem'.topicNotes ELSE disk.topicNotes
         /\ disk'.issueTopics = IF ok THEN mem'.issueTopics ELSE disk.issueTopics
  <1>1. IsState(mem) /\ now \in Nat
    BY DEF StoreTypeOK
  <1> DEFINE st == DeleteTopicNote(mem, t)
  <1>2. IsState(st)
    BY <1>1, SettersType
  <1>3. /\ st.topicNotes = Without(mem.topicNotes, t)
        /\ st.issueTopics = Restrict(mem.issueTopics,
              {k \in DOMAIN mem.issueTopics : mem.issueTopics[k] # t})
    BY <1>1, SettersBindings
  <1>4. Save(st, ok)
    OBVIOUS
  <1> HIDE DEF st
  <1>5. StoreTypeOK'
    BY <1>2, <1>4, SaveType
  <1>6. /\ mem'.topicNotes = st.topicNotes
        /\ mem'.issueTopics = st.issueTopics
        /\ disk'.topicNotes = IF ok THEN st.topicNotes ELSE disk.topicNotes
        /\ disk'.issueTopics = IF ok THEN st.issueTopics ELSE disk.issueTopics
        /\ now' = now
    BY <1>2, <1>4, SaveBindings
  <1>7. /\ DOMAIN mem'.topicNotes = DOMAIN mem.topicNotes \ {t}
        /\ \A x \in DOMAIN mem'.topicNotes : mem'.topicNotes[x] = mem.topicNotes[x]
    BY <1>3, <1>6 DEF Without, Restrict
  <1>8. \A k \in DOMAIN mem'.issueTopics :
          /\ mem'.issueTopics[k] # t
          /\ k \in DOMAIN mem.issueTopics /\ mem'.issueTopics[k] = mem.issueTopics[k]
    BY <1>3, <1>6 DEF Restrict
  <1> QED
    BY <1>5, <1>6, <1>7, <1>8

(* The pass after recording a pair: it links it, or goes on, or is over.   *)
LEMMA RecordsJobStep ==
  ASSUME TypeInv, RecordsJob
  PROVE  /\ job[1] \in Topics /\ job[2] \in Issues
         /\ \E ok \in BOOLEAN : Save(Record(job[1], job[2]), ok)
         /\ UNCHANGED <<request, historyVars>>
         /\ pc \in JobPcs
         /\ pc = "setExplicit" => pc' \in {"idle", "explicit", "linkExplicit"}
         /\ \/ Idle
            \/ /\ UNCHANGED <<index, explicit, titles>>
               /\ \/ job' = NoJob /\ pc' \in {"explicit", "titles"}
                  \/ /\ job' = job /\ UrlOf[job[2]] # NoUrl
                     /\ pc' \in {"linkExplicit", "linkTitle"}
  <1>1. pc \in {"setExplicit", "setTitle"}
    BY DEF RecordsJob, SetExplicit, SetTitle, SetJob
  <1>2. job \in Topics \X Issues
    BY <1>1 DEF TypeInv, Located, JobPcs
  <1>3. CASE SetExplicit
    BY <1>1, <1>2, <1>3, StoreAssumption
    DEF SetExplicit, SetJob, NextJob, HasUrl, Idle, JobPcs
  <1>4. CASE SetTitle
    BY <1>1, <1>2, <1>4, StoreAssumption
    DEF SetTitle, SetJob, NextJob, HasUrl, Idle, JobPcs
  <1> QED
    BY <1>3, <1>4 DEF RecordsJob

(* The pass after linking a pair: it goes on, or is over.                  *)
LEMMA LinksJobStep ==
  ASSUME TypeInv, LinksJob
  PROVE  /\ job[1] \in Topics /\ job[2] \in Issues /\ UrlOf[job[2]] # NoUrl
         /\ \E ok \in BOOLEAN : Save(LinkBack(job[1], job[2]), ok)
         /\ UNCHANGED <<request, historyVars>>
         /\ Linking
         /\ \/ Idle
            \/ /\ UNCHANGED <<index, explicit, titles>>
               /\ job' = NoJob /\ pc' \in {"explicit", "titles"}
  <1>1. Linking
    BY DEF LinksJob, LinkExplicit, LinkTitle, LinkJob, Linking
  <1>2. job \in Topics \X Issues /\ UrlOf[job[2]] # NoUrl
    BY <1>1 DEF TypeInv, Located, JobPcs, Linking
  <1> QED
    BY <1>1, <1>2, StoreAssumption DEF LinksJob, LinkExplicit, LinkTitle, LinkJob, NextJob

(* A handler that records its note: it goes on to the link, or answers.    *)
LEMMA BindNoteStep ==
  ASSUME TypeInv, NEW h \in Handlers, BindNote(h)
  PROVE  /\ request[h].topic \in Topics /\ request[h].note \in Issues
         /\ \E ok \in BOOLEAN :
              /\ Save(Record(request[h].topic, request[h].note), ok)
              /\ \/ /\ ok
                    /\ request'[h].topic = request[h].topic
                    /\ request'[h].note = request[h].note
                    /\ UNCHANGED <<said, since>>
                 \/ /\ request'[h] = NoRequest
                    /\ Answered(request[h].topic, request[h].note, ok, since[h])
         /\ UNCHANGED <<passVars, raced, crashes>>
         /\ request' \in [Handlers -> RequestStates]
         /\ \A g \in Handlers \ {h} : request'[g] = request[g]
         /\ request'[h].at = "link" =>
              /\ UrlOf[request[h].note] # NoUrl
              /\ request'[h].topic = request[h].topic
              /\ request'[h].note = request[h].note
  <1>1. /\ request[h] \in [at : {"note", "link"}, topic : Topics, note : Issues]
        /\ request[h].topic \in Topics /\ request[h].note \in Issues
    BY RequestType DEF BindNote
  <1>2. /\ request \in [Handlers -> RequestStates] /\ NoRequest \in RequestStates
        /\ UNCHANGED <<passVars, raced, crashes>>
    BY DEF TypeInv, Located, RequestStates, BindNote
  <1>3. PICK ok \in BOOLEAN :
          /\ Save(Record(request[h].topic, request[h].note), ok)
          /\ IF ok /\ UrlOf[request[h].note] # NoUrl
             THEN /\ request' = [request EXCEPT ![h].at = "link"]
                  /\ UNCHANGED <<said, since>>
             ELSE /\ request' = [request EXCEPT ![h] = NoRequest]
                  /\ Answered(request[h].topic, request[h].note, ok, since[h])
    BY StoreAssumption DEF BindNote
  <1>4. CASE ok /\ UrlOf[request[h].note] # NoUrl
    <2>. DEFINE r == [request[h] EXCEPT !.at = "link"]
    <2>1. /\ r \in [at : {"note", "link"}, topic : Topics, note : Issues]
          /\ r.topic = request[h].topic /\ r.note = request[h].note
      BY <1>1
    <2>2. r \in RequestStates
      BY <2>1 DEF RequestStates
    <2>3. request' = [request EXCEPT ![h] = r] /\ UNCHANGED <<said, since>>
      BY <1>3, <1>4
    <2>. HIDE DEF r
    <2>4. /\ request' \in [Handlers -> RequestStates]
          /\ \A g \in Handlers \ {h} : request'[g] = request[g]
          /\ request'[h] = r
      BY <1>2, <2>2, <2>3
    <2>. QED
      BY <1>1, <1>2, <1>3, <1>4, <2>1, <2>3, <2>4
  <1>5. CASE ~(ok /\ UrlOf[request[h].note] # NoUrl)
    <2>1. /\ request' = [request EXCEPT ![h] = NoRequest]
          /\ Answered(request[h].topic, request[h].note, ok, since[h])
      BY <1>3, <1>5
    <2>2. /\ request' \in [Handlers -> RequestStates]
          /\ \A g \in Handlers \ {h} : request'[g] = request[g]
          /\ request'[h] = NoRequest
      BY <1>2, <2>1
    <2>3. request'[h].at # "link"
      BY <2>2 DEF NoRequest
    <2>. QED
      BY <1>1, <1>2, <1>3, <2>1, <2>2, <2>3
  <1>. QED
    BY <1>4, <1>5

(* A handler that records its link, and answers.                           *)
LEMMA BindLinkStep ==
  ASSUME TypeInv, NEW h \in Handlers, BindLink(h)
  PROVE  /\ request[h].at = "link"
         /\ request[h].topic \in Topics /\ request[h].note \in Issues
         /\ UrlOf[request[h].note] # NoUrl
         /\ \E ok \in BOOLEAN :
              /\ Save(LinkBack(request[h].topic, request[h].note), ok)
              /\ Answered(request[h].topic, request[h].note, ok, since[h])
         /\ UNCHANGED <<passVars, raced, crashes>>
         /\ request' \in [Handlers -> RequestStates]
         /\ \A g \in Handlers \ {h} : request'[g] = request[g]
         /\ request'[h] = NoRequest
  <1>1. request[h].at = "link" /\ request[h].topic \in Topics /\ request[h].note \in Issues
    BY RequestType DEF BindLink
  <1>2. UrlOf[request[h].note] # NoUrl
    BY <1>1 DEF TypeInv, Located
  <1>3. request \in [Handlers -> RequestStates] /\ NoRequest \in RequestStates
    BY DEF TypeInv, Located, RequestStates
  <1>4. request' = [request EXCEPT ![h] = NoRequest]
    BY DEF BindLink
  <1>5. /\ request' \in [Handlers -> RequestStates]
        /\ \A g \in Handlers \ {h} : request'[g] = request[g]
        /\ request'[h] = NoRequest
    BY <1>3, <1>4
  <1>6. \E ok \in BOOLEAN :
              /\ Save(LinkBack(request[h].topic, request[h].note), ok)
              /\ Answered(request[h].topic, request[h].note, ok, since[h])
    BY StoreAssumption DEF BindLink
  <1>7. UNCHANGED <<passVars, raced, crashes>>
    BY DEF BindLink
  <1> QED
    BY <1>1, <1>2, <1>5, <1>6, <1>7

(* An answer leaves the history well formed.                               *)
LEMMA AnsweredType ==
  ASSUME TypeInv, NEW t \in Topics, NEW i \in Issues \cup {Unbound},
         NEW ok \in BOOLEAN, NEW meantime, Answered(t, i, ok, meantime)
  PROVE  /\ said' \in [Topics -> SUBSET (Issues \cup {Unbound})]
         /\ since' \in [Handlers -> SUBSET (Issues \cup {Unbound})]
  BY DEF Answered, TypeInv, TypeOK

(* A quiet step takes a pair of topic and note in hand, or lets it go; it  *)
(* goes to link a pair only when its topic is mapped.                      *)
LEMMA QuietStep ==
  ASSUME TypeInv, Quiet
  PROVE  /\ UNCHANGED <<storeVars, historyVars>>
         /\ pc' \in PCs /\ index' \subseteq Issues
         /\ explicit' \subseteq DOMAIN Explicit
         /\ titles' \subseteq Series \X Topics
         /\ job' \in Jobs
         /\ pc' \in JobPcs =>
              \/ /\ job' \in Topics \X Issues
                 /\ Linking' => Mapped(job'[1]) /\ UrlOf[job'[2]] # NoUrl
                 /\ \/ pc' \in {"setExplicit", "linkExplicit"} /\ job'[1] \in DOMAIN Explicit
                    \/ titles # {}
              \/ pc' = pc /\ job' = job
         /\ titles' # {} => titles # {} \/ AllowTitleMatching
         /\ request' \in [Handlers -> RequestStates]
         /\ \A h \in Handlers : request'[h].at = "link" => request'[h] = request[h]
         /\ \A h \in Handlers : request[h] # NoRequest => request'[h] = request[h]
  <1>0. /\ pc \in PCs /\ index \subseteq Issues /\ explicit \subseteq DOMAIN Explicit
        /\ titles \subseteq Series \X Topics /\ job \in Jobs
        /\ request \in [Handlers -> RequestStates]
        /\ IsMap(Explicit, Topics, Issues \cup {BadURI})
        /\ DOMAIN Explicit \subseteq Topics
        /\ UrlOf \in [Issues -> Urls \cup {NoUrl}]
        /\ Configured \subseteq Series
    BY MappingAssumption DEF TypeInv, TypeOK, Located, IsMap
  <1> USE <1>0 DEF passVars
  <1>1. CASE Begin
    BY <1>1 DEF Begin, Refresh, PCs, JobPcs
  <1>2. CASE ExplicitDone \/ PhaseDone
    BY <1>2 DEF ExplicitDone, PhaseDone, Idle, PCs, JobPcs, Jobs
  <1>3. ASSUME NEW t \in Topics, TakeExplicit(t)
        PROVE  /\ UNCHANGED <<storeVars, historyVars, request, index, titles>>
               /\ pc' \in PCs /\ explicit' \subseteq DOMAIN Explicit /\ job' \in Jobs
               /\ pc' \in JobPcs =>
                    /\ job' \in Topics \X Issues
                    /\ Linking' => Mapped(job'[1]) /\ UrlOf[job'[2]] # NoUrl
                    /\ pc' \in {"setExplicit", "linkExplicit"} /\ job'[1] \in DOMAIN Explicit
    <2>1. t \in DOMAIN Explicit /\ Explicit[t] \in Issues
      BY <1>3 DEF TakeExplicit, IsMap
    <2>2. <<t, Explicit[t]>> \in Topics \X Issues
      BY <2>1
    <2> QED
      BY <1>3, <2>1, <2>2 DEF TakeExplicit, PCs, JobPcs, Jobs, HasUrl, Linking
  <1>4. ASSUME NEW t \in Topics, RefuseExplicit(t)
        PROVE  UNCHANGED <<storeVars, historyVars, request>> /\ Idle
    BY <1>4 DEF RefuseExplicit
  <1>5. ASSUME NEW s \in Series, NEW t \in Topics, TakeTitle(s, t)
        PROVE  /\ UNCHANGED <<storeVars, historyVars, request, index, explicit>>
               /\ pc' \in PCs /\ titles' \subseteq titles /\ titles # {} /\ job' \in Jobs
               /\ pc' \in JobPcs => job' \in Topics \X Issues /\ ~Linking'
    <2>1. Matches(s, t) \subseteq Issues
      BY DEF Matches
    <2> QED
      BY <1>5, <2>1 DEF TakeTitle, PCs, JobPcs, Jobs, Linking
  <1>6. ASSUME NEW h \in Handlers, BindArrives(h)
        PROVE  /\ UNCHANGED <<storeVars, historyVars, passVars>>
               /\ request' \in [Handlers -> RequestStates]
               /\ \A g \in Handlers : request'[g].at = "link" => request'[g] = request[g]
               /\ \A g \in Handlers : request[g] # NoRequest => request'[g] = request[g]
    <2>1. PICK r \in Requests :
            request' = [request EXCEPT ![h] = [at |-> "note", topic |-> r[1], note |-> r[2]]]
      BY <1>6 DEF BindArrives
    <2> DEFINE new == [at |-> "note", topic |-> r[1], note |-> r[2]]
    <2>2. new \in RequestStates /\ new.at = "note"
      BY MappingAssumption DEF RequestStates
    <2>3. request' = [request EXCEPT ![h] = new]
      BY <2>1
    <2> HIDE DEF new
    <2>4. /\ request' \in [Handlers -> RequestStates]
          /\ request'[h] = new
          /\ \A g \in Handlers \ {h} : request'[g] = request[g]
      BY <2>2, <2>3
    <2> QED
      BY <1>6, <2>2, <2>4 DEF BindArrives
  <1>7. CASE UNCHANGED vars
    BY <1>7 DEF vars
  <1>8. CASE \E t \in Topics : RefuseExplicit(t)
    BY <1>4, <1>8 DEF Idle, PCs, JobPcs, Jobs
  <1>9. CASE \E t \in Topics : TakeExplicit(t)
    BY <1>3, <1>9
  <1>10. CASE \E s \in Series, t \in Topics : TakeTitle(s, t)
    BY <1>5, <1>10
  <1>11. CASE \E h \in Handlers : BindArrives(h)
    BY <1>6, <1>11
  <1> QED
    BY <1>1, <1>2, <1>7, <1>8, <1>9, <1>10, <1>11 DEF Quiet

-----------------------------------------------------------------------------
(* Type correctness. *)

(* The initial state is well formed.                                       *)
LEMMA TypeInit == Init => TypeInv
  <1> SUFFICES ASSUME Init PROVE TypeInv
    OBVIOUS
  <1>1. StoreTypeOK
    BY NoStateType DEF Init, StoreInit, StoreTypeOK
  <1>2. request \in [Handlers -> RequestStates]
    BY DEF Init, RequestStates
  <1>3. \A h \in Handlers : request[h] = NoRequest /\ NoRequest.at = "idle"
    BY DEF Init, NoRequest
  <1> QED
    BY <1>1, <1>2, <1>3, MappingAssumption
    DEF Init, TypeInv, TypeOK, Located, JobPcs, PCs, Linking, Jobs

(* What TypeOK says of the requests follows from what is proved of them.   *)
LEMMA RequestsType ==
  ASSUME request' \in [Handlers -> RequestStates]
  PROVE  \A h \in Handlers :
           \/ request'[h] = NoRequest
           \/ /\ request'[h].at \in {"note", "link"}
              /\ request'[h].topic \in Topics
              /\ request'[h].note \in Issues
  BY DEF RequestStates

(* A pass that ends leaves its variables well formed.                      *)
LEMMA IdleType ==
  ASSUME Idle
  PROVE  /\ pc' \in PCs /\ pc' \notin JobPcs /\ ~Linking'
         /\ index' = {} /\ explicit' = {} /\ titles' = {} /\ job' \in Jobs
  BY DEF Idle, PCs, JobPcs, Linking, Jobs

(* Every step keeps the state well formed.                                 *)
LEMMA TypeStep ==
  ASSUME TypeInv, [Next]_vars
  PROVE  TypeInv'
  <1>0. /\ StoreTypeOK /\ pc \in PCs /\ index \subseteq Issues
        /\ explicit \subseteq DOMAIN Explicit
        /\ titles \subseteq Series \X Topics /\ job \in Jobs
        /\ said \in [Topics -> SUBSET (Issues \cup {Unbound})]
        /\ since \in [Handlers -> SUBSET (Issues \cup {Unbound})]
        /\ raced \subseteq Topics /\ crashes \in 0..MaxCrashes
        /\ request \in [Handlers -> RequestStates]
        /\ NoJob \in Jobs
    BY DEF TypeInv, TypeOK, Located, Jobs
  <1>1. CASE Quiet
    <2>1. StoreTypeOK'
      BY <1>0, <1>1, QuietStep DEF storeVars, StoreTypeOK
    <2>2. Located'
      <3>1. pc' \in JobPcs => /\ job' \in Topics \X Issues
                              /\ Linking' => UrlOf[job'[2]] # NoUrl
        BY <1>1, QuietStep DEF TypeInv, Located, Linking
      <3>2. \A h \in Handlers : request'[h].at = "link" => UrlOf[request'[h].note] # NoUrl
        BY <1>1, QuietStep DEF TypeInv, Located
      <3>3. Linking' => pc' \in JobPcs
        BY DEF Linking, JobPcs
      <3> QED
        BY <1>1, <3>1, <3>2, <3>3, QuietStep DEF Located
    <2> QED
      BY <1>0, <1>1, <2>1, <2>2, QuietStep, RequestsType DEF TypeInv, TypeOK, historyVars
  <1>2. CASE RecordsJob
    <2>1. StoreTypeOK'
      BY <1>0, <1>2, RecordsJobStep, RecordStep
    <2>2. UNCHANGED <<request, historyVars>>
      BY <1>2, RecordsJobStep
    <2>3. CASE Idle
      BY <1>0, <2>1, <2>2, <2>3, IdleType, RequestsType
      DEF TypeInv, TypeOK, Located, historyVars
    <2>4. CASE ~Idle
      <3>1. /\ UNCHANGED <<index, explicit, titles>>
            /\ \/ job' = NoJob /\ pc' \in {"explicit", "titles"}
               \/ /\ job' = job /\ UrlOf[job[2]] # NoUrl
                  /\ pc' \in {"linkExplicit", "linkTitle"}
            /\ job \in Topics \X Issues
        BY <1>2, <2>4, RecordsJobStep DEF TypeInv, Located
      <3>2. Located'
        BY <2>2, <3>1 DEF TypeInv, Located, JobPcs, Linking
      <3> QED
        BY <1>0, <2>1, <2>2, <3>1, <3>2, RequestsType
        DEF TypeInv, TypeOK, historyVars, PCs
    <2> QED
      BY <2>3, <2>4
  <1>3. CASE LinksJob
    <2>1. StoreTypeOK'
      BY <1>0, <1>3, LinksJobStep, LinkStep
    <2>2. UNCHANGED <<request, historyVars>>
      BY <1>3, LinksJobStep
    <2>3. CASE Idle
      BY <1>0, <2>1, <2>2, <2>3, IdleType, RequestsType
      DEF TypeInv, TypeOK, Located, historyVars
    <2>4. CASE ~Idle
      <3>1. /\ UNCHANGED <<index, explicit, titles>>
            /\ job' = NoJob /\ pc' \in {"explicit", "titles"}
        BY <1>3, <2>4, LinksJobStep
      <3>2. Located'
        BY <2>2, <3>1 DEF TypeInv, Located, JobPcs, Linking
      <3> QED
        BY <1>0, <2>1, <2>2, <3>1, <3>2, RequestsType
        DEF TypeInv, TypeOK, historyVars, PCs
    <2> QED
      BY <2>3, <2>4
  <1>4. ASSUME NEW h \in Handlers, BindNote(h)
        PROVE  TypeInv'
    <2>1. StoreTypeOK'
      BY <1>0, <1>4, BindNoteStep, RecordStep
    <2>2. /\ said' \in [Topics -> SUBSET (Issues \cup {Unbound})]
          /\ since' \in [Handlers -> SUBSET (Issues \cup {Unbound})]
      BY <1>0, <1>4, BindNoteStep, AnsweredType
    <2>3. /\ UNCHANGED <<passVars, raced, crashes>>
          /\ request' \in [Handlers -> RequestStates]
      BY <1>4, BindNoteStep
    <2>4. \A g \in Handlers : request'[g].at = "link" => UrlOf[request'[g].note] # NoUrl
      BY <1>4, BindNoteStep DEF TypeInv, Located
    <2>5. Located'
      BY <2>3, <2>4 DEF TypeInv, Located, Linking, passVars
    <2> QED
      BY <1>0, <2>1, <2>2, <2>3, <2>5, RequestsType DEF TypeInv, TypeOK, passVars
  <1>5. ASSUME NEW h \in Handlers, BindLink(h)
        PROVE  TypeInv'
    <2>1. StoreTypeOK'
      BY <1>0, <1>5, BindLinkStep, LinkStep
    <2>2. /\ said' \in [Topics -> SUBSET (Issues \cup {Unbound})]
          /\ since' \in [Handlers -> SUBSET (Issues \cup {Unbound})]
      BY <1>5, BindLinkStep, AnsweredType
    <2>3. /\ UNCHANGED <<passVars, raced, crashes>>
          /\ request' \in [Handlers -> RequestStates]
      BY <1>5, BindLinkStep
    <2>4. \A g \in Handlers : request'[g].at = "link" => UrlOf[request'[g].note] # NoUrl
      BY <1>5, BindLinkStep DEF TypeInv, Located, NoRequest
    <2>5. Located'
      BY <2>3, <2>4 DEF TypeInv, Located, Linking, passVars
    <2> QED
      BY <1>0, <2>1, <2>2, <2>3, <2>5, RequestsType DEF TypeInv, TypeOK, passVars
  <1>6. ASSUME NEW t \in Topics, Unbind(t)
        PROVE  TypeInv'
    <2>1. PICK ok \in BOOLEAN :
            /\ Save(DeleteTopicNote(mem, t), ok)
            /\ Answered(t, Unbound, ok, {})
            /\ raced' = IF InFlight(t) THEN raced \cup {t}
                        ELSE IF ok THEN raced \ {t} ELSE raced
      BY <1>6, StoreAssumption DEF Unbind
    <2>2. StoreTypeOK'
      BY <1>0, <2>1, DeleteStep
    <2>3. /\ said' \in [Topics -> SUBSET (Issues \cup {Unbound})]
          /\ since' \in [Handlers -> SUBSET (Issues \cup {Unbound})]
          /\ raced' \subseteq Topics
          /\ UNCHANGED <<passVars, request, crashes>>
      BY <1>0, <1>6, <2>1, AnsweredType DEF Unbind
    <2>4. Located'
      BY <2>3 DEF TypeInv, Located, Linking, passVars
    <2> QED
      BY <1>0, <2>2, <2>3, <2>4, RequestsType DEF TypeInv, TypeOK, passVars
  <1>7. CASE Crash
    <2>1. StoreTypeOK'
      BY <1>0, <1>7 DEF Crash, Load, StoreTypeOK
    <2>2. /\ request' \in [Handlers -> RequestStates]
          /\ \A h \in Handlers : request'[h] = NoRequest
      BY <1>7 DEF Crash, RequestStates
    <2>3. crashes' \in 0..MaxCrashes
      BY <1>0, <1>7, MappingAssumption DEF Crash
    <2>4. Located'
      BY <1>7, <2>2, IdleType DEF Crash, Located, NoRequest
    <2>5. /\ said' \in [Topics -> SUBSET (Issues \cup {Unbound})]
          /\ since' \in [Handlers -> SUBSET (Issues \cup {Unbound})]
      <3>1. \A t \in Topics : Pending(t) \subseteq Issues
        BY <1>0, MappingAssumption DEF Pending, RequestStates, NoRequest
      <3>. QED
        BY <1>0, <1>7, <3>1 DEF Crash
    <2> QED
      BY <1>0, <1>7, <2>1, <2>2, <2>3, <2>4, <2>5, IdleType, RequestsType
      DEF Crash, TypeInv, TypeOK
  <1> QED
    BY <1>1, <1>2, <1>3, <1>4, <1>5, <1>6, <1>7, StepKinds

(* Type correctness of the mapping: whatever the pass and the admin        *)
(* handlers interleave, each has a topic and a note in hand when it writes,*)
(* and the state store stays well formed.                                  *)
THEOREM TypeCorrect == Spec => []TypeOK
  <1>1. TypeInv /\ [Next]_vars => TypeInv'
    BY TypeStep
  <1>2. TypeInv => TypeOK
    BY DEF TypeInv
  <1> QED
    BY TypeInit, <1>1, <1>2, PTL DEF Spec

-----------------------------------------------------------------------------
(* Links follow mappings.  A link is written for a topic that was mapped a *)
(* moment before; the only way it can have lost its mapping since is an    *)
(* unbind in between, and that one has put the topic into raced.  A later  *)
(* acknowledged unbind takes the topic out of raced again, and the links   *)
(* to it out of memory and file.                                           *)

Secure(t) == Mapped(t) \/ t \in raced

Led(st) == \A k \in DOMAIN st.issueTopics :
             st.issueTopics[k] \in DOMAIN st.topicNotes \cup raced

LinkInv ==
  /\ Led(mem) /\ Led(disk)
  /\ Linking => Secure(job[1])
  /\ \A h \in Handlers : request[h].at = "link" => Secure(request[h].topic)

(* A save that leaves every topic mapped that was, and that adds only      *)
(* links to a secure topic, keeps every link led.                          *)
LEMMA KeepsLed ==
  ASSUME LinkInv, raced' = raced, NEW ok \in BOOLEAN,
         DOMAIN mem.topicNotes \subseteq DOMAIN mem'.topicNotes,
         \A k \in DOMAIN mem'.issueTopics :
           \/ mem'.issueTopics[k] \in DOMAIN mem'.topicNotes \cup raced
           \/ k \in DOMAIN mem.issueTopics /\ mem'.issueTopics[k] = mem.issueTopics[k],
         disk'.topicNotes = IF ok THEN mem'.topicNotes ELSE disk.topicNotes,
         disk'.issueTopics = IF ok THEN mem'.issueTopics ELSE disk.issueTopics
  PROVE  Led(mem)' /\ Led(disk)' /\ \A t \in Topics : Secure(t) => Secure(t)'
  <1>1. Led(mem)'
    BY DEF LinkInv, Led
  <1>2. Led(disk)'
    <2>1. CASE ok
      BY <1>1, <2>1 DEF Led
    <2>2. CASE ~ok
      BY <2>2 DEF LinkInv, Led
    <2> QED
      BY <2>1, <2>2
  <1> QED
    BY <1>1, <1>2 DEF Secure, Mapped

(* Every step keeps links led.                                             *)
LEMMA LinkInvStep ==
  ASSUME TypeInv, LinkInv, [Next]_vars
  PROVE  LinkInv'
  <1>0. StoreTypeOK /\ request \in [Handlers -> RequestStates]
    BY DEF TypeInv, TypeOK, Located
  <1>1. CASE Quiet
    <2>1. Led(mem)' /\ Led(disk)' /\ \A t : Secure(t)' = Secure(t)
      BY <1>1, QuietStep DEF LinkInv, Led, Secure, Mapped, storeVars, historyVars
    <2>2. Linking' => Secure(job[1])'
      <3>1. Linking' => pc' \in JobPcs
        BY DEF Linking, JobPcs
      <3> QED
        BY <1>1, <2>1, <3>1, QuietStep DEF LinkInv, Linking, Secure
    <2>3. \A h \in Handlers : request'[h].at = "link" => Secure(request[h].topic)'
      BY <1>1, <2>1, QuietStep DEF LinkInv
    <2> QED
      BY <2>1, <2>2, <2>3 DEF LinkInv
  <1>2. CASE RecordsJob
    <2>1. PICK ok \in BOOLEAN : Save(Record(job[1], job[2]), ok)
      BY <1>2, RecordsJobStep
    <2>2. /\ job[1] \in Topics /\ job[2] \in Issues
          /\ UNCHANGED <<request, historyVars>>
      BY <1>2, RecordsJobStep
    <2>3. /\ mem'.topicNotes = Put(mem.topicNotes, job[1], job[2])
          /\ mem'.issueTopics = mem.issueTopics
          /\ disk'.topicNotes = IF ok THEN mem'.topicNotes ELSE disk.topicNotes
          /\ disk'.issueTopics = IF ok THEN mem'.issueTopics ELSE disk.issueTopics
      BY <1>0, <2>1, <2>2, RecordStep
    <2>4. DOMAIN mem'.topicNotes = DOMAIN mem.topicNotes \cup {job[1]}
      BY <2>3 DEF Put
    <2>5. Led(mem)' /\ Led(disk)' /\ \A t \in Topics : Secure(t) => Secure(t)'
      BY <2>2, <2>3, <2>4, KeepsLed DEF historyVars
    <2>6. Linking' => job' = job
      BY <1>2, RecordsJobStep, IdleType DEF Linking
    <2>7. Linking' => Secure(job[1])'
      BY <2>4, <2>6 DEF Secure, Mapped
    <2>8. \A h \in Handlers : request'[h].at = "link" => Secure(request[h].topic)'
      BY <2>2, <2>5, RequestType DEF LinkInv
    <2> QED
      BY <2>5, <2>7, <2>8 DEF LinkInv
  <1>3. CASE LinksJob
    <2>1. PICK ok \in BOOLEAN : Save(LinkBack(job[1], job[2]), ok)
      BY <1>3, LinksJobStep
    <2>2. /\ job[1] \in Topics /\ job[2] \in Issues /\ UrlOf[job[2]] # NoUrl
          /\ UNCHANGED <<request, historyVars>>
          /\ Secure(job[1])
      BY <1>3, LinksJobStep DEF LinkInv
    <2>3. /\ mem'.topicNotes = mem.topicNotes
          /\ \A k \in DOMAIN mem'.issueTopics :
               \/ mem'.issueTopics[k] = job[1]
               \/ k \in DOMAIN mem.issueTopics /\ mem'.issueTopics[k] = mem.issueTopics[k]
          /\ disk'.topicNotes = IF ok THEN mem'.topicNotes ELSE disk.topicNotes
          /\ disk'.issueTopics = IF ok THEN mem'.issueTopics ELSE disk.issueTopics
      BY <1>0, <2>1, <2>2, LinkStep
    <2>4. Led(mem)' /\ Led(disk)' /\ \A t \in Topics : Secure(t) => Secure(t)'
      BY <2>2, <2>3, KeepsLed DEF historyVars, Secure, Mapped
    <2>5. ~Linking'
      BY <1>3, LinksJobStep, IdleType DEF Linking
    <2>6. \A h \in Handlers : request'[h].at = "link" => Secure(request[h].topic)'
      BY <2>2, <2>4, RequestType DEF LinkInv
    <2> QED
      BY <2>4, <2>5, <2>6 DEF LinkInv
  <1>4. ASSUME NEW h \in Handlers, BindNote(h)
        PROVE  LinkInv'
    <2> DEFINE t == request[h].topic
               i == request[h].note
    <2>1. PICK ok \in BOOLEAN : Save(Record(t, i), ok)
      BY <1>4, BindNoteStep
    <2>2. t \in Topics /\ i \in Issues /\ UNCHANGED <<passVars, raced>>
      BY <1>4, BindNoteStep
    <2>3. /\ mem'.topicNotes = Put(mem.topicNotes, t, i)
          /\ mem'.issueTopics = mem.issueTopics
          /\ disk'.topicNotes = IF ok THEN mem'.topicNotes ELSE disk.topicNotes
          /\ disk'.issueTopics = IF ok THEN mem'.issueTopics ELSE disk.issueTopics
      BY <1>0, <2>1, <2>2, RecordStep
    <2>4. DOMAIN mem'.topicNotes = DOMAIN mem.topicNotes \cup {t}
      BY <2>3 DEF Put
    <2>5. Led(mem)' /\ Led(disk)' /\ \A x \in Topics : Secure(x) => Secure(x)'
      BY <2>2, <2>3, <2>4, KeepsLed
    <2>6. Linking' => Secure(job[1])'
      BY <2>2, <2>5 DEF LinkInv, Linking, passVars, TypeInv, Located, JobPcs
    <2>7. \A g \in Handlers : request'[g].at = "link" => Secure(request[g].topic)'
      <3>1. ASSUME NEW g \in Handlers \ {h}, request'[g].at = "link"
            PROVE  Secure(request[g].topic)'
        BY <1>4, <2>5, <3>1, BindNoteStep, RequestType DEF LinkInv
      <3>2. request'[h].at = "link" => Secure(request[h].topic)'
        BY <1>4, <2>4, BindNoteStep DEF Secure, Mapped
      <3> QED
        BY <3>1, <3>2
    <2> QED
      BY <2>5, <2>6, <2>7 DEF LinkInv
  <1>5. ASSUME NEW h \in Handlers, BindLink(h)
        PROVE  LinkInv'
    <2> DEFINE t == request[h].topic
               i == request[h].note
    <2>1. PICK ok \in BOOLEAN : Save(LinkBack(t, i), ok)
      BY <1>5, BindLinkStep
    <2>2. /\ t \in Topics /\ i \in Issues /\ UrlOf[i] # NoUrl
          /\ UNCHANGED <<passVars, raced>>
          /\ Secure(t)
      BY <1>5, BindLinkStep DEF LinkInv
    <2>3. /\ mem'.topicNotes = mem.topicNotes
          /\ \A k \in DOMAIN mem'.issueTopics :
               \/ mem'.issueTopics[k] = t
               \/ k \in DOMAIN mem.issueTopics /\ mem'.issueTopics[k] = mem.issueTopics[k]
          /\ disk'.topicNotes = IF ok THEN mem'.topicNotes ELSE disk.topicNotes
          /\ disk'.issueTopics = IF ok THEN mem'.issueTopics ELSE disk.issueTopics
      BY <1>0, <2>1, <2>2, LinkStep
    <2>4. Led(mem)' /\ Led(disk)' /\ \A x \in Topics : Secure(x) => Secure(x)'
      BY <2>2, <2>3, KeepsLed DEF Secure, Mapped
    <2>5. Linking' => Secure(job[1])'
      BY <2>2, <2>4 DEF LinkInv, Linking, passVars, TypeInv, Located, JobPcs
    <2>6. \A g \in Handlers : request'[g].at = "link" => Secure(request[g].topic)'
      BY <1>5, <2>4, BindLinkStep, RequestType DEF LinkInv, NoRequest
    <2> QED
      BY <2>4, <2>5, <2>6 DEF LinkInv
  <1>6. ASSUME NEW t \in Topics, Unbind(t)
        PROVE  LinkInv'
    <2>1. PICK ok \in BOOLEAN :
            /\ Save(DeleteTopicNote(mem, t), ok)
            /\ raced' = IF InFlight(t) THEN raced \cup {t}
                        ELSE IF ok THEN raced \ {t} ELSE raced
      BY <1>6, StoreAssumption DEF Unbind
    <2>2. UNCHANGED <<passVars, request>>
      BY <1>6 DEF Unbind
    <2>3. /\ DOMAIN mem'.topicNotes = DOMAIN mem.topicNotes \ {t}
          /\ \A k \in DOMAIN mem'.issueTopics :
               /\ mem'.issueTopics[k] # t
               /\ k \in DOMAIN mem.issueTopics /\ mem'.issueTopics[k] = mem.issueTopics[k]
          /\ disk'.topicNotes = IF ok THEN mem'.topicNotes ELSE disk.topicNotes
          /\ disk'.issueTopics = IF ok THEN mem'.issueTopics ELSE disk.issueTopics
      BY <1>0, <2>1, DeleteStep
    <2>4. /\ \A x : x # t => (x \in raced' <=> x \in raced)
          /\ InFlight(t) => t \in raced'
          /\ ~ok => raced \subseteq raced'
      BY <2>1
    <2>5. Led(mem)'
      BY <2>3, <2>4 DEF LinkInv, Led
    <2>6. Led(disk)'
      <3>1. CASE ok
        BY <2>3, <2>5, <3>1 DEF Led
      <3>2. CASE ~ok
        BY <2>3, <2>4, <3>2 DEF LinkInv, Led
      <3> QED
        BY <3>1, <3>2
    <2>7. \A x : Secure(x) /\ (x # t \/ InFlight(t)) => Secure(x)'
      BY <2>3, <2>4 DEF Secure, Mapped
    <2>8. Linking' => Secure(job[1])'
      BY <2>2, <2>7 DEF LinkInv, Linking, passVars, InFlight
    <2>9. \A h \in Handlers : request'[h].at = "link" => Secure(request[h].topic)'
      BY <2>2, <2>7 DEF LinkInv, InFlight
    <2> QED
      BY <2>5, <2>6, <2>8, <2>9 DEF LinkInv
  <1>7. CASE Crash
    <2>1. mem' = disk /\ disk' = disk /\ raced' = raced
      BY <1>7 DEF Crash, Load
    <2>2. Led(mem)' /\ Led(disk)'
      BY <2>1 DEF LinkInv, Led
    <2>3. ~Linking' /\ \A h \in Handlers : request'[h].at # "link"
      BY <1>7, IdleType DEF Crash, NoRequest
    <2> QED
      BY <2>2, <2>3 DEF LinkInv
  <1> QED
    BY <1>1, <1>2, <1>3, <1>4, <1>5, <1>6, <1>7, StepKinds

(* Every issue link leads to a bound topic, in memory and on disk, for any *)
(* interleaving of the pass with admin requests, failed saves and crashes, *)
(* but where a topic was unbound while somebody was binding it.            *)
THEOREM LinksAreLed == Spec => []LinksFollowMappings
  <1>1. Init => LinkInv
    BY DEF Init, StoreInit, NoState, EmptyMap, LinkInv, Led, Linking, NoRequest
  <1>2. TypeInv /\ LinkInv /\ [Next]_vars => TypeInv' /\ LinkInv'
    BY TypeStep, LinkInvStep
  <1>3. LinkInv => LinksFollowMappings
    BY DEF LinkInv, Led, LinksFollowMappings
  <1> QED
    BY TypeInit, <1>1, <1>2, <1>3, PTL DEF Spec

-----------------------------------------------------------------------------
(* The operator decides.  Without title matching the pass writes only the  *)
(* topics the configuration names; the mapping of any other topic is       *)
(* written by requests alone.  A handler that comes to answer had its note *)
(* in memory and file once; whoever replaced it there since is a request   *)
(* still under way, or one answered since the handler's own arrived.       *)

Free == Topics \ DOMAIN Explicit

(* Memory and file say of topic t what one of answers said, or what some   *)
(* request under way asks for.                                             *)
Within(t, answers) == /\ Binding(t, mem) \in answers \cup Pending(t)
                      /\ Binding(t, disk) \in answers \cup Pending(t)

Answers ==
  /\ \A t \in Free : Within(t, said[t])
  /\ \A h \in Handlers : request[h].at = "link" /\ request[h].topic \in Free =>
                           Within(request[h].topic, since[h])

DecideInv ==
  /\ titles = {}
  /\ pc \in JobPcs => /\ pc \in {"setExplicit", "linkExplicit"}
                      /\ job[1] \in DOMAIN Explicit
  /\ Answers

(* What memory and file say of topic t after a step was said before it.    *)
Unmoved(t) == {Binding(t, mem'), Binding(t, disk')} \subseteq {Binding(t, mem), Binding(t, disk)}

(* A step that answers nobody, and leaves the bindings and the requests    *)
(* under way as they are.                                                  *)
LEMMA KeepsAnswers ==
  ASSUME TypeInv, Answers, UNCHANGED <<said, since>>,
         \A t \in Free : Unmoved(t),
         \A g \in Handlers : request[g] # NoRequest => request'[g] = request[g],
         \A g \in Handlers : request'[g].at = "link" => request'[g] = request[g]
  PROVE  Answers'
  <1>1. \A t \in Free : Pending(t) \subseteq Pending(t)'
    BY MappingAssumption DEF Free, Pending, NoRequest
  <1>2. ASSUME NEW t \in Free
        PROVE  Within(t, said[t])'
    BY <1>1, <1>2 DEF Answers, Within, Unmoved
  <1>3. ASSUME NEW h \in Handlers, request'[h].at = "link", request'[h].topic \in Free
        PROVE  Within(request[h].topic, since[h])'
    <2>1. request'[h] = request[h] /\ Within(request[h].topic, since[h])
      BY <1>3 DEF Answers
    <2>2. PICK t \in Free : t = request[h].topic /\ t = request'[h].topic
      BY <1>3, <2>1
    <2>. QED
      BY <1>1, <2>1, <2>2 DEF Within, Unmoved
  <1>. QED
    BY <1>2, <1>3 DEF Answers

(* A request for topic t to say i is answered, and goes, if it has a       *)
(* handler; with success only if nothing but i, what was answered meanwhile*)
(* and what is under way is left in memory and file.                       *)
LEMMA AnswerKeepsAnswers ==
  ASSUME TypeInv, Answers, NEW t \in Topics, NEW i \in Issues \cup {Unbound},
         NEW ok \in BOOLEAN, NEW meantime, Answered(t, i, ok, meantime),
         \A x \in Free \ {t} : Unmoved(x),
         \A b \in {Binding(t, mem'), Binding(t, disk')} :
            b = i \/ b \in {Binding(t, mem), Binding(t, disk)},
         ok /\ t \in Free => \A b \in {Binding(t, mem'), Binding(t, disk')} :
                               b = i \/ b \in meantime \/ b \in Pending(t),
         \A g \in Handlers : \/ request'[g] = request[g]
                             \/ /\ request'[g] = NoRequest
                                /\ request[g].topic = t /\ request[g].note = i
  PROVE  Answers'
  <1>1. /\ said \in [Topics -> SUBSET (Issues \cup {Unbound})]
        /\ since \in [Handlers -> SUBSET (Issues \cup {Unbound})]
        /\ Nobody \notin Topics
    BY MappingAssumption DEF TypeInv, TypeOK
  <1>. DEFINE Left(old) == {i} \cup (IF ok THEN old \cap meantime ELSE old)
  <1>2. /\ \A x \in Topics \ {t} : said'[x] = said[x]
        /\ said'[t] = Left(said[t])
        /\ \A g \in Handlers : request'[g] # NoRequest =>
             since'[g] = IF request'[g].topic = t THEN Left(since[g]) ELSE since[g]
    BY <1>1 DEF Answered
  <1>3. /\ \A x \in Topics \ {t} : Pending(x) \subseteq Pending(x)'
        /\ Pending(t) \subseteq {i} \cup Pending(t)'
    BY DEF Pending
  <1>4. ASSUME NEW old, t \in Free, Within(t, old)
        PROVE  /\ Binding(t, mem') \in Left(old) \cup Pending(t)'
               /\ Binding(t, disk') \in Left(old) \cup Pending(t)'
    BY <1>3, <1>4 DEF Within
  <1>. HIDE DEF Left
  <1>5. ASSUME NEW x \in Free
        PROVE  Within(x, said[x])'
    <2>1. CASE x = t
      BY <1>2, <1>4, <1>5, <2>1 DEF Answers, Within
    <2>2. CASE x # t
      BY <1>2, <1>3, <1>5, <2>2 DEF Answers, Within, Unmoved, Free
    <2>. QED
      BY <2>1, <2>2
  <1>6. ASSUME NEW h \in Handlers, request'[h].at = "link", request'[h].topic \in Free
        PROVE  Within(request[h].topic, since[h])'
    <2>1. request'[h] # NoRequest /\ request'[h] = request[h]
      BY <1>6 DEF NoRequest
    <2>2. PICK x \in Free : x = request[h].topic /\ x = request'[h].topic
      BY <1>6, <2>1
    <2>3. Within(x, since[h])
      BY <1>6, <2>1, <2>2 DEF Answers
    <2>4. CASE x = t
      BY <1>2, <1>4, <2>1, <2>2, <2>3, <2>4 DEF Within
    <2>5. CASE x # t
      BY <1>2, <1>3, <2>1, <2>2, <2>3, <2>5 DEF Within, Unmoved, Free
    <2>. QED
      BY <2>4, <2>5
  <1>. QED
    BY <1>5, <1>6 DEF Answers

(* A setter that leaves the mapping of topic t alone in memory, leaves it  *)
(* alone in the file, or brings the file up to what memory says.           *)
LEMMA OtherTopic ==
  ASSUME NEW t, NEW ok \in BOOLEAN,
         t \in DOMAIN mem'.topicNotes <=> t \in DOMAIN mem.topicNotes,
         t \in DOMAIN mem.topicNotes => mem'.topicNotes[t] = mem.topicNotes[t],
         disk'.topicNotes = IF ok THEN mem'.topicNotes ELSE disk.topicNotes
  PROVE  Unmoved(t) /\ Binding(t, mem') = Binding(t, mem)
  <1>1. Binding(t, mem') = Binding(t, mem)
    BY DEF Binding
  <1>2. Binding(t, disk') = IF ok THEN Binding(t, mem') ELSE Binding(t, disk)
    BY DEF Binding
  <1>. QED
    BY <1>1, <1>2 DEF Unmoved

(* Every step leaves the decision to the operator.                         *)
LEMMA DecideStep ==
  ASSUME TypeInv, DecideInv, ~AllowTitleMatching, [Next]_vars
  PROVE  DecideInv'
  <1>0. /\ StoreTypeOK /\ request \in [Handlers -> RequestStates]
        /\ said \in [Topics -> SUBSET (Issues \cup {Unbound})]
        /\ since \in [Handlers -> SUBSET (Issues \cup {Unbound})]
        /\ Free \subseteq Topics /\ Answers
    BY DEF TypeInv, TypeOK, Located, Free, DecideInv
  <1>1. CASE Quiet
    <2>1. titles' = {}
      BY <1>1, QuietStep DEF DecideInv
    <2>2. pc' \in JobPcs => /\ pc' \in {"setExplicit", "linkExplicit"}
                            /\ job'[1] \in DOMAIN Explicit
      BY <1>1, QuietStep DEF DecideInv
    <2>3. UNCHANGED <<mem, disk, said, since>>
      BY <1>1, QuietStep DEF storeVars, historyVars
    <2>4. \A t \in Free : Unmoved(t)
      BY <2>3 DEF Unmoved
    <2>5. Answers'
      BY <1>0, <1>1, <2>3, <2>4, QuietStep, KeepsAnswers
    <2> QED
      BY <2>1, <2>2, <2>5 DEF DecideInv
  <1>2. CASE RecordsJob
    <2>1. PICK ok \in BOOLEAN : Save(Record(job[1], job[2]), ok)
      BY <1>2, RecordsJobStep
    <2>2. /\ job[1] \in Topics /\ job[2] \in Issues
          /\ UNCHANGED <<request, historyVars>>
          /\ job[1] \notin Free
          /\ pc = "setExplicit"
      <3>1. pc \in {"setExplicit", "setTitle"}
        BY <1>2 DEF RecordsJob, SetExplicit, SetTitle, SetJob
      <3> QED
        BY <1>2, <3>1, RecordsJobStep DEF DecideInv, Free
    <2>3. /\ mem'.topicNotes = Put(mem.topicNotes, job[1], job[2])
          /\ disk'.topicNotes = IF ok THEN mem'.topicNotes ELSE disk.topicNotes
      BY <1>0, <2>1, <2>2, RecordStep
    <2>4. \A t \in Free : /\ t \in DOMAIN mem'.topicNotes <=> t \in DOMAIN mem.topicNotes
                          /\ t \in DOMAIN mem.topicNotes =>
                               mem'.topicNotes[t] = mem.topicNotes[t]
      BY <2>2, <2>3 DEF Put
    <2>5. \A t \in Free : Unmoved(t)
      BY <2>3, <2>4, OtherTopic
    <2>6. Answers'
      BY <1>0, <2>2, <2>5, KeepsAnswers DEF historyVars
    <2>7. titles' = {}
      BY <1>2, RecordsJobStep DEF DecideInv, Idle
    <2>8. pc' \in JobPcs => pc' = "linkExplicit" /\ job' = job
      BY <1>2, <2>2, RecordsJobStep DEF JobPcs, Idle
    <2> QED
      BY <2>2, <2>6, <2>7, <2>8 DEF DecideInv, JobPcs
  <1>3. CASE LinksJob
    <2>1. PICK ok \in BOOLEAN : Save(LinkBack(job[1], job[2]), ok)
      BY <1>3, LinksJobStep
    <2>2. /\ job[1] \in Topics /\ job[2] \in Issues /\ UrlOf[job[2]] # NoUrl
          /\ UNCHANGED <<request, historyVars>>
      BY <1>3, LinksJobStep
    <2>3. /\ mem'.topicNotes = mem.topicNotes
          /\ disk'.topicNotes = IF ok THEN mem'.topicNotes ELSE disk.topicNotes
      BY <1>0, <2>1, <2>2, LinkStep
    <2>4. \A t \in Free : Unmoved(t)
      BY <2>3, OtherTopic
    <2>5. Answers'
      BY <1>0, <2>2, <2>4, KeepsAnswers DEF historyVars
    <2>6. titles' = {} /\ pc' \notin JobPcs
      BY <1>3, LinksJobStep DEF DecideInv, Idle, JobPcs
    <2> QED
      BY <2>5, <2>6 DEF DecideInv
  <1>4. ASSUME NEW h \in Handlers, BindNote(h)
        PROVE  DecideInv'
    <2>0. PICK t \in Topics, i \in Issues : t = request[h].topic /\ i = request[h].note
      BY <1>4, BindNoteStep
    <2>1. PICK ok \in BOOLEAN :
            /\ Save(Record(t, i), ok)
            /\ \/ /\ ok
                  /\ request'[h].topic = t /\ request'[h].note = i
                  /\ UNCHANGED <<said, since>>
               \/ /\ request'[h] = NoRequest
                  /\ Answered(t, i, ok, since[h])
      BY <1>4, <2>0, BindNoteStep
    <2>2. /\ UNCHANGED passVars
          /\ \A g \in Handlers \ {h} : request'[g] = request[g]
      BY <1>4, <2>0, BindNoteStep
    <2>3. /\ mem'.topicNotes = Put(mem.topicNotes, t, i)
          /\ disk'.topicNotes = IF ok THEN mem'.topicNotes ELSE disk.topicNotes
      BY <1>0, <2>1, RecordStep
    <2>4. \A x \in Free \ {t} : Unmoved(x)
      <3>1. \A x \in Free \ {t} : /\ x \in DOMAIN mem'.topicNotes <=> x \in DOMAIN mem.topicNotes
                                  /\ x \in DOMAIN mem.topicNotes =>
                                       mem'.topicNotes[x] = mem.topicNotes[x]
        BY <2>3 DEF Put
      <3>. QED
        BY <2>3, <3>1, OtherTopic
    <2>5. /\ Binding(t, mem') = i
          /\ Binding(t, disk') = IF ok THEN i ELSE Binding(t, disk)
      <3>1. Binding(t, mem') = i
        BY <2>3 DEF Binding, Put
      <3>. QED
        BY <2>3, <3>1 DEF Binding
    <2>6. CASE request'[h] = NoRequest /\ Answered(t, i, ok, since[h])
      <3>1. \A g \in Handlers : \/ request'[g] = request[g]
                                \/ /\ request'[g] = NoRequest
                                   /\ request[g].topic = t /\ request[g].note = i
        BY <2>0, <2>2, <2>6
      <3>. QED
        BY <1>0, <2>2, <2>4, <2>5, <2>6, <3>1, AnswerKeepsAnswers DEF DecideInv, passVars
    <2>7. CASE ok /\ request'[h].topic = t /\ request'[h].note = i /\ UNCHANGED <<said, since>>
      <3>1. \A x \in Topics : Pending(x) \subseteq Pending(x)'
        BY <2>0, <2>2, <2>7 DEF Pending
      <3>2. i \in Pending(t)'
        BY <2>7 DEF Pending
      <3>3. ASSUME NEW x \in Free, NEW old, x # t => Within(x, old)
            PROVE  /\ Binding(x, mem') \in old \cup Pending(x)'
                   /\ Binding(x, disk') \in old \cup Pending(x)'
        BY <1>0, <2>4, <2>5, <2>7, <3>1, <3>2, <3>3 DEF Within, Unmoved
      <3>4. \A x \in Free : Within(x, said[x])'
        BY <1>0, <2>7, <3>3 DEF Answers, Within
      <3>5. ASSUME NEW g \in Handlers, request'[g].at = "link", request'[g].topic \in Free
            PROVE  Within(request[g].topic, since[g])'
        <4>1. PICK x \in Free : x = request'[g].topic
          BY <3>5
        <4>2. x # t => Within(x, since[g])
          BY <1>0, <2>0, <2>2, <2>7, <3>5, <4>1 DEF Answers
        <4>. QED
          BY <2>7, <3>3, <4>1, <4>2 DEF Within
      <3>6. Answers'
        BY <3>4, <3>5 DEF Answers
      <3>. QED
        BY <2>2, <3>6 DEF DecideInv, passVars
    <2> QED
      BY <2>1, <2>6, <2>7
  <1>5. ASSUME NEW h \in Handlers, BindLink(h)
        PROVE  DecideInv'
    <2>0. PICK t \in Topics, i \in Issues : t = request[h].topic /\ i = request[h].note
      BY <1>5, BindLinkStep
    <2>1. PICK ok \in BOOLEAN : Save(LinkBack(t, i), ok) /\ Answered(t, i, ok, since[h])
      BY <1>5, <2>0, BindLinkStep
    <2>2. /\ UrlOf[i] # NoUrl
          /\ request[h].at = "link"
          /\ UNCHANGED passVars
      BY <1>5, <2>0, BindLinkStep
    <2>3. /\ mem'.topicNotes = mem.topicNotes
          /\ disk'.topicNotes = IF ok THEN mem'.topicNotes ELSE disk.topicNotes
      BY <1>0, <2>1, <2>2, LinkStep
    <2>4. \A x : Unmoved(x)
      BY <2>3, OtherTopic
    <2>5. t \in Free => Within(t, since[h])
      BY <1>0, <2>0, <2>2 DEF Answers
    <2>6. t \in Free => \A b \in {Binding(t, mem'), Binding(t, disk')} :
                          b \in since[h] \/ b \in Pending(t)
      BY <2>4, <2>5 DEF Within, Unmoved
    <2>7. \A b \in {Binding(t, mem'), Binding(t, disk')} :
            b \in {Binding(t, mem), Binding(t, disk)}
      BY <2>4 DEF Unmoved
    <2>8. \A g \in Handlers : \/ request'[g] = request[g]
                              \/ /\ request'[g] = NoRequest
                                 /\ request[g].topic = t /\ request[g].note = i
      BY <1>5, <2>0, BindLinkStep
    <2> QED
      BY <1>0, <2>1, <2>2, <2>4, <2>6, <2>7, <2>8, AnswerKeepsAnswers DEF DecideInv, passVars
  <1>6. ASSUME NEW t \in Topics, Unbind(t)
        PROVE  DecideInv'
    <2>1. PICK ok \in BOOLEAN : Save(DeleteTopicNote(mem, t), ok) /\ Answered(t, Unbound, ok, {})
      BY <1>6, StoreAssumption DEF Unbind
    <2>2. UNCHANGED <<passVars, request>>
      BY <1>6 DEF Unbind
    <2>3. /\ DOMAIN mem'.topicNotes = DOMAIN mem.topicNotes \ {t}
          /\ \A x \in DOMAIN mem'.topicNotes : mem'.topicNotes[x] = mem.topicNotes[x]
          /\ disk'.topicNotes = IF ok THEN mem'.topicNotes ELSE disk.topicNotes
      BY <1>0, <2>1, DeleteStep
    <2>4. \A x \in Free \ {t} : Unmoved(x)
      BY <2>3, OtherTopic
    <2>5. /\ Binding(t, mem') = Unbound
          /\ Binding(t, disk') = IF ok THEN Unbound ELSE Binding(t, disk)
      BY <2>3 DEF Binding
    <2> QED
      BY <1>0, <2>1, <2>2, <2>4, <2>5, AnswerKeepsAnswers DEF DecideInv, passVars
  <1>7. CASE Crash
    <2>1. /\ UNCHANGED disk /\ mem' = disk
          /\ \A h \in Handlers : request'[h] = NoRequest
          /\ \A t \in Topics : said'[t] = said[t] \cup Pending(t)
      BY <1>7 DEF Crash, Load
    <2>2. \A t \in Free : Within(t, said[t])'
      BY <1>0, <2>1 DEF Answers, Within
    <2>3. \A h \in Handlers : request'[h].at # "link"
      BY <2>1 DEF NoRequest
    <2>4. titles' = {} /\ pc' \notin JobPcs
      BY <1>7, IdleType DEF Crash
    <2> QED
      BY <2>2, <2>3, <2>4 DEF DecideInv, Answers
  <1> QED
    BY <1>1, <1>2, <1>3, <1>4, <1>5, <1>6, <1>7, StepKinds

(* The operator decides: what memory and file say of a topic is what a     *)
(* request asked for that no later one, told of success, has overtaken;    *)
(* for any number of requests at once, failed saves and crashes.           *)
THEOREM OperatorHasTheSay == Spec => []OperatorDecides
  <1>1. Init => (~AllowTitleMatching => DecideInv)
    BY MappingAssumption
    DEF Init, StoreInit, NoState, EmptyMap, DecideInv, Answers, Within, Binding, Free,
        JobPcs, NoRequest
  <1>2. TypeInv /\ (~AllowTitleMatching => DecideInv) /\ [Next]_vars
          => TypeInv' /\ (~AllowTitleMatching => DecideInv)'
    BY TypeStep, DecideStep
  <1>3. (~AllowTitleMatching => DecideInv) => OperatorDecides
    BY DEF DecideInv, Answers, Within, Free, OperatorDecides
  <1> QED
    BY TypeInit, <1>1, <1>2, <1>3, PTL DEF Spec

-----------------------------------------------------------------------------
(* The configuration comes before the title heuristic.                     *)

Heuristic == pc \in {"titles", "setTitle", "linkTitle"}

(* A configured mapping the operator does not unbind is in force when the  *)
(* heuristic runs, whichever outboxes are down, and the heuristic never    *)
(* has its topic in hand.                                                  *)
ConfiguredComesFirst ==
  Heuristic => \A t \in DOMAIN Explicit \ Unbinds : Mapped(t) /\ job[1] # t

(* Inductively: what the loop over the configured mappings took is in      *)
(* force, or in hand and about to be.                                      *)
ConfiguredInv ==
  /\ pc \in {"idle", "explicit", "titles"} => job = NoJob
  /\ pc # "idle" => \A t \in DOMAIN Explicit \ (explicit \cup Unbinds) :
                      Mapped(t) \/ (pc = "setExplicit" /\ job[1] = t)
  /\ Heuristic => explicit = {} /\ \A t \in DOMAIN Explicit \ Unbinds : job[1] # t

(* Of the steps only a crash and the operator take a mapping away.         *)
LEMMA MappingStays ==
  ASSUME TypeInv, [Next]_vars, ~Crash, NEW t \in Topics \ Unbinds, Mapped(t)
  PROVE  Mapped(t)'
  <1>0. StoreTypeOK
    BY DEF TypeInv, TypeOK
  <1>1. CASE Quiet
    BY <1>1, QuietStep DEF Mapped, storeVars
  <1>2. ASSUME NEW x \in Topics, NEW i \in Issues, NEW ok \in BOOLEAN, Save(Record(x, i), ok)
        PROVE  Mapped(t)'
    <2>1. mem'.topicNotes = Put(mem.topicNotes, x, i)
      BY <1>0, <1>2, RecordStep
    <2>. QED
      BY <2>1 DEF Mapped, Put
  <1>3. ASSUME NEW x \in Topics, NEW i \in Issues, UrlOf[i] # NoUrl,
               NEW ok \in BOOLEAN, Save(LinkBack(x, i), ok)
        PROVE  Mapped(t)'
    <2>1. mem'.topicNotes = mem.topicNotes
      BY <1>0, <1>3, LinkStep
    <2>. QED
      BY <2>1 DEF Mapped
  <1>4. CASE RecordsJob
    BY <1>2, <1>4, RecordsJobStep
  <1>5. CASE LinksJob
    BY <1>3, <1>5, LinksJobStep
  <1>6. ASSUME NEW h \in Handlers, BindNote(h) \/ BindLink(h)
        PROVE  Mapped(t)'
    <2>1. CASE BindNote(h)
      BY <1>2, <2>1, BindNoteStep
    <2>2. CASE BindLink(h)
      BY <1>3, <2>2, BindLinkStep
    <2>. QED
      BY <1>6, <2>1, <2>2
  <1>7. ASSUME NEW x \in Topics, Unbind(x)
        PROVE  Mapped(t)'
    <2>1. x # t
      BY <1>7 DEF Unbind
    <2>2. PICK ok \in BOOLEAN : Save(DeleteTopicNote(mem, x), ok)
      BY <1>7, StoreAssumption DEF Unbind
    <2>3. DOMAIN mem'.topicNotes = DOMAIN mem.topicNotes \ {x}
      BY <1>0, <2>2, DeleteStep
    <2>. QED
      BY <2>1, <2>3 DEF Mapped
  <1>. QED
    BY <1>1, <1>4, <1>5, <1>6, <1>7, StepKinds

(* Every step keeps the configured mappings ahead of the heuristic.        *)
LEMMA ConfiguredStep ==
  ASSUME TypeInv, ConfiguredInv, [Next]_vars
  PROVE  ConfiguredInv'
  <1>0. DOMAIN Explicit \subseteq Topics /\ Nobody \notin Topics
    BY MappingAssumption DEF IsMap
  <1>1. CASE Crash \/ PhaseDone \/ (\E t \in Topics : RefuseExplicit(t))
    BY <1>1 DEF Crash, PhaseDone, RefuseExplicit, Idle, ConfiguredInv, Heuristic
  <1>2. CASE Begin
    BY <1>2 DEF Begin, Refresh, ConfiguredInv, Heuristic, TypeInv, TypeOK
  <1>3. SUFFICES ASSUME ~Crash
                 PROVE  ConfiguredInv'
    BY <1>1
  <1>4. \A t \in DOMAIN Explicit \ Unbinds : Mapped(t) => Mapped(t)'
    BY <1>0, <1>3, MappingStays
  <1>5. CASE ExplicitDone
    BY <1>0, <1>4, <1>5 DEF ExplicitDone, ConfiguredInv, Heuristic, NoJob
  <1>6. CASE \E t \in Topics : TakeExplicit(t)
    <2>1. PICK t \in Topics : TakeExplicit(t)
      BY <1>6
    <2>2. /\ pc = "explicit" /\ job = NoJob /\ explicit' = explicit \ {t}
          /\ \/ pc' = "explicit" /\ job' = job /\ Mapped(t)
             \/ pc' = "linkExplicit" /\ Mapped(t)
             \/ pc' = "setExplicit" /\ job'[1] = t
      BY <2>1 DEF TakeExplicit, ConfiguredInv
    <2>. QED
      BY <1>0, <1>4, <2>2 DEF ConfiguredInv, Heuristic, NoJob
  <1>7. CASE \E s \in Series, t \in Topics : TakeTitle(s, t)
    <2>1. PICK s \in Series, t \in Topics : TakeTitle(s, t)
      BY <1>7
    <2>2. /\ pc = "titles" /\ job = NoJob /\ explicit' = explicit
          /\ \/ pc' = "titles" /\ job' = job
             \/ pc' = "setTitle" /\ job'[1] = t /\ ~Mapped(t)
      BY <2>1 DEF TakeTitle, ConfiguredInv
    <2>. QED
      BY <1>0, <1>4, <2>2 DEF ConfiguredInv, Heuristic, NoJob
  <1>8. CASE RecordsJob
    <2>1. /\ \/ pc = "setExplicit" /\ pc' \in {"idle", "explicit", "linkExplicit"}
             \/ pc = "setTitle" /\ pc' \in {"idle", "titles", "linkTitle"}
          /\ pc' # "idle" => /\ explicit' = explicit
                             /\ \/ job' = NoJob
                                \/ job' = job /\ pc' \in {"linkExplicit", "linkTitle"}
      BY <1>8 DEF RecordsJob, SetExplicit, SetTitle, SetJob, NextJob, Idle
    <2>2. PICK ok \in BOOLEAN : Save(Record(job[1], job[2]), ok)
      BY <1>8, RecordsJobStep
    <2>3. mem'.topicNotes = Put(mem.topicNotes, job[1], job[2])
      BY <1>8, <2>2, RecordsJobStep, RecordStep DEF TypeInv, TypeOK
    <2>4. job[1] \in DOMAIN mem'.topicNotes
      BY <2>3 DEF Put
    <2>5. ASSUME pc' # "idle", NEW t \in DOMAIN Explicit \ (explicit \cup Unbinds)
          PROVE  Mapped(t)'
      BY <1>4, <2>1, <2>4, <2>5 DEF ConfiguredInv, Mapped
    <2>6. ASSUME Heuristic', NEW t \in DOMAIN Explicit \ Unbinds
          PROVE  job'[1] # t
      BY <1>0, <2>1, <2>6 DEF ConfiguredInv, Heuristic, NoJob
    <2>7. Heuristic' => explicit' = {}
      BY <2>1 DEF ConfiguredInv, Heuristic
    <2>8. pc' \in {"idle", "explicit", "titles"} => job' = NoJob
      BY <1>8, <2>1 DEF RecordsJob, SetExplicit, SetTitle, SetJob, NextJob, Idle
    <2>. QED
      BY <2>1, <2>5, <2>6, <2>7, <2>8 DEF ConfiguredInv
  <1>9. CASE LinksJob
    <2>1. /\ \/ pc = "linkExplicit" /\ pc' \in {"idle", "explicit"}
             \/ pc = "linkTitle" /\ pc' \in {"idle", "titles"}
          /\ pc' # "idle" => explicit' = explicit /\ job' = NoJob
      BY <1>9 DEF LinksJob, LinkExplicit, LinkTitle, LinkJob, NextJob, Idle
    <2>2. ASSUME pc' # "idle", NEW t \in DOMAIN Explicit \ (explicit \cup Unbinds)
          PROVE  Mapped(t)'
      BY <1>4, <2>1, <2>2 DEF ConfiguredInv
    <2>3. ASSUME Heuristic', NEW t \in DOMAIN Explicit \ Unbinds
          PROVE  job'[1] # t
      BY <1>0, <2>1, <2>3 DEF Heuristic, NoJob
    <2>4. Heuristic' => explicit' = {}
      BY <2>1 DEF ConfiguredInv, Heuristic
    <2>5. job' = NoJob
      BY <1>9, <2>1 DEF LinksJob, LinkExplicit, LinkTitle, LinkJob, NextJob, Idle
    <2>. QED
      BY <2>1, <2>2, <2>3, <2>4, <2>5 DEF ConfiguredInv
  <1>10. CASE AdminStep \/ UNCHANGED vars
    <2>1. UNCHANGED passVars
      BY <1>10 DEF AdminStep, BindArrives, BindNote, BindLink, Unbind, vars
    <2>. QED
      BY <1>0, <1>4, <2>1 DEF ConfiguredInv, Heuristic, passVars
  <1>. QED
    BY <1>1, <1>2, <1>3, <1>5, <1>6, <1>7, <1>8, <1>9, <1>10
    DEF Next, PassStep, RecordsJob, LinksJob

(* bridge.go, refreshMapping: by the time titles are compared every        *)
(* configured mapping the operator leaves alone is in force, so that the   *)
(* heuristic binds none of these topics to another issue.                  *)
THEOREM ConfigurationWins == Spec => []ConfiguredComesFirst
  <1>1. Init => ConfiguredInv
    BY DEF Init, ConfiguredInv, Heuristic
  <1>2. TypeInv /\ ConfiguredInv /\ [Next]_vars => TypeInv' /\ ConfiguredInv'
    BY TypeStep, ConfiguredStep
  <1>3. ConfiguredInv => ConfiguredComesFirst
    BY DEF ConfiguredInv, ConfiguredComesFirst, Heuristic
  <1>. QED
    BY TypeInit, <1>1, <1>2, <1>3, PTL DEF Spec
=============================================================================
