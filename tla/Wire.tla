-------------------------------- MODULE Wire --------------------------------
(***************************************************************************)
(* The bridge's calls on the wire, exchange by exchange: the Graft client  *)
(* (src/internal/graft/client.go) and the Discourse client                 *)
(* (src/internal/discourse/client.go) over net/http with the policy of     *)
(* Netguard, the signatures of Signature and the texts of Text.  Forward   *)
(* and Reverse take such a call as one step with an outcome; here it is    *)
(* resolved, dialled, redirected and answered.                             *)
(*                                                                         *)
(* Graft checks signatures, publishes the comments it takes beside its own *)
(* issues, and may shorten them to what the bridge hashes; Discourse wants *)
(* the key.  Any other server may answer anything.  TLS authenticates the  *)
(* host of an https URL, and there is no proxy.                            *)
(***************************************************************************)
EXTENDS Netguard, Signature, Text, Config

CONSTANTS
  Configs,        \* the configuration files the bridge may be started with
  Series,         \* the series
  Forum,          \* the Discourse host
  Redirects,      \* where servers may redirect to, and what they may call an inbox
  Contents,       \* the contents of replies
  IssueItems,     \* Graft's own notes, as a sequence of items [uri, content]
  Titles,         \* the titles of topics
  Skews,          \* Graft's clock minus the bridge's, in ticks
  Moments,        \* when the bridge may sign a request, by its own clock
  Delays,         \* how long a request may take from there to Graft's check
  MaxComments     \* bound on the comments Graft takes

ASSUME WireAssumption ==
  /\ Configs \subseteq ConfigFiles
  /\ {Host, Forum} \subseteq Hosts \ (Addresses \cup LocalNames)
  /\ Host # Forum
  /\ {"actor", "outbox", "inbox"} \X Series \subseteq Paths
  /\ <<"posts">> \in Paths
  /\ Redirects \subseteq Urls
  /\ Skews \subseteq Int /\ Moments \subseteq Int /\ Delays \subseteq Nat
  /\ MaxComments \in Nat

VARIABLES
  config,    \* the configuration in force
  skew,      \* how far the clocks are apart
  op,        \* the call under way: [kind, series, content, stage, at], signed at that time
  pc,        \* "idle", "dial", "wait" or "down", for a bridge that refused to start
  req,       \* the request of the exchange
  first,     \* the URL of the first request of the chain
  sent,      \* the requests of the chain sent so far
  conn,      \* the address the bridge is connected to
  result,    \* the result of the last call
  comments,  \* the comments Graft took, as items [uri, content]
  read,      \* the notes the last call returned
  landed     \* history: the call's body reached the server it was meant for

callVars == <<op, pc, req, first, sent, conn, result, read, landed>>
vars == <<config, skew, comments, callVars>>

Url(scheme, host, path) == [scheme |-> scheme, host |-> host, path |-> path, proper |-> TRUE]

GraftUrl(what, s) == Url(config.graft, Host, <<what, s>>)

ForumUrl == Url(config.discourse, Forum, <<"posts">>)

Get(u, key) == [method |-> "GET", url |-> u, body |-> Absent, date |-> Absent,
                digest |-> Absent, sig |-> Absent, key |-> key]

Post(u, key, body) == [Get(u, key) EXCEPT !.method = "POST", !.body = body]

(* The request ReplyToIssue posts, dated by the bridge's own clock.        *)
Signed(inbox, content, now) == SignRequest(Post(inbox, FALSE, content), now)

(* What is there is told from what is not.                                 *)
ASSUME AbsentAssumption ==
  /\ Absent \notin Addresses \cup Contents \cup Int
  /\ \A u \in Urls, c \in Contents, now \in Moments : Absent # Signed(u, c, now).sig

(* Texts are runes, and a hash is of one rune at least.  Every content of  *)
(* a reply begins with its attribution (bridge.go:297), hence not with     *)
(* white space; and Graft numbers what it publishes, so that the comments  *)
(* it takes have other numbers than the notes it has.                      *)
ASSUME TextAssumption ==
  /\ HashRunes \in Nat \ {0}
  /\ Titles \subseteq Seq(STRING)
  /\ \A c \in Contents : c \in Seq(STRING) \ {<<>>} /\ c[1] # Space
  /\ IssueItems \in Seq(Range(IssueItems))
  /\ \A item \in Range(IssueItems) :
       /\ item.content \in Seq(STRING)
       /\ \A p \in ParseNoteURI(Host, item.uri) : p[2] \in 1..Len(IssueItems)

NoOp == [kind |-> "none", series |-> Absent, content |-> Absent, stage |-> Absent, at |-> Absent]

Policy == IF op.kind \in {"outbox", "reply"} THEN GraftPolicy ELSE DiscoursePolicy(config)

Init == /\ config \in Configs
        /\ skew \in Skews
        /\ pc = IF Accepts(config) THEN "idle" ELSE "down"
        /\ op = NoOp /\ req = Absent /\ first = Absent /\ sent = 0 /\ conn = Absent
        /\ result = "none" /\ comments = <<>> /\ read = <<>> /\ landed = FALSE

-----------------------------------------------------------------------------
(* The calls. *)

(* A chain of requests begins with r.                                      *)
Send(r) == /\ req' = r
           /\ first' = r.url
           /\ sent' = 1
           /\ conn' = Absent
           /\ pc' = "dial"

Call(kind, s, content, r) ==
  /\ pc = "idle"
  /\ op' = [kind |-> kind, series |-> s, content |-> content, stage |-> r.method, at |-> Absent]
  /\ Send(r)
  /\ result' = "none" /\ read' = <<>>
  /\ landed' = FALSE
  /\ UNCHANGED <<config, skew, comments>>

Outbox(s) == Call("outbox", s, Absent, Get(GraftUrl("outbox", s), FALSE))

(* ReplyToIssue asks for the actor document first.                         *)
ReplyToIssue(s, content) ==
  /\ Len(comments) < MaxComments
  /\ Call("reply", s, content, Get(GraftUrl("actor", s), FALSE))

LatestPosts == Call("list", Absent, Absent, Get(ForumUrl, TRUE))

CreatePost == Call("create", Absent, Absent, Post(ForumUrl, TRUE, <<"mirror">>))

Ends(how) == /\ pc' = "idle"
             /\ op' = NoOp /\ req' = Absent /\ first' = Absent /\ sent' = 0 /\ conn' = Absent
             /\ result' = how

(* A timeout, a refused address or connection, a status of an error.       *)
Fails == /\ pc \in {"dial", "wait"}
         /\ Ends("error")
         /\ UNCHANGED <<config, skew, comments, read, landed>>

Connect == /\ pc = "dial"
           /\ \E answer \in SUBSET Addresses :
                conn' \in Dials(Policy, req.url.host, answer)
           /\ pc' = "wait"
           /\ UNCHANGED <<config, skew, op, req, first, sent, result, comments, read, landed>>

-----------------------------------------------------------------------------
(* The servers. *)

AtInbox == req.url.host = Host /\ req.url.path \in {"inbox"} \X Series

AtForum == req.url.host = Forum /\ req.url.path = <<"posts">>

(* Graft's inbox takes a signed POST, checked delay after it was signed,   *)
(* the forum a POST with the key.                                          *)
Accepted(delay) == req.method = "POST" => /\ AtInbox => VerifyRequest(req, op.at + delay + skew)
                                          /\ AtForum => req.key

(* What the server does with a request it accepts.                         *)
Effect(delay) ==
  IF req.method = "POST" /\ Accepted(delay)
  THEN /\ IF AtInbox
          THEN \E shown \in {req.body, HashContent(req.body)} :
                 comments' = Append(comments,
                   [uri     |-> NoteURI(Host, req.url.path[2], Len(IssueItems) + Len(comments) + 1),
                    content |-> <<"comment", ":", Space>> \o shown,
                    source  |-> req.body])
          ELSE UNCHANGED comments
       /\ landed' = (AtForum \/ AtInbox)
  ELSE UNCHANGED <<comments, landed>>

(* The answer is lost on the way.                                          *)
Lost == /\ pc = "wait"
        /\ \E delay \in Delays : Effect(delay)
        /\ Ends("error")
        /\ UNCHANGED <<config, skew, read>>

(* Faulty variant: the body outlives the method.                           *)
TurnedWithBody(r, keepsMethod) == IF keepsMethod THEN r ELSE [r EXCEPT !.method = "GET"]

(* 307 and 308 keep the method, and with it body and signature; 301 to 303 *)
(* turn a POST into a GET.                                                 *)
Turned(r, keepsMethod) ==
  IF keepsMethod THEN r ELSE [r EXCEPT !.method = "GET", !.body = Absent]

(* A server redirects to u.                                                *)
Redirect(u, keepsMethod) ==
  /\ pc = "wait"
  /\ IF Follows(Policy, sent, u)
     THEN LET key == op.kind \in {"list", "create"} /\ KeepsHeaders(first, req.url, u)
          IN  /\ req' = Turned([req EXCEPT !.url = u, !.key = key], keepsMethod)
              /\ sent' = IF sent < MaxRedirects THEN sent + 1 ELSE sent
              /\ conn' = Absent
              /\ pc' = "dial"
              /\ UNCHANGED <<op, first, result>>
     ELSE Ends("error")
  /\ UNCHANGED <<config, skew, comments, read, landed>>

(* What the outbox of s holds, at the places Graft gave it.                *)
Items(s) == LET all == IssueItems \o comments
            IN  Restrict(all, {k \in DOMAIN all : ParseNoteURI(Host, all[k].uri) \subseteq {s} \X Int})

(* The inbox an actor document names: Graft names its own.                 *)
Inboxes == IF req.url.host = Host /\ req.url.path \in {"actor"} \X Series
           THEN {GraftUrl("inbox", req.url.path[2])}
           ELSE Redirects

(* The actor document is there: validate its inbox, sign, post.            *)
Deliver == /\ pc = "wait"
           /\ op.kind = "reply" /\ op.stage = "GET"
           /\ \E inbox \in Inboxes, now \in Moments :
                IF Validate(Policy, inbox)
                THEN /\ Send(Signed(inbox, op.content, now))
                     /\ op' = [op EXCEPT !.stage = "POST", !.at = now]
                     /\ UNCHANGED result
                ELSE Ends("error")
           /\ UNCHANGED <<config, skew, comments, read, landed>>

(* Any status below 300 ends the call with success.                        *)
Succeeds == /\ pc = "wait"
            /\ op.kind = "reply" => op.stage = "POST"
            /\ \E delay \in Delays : Accepted(delay) /\ Effect(delay)
            /\ read' = IF op.kind = "outbox" /\ req.url = GraftUrl("outbox", op.series)
                       THEN ParseNotes(Host, Items(op.series)) ELSE <<>>
            /\ Ends("ok")
            /\ UNCHANGED <<config, skew>>

Answer == \/ Deliver \/ Succeeds \/ Lost
          \/ \E u \in Redirects, keepsMethod \in BOOLEAN : Redirect(u, keepsMethod)

Down == pc = "down" /\ UNCHANGED vars

Next == \/ \E s \in Series : Outbox(s) \/ \E c \in Contents : ReplyToIssue(s, c)
        \/ LatestPosts \/ CreatePost
        \/ Connect \/ Answer \/ Fails \/ Down

(* A connection attempt and an exchange come to an end one way or other.   *)
Spec == Init /\ [][Next]_vars /\ WF_vars(Fails \/ Connect \/ Answer)

-----------------------------------------------------------------------------
(* Properties. *)

Client == IF op.kind \in {"outbox", "reply"} THEN "graft" ELSE "discourse"

(* Every variable holds a value the code's types and steps allow, and a    *)
(* chain is no longer than its bound.                                      *)
TypeOK == /\ config \in Configs /\ skew \in Skews
          /\ pc \in {"down", "idle", "dial", "wait"}
          /\ pc \in {"dial", "wait"} <=> op # NoOp
          /\ op # NoOp => /\ req.url \in Urls /\ first \in Urls
                          /\ req.method \in {"GET", "POST"} /\ req.key \in BOOLEAN
                          /\ req.body # Absent => req.method = "POST"
                          /\ sent \in 1..MaxRedirects
          /\ pc = "wait" <=> conn \in Addresses
          /\ result \in {"none", "ok", "error"}
          /\ Len(comments) \in 0..MaxComments
          /\ landed \in BOOLEAN

(* netguard.go: whatever the resolver answers when, and wherever redirects *)
(* and actor documents lead, the Graft client connects to public addresses.*)
DialsPublicOnly == pc = "wait" /\ Client = "graft" => conn \in Public

(* The key of the Discourse API goes to the configured forum and no other  *)
(* host, over any chain of redirects.                                      *)
KeyStaysHome == pc = "wait" /\ req.key => req.url.host = Forum

(* config.go and netguard.go between them: nothing is sent in the clear,   *)
(* signed body or key, except to Discourse when the operator allowed it.   *)
NothingInTheClear ==
  pc = "wait" /\ req.url.scheme = "http" => Client = "discourse" /\ config.insecure

(* A call makes a bounded number of exchanges, also when every server      *)
(* redirects for ever: no reliance on the timeout of the whole request.    *)
CallsEnd == pc # "idle" ~> pc \in {"idle", "down"}

(* A signature is good for the inbox it was made for: no redirect from one *)
(* series to another makes Graft take a comment there.                     *)
SignedForThisInbox ==
  [][comments' # comments =>
       /\ first.host = Host
       /\ first.path = <<"inbox", Last(comments').uri.path[2]>>]_vars

(* Graft's inbox finds nothing wrong with what SignRequest made, as long   *)
(* as its clock then shows a time no earlier than the window before the    *)
(* signature, and no later than the window after it less one second: the   *)
(* fraction the Date header lacks makes a request look older than it is.   *)
HonestIsAccepted ==
  pc = "wait" /\ AtInbox /\ req.method = "POST" /\ req.url = first =>
    \A delay \in Delays :
      delay + skew \in -MaxClockSkew .. MaxClockSkew - Second => Accepted(delay)

(* The bridge knows its own comments again: what it forwarded comes back   *)
(* from the outbox as a comment whose hash is the one it recorded, whole   *)
(* or shortened; unless white space ends the text, or its first HashRunes  *)
(* runes, which splitKind trims and hashContent does not.                  *)
EchoRecognised ==
  \A k \in DOMAIN read : \A c \in Range(comments) :
    /\ read[k].uri = c.uri
    /\ Last(c.source) # Space
    /\ Last(HashContent(c.source)) # Space
    => /\ read[k].kind = <<"comment">>
       /\ HashContent(read[k].summary) = HashContent(c.source)

(* Reference for titles: the letters of s are those of t, in their order   *)
(* and whatever their case, and white space parts the same ones.           *)
Letters(s) == {k \in DOMAIN s : IsLetter(s[k])}

Apart(s, j, k) == \E i \in j..k : s[i] = Space

SameWords(s, t) ==
  \E f \in [Letters(s) -> Letters(t)] :
    /\ \A l \in Letters(t) : \E k \in Letters(s) : f[k] = l
    /\ \A k \in Letters(s) : ToLower(s)[k] = ToLower(t)[f[k]]
    /\ \A j, k \in Letters(s) : j < k => /\ f[j] < f[k]
                                         /\ Apart(s, j, k) <=> Apart(t, f[j], f[k])

(* A topic is matched with the first issue of the outbox that consists of  *)
(* the same words, however they are spaced, capitalised and punctuated;    *)
(* and never with another one.                                             *)
TitlesMatchByWords ==
  \A t \in Titles :
    LET same == {k \in DOMAIN read : read[k].kind = <<"issue">> /\ SameWords(read[k].summary, t)}
    IN  MatchIssueByTitle(read, t) = IF same = {} THEN {} ELSE {Min(same)}

-----------------------------------------------------------------------------
(* What the repository says of a call, where the code differs.             *)

(* client.go:90 "ReplyToIssue delivers a signed Create{Note}", client.go:77*)
(* "CreatePost posts raw": a call that reports success did what it is for. *)
SuccessIsDelivered ==
  [][op.stage = "POST" /\ pc' = "idle" /\ result' = "ok" => landed']_vars
=============================================================================
