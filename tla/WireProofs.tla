----------------------------- MODULE WireProofs -----------------------------
(***************************************************************************)
(* What holds of the bridge's calls on the wire for every set of hosts,    *)
(* addresses, series, redirects, contents and clocks: the chain of         *)
(* requests of a call never leaves the policy it was begun under, and a    *)
(* signature never leaves the inbox it was made for.                       *)
(*                                                                         *)
(* What NormalizeTitle and splitKind make of a text is shown for texts of  *)
(* every length, by an induction that needs no operator as a parameter:    *)
(* over the set of numbers up to which a claim holds (SetInduction).       *)
(* Of CallsEnd the safety half is shown; the rest needs fairness.          *)
(***************************************************************************)
EXTENDS Wire, FiniteSetTheorems, TLAPS

Kinds == {"outbox", "reply", "list", "create"}

Ops == [kind : Kinds, series : Series \cup {Absent}, content : Contents \cup {Absent},
        stage : {"GET", "POST"}, at : Moments \cup {Absent}]

Signatures == {Signed(u, c, now).sig : u \in Urls, c \in Contents, now \in Moments}

Requests == [method : {"GET", "POST"}, url : Urls,
             body : Contents \cup {Absent, <<"mirror">>}, date : Int \cup {Absent},
             digest : Contents \cup {Absent}, sig : Signatures \cup {Absent},
             key : BOOLEAN]

(* What Graft may have taken.                                              *)
Comment(k, s, c, shown) ==
  [uri     |-> NoteURI(Host, s, Len(IssueItems) + k + 1),
   content |-> <<"comment", ":", Space>> \o shown,
   source  |-> c]

Comments == {Comment(k, s, c, shown) : k \in 0..MaxComments, s \in Series, c \in Contents,
                                       shown \in Contents \cup {HashContent(c) : c \in Contents}}

Underway == op # NoOp

(* The call under way, its request and the room Graft has for a comment.   *)
Typed == /\ pc # "down" => Accepts(config)
         /\ comments \in Seq(Comments)
         /\ Underway => op \in Ops /\ req \in Requests
         /\ op.kind = "reply" => op.content \in Contents /\ Len(comments) < MaxComments

(* Only the forum's calls carry the key, only the one host gets it.        *)
KeyInv == Underway =>
            /\ req.key => op.kind \in {"list", "create"} /\ req.url.host = Forum
            /\ op.kind \in {"list", "create"} => first.host = Forum

SchemeInv == Underway => req.url.scheme = "https" \/ Policy.allowHTTP

DialInv == pc = "wait" => IpAllowed(conn, Policy.allowPrivate)

(* A POST to Graft is the request ReplyToIssue signed, wherever redirects  *)
(* took it since; no other call has a signature.                           *)
SignInv == Underway =>
             /\ op.kind # "reply" => req.sig = Absent
             /\ op.kind = "outbox" => req.method = "GET"
             /\ op.kind = "reply" /\ req.method = "POST" =>
                  /\ op.at \in Moments
                  /\ req = [Signed(first, op.content, op.at) EXCEPT !.url = req.url]

Inv == TypeOK /\ Typed /\ KeyInv /\ SchemeInv /\ DialInv /\ SignInv

-----------------------------------------------------------------------------
(* URLs and requests. *)

(* The URLs the configuration names are URLs, and as secure as Load wants  *)
(* them.                                                                   *)
LEMMA ConfiguredUrls ==
  ASSUME config \in Configs, Accepts(config)
  PROVE  /\ \A s \in Series, what \in {"actor", "outbox", "inbox"} :
              /\ GraftUrl(what, s) \in Urls
              /\ GraftUrl(what, s).scheme = "https"
         /\ ForumUrl \in Urls
         /\ ForumUrl.host = Forum
         /\ ForumUrl.scheme = "https" \/ DiscoursePolicy(config).allowHTTP
  <1>1. config \in ConfigFiles
    BY WireAssumption
  <1>2. /\ config.graft = "https"
        /\ config.discourse = "https" \/ (config.discourse = "http" /\ config.insecure)
    BY <1>1 DEF Accepts, CheckScheme, ConfigFiles, Schemes
  <1>3. Host \in Hosts /\ Forum \in Hosts /\ <<"posts">> \in Paths
    BY WireAssumption
  <1>4. ASSUME NEW s \in Series, NEW what \in {"actor", "outbox", "inbox"}
        PROVE  <<what, s>> \in Paths
    BY WireAssumption
  <1>5. ASSUME NEW s \in Series, NEW what \in {"actor", "outbox", "inbox"}
        PROVE  GraftUrl(what, s) \in Urls /\ GraftUrl(what, s).scheme = "https"
    BY <1>2, <1>3, <1>4 DEF GraftUrl, Url, Urls
  <1>6. /\ ForumUrl \in Urls
        /\ ForumUrl.host = Forum
        /\ ForumUrl.scheme = "https" \/ DiscoursePolicy(config).allowHTTP
    BY <1>2, <1>3 DEF ForumUrl, Url, Urls, DiscoursePolicy
  <1>. QED
    BY <1>5, <1>6

(* The signing string has the request target and the host, each on a line  *)
(* of its own.                                                             *)
LEMMA SigningStringLines ==
  ASSUME NEW r, NEW hs
  PROVE  /\ "(request-target)" \in hs =>
              BuildSigningString(hs, r)["(request-target)"] = <<r.method, r.url.path>>
         /\ "host" \in hs => BuildSigningString(hs, r)["host"] = r.url.host
  BY DEF BuildSigningString

(* It depends on the method, the URL, the date and the digest only.        *)
LEMMA SameSigningString ==
  ASSUME NEW r, NEW q, NEW hs,
         r.method = q.method, r.url = q.url, r.date = q.date, r.digest = q.digest
  PROVE  BuildSigningString(hs, r) = BuildSigningString(hs, q)
  <1>. DEFINE S(m, u, d, g) == [h \in hs |-> CASE h = "(request-target)" -> <<m, u.path>>
                                               [] h = "host"             -> u.host
                                               [] h = "date"             -> d
                                               [] h = "digest"           -> g]
  <1>1. BuildSigningString(hs, r) = S(r.method, r.url, r.date, r.digest)
    BY DEF BuildSigningString
  <1>2. BuildSigningString(hs, q) = S(q.method, q.url, q.date, q.digest)
    BY DEF BuildSigningString
  <1>. HIDE DEF S
  <1>. QED
    BY <1>1, <1>2

(* The Date header is less than a second behind.                           *)
LEMMA DateType ==
  ASSUME NEW now \in Int
  PROVE  /\ HttpDate(now) \in Int
         /\ HttpDate(now) <= now /\ now < HttpDate(now) + Second
  <1>1. now % Second \in 0..(Second - 1)
    BY SignatureAssumption
  <1>. QED
    BY <1>1, SignatureAssumption DEF HttpDate

(* SignRequest adds the date, the digest and the signature over them, the  *)
(* method and the URL.                                                     *)
LEMMA SignedTyped ==
  \A u \in Urls, c \in Contents, now \in Moments :
    /\ Signed(u, c, now) \in Requests
    /\ Signed(u, c, now).method = "POST" /\ Signed(u, c, now).url = u
    /\ Signed(u, c, now).body = c /\ Signed(u, c, now).digest = c
    /\ Signed(u, c, now).date = HttpDate(now) /\ Signed(u, c, now).key = FALSE
    /\ Signed(u, c, now).sig # Absent
    /\ Signed(u, c, now).sig.headers = SignedHeaders
    /\ Signed(u, c, now).sig.over = BuildSigningString(SignedHeaders, Signed(u, c, now))
  <1>. TAKE u \in Urls, c \in Contents, now \in Moments
  <1>. DEFINE p == Post(u, FALSE, c)
              d == [p EXCEPT !.digest = p.body, !.date = HttpDate(now)]
              X == Sealed(SignedHeaders, d)
  <1>1. /\ p \in Requests
        /\ p.method = "POST" /\ p.url = u /\ p.key = FALSE /\ p.body = c
    BY DEF Post, Get, Requests
  <1>2. Signed(u, c, now) = [d EXCEPT !.sig = X]
    BY DEF Signed, SignRequest
  <1>. HIDE DEF p
  <1>3. /\ d \in Requests
        /\ d.method = "POST" /\ d.url = u /\ d.key = FALSE /\ d.body = c
        /\ d.digest = c /\ d.date = HttpDate(now)
    <2>1. HttpDate(now) \in Int
      BY DateType, WireAssumption
    <2>. QED
      BY <1>1, <2>1 DEF Requests
  <1>4. X.headers = SignedHeaders /\ X.over = BuildSigningString(SignedHeaders, d)
    BY DEF Sealed
  <1>. HIDE DEF d, X
  <1>5. /\ Signed(u, c, now).method = "POST" /\ Signed(u, c, now).url = u
        /\ Signed(u, c, now).key = FALSE /\ Signed(u, c, now).body = c
        /\ Signed(u, c, now).digest = c /\ Signed(u, c, now).date = HttpDate(now)
        /\ Signed(u, c, now).sig = X
    BY <1>2, <1>3 DEF Requests
  <1>6. X \in Signatures
    BY <1>5 DEF Signatures
  <1>7. Signed(u, c, now) \in Requests
    BY <1>2, <1>3, <1>6 DEF Requests
  <1>8. BuildSigningString(SignedHeaders, d) = BuildSigningString(SignedHeaders, Signed(u, c, now))
    BY <1>3, <1>5, SameSigningString
  <1>9. Signed(u, c, now).sig # Absent
    BY AbsentAssumption
  <1>. QED
    BY <1>4, <1>5, <1>7, <1>8, <1>9

-----------------------------------------------------------------------------
(* The steps keep the invariant. *)

(* A call begins: what its first request must be like.                     *)
LEMMA CallStep ==
  ASSUME Inv, NEW kind \in Kinds, NEW s \in Series \cup {Absent},
         NEW content \in Contents \cup {Absent}, NEW r \in Requests,
         Call(kind, s, content, r),
         Accepts(config) => \/ r.url.scheme = "https"
                            \/ kind \in {"list", "create"} /\ DiscoursePolicy(config).allowHTTP,
         r.body # Absent => r.method = "POST",
         r.sig = Absent,
         r.key => kind \in {"list", "create"},
         kind \in {"list", "create"} => r.url.host = Forum,
         kind \in {"outbox", "reply"} => r.method = "GET",
         kind = "reply" => content \in Contents /\ Len(comments) < MaxComments
  PROVE  Inv'
  <1>. USE DEF Call, Send
  <1>1. /\ pc = "idle" /\ pc' = "dial"
        /\ op' = [kind |-> kind, series |-> s, content |-> content, stage |-> r.method,
                  at |-> Absent]
        /\ req' = r /\ first' = r.url /\ sent' = 1 /\ conn' = Absent
        /\ result' = "none" /\ landed' = FALSE
        /\ UNCHANGED <<config, skew, comments>>
    OBVIOUS
  <1>2. op' \in Ops /\ op'.kind = kind /\ op'.content = content /\ op' # NoOp
    BY <1>1 DEF Ops, NoOp, Kinds, Requests
  <1>3. /\ r.url \in Urls /\ r.method \in {"GET", "POST"} /\ r.key \in BOOLEAN
    BY DEF Requests
  <1>4. Accepts(config)
    BY <1>1 DEF Inv, Typed
  <1>5. TypeOK'
    <2>1. conn' \notin Addresses /\ 1 \in 1..MaxRedirects
      BY <1>1, NetguardAssumption, AbsentAssumption
    <2>2. /\ config' \in Configs /\ skew' \in Skews
          /\ Len(comments') \in 0..MaxComments
      BY <1>1 DEF Inv, TypeOK
    <2>. QED
      BY <1>1, <1>2, <1>3, <2>1, <2>2 DEF TypeOK
  <1>6. Typed'
    BY <1>1, <1>2, <1>4 DEF Inv, Typed, Underway
  <1>7. KeyInv'
    BY <1>1, <1>2 DEF KeyInv
  <1>8. SchemeInv'
    BY <1>1, <1>2, <1>4 DEF SchemeInv, Policy
  <1>9. DialInv'
    BY <1>1 DEF DialInv
  <1>10. SignInv'
    BY <1>1, <1>2 DEF SignInv
  <1>. QED
    BY <1>5, <1>6, <1>7, <1>8, <1>9, <1>10 DEF Inv

(* Of the four calls the bridge makes.                                     *)
LEMMA CallsStep ==
  ASSUME Inv,
         \/ \E s \in Series : Outbox(s) \/ \E c \in Contents : ReplyToIssue(s, c)
         \/ LatestPosts \/ CreatePost
  PROVE  Inv'
  <1>1. Accepts(config) /\ config \in Configs
    BY DEF Inv, Typed, TypeOK, Outbox, ReplyToIssue, LatestPosts, CreatePost, Call
  <1>2. /\ \A s \in Series, what \in {"actor", "outbox", "inbox"} :
              /\ GraftUrl(what, s) \in Urls
              /\ GraftUrl(what, s).scheme = "https"
        /\ ForumUrl \in Urls
        /\ ForumUrl.host = Forum
        /\ ForumUrl.scheme = "https" \/ DiscoursePolicy(config).allowHTTP
    BY <1>1, ConfiguredUrls
  <1>4. CASE \E s \in Series : Outbox(s)
    <2>1. PICK s \in Series : Call("outbox", s, Absent, Get(GraftUrl("outbox", s), FALSE))
      BY <1>4 DEF Outbox
    <2>2. PICK r : r = Get(GraftUrl("outbox", s), FALSE)
      OBVIOUS
    <2>3. /\ r \in Requests /\ r.method = "GET" /\ r.body = Absent /\ r.sig = Absent
          /\ r.key = FALSE /\ r.url.scheme = "https"
      BY <1>2, <2>2 DEF Get, Requests
    <2>4. Call("outbox", s, Absent, r)
      BY <2>1, <2>2
    <2>. QED
      BY <2>3, <2>4, CallStep DEF Kinds
  <1>5. CASE \E s \in Series, c \in Contents : ReplyToIssue(s, c)
    <2>1. PICK s \in Series, c \in Contents :
            Len(comments) < MaxComments /\ Call("reply", s, c, Get(GraftUrl("actor", s), FALSE))
      BY <1>5 DEF ReplyToIssue
    <2>2. PICK r : r = Get(GraftUrl("actor", s), FALSE)
      OBVIOUS
    <2>3. /\ r \in Requests /\ r.method = "GET" /\ r.body = Absent /\ r.sig = Absent
          /\ r.key = FALSE /\ r.url.scheme = "https"
      BY <1>2, <2>2 DEF Get, Requests
    <2>4. Call("reply", s, c, r)
      BY <2>1, <2>2
    <2>. QED
      BY <2>1, <2>3, <2>4, CallStep DEF Kinds
  <1>6. CASE LatestPosts
    <2>1. PICK r : r = Get(ForumUrl, TRUE)
      OBVIOUS
    <2>2. /\ r \in Requests /\ r.method = "GET" /\ r.body = Absent /\ r.sig = Absent
          /\ r.url = ForumUrl
      BY <1>2, <2>1 DEF Get, Requests
    <2>3. Call("list", Absent, Absent, r)
      BY <1>6, <2>1 DEF LatestPosts
    <2>. QED
      BY <1>2, <2>2, <2>3, CallStep DEF Kinds
  <1>7. CASE CreatePost
    <2>1. PICK r : r = Post(ForumUrl, TRUE, <<"mirror">>)
      OBVIOUS
    <2>2. /\ r \in Requests /\ r.method = "POST" /\ r.sig = Absent
          /\ r.url = ForumUrl
      BY <1>2, <2>1 DEF Post, Get, Requests
    <2>3. Call("create", Absent, Absent, r)
      BY <1>7, <2>1 DEF CreatePost
    <2>. QED
      BY <1>2, <2>2, <2>3, CallStep DEF Kinds
  <1>. QED
    BY <1>4, <1>5, <1>6, <1>7

(* A call ends: nothing of it is left.                                     *)
LEMMA EndStep ==
  ASSUME Inv, NEW how \in {"ok", "error"}, Ends(how), pc \in {"dial", "wait"},
         UNCHANGED <<config, skew>>,
         comments' \in Seq(Comments), Len(comments') \in 0..MaxComments, landed' \in BOOLEAN
  PROVE  Inv'
  <1>1. pc' = "idle" /\ op' = NoOp /\ conn' = Absent /\ result' = how /\ op'.kind = "none"
    BY DEF Ends, NoOp
  <1>2. Accepts(config)
    BY DEF Inv, Typed
  <1>3. TypeOK'
    BY <1>1, AbsentAssumption DEF Inv, TypeOK
  <1>4. Typed'
    BY <1>1, <1>2 DEF Typed, Underway
  <1>5. KeyInv' /\ SchemeInv' /\ SignInv' /\ DialInv'
    BY <1>1 DEF KeyInv, SchemeInv, SignInv, DialInv, Underway
  <1>. QED
    BY <1>3, <1>4, <1>5 DEF Inv

(* A connection is made to an address the policy allows.                   *)
LEMMA ConnectStep ==
  ASSUME Inv, Connect
  PROVE  Inv'
  <1>1. PICK answer \in SUBSET Addresses : conn' \in Dials(Policy, req.url.host, answer)
    BY DEF Connect
  <1>2. conn' \in Addresses /\ IpAllowed(conn', Policy.allowPrivate)
    BY <1>1 DEF Dials
  <1>3. /\ pc = "dial" /\ pc' = "wait"
        /\ UNCHANGED <<config, skew, op, req, first, sent, result, comments, read, landed>>
    BY DEF Connect
  <1>4. Policy' = Policy
    BY <1>3 DEF Policy
  <1>5. TypeOK'
    BY <1>2, <1>3 DEF Inv, TypeOK
  <1>6. Typed'
    BY <1>3 DEF Inv, Typed, Underway
  <1>7. KeyInv' /\ SignInv'
    BY <1>3 DEF Inv, KeyInv, SignInv, Underway
  <1>8. SchemeInv' /\ DialInv'
    BY <1>2, <1>3, <1>4 DEF Inv, SchemeInv, DialInv, Underway
  <1>. QED
    BY <1>5, <1>6, <1>7, <1>8 DEF Inv

(* A redirect is followed within the policy, the key stays behind when the *)
(* host changes, and what remains a POST remains the request it was.       *)
LEMMA RedirectStep ==
  ASSUME Inv, NEW u \in Redirects, NEW keepsMethod \in BOOLEAN, Redirect(u, keepsMethod)
  PROVE  Inv'
  <1>1. pc = "wait" /\ Underway /\ UNCHANGED <<config, skew, comments, read, landed>>
    BY DEF Redirect, Inv, TypeOK, Underway
  <1>2. CASE ~Follows(Policy, sent, u)
    <2>1. Ends("error")
      BY <1>2 DEF Redirect
    <2>2. comments' \in Seq(Comments) /\ Len(comments') \in 0..MaxComments /\ landed' \in BOOLEAN
      BY <1>1 DEF Inv, TypeOK, Typed
    <2>. QED
      BY <1>1, <2>1, <2>2, EndStep
  <1>3. CASE Follows(Policy, sent, u)
    <2>1. PICK key \in BOOLEAN :
            key <=> op.kind \in {"list", "create"} /\ KeepsHeaders(first, req.url, u)
      OBVIOUS
    <2>2. PICK r : r = [req EXCEPT !.url = u, !.key = key]
      OBVIOUS
    <2>3. /\ req' = Turned(r, keepsMethod)
          /\ sent' = IF sent < MaxRedirects THEN sent + 1 ELSE sent
          /\ conn' = Absent /\ pc' = "dial"
          /\ UNCHANGED <<op, first, result>>
      BY <1>3, <2>1, <2>2 DEF Redirect
    <2>4. u \in Urls /\ op \in Ops /\ req \in Requests
      BY <1>1, WireAssumption DEF Inv, Typed
    <2>5. /\ r \in Requests /\ r.url = u /\ r.key = key /\ r.sig = req.sig
          /\ r.method = req.method /\ r.body = req.body
      BY <2>2, <2>4 DEF Requests
    <2>6. /\ req' \in Requests /\ req'.url = u /\ req'.key = key /\ req'.sig = req.sig
          /\ req'.body # Absent => req'.method = "POST"
          /\ req'.method = "POST" => req' = r /\ req.method = "POST"
      <3>1. req.body # Absent => req.method = "POST"
        BY <1>1 DEF Inv, TypeOK, Underway
      <3>2. CASE keepsMethod
        BY <2>3, <2>5, <3>1, <3>2 DEF Turned
      <3>3. CASE ~keepsMethod
        BY <2>3, <2>5, <3>3 DEF Turned, Requests
      <3>. QED
        BY <3>2, <3>3
    <2>7. Underway' /\ Policy' = Policy
      BY <1>1, <2>3 DEF Underway, Policy
    <2>8. TypeOK'
      <3>1. sent' \in 1..MaxRedirects
        BY <1>1, <2>3, NetguardAssumption DEF Inv, TypeOK, Underway
      <3>2. conn' \notin Addresses
        BY <2>3, AbsentAssumption
      <3>3. req'.url \in Urls /\ req'.method \in {"GET", "POST"} /\ req'.key \in BOOLEAN
        BY <2>6 DEF Requests
      <3>4. first' \in Urls
        BY <1>1, <2>3 DEF Inv, TypeOK, Underway
      <3>5. /\ config' \in Configs /\ skew' \in Skews /\ landed' \in BOOLEAN
            /\ Len(comments') \in 0..MaxComments /\ result' \in {"none", "ok", "error"}
        BY <1>1, <2>3 DEF Inv, TypeOK
      <3>. QED
        BY <2>3, <2>6, <2>7, <3>1, <3>2, <3>3, <3>4, <3>5 DEF TypeOK, Underway
    <2>9. Typed'
      BY <1>1, <2>3, <2>4, <2>6 DEF Inv, Typed
    <2>10. KeyInv'
      BY <1>1, <2>1, <2>3, <2>6 DEF Inv, KeyInv, KeepsHeaders
    <2>11. SchemeInv'
      BY <1>3, <2>6, <2>7 DEF SchemeInv, Follows, Validate
    <2>12. DialInv'
      BY <2>3 DEF DialInv
    <2>13. SignInv'
      <3>1. ASSUME op.kind = "reply", req'.method = "POST"
            PROVE  /\ op.at \in Moments
                   /\ req' = [Signed(first, op.content, op.at) EXCEPT !.url = req'.url]
        <4>1. /\ op.at \in Moments
              /\ req = [Signed(first, op.content, op.at) EXCEPT !.url = req.url]
          BY <1>1, <2>6, <3>1 DEF Inv, SignInv
        <4>2. first \in Urls /\ op.content \in Contents
          BY <1>1, <3>1 DEF Inv, TypeOK, Typed, Underway
        <4>3. /\ Signed(first, op.content, op.at) \in Requests
              /\ Signed(first, op.content, op.at).key = FALSE
          BY <4>1, <4>2, SignedTyped
        <4>4. key = FALSE
          BY <2>1, <3>1
        <4>5. r = [Signed(first, op.content, op.at) EXCEPT !.url = u]
          BY <2>2, <4>1, <4>3, <4>4 DEF Requests
        <4>. QED
          BY <2>6, <3>1, <4>1, <4>5
      <3>2. /\ op.kind # "reply" => req.sig = Absent
            /\ op.kind = "outbox" => req.method = "GET"
        BY <1>1 DEF Inv, SignInv
      <3>3. req'.method \in {"GET", "POST"}
        BY <2>6 DEF Requests
      <3>. QED
        BY <2>3, <2>6, <3>1, <3>2, <3>3 DEF SignInv
    <2>. QED
      BY <2>8, <2>9, <2>10, <2>11, <2>12, <2>13 DEF Inv
  <1>. QED
    BY <1>2, <1>3

(* The actor document is answered: its inbox is as good as the policy, and *)
(* the request signed for it is what goes there first.                     *)
LEMMA DeliverStep ==
  ASSUME Inv, Deliver
  PROVE  Inv'
  <1>1. /\ pc = "wait" /\ Underway /\ op.kind = "reply"
        /\ UNCHANGED <<config, skew, comments, read, landed>>
    BY DEF Deliver, Inv, TypeOK, Underway
  <1>2. /\ op \in Ops /\ op.content \in Contents /\ Len(comments) < MaxComments
        /\ config \in Configs /\ Accepts(config)
    BY <1>1 DEF Inv, TypeOK, Typed
  <1>3. PICK inbox \in Inboxes, now \in Moments :
          IF Validate(Policy, inbox)
          THEN /\ Send(Signed(inbox, op.content, now))
               /\ op' = [op EXCEPT !.stage = "POST", !.at = now]
               /\ UNCHANGED result
          ELSE Ends("error")
    BY DEF Deliver
  <1>4. CASE ~Validate(Policy, inbox)
    <2>1. Ends("error")
      BY <1>3, <1>4
    <2>2. comments' \in Seq(Comments) /\ Len(comments') \in 0..MaxComments /\ landed' \in BOOLEAN
      BY <1>1 DEF Inv, TypeOK, Typed
    <2>. QED
      BY <1>1, <2>1, <2>2, EndStep
  <1>5. CASE Validate(Policy, inbox)
    <2>1. inbox \in Urls
      <3>1. CASE req.url.host = Host /\ req.url.path \in {"actor"} \X Series
        <4>1. req.url.path[2] \in Series
          BY <3>1
        <4>2. GraftUrl("inbox", req.url.path[2]) \in Urls
          BY <1>2, <4>1, ConfiguredUrls
        <4>. QED
          BY <1>3, <3>1, <4>2 DEF Inboxes
      <3>2. CASE ~(req.url.host = Host /\ req.url.path \in {"actor"} \X Series)
        BY <1>3, <3>2, WireAssumption DEF Inboxes
      <3>. QED
        BY <3>1, <3>2
    <2>2. PICK r : r = Signed(inbox, op.content, now)
      OBVIOUS
    <2>3. /\ r \in Requests /\ r.method = "POST" /\ r.url = inbox /\ r.key = FALSE
      BY <1>2, <2>1, <2>2, SignedTyped
    <2>4. /\ req' = r /\ first' = inbox /\ sent' = 1 /\ conn' = Absent /\ pc' = "dial"
          /\ op' = [op EXCEPT !.stage = "POST", !.at = now] /\ result' = result
      BY <1>3, <1>5, <2>2, <2>3 DEF Send
    <2>5. /\ op' \in Ops /\ op'.kind = "reply" /\ op'.content = op.content /\ op'.at = now
          /\ Underway'
      BY <1>1, <1>2, <1>3, <2>4 DEF Ops, Underway, NoOp
    <2>6. Policy' = Policy
      BY <1>1, <2>5 DEF Policy
    <2>7. TypeOK'
      <3>1. conn' \notin Addresses /\ 1 \in 1..MaxRedirects
        BY <2>4, NetguardAssumption, AbsentAssumption
      <3>2. /\ config' \in Configs /\ skew' \in Skews /\ landed' \in BOOLEAN
            /\ Len(comments') \in 0..MaxComments /\ result' \in {"none", "ok", "error"}
        BY <1>1, <2>4 DEF Inv, TypeOK
      <3>. QED
        BY <2>1, <2>3, <2>4, <2>5, <3>1, <3>2 DEF TypeOK, Underway
    <2>8. Typed'
      BY <1>1, <1>2, <2>3, <2>4, <2>5 DEF Inv, Typed
    <2>9. KeyInv'
      BY <2>3, <2>4, <2>5 DEF KeyInv
    <2>10. SchemeInv'
      BY <1>5, <2>3, <2>4, <2>6 DEF SchemeInv, Validate
    <2>11. DialInv'
      BY <2>4 DEF DialInv
    <2>12. SignInv'
      <3>1. r = [r EXCEPT !.url = inbox]
        BY <2>3 DEF Requests
      <3>. QED
        BY <2>2, <2>3, <2>4, <2>5, <3>1 DEF SignInv
    <2>. QED
      BY <2>7, <2>8, <2>9, <2>10, <2>11, <2>12 DEF Inv
  <1>. QED
    BY <1>4, <1>5

(* Only a reply on its way to an inbox changes what Graft took, and adds   *)
(* one comment, to the series the request was signed for.                  *)
LEMMA EffectStep ==
  ASSUME Inv, pc = "wait", NEW delay \in Delays, Effect(delay)
  PROVE  /\ comments' \in Seq(Comments) /\ Len(comments') \in 0..MaxComments
         /\ landed' \in BOOLEAN
         /\ \/ comments' = comments
            \/ \E s \in Series, c \in Contents : \E shown \in {c, HashContent(c)} :
                 comments' = Append(comments, Comment(Len(comments), s, c, shown))
         /\ comments' # comments =>
              /\ first.host = Host
              /\ first.path = <<"inbox", Last(comments').uri.path[2]>>
  <1>1. Underway /\ req \in Requests /\ comments \in Seq(Comments) /\ landed \in BOOLEAN
        /\ Len(comments) \in 0..MaxComments
    BY DEF Inv, TypeOK, Typed, Underway
  <1>2. CASE ~(req.method = "POST" /\ Accepted(delay) /\ AtInbox)
    <2>1. comments' = comments /\ landed' \in BOOLEAN
      BY <1>1, <1>2 DEF Effect, AtForum, AtInbox
    <2>. QED
      BY <1>1, <2>1
  <1>3. CASE req.method = "POST" /\ Accepted(delay) /\ AtInbox
    <2>1. VerifyRequest(req, op.at + delay + skew)
      BY <1>3 DEF Accepted
    <2>2. op.kind = "reply"
      BY <1>1, <2>1 DEF VerifyRequest, Inv, SignInv
    <2>3. /\ first \in Urls /\ op.content \in Contents /\ Len(comments) < MaxComments
          /\ op.at \in Moments
          /\ req = [Signed(first, op.content, op.at) EXCEPT !.url = req.url]
      BY <1>1, <1>3, <2>2 DEF Inv, TypeOK, Typed, SignInv, Underway
    <2>4. PICK r : r = Signed(first, op.content, op.at)
      OBVIOUS
    <2>5. /\ r \in Requests /\ r.method = "POST" /\ r.url = first
          /\ r.sig.headers = SignedHeaders
          /\ r.sig.over = BuildSigningString(SignedHeaders, r)
          /\ r.body = op.content
      BY <2>3, <2>4, SignedTyped
    <2>6. req.sig = r.sig /\ req.method = r.method /\ req.body = r.body
      BY <2>3, <2>4, <2>5 DEF Requests
    <2>7. BuildSigningString(SignedHeaders, r) = BuildSigningString(SignedHeaders, req)
      BY <2>1, <2>5, <2>6 DEF VerifyRequest
    <2>8. first.path = req.url.path /\ first.host = req.url.host
      <3>1. "(request-target)" \in SignedHeaders /\ "host" \in SignedHeaders
        BY DEF SignedHeaders
      <3>2. <<r.method, r.url.path>> = <<req.method, req.url.path>> /\ r.url.host = req.url.host
        BY <2>7, <3>1, SigningStringLines
      <3>. QED
        BY <2>5, <3>2
    <2>9. PICK s \in Series : req.url.path = <<"inbox", s>> /\ req.url.host = Host
      BY <1>3 DEF AtInbox
    <2>10. PICK shown \in {req.body, HashContent(req.body)} :
             comments' = Append(comments,
               [uri     |-> NoteURI(Host, req.url.path[2], Len(IssueItems) + Len(comments) + 1),
                content |-> <<"comment", ":", Space>> \o shown,
                source  |-> req.body])
      BY <1>3 DEF Effect
    <2>11. comments' = Append(comments, Comment(Len(comments), s, op.content, shown))
      BY <2>5, <2>6, <2>9, <2>10 DEF Comment
    <2>12. PICK c : c = Comment(Len(comments), s, op.content, shown)
      OBVIOUS
    <2>13. c \in Comments
      <3>1. shown \in Contents \cup {HashContent(x) : x \in Contents}
        BY <2>3, <2>5, <2>6, <2>10
      <3>2. Len(comments) \in 0..MaxComments
        BY <1>1
      <3>. QED
        BY <2>3, <2>12, <3>1, <3>2 DEF Comments
    <2>14. c.uri.path[2] = s
      BY <2>12 DEF Comment, NoteURI
    <2>15. /\ comments' \in Seq(Comments) /\ Len(comments') = Len(comments) + 1
           /\ Last(comments') = c
      BY <1>1, <2>11, <2>12, <2>13 DEF Last
    <2>16. Len(comments') \in 0..MaxComments
      BY <1>1, <2>3, <2>15, WireAssumption
    <2>17. landed' \in BOOLEAN
      BY <1>3 DEF Effect, AtForum, AtInbox
    <2>18. shown \in {op.content, HashContent(op.content)}
      BY <2>5, <2>6, <2>10
    <2>. QED
      BY <2>3, <2>8, <2>9, <2>11, <2>14, <2>15, <2>16, <2>17, <2>18
  <1>. QED
    BY <1>2, <1>3

(* The invariant holds when the bridge starts ...                          *)
LEMMA InvInit ==
  ASSUME Init
  PROVE  Inv
  <1>1. op = NoOp /\ op.kind = "none" /\ comments = <<>>
    BY DEF Init, NoOp
  <1>2. TypeOK
    <2>1. /\ config \in Configs /\ skew \in Skews /\ pc \in {"down", "idle"}
          /\ conn = Absent /\ result = "none" /\ landed = FALSE
      BY DEF Init
    <2>2. conn \notin Addresses /\ Len(comments) = 0
      BY <1>1, <2>1, AbsentAssumption
    <2>3. Len(comments) \in 0..MaxComments
      BY <2>2, WireAssumption
    <2>. QED
      BY <1>1, <2>1, <2>2, <2>3 DEF TypeOK
  <1>3. Typed
    BY <1>1 DEF Init, Typed, Underway
  <1>4. KeyInv /\ SchemeInv /\ SignInv
    BY <1>1 DEF KeyInv, SchemeInv, SignInv, Underway
  <1>5. DialInv
    BY DEF Init, DialInv
  <1>. QED
    BY <1>2, <1>3, <1>4, <1>5 DEF Inv

(* ... and every step keeps it.                                            *)
LEMMA InvStep ==
  ASSUME Inv, [Next]_vars
  PROVE  Inv'
  <1>1. CASE \/ \E s \in Series : Outbox(s) \/ \E c \in Contents : ReplyToIssue(s, c)
             \/ LatestPosts \/ CreatePost
    BY <1>1, CallsStep
  <1>2. CASE Connect
    BY <1>2, ConnectStep
  <1>3. CASE Deliver
    BY <1>3, DeliverStep
  <1>4. CASE Succeeds
    <2>1. /\ pc = "wait" /\ Ends("ok") /\ UNCHANGED <<config, skew>>
          /\ \E delay \in Delays : Effect(delay)
      BY <1>4 DEF Succeeds
    <2>2. /\ comments' \in Seq(Comments) /\ Len(comments') \in 0..MaxComments
          /\ landed' \in BOOLEAN
      BY <2>1, EffectStep
    <2>. QED
      BY <2>1, <2>2, EndStep
  <1>5. CASE Lost
    <2>1. /\ pc = "wait" /\ Ends("error") /\ UNCHANGED <<config, skew>>
          /\ \E delay \in Delays : Effect(delay)
      BY <1>5 DEF Lost
    <2>2. /\ comments' \in Seq(Comments) /\ Len(comments') \in 0..MaxComments
          /\ landed' \in BOOLEAN
      BY <2>1, EffectStep
    <2>. QED
      BY <2>1, <2>2, EndStep
  <1>6. CASE \E u \in Redirects, keepsMethod \in BOOLEAN : Redirect(u, keepsMethod)
    BY <1>6, RedirectStep
  <1>7. CASE Fails
    <2>1. /\ pc \in {"dial", "wait"} /\ Ends("error")
          /\ UNCHANGED <<config, skew, comments, read, landed>>
      BY <1>7 DEF Fails
    <2>2. /\ comments' \in Seq(Comments) /\ Len(comments') \in 0..MaxComments
          /\ landed' \in BOOLEAN
      BY <2>1 DEF Inv, TypeOK, Typed
    <2>. QED
      BY <2>1, <2>2, EndStep
  <1>8. CASE UNCHANGED vars
    BY <1>8 DEF Inv, TypeOK, Typed, KeyInv, SchemeInv, DialInv, SignInv, Underway, Policy,
                vars, callVars
  <1>9. CASE Down
    BY <1>8, <1>9 DEF Down
  <1>. QED
    BY <1>1, <1>2, <1>3, <1>4, <1>5, <1>6, <1>7, <1>8, <1>9 DEF Next, Answer

(* Spec keeps the invariant.                                               *)
LEMMA Invariance == Spec => []Inv
  <1>. QED
    BY InvInit, InvStep, PTL DEF Spec

-----------------------------------------------------------------------------
(* Texts. *)

(* Induction over the natural numbers, from the pigeonhole principle: were *)
(* n missing from S, taking one from each missing number up to n would be  *)
(* an injection of a finite set into itself without n.                     *)
LEMMA SetInduction ==
  ASSUME NEW S, 0 \in S, \A n \in Nat : n \in S => n + 1 \in S
  PROVE  Nat \subseteq S
  <1> SUFFICES ASSUME NEW n \in Nat, n \notin S PROVE FALSE
    OBVIOUS
  <1>. DEFINE D == {m \in 0..n : m \notin S}
              down == [m \in D |-> m - 1]
  <1>1. IsFiniteSet(D) /\ IsFiniteSet(D \ {n}) /\ Cardinality(D \ {n}) = Cardinality(D) - 1
        /\ Cardinality(D) \in Nat
    <2>1. IsFiniteSet(0..n) /\ D \in SUBSET (0..n) /\ n \in D
      BY FS_Interval
    <2>2. IsFiniteSet(D)
      BY <2>1, FS_Subset
    <2>. QED
      BY <2>1, <2>2, FS_RemoveElement, FS_CardinalityType
  <1>2. down \in [D -> D \ {n}]
    <2>1. ASSUME NEW m \in D PROVE m - 1 \in D /\ m - 1 # n
      <3>1. m \in 1..n
        OBVIOUS
      <3>2. m - 1 \in Nat /\ (m - 1) + 1 = m
        BY <3>1
      <3>. QED
        BY <3>1, <3>2
    <2>. QED
      BY <2>1
  <1>3. \A x, y \in D : down[x] = down[y] => x = y
    OBVIOUS
  <1>. HIDE DEF D, down
  <1>. QED
    BY <1>1, <1>2, <1>3, FS_PigeonHole

(* A set of natural numbers has a least one.                               *)
LEMMA MinIsLeast ==
  ASSUME NEW S, S \subseteq Nat, S # {}
  PROVE  Min(S) \in S /\ \A n \in S : Min(S) <= n
  <1>. DEFINE I == {n \in Nat : \A m \in 0..n : m \notin S}
  <1>1. \E n \in S : \A m \in S : n <= m
    <2> SUFFICES ASSUME \A n \in S : \E m \in S : m < n  PROVE FALSE
      OBVIOUS
    <2>1. 0 \in I
      OBVIOUS
    <2>2. ASSUME NEW n \in Nat, n \in I  PROVE n + 1 \in I
      <3>1. ASSUME NEW m \in 0..n + 1  PROVE m \notin S
        <4>1. \A k \in S : k < m => k \in 0..n
          OBVIOUS
        <4>. QED
          BY <2>2, <4>1
      <3>. QED
        BY <3>1
    <2>. HIDE DEF I
    <2>3. Nat \subseteq I
      BY <2>1, <2>2, SetInduction
    <2>4. ASSUME NEW n \in Nat  PROVE n \notin S
      <3>1. n \in I /\ n \in 0..n
        BY <2>3
      <3>. QED
        BY <3>1 DEF I
    <2>. QED
      BY <2>4
  <1>. QED
    BY <1>1 DEF Min

(* A set of numbers of an interval has a greatest one.                     *)
LEMMA MaxIsGreatest ==
  ASSUME NEW N \in Nat, NEW S, S \subseteq 0..N, S # {}
  PROVE  Max(S) \in S /\ \A n \in S : n <= Max(S)
  <1>. DEFINE T == {N - n : n \in S}
  <1>1. T \subseteq Nat /\ T # {}
    <2>1. ASSUME NEW n \in S  PROVE N - n \in Nat
      <3>1. n \in 0..N
        OBVIOUS
      <3>. QED
        BY <3>1
    <2>. QED
      BY <2>1
  <1>2. PICK k \in T : \A m \in T : k <= m
    BY <1>1, MinIsLeast
  <1>3. PICK n \in S : k = N - n
    BY <1>2
  <1>4. ASSUME NEW m \in S  PROVE m <= n
    <2>1. N - m \in T /\ m \in 0..N /\ n \in 0..N
      OBVIOUS
    <2>2. N - n <= N - m
      BY <1>2, <1>3, <2>1
    <2>. QED
      BY <2>1, <2>2
  <1>. QED
    BY <1>4 DEF Max

(* Lower case is lower case of letters, and white space is no letter.      *)
LEMMA LetterFacts ==
  ASSUME NEW r, IsLetter(r)
  PROVE  /\ IsLetter(LowerOf[r]) /\ LowerOf[LowerOf[r]] = LowerOf[r]
         /\ r # Space
  <1>1. DOMAIN LowerOf = {"A", "B", "a", "b", "Commit", "Issue", "Patch", "commit", "issue", "patch", "comment"}
    BY DEF LowerOf
  <1>2. r \in {"A", "B", "a", "b", "Commit", "Issue", "Patch", "commit", "issue", "patch", "comment"}
    BY <1>1 DEF IsLetter
  <1>3. LowerOf[r] \in {"a", "b", "commit", "issue", "patch", "comment"}
    BY <1>2 DEF LowerOf
  <1>4. LowerOf[LowerOf[r]] = LowerOf[r]
    BY <1>3 DEF LowerOf
  <1>5. IsLetter(LowerOf[r])
    BY <1>1, <1>3 DEF IsLetter
  <1>6. r # Space
    BY <1>2 DEF Space
  <1>. QED
    BY <1>4, <1>5, <1>6

(* A recursive function is what its equation says: functions for ever      *)
(* longer prefixes of s satisfy it.                                        *)
LEMMA ScanEquation ==
  ASSUME NEW s, Len(s) \in Nat
  PROVE  Scan(s) = [k \in 0..Len(s) |-> IF k = 0 THEN [out |-> <<>>, space |-> TRUE]
                                               ELSE Take(Scan(s)[k - 1], s[k])]
  <1>. DEFINE Start == [out |-> <<>>, space |-> TRUE]
              Solves(f, n) == f = [k \in 0..n |-> IF k = 0 THEN Start ELSE Take(f[k - 1], s[k])]
              I == {n \in Nat : n <= Len(s) => \E f : Solves(f, n)}
  <1>1. 0 \in I
    <2>. HIDE DEF Start
    <2>1. Solves([k \in 0..0 |-> Start], 0)
      OBVIOUS
    <2>. QED
      BY <2>1
  <1>2. ASSUME NEW n \in Nat, n \in I  PROVE n + 1 \in I
    <2>. HIDE DEF Start
    <2> SUFFICES ASSUME n + 1 <= Len(s)  PROVE \E f : Solves(f, n + 1)
      OBVIOUS
    <2>1. PICK f : Solves(f, n)
      BY <1>2
    <2>. DEFINE g == [k \in 0..n + 1 |-> IF k = n + 1 THEN Take(f[n], s[n + 1]) ELSE f[k]]
    <2>2. \A k \in 1..n + 1 : g[k - 1] = f[k - 1]
      OBVIOUS
    <2>3. ASSUME NEW k \in 0..n + 1  PROVE g[k] = IF k = 0 THEN Start ELSE Take(g[k - 1], s[k])
      BY <2>1, <2>2
    <2>4. Solves(g, n + 1)
      BY <2>3
    <2>. QED
      BY <2>4
  <1>3. \E f : Solves(f, Len(s))
    <2>. HIDE DEF I
    <2>1. Len(s) \in I
      BY <1>1, <1>2, SetInduction
    <2>. QED
      BY <2>1 DEF I
  <1>. QED
    BY <1>3 DEF Scan

Lowered == {LowerOf[r] : r \in DOMAIN LowerOf}

(* Words of lowered letters with single spaces between them, and one       *)
(* perhaps after the last.                                                 *)
Tidy(out) == /\ out \in Seq(Lowered \cup {Space})
             /\ out # <<>> => out[1] # Space
             /\ \A i \in 1..Len(out) - 1 : out[i] = Space => out[i + 1] # Space

(* f matches the letters of u up to its k-th rune with those of out.       *)
Fits(u, k, out, f) ==
  /\ f \in [{j \in Letters(u) : j <= k} -> Letters(out)]
  /\ \A l \in Letters(out) : \E j \in DOMAIN f : f[j] = l
  /\ \A j \in DOMAIN f : out[f[j]] = u[j]
  /\ \A i, j \in DOMAIN f : i < j => /\ f[i] < f[j]
                                     /\ Apart(u, i, j) <=> Apart(out, f[i], f[j])
  /\ \A j \in DOMAIN f : Apart(u, j, k) <=> Apart(out, f[j], Len(out))

(* The loop of NormalizeTitle after k runes of u.                          *)
Taken(u, k, acc) ==
  /\ Tidy(acc.out)
  /\ acc.space <=> (acc.out = <<>> \/ acc.out[Len(acc.out)] = Space)
  /\ \E f : Fits(u, k, acc.out, f)

(* One rune keeps the loop's invariant.                                    *)
LEMMA TakeStep ==
  ASSUME NEW S, NEW u \in Seq(S), NEW k \in Nat, k + 1 <= Len(u),
         \A i \in Letters(u) : u[i] \in Lowered,
         NEW acc, Taken(u, k, acc)
  PROVE  Taken(u, k + 1, Take(acc, u[k + 1]))
  <1>. DEFINE r == u[k + 1]
              out == acc.out
              n == Len(out)
  <1>1. /\ out \in Seq(Lowered \cup {Space}) /\ n \in Nat
        /\ Tidy(out)
        /\ acc.space <=> (out = <<>> \/ out[n] = Space)
    BY DEF Taken, Tidy
  <1>2. PICK f : Fits(u, k, out, f)
    BY DEF Taken
  <1>3. /\ Letters(u) \subseteq 1..Len(u) /\ Letters(out) \subseteq 1..n
        /\ \A j \in Letters(u) : IsLetter(u[j]) /\ u[j] # Space
        /\ k + 1 \in 1..Len(u)
        /\ DOMAIN f = {j \in Letters(u) : j <= k}
        /\ \A j \in DOMAIN f : f[j] \in Letters(out)
    BY <1>1, <1>2, LetterFacts DEF Letters, Fits
  <1>. HIDE DEF out
  <1>4. CASE IsLetter(r)
    <2>. DEFINE o == Append(out, r)
                g == [j \in {i \in Letters(u) : i <= k + 1} |-> IF j = k + 1 THEN n + 1 ELSE f[j]]
    <2>1. Take(acc, r).out = o /\ Take(acc, r).space = FALSE
      BY <1>4 DEF Take, out
    <2>2. /\ k + 1 \in Letters(u) /\ r \in Lowered /\ r # Space
          /\ \A j \in Letters(u) : j <= k + 1 <=> j \in DOMAIN f \/ j = k + 1
      BY <1>3, <1>4, LetterFacts DEF Letters
    <2>3. /\ o \in Seq(Lowered \cup {Space}) /\ Len(o) = n + 1
          /\ o[n + 1] = r /\ \A i \in 1..n : o[i] = out[i]
      BY <1>1, <2>2
    <2>4. Letters(o) = Letters(out) \cup {n + 1}
      BY <1>1, <1>4, <2>3 DEF Letters
    <2>5. Tidy(o)
      BY <1>1, <2>2, <2>3 DEF Tidy
    <2>. HIDE DEF o
    <2>6. ASSUME NEW i \in DOMAIN f
          PROVE  /\ Apart(u, i, k + 1) <=> Apart(u, i, k)
                 /\ Apart(o, f[i], n + 1) <=> Apart(out, f[i], n)
      <3>1. i \in 1..k /\ f[i] \in 1..n
        BY <1>3
      <3>2. Apart(u, i, k + 1) <=> Apart(u, i, k)
        BY <2>2, <3>1 DEF Apart
      <3>3. \A p \in f[i]..n + 1 : p = n + 1 \/ (p \in f[i]..n /\ o[p] = out[p])
        BY <1>1, <2>3, <3>1
      <3>4. \A p \in f[i]..n : p \in f[i]..n + 1 /\ o[p] = out[p]
        BY <1>1, <2>3, <3>1
      <3>. QED
        BY <2>2, <2>3, <3>2, <3>3, <3>4 DEF Apart
    <2>7. ASSUME NEW i \in DOMAIN f, NEW j \in DOMAIN f
          PROVE  Apart(o, f[i], f[j]) <=> Apart(out, f[i], f[j])
      <3>1. f[i] \in 1..n /\ f[j] \in 1..n
        BY <1>3
      <3>2. \A p \in f[i]..f[j] : o[p] = out[p]
        BY <1>1, <2>3, <3>1
      <3>. QED
        BY <3>2 DEF Apart
    <2>8. Fits(u, k + 1, o, g)
      <3>1. /\ g \in [{j \in Letters(u) : j <= k + 1} -> Letters(o)]
            /\ DOMAIN g = {j \in Letters(u) : j <= k + 1}
            /\ g[k + 1] = n + 1
            /\ \A j \in DOMAIN f : j \in DOMAIN g /\ g[j] = f[j]
        BY <1>3, <2>2, <2>4
      <3>. HIDE DEF g
      <3>2. \A l \in Letters(o) : \E j \in DOMAIN g : g[j] = l
        BY <1>2, <2>2, <2>4, <3>1 DEF Fits
      <3>3. \A j \in DOMAIN g : o[g[j]] = u[j]
        BY <1>2, <1>3, <2>2, <2>3, <3>1 DEF Fits
      <3>4. ASSUME NEW i \in DOMAIN g, NEW j \in DOMAIN g, i < j
            PROVE  /\ g[i] < g[j]
                   /\ Apart(u, i, j) <=> Apart(o, g[i], g[j])
        <4>1. CASE j = k + 1
          <5>1. i \in DOMAIN f /\ g[i] = f[i] /\ f[i] \in 1..n
            BY <1>3, <2>2, <3>1, <3>4, <4>1
          <5>2. Apart(u, i, k) <=> Apart(out, f[i], n)
            BY <1>2, <5>1 DEF Fits
          <5>. QED
            BY <1>1, <2>6, <3>1, <4>1, <5>1, <5>2
        <4>2. CASE j # k + 1
          <5>1. i \in DOMAIN f /\ j \in DOMAIN f
            BY <1>3, <2>2, <3>1, <3>4, <4>2
          <5>. QED
            BY <1>2, <2>7, <3>1, <3>4, <5>1 DEF Fits
        <4>. QED
          BY <4>1, <4>2
      <3>5. ASSUME NEW j \in DOMAIN g
            PROVE  Apart(u, j, k + 1) <=> Apart(o, g[j], Len(o))
        <4>1. CASE j = k + 1
          BY <1>1, <2>2, <2>3, <3>1, <4>1 DEF Apart
        <4>2. CASE j # k + 1
          <5>1. j \in DOMAIN f
            BY <2>2, <3>1, <4>2
          <5>. QED
            BY <1>2, <2>3, <2>6, <3>1, <5>1 DEF Fits
        <4>. QED
          BY <4>1, <4>2
      <3>. QED
        BY <3>1, <3>2, <3>3, <3>4, <3>5 DEF Fits
    <2>9. o # <<>> /\ o[Len(o)] # Space
      BY <1>1, <2>2, <2>3
    <2>. HIDE DEF g
    <2>. QED
      BY <2>1, <2>5, <2>8, <2>9 DEF Taken
  <1>5. CASE r = Space /\ ~acc.space
    <2>. DEFINE o == Append(out, Space)
    <2>0. ~IsLetter(Space)
      BY LetterFacts
    <2>1. Take(acc, r).out = o /\ Take(acc, r).space = TRUE
      BY <1>5, <2>0 DEF Take, out
    <2>2. \A j \in Letters(u) : j <= k + 1 <=> j <= k
      BY <1>3, <1>5
    <2>3. /\ o \in Seq(Lowered \cup {Space}) /\ Len(o) = n + 1
          /\ o[n + 1] = Space /\ \A i \in 1..n : o[i] = out[i]
      BY <1>1
    <2>4. Letters(o) = Letters(out)
      BY <1>1, <2>0, <2>3 DEF Letters
    <2>5. Tidy(o)
      BY <1>1, <1>5, <2>3 DEF Tidy
    <2>. HIDE DEF o
    <2>6. ASSUME NEW i \in DOMAIN f
          PROVE  Apart(u, i, k + 1) /\ Apart(o, f[i], n + 1)
      BY <1>1, <1>3, <1>5, <2>3 DEF Apart
    <2>7. ASSUME NEW i \in DOMAIN f, NEW j \in DOMAIN f
          PROVE  Apart(o, f[i], f[j]) <=> Apart(out, f[i], f[j])
      <3>1. f[i] \in 1..n /\ f[j] \in 1..n
        BY <1>3
      <3>2. \A p \in f[i]..f[j] : o[p] = out[p]
        BY <1>1, <2>3, <3>1
      <3>. QED
        BY <3>2 DEF Apart
    <2>8. Fits(u, k + 1, o, f)
      <3>1. f \in [{j \in Letters(u) : j <= k + 1} -> Letters(o)]
        <4>1. {j \in Letters(u) : j <= k + 1} = {j \in Letters(u) : j <= k}
          BY <2>2
        <4>. QED
          BY <1>2, <2>4, <4>1 DEF Fits
      <3>2. \A l \in Letters(o) : \E j \in DOMAIN f : f[j] = l
        BY <1>2, <2>4 DEF Fits
      <3>3. \A j \in DOMAIN f : o[f[j]] = u[j]
        BY <1>2, <1>3, <2>3 DEF Fits
      <3>4. \A i, j \in DOMAIN f : i < j => /\ f[i] < f[j]
                                            /\ Apart(u, i, j) <=> Apart(o, f[i], f[j])
        BY <1>2, <2>7 DEF Fits
      <3>5. \A j \in DOMAIN f : Apart(u, j, k + 1) <=> Apart(o, f[j], Len(o))
        BY <2>3, <2>6
      <3>. QED
        BY <3>1, <3>2, <3>3, <3>4, <3>5 DEF Fits
    <2>9. o[Len(o)] = Space
      BY <2>3
    <2>. QED
      BY <2>1, <2>5, <2>8, <2>9 DEF Taken
  <1>6. CASE ~IsLetter(r) /\ ~(r = Space /\ ~acc.space)
    <2>1. Take(acc, r) = acc
      BY <1>6 DEF Take
    <2>2. \A j \in Letters(u) : j <= k + 1 <=> j <= k
      BY <1>3, <1>6
    <2>3. ASSUME NEW j \in DOMAIN f
          PROVE  Apart(u, j, k + 1) <=> Apart(out, f[j], n)
      <3>1. Apart(u, j, k) <=> Apart(out, f[j], n)
        BY <1>2 DEF Fits
      <3>2. CASE r = Space
        <4>1. out[n] = Space /\ n \in f[j]..n
          BY <1>1, <1>3, <1>6, <3>2
        <4>2. k + 1 \in j..k + 1
          BY <1>3
        <4>. QED
          BY <3>2, <4>1, <4>2 DEF Apart
      <3>3. CASE r # Space
        <4>1. Apart(u, j, k + 1) <=> Apart(u, j, k)
          BY <1>3, <3>3 DEF Apart
        <4>. QED
          BY <3>1, <4>1
      <3>. QED
        BY <3>2, <3>3
    <2>4. {j \in Letters(u) : j <= k + 1} = {j \in Letters(u) : j <= k}
      BY <2>2
    <2>5. Fits(u, k + 1, out, f)
      BY <1>2, <2>3, <2>4 DEF Fits
    <2>. QED
      BY <1>1, <2>1, <2>5 DEF Taken, out
  <1>. QED
    BY <1>4, <1>5, <1>6

(* NormalizeTitle's loop, from its first rune to its last.                 *)
LEMMA ScanTakes ==
  ASSUME NEW S, NEW u \in Seq(S), \A i \in Letters(u) : u[i] \in Lowered
  PROVE  Taken(u, Len(u), Scan(u)[Len(u)])
  <1>. DEFINE I == {k \in Nat : k <= Len(u) => Taken(u, k, Scan(u)[k])}
              start == [out |-> <<>>, space |-> TRUE]
  <1>1. /\ Scan(u)[0] = start
        /\ \A k \in Nat : k + 1 <= Len(u) => Scan(u)[k + 1] = Take(Scan(u)[k], u[k + 1])
    <2>1. Scan(u) = [k \in 0..Len(u) |-> IF k = 0 THEN start ELSE Take(Scan(u)[k - 1], u[k])]
      BY ScanEquation
    <2>. HIDE DEF start
    <2>2. ASSUME NEW k \in Nat, k + 1 <= Len(u)
          PROVE  Scan(u)[k + 1] = Take(Scan(u)[k], u[k + 1])
      <3>1. k + 1 \in 0..Len(u) /\ k + 1 # 0 /\ (k + 1) - 1 = k
        BY <2>2
      <3>. QED
        BY <2>1, <3>1
    <2>. QED
      BY <2>1, <2>2
  <1>2. 0 \in I
    <2>1. Letters(<<>>) = {} /\ {j \in Letters(u) : j <= 0} = {}
      BY DEF Letters
    <2>2. Fits(u, 0, <<>>, [j \in {} |-> 0])
      BY <2>1 DEF Fits
    <2>3. Tidy(<<>>)
      BY DEF Tidy
    <2>4. Taken(u, 0, start)
      BY <2>2, <2>3 DEF Taken
    <2>. QED
      BY <1>1, <2>4
  <1>3. ASSUME NEW k \in Nat, k \in I  PROVE k + 1 \in I
    BY <1>1, <1>3, TakeStep
  <1>. HIDE DEF I
  <1>4. Len(u) \in I
    BY <1>2, <1>3, SetInduction
  <1>. QED
    BY <1>4 DEF I

(* Lower-casing leaves letters letters and the rest as it is.              *)
LEMMA LowerKeeps ==
  ASSUME NEW S, NEW s \in Seq(S)
  PROVE  /\ ToLower(s) \in Seq(S \cup Lowered) /\ Len(ToLower(s)) = Len(s)
         /\ Letters(ToLower(s)) = Letters(s)
         /\ \A i \in Letters(s) : ToLower(s)[i] \in Lowered
         /\ \A i \in DOMAIN s : ToLower(s)[i] = Space <=> s[i] = Space
         /\ ToLower(ToLower(s)) = ToLower(s)
  <1>1. ASSUME NEW i \in DOMAIN s
        PROVE  /\ ToLower(s)[i] \in S \cup Lowered
               /\ IsLetter(ToLower(s)[i]) <=> IsLetter(s[i])
               /\ IsLetter(s[i]) => ToLower(s)[i] \in Lowered
               /\ ToLower(s)[i] = Space <=> s[i] = Space
               /\ ToLower(ToLower(s))[i] = ToLower(s)[i]
    <2>1. CASE IsLetter(s[i])
      <3>1. ToLower(s)[i] = LowerOf[s[i]] /\ LowerOf[s[i]] \in Lowered
        BY <2>1 DEF ToLower, Lowered, IsLetter
      <3>2. ToLower(ToLower(s))[i] = ToLower(s)[i]
        BY <2>1, <3>1, LetterFacts DEF ToLower
      <3>. QED
        BY <2>1, <3>1, <3>2, LetterFacts
    <2>2. CASE ~IsLetter(s[i])
      <3>1. ToLower(s)[i] = s[i] /\ s[i] \in S
        BY <2>2 DEF ToLower
      <3>2. ToLower(ToLower(s))[i] = ToLower(s)[i]
        BY <2>2, <3>1 DEF ToLower
      <3>. QED
        BY <2>2, <3>1, <3>2
    <2>. QED
      BY <2>1, <2>2
  <1>2. ToLower(s) \in Seq(S \cup Lowered) /\ Len(ToLower(s)) = Len(s) /\ DOMAIN ToLower(s) = DOMAIN s
    BY <1>1 DEF ToLower
  <1>3. Letters(ToLower(s)) = Letters(s)
    BY <1>1, <1>2 DEF Letters
  <1>4. ToLower(ToLower(s)) = ToLower(s)
    BY <1>1, <1>2 DEF ToLower
  <1>. QED
    BY <1>1, <1>2, <1>3, <1>4 DEF Letters

(* The form of normalised titles.                                          *)
Normal(w) == Tidy(w) /\ (w # <<>> => w[Len(w)] # Space)

(* Of tidy words, strings.TrimSpace takes off one space at the end at most.*)
LEMMA TrimTidy ==
  ASSUME NEW out, Tidy(out)
  PROVE  /\ Normal(TrimSpace(out))
         /\ Len(TrimSpace(out)) <= Len(out)
         /\ \A i \in 1..Len(TrimSpace(out)) : TrimSpace(out)[i] = out[i]
         /\ Letters(TrimSpace(out)) = Letters(out)
  <1>. DEFINE R == Lowered \cup {Space}
              kept == {k \in DOMAIN out : out[k] # Space}
              m == Max(kept)
              w == SubSeq(out, 1, m)
  <1>1. out \in Seq(R) /\ Len(out) \in Nat /\ ~IsLetter(Space)
    BY LetterFacts DEF Tidy
  <1>2. CASE kept = {}
    <2>1. out = <<>>
      BY <1>1, <1>2 DEF Tidy
    <2>2. TrimSpace(out) = <<>>
      BY <1>2 DEF TrimSpace
    <2>. QED
      BY <2>1, <2>2 DEF Normal
  <1>3. CASE kept # {}
    <2>1. out # <<>> /\ 1 \in kept
      BY <1>1, <1>3 DEF Tidy
    <2>2. kept \subseteq 1..Len(out)
      BY <1>1
    <2>. HIDE DEF kept
    <2>3. Min(kept) = 1
      <3>1. kept \subseteq Nat
        BY <1>1, <2>2
      <3>2. Min(kept) \in kept /\ Min(kept) <= 1
        BY <1>3, <2>1, <3>1, MinIsLeast
      <3>3. Min(kept) \in 1..Len(out)
        BY <2>2, <3>2
      <3>. QED
        BY <3>2, <3>3
    <2>4. m \in kept /\ \A k \in kept : k <= m
      <3>1. kept \subseteq 0..Len(out)
        BY <1>1, <2>2
      <3>. QED
        BY <1>1, <1>3, <3>1, MaxIsGreatest
    <2>5. m \in 1..Len(out) /\ out[m] # Space
      BY <2>2, <2>4 DEF kept
    <2>6. TrimSpace(out) = w
      BY <1>3, <2>3 DEF TrimSpace, kept
    <2>. HIDE DEF m
    <2>7. w \in Seq(R) /\ Len(w) = m /\ \A i \in 1..m : w[i] = out[i]
      BY <1>1, <2>5
    <2>. HIDE DEF w
    <2>8. Normal(w)
      BY <1>1, <2>5, <2>7 DEF Normal, Tidy
    <2>9. Letters(w) = Letters(out)
      <3>1. ASSUME NEW k \in Letters(out)  PROVE k \in 1..m
        <4>1. k \in kept
          BY <1>1, <3>1 DEF Letters, kept
        <4>. QED
          BY <2>2, <2>4, <2>5, <4>1
      <3>. QED
        BY <1>1, <2>5, <2>7, <3>1 DEF Letters
    <2>. QED
      BY <2>5, <2>6, <2>7, <2>8, <2>9
  <1>. QED
    BY <1>2, <1>3

(* NormalizeTitle keeps the words of a title, and only them.               *)
LEMMA NormalizeKeepsWords ==
  ASSUME NEW S, NEW s \in Seq(S)
  PROVE  /\ Normal(NormalizeTitle(s))
         /\ SameWords(s, NormalizeTitle(s))
  <1>. DEFINE u == ToLower(s)
              out == Scan(u)[Len(u)].out
              w == TrimSpace(out)
  <1>1. /\ u \in Seq(S \cup Lowered) /\ Len(u) = Len(s)
        /\ Letters(u) = Letters(s)
        /\ \A i \in Letters(s) : u[i] \in Lowered
        /\ \A i \in DOMAIN s : u[i] = Space <=> s[i] = Space
    BY LowerKeeps
  <1>2. NormalizeTitle(s) = w
    BY <1>1 DEF NormalizeTitle, Collapsed
  <1>. HIDE DEF u
  <1>3. Taken(u, Len(u), Scan(u)[Len(u)])
    BY <1>1, ScanTakes
  <1>4. Tidy(out) /\ \E f : Fits(u, Len(u), out, f)
    BY <1>3 DEF Taken
  <1>. HIDE DEF out
  <1>5. PICK f : Fits(u, Len(u), out, f)
    BY <1>4
  <1>6. /\ Normal(w)
        /\ Len(w) <= Len(out)
        /\ \A i \in 1..Len(w) : w[i] = out[i]
        /\ Letters(w) = Letters(out)
    BY <1>4, TrimTidy
  <1>. HIDE DEF w
  <1>7. w \in Seq(Lowered \cup {Space}) /\ Len(w) \in Nat
    BY <1>6 DEF Normal, Tidy
  <1>8. f \in [Letters(s) -> Letters(w)]
    <2>1. {j \in Letters(u) : j <= Len(u)} = Letters(s)
      BY <1>1 DEF Letters
    <2>. QED
      BY <1>5, <1>6, <2>1 DEF Fits
  <1>9. \A l \in Letters(w) : \E k \in Letters(s) : f[k] = l
    BY <1>5, <1>6, <1>8 DEF Fits
  <1>10. ASSUME NEW k \in Letters(s)
         PROVE  ToLower(s)[k] = ToLower(w)[f[k]]
    <2>1. f[k] \in Letters(w) /\ f[k] \in 1..Len(w) /\ w[f[k]] = u[k] /\ u[k] \in Lowered
      BY <1>1, <1>5, <1>6, <1>7, <1>8 DEF Fits, Letters
    <2>2. IsLetter(w[f[k]]) /\ LowerOf[w[f[k]]] = w[f[k]]
      BY <2>1, LetterFacts DEF Lowered, IsLetter
    <2>3. ToLower(w)[f[k]] = w[f[k]]
      BY <2>1, <2>2 DEF ToLower, Letters
    <2>. QED
      BY <2>1, <2>3 DEF u
  <1>11. ASSUME NEW j \in Letters(s), NEW k \in Letters(s), j < k
         PROVE  /\ f[j] < f[k]
                /\ Apart(s, j, k) <=> Apart(w, f[j], f[k])
    <2>1. f[j] < f[k] /\ (Apart(u, j, k) <=> Apart(out, f[j], f[k]))
      BY <1>5, <1>8, <1>11 DEF Fits
    <2>2. \A i \in j..k : i \in DOMAIN s
      BY <1>11 DEF Letters
    <2>3. Apart(s, j, k) <=> Apart(u, j, k)
      BY <1>1, <2>2 DEF Apart
    <2>4. f[j] \in 1..Len(w) /\ f[k] \in 1..Len(w)
      BY <1>7, <1>8 DEF Letters
    <2>5. \A i \in f[j]..f[k] : w[i] = out[i]
      BY <1>6, <1>7, <2>4
    <2>6. Apart(w, f[j], f[k]) <=> Apart(out, f[j], f[k])
      BY <2>5 DEF Apart
    <2>. QED
      BY <2>1, <2>3, <2>6
  <1>12. SameWords(s, w)
    BY <1>8, <1>9, <1>10, <1>11 DEF SameWords
  <1>. QED
    BY <1>2, <1>6, <1>12

(* To consist of the same words is symmetric ...                           *)
LEMMA SameWordsSymmetric ==
  ASSUME NEW S, NEW s \in Seq(S), NEW t \in Seq(S), SameWords(s, t)
  PROVE  SameWords(t, s)
  <1>1. PICK f \in [Letters(s) -> Letters(t)] :
          /\ \A l \in Letters(t) : \E k \in Letters(s) : f[k] = l
          /\ \A k \in Letters(s) : ToLower(s)[k] = ToLower(t)[f[k]]
          /\ \A j, k \in Letters(s) : j < k => /\ f[j] < f[k]
                                               /\ Apart(s, j, k) <=> Apart(t, f[j], f[k])
    BY DEF SameWords
  <1>. DEFINE g == [l \in Letters(t) |-> CHOOSE k \in Letters(s) : f[k] = l]
  <1>2. /\ Letters(s) \subseteq Int /\ Letters(t) \subseteq Int
        /\ \A j, k \in Letters(s) : f[j] = f[k] => j = k
    <2>1. Letters(s) \subseteq Int /\ Letters(t) \subseteq Int
      BY DEF Letters
    <2>2. ASSUME NEW j \in Letters(s), NEW k \in Letters(s), f[j] = f[k]  PROVE j = k
      <3>1. j \in Int /\ k \in Int /\ f[j] \in Int /\ f[k] \in Int
        BY <2>1
      <3>. QED
        BY <1>1, <2>2, <3>1
    <2>. QED
      BY <2>1, <2>2
  <1>3. /\ g \in [Letters(t) -> Letters(s)]
        /\ \A l \in Letters(t) : f[g[l]] = l
    BY <1>1
  <1>. HIDE DEF g
  <1>4. \A k \in Letters(s) : \E l \in Letters(t) : g[l] = k
    BY <1>2, <1>3
  <1>5. \A l \in Letters(t) : ToLower(t)[l] = ToLower(s)[g[l]]
    BY <1>1, <1>3
  <1>6. ASSUME NEW j \in Letters(t), NEW k \in Letters(t), j < k
        PROVE  /\ g[j] < g[k]
               /\ Apart(t, j, k) <=> Apart(s, g[j], g[k])
    <2>1. g[j] \in Letters(s) /\ g[k] \in Letters(s) /\ f[g[j]] = j /\ f[g[k]] = k
      BY <1>3
    <2>2. g[j] < g[k]
      <3>1. /\ g[j] \in Int /\ g[k] \in Int /\ j \in Int /\ k \in Int
        BY <1>2, <2>1
      <3>2. g[j] # g[k] /\ ~(g[k] < g[j])
        BY <1>1, <1>6, <2>1, <3>1
      <3>. QED
        BY <3>1, <3>2
    <2>. QED
      BY <1>1, <2>1, <2>2
  <1>. QED
    BY <1>3, <1>4, <1>5, <1>6 DEF SameWords

(* ... and transitive.                                                     *)
LEMMA SameWordsTransitive ==
  ASSUME NEW r, NEW s, NEW t, SameWords(r, s), SameWords(s, t)
  PROVE  SameWords(r, t)
  <1>1. PICK f \in [Letters(r) -> Letters(s)] :
          /\ \A l \in Letters(s) : \E k \in Letters(r) : f[k] = l
          /\ \A k \in Letters(r) : ToLower(r)[k] = ToLower(s)[f[k]]
          /\ \A j, k \in Letters(r) : j < k => /\ f[j] < f[k]
                                               /\ Apart(r, j, k) <=> Apart(s, f[j], f[k])
    BY DEF SameWords
  <1>2. PICK g \in [Letters(s) -> Letters(t)] :
          /\ \A l \in Letters(t) : \E k \in Letters(s) : g[k] = l
          /\ \A k \in Letters(s) : ToLower(s)[k] = ToLower(t)[g[k]]
          /\ \A j, k \in Letters(s) : j < k => /\ g[j] < g[k]
                                               /\ Apart(s, j, k) <=> Apart(t, g[j], g[k])
    BY DEF SameWords
  <1>. DEFINE h == [k \in Letters(r) |-> g[f[k]]]
  <1>3. /\ h \in [Letters(r) -> Letters(t)]
        /\ \A k \in Letters(r) : f[k] \in Letters(s) /\ h[k] = g[f[k]]
    OBVIOUS
  <1>. HIDE DEF h
  <1>4. \A l \in Letters(t) : \E k \in Letters(r) : h[k] = l
    BY <1>1, <1>2, <1>3
  <1>5. \A k \in Letters(r) : ToLower(r)[k] = ToLower(t)[h[k]]
    BY <1>1, <1>2, <1>3
  <1>6. \A j, k \in Letters(r) : j < k => /\ h[j] < h[k]
                                          /\ Apart(r, j, k) <=> Apart(t, h[j], h[k])
    BY <1>1, <1>2, <1>3
  <1>. QED
    BY <1>3, <1>4, <1>5, <1>6 DEF SameWords

(* What normal texts consist of, and what follows what in them.            *)
LEMMA NormalFacts ==
  ASSUME NEW w, Normal(w)
  PROVE  /\ w \in Seq(Lowered \cup {Space}) /\ Len(w) \in Nat
         /\ Letters(w) \subseteq 1..Len(w)
         /\ \A i \in 1..Len(w) : i \in Letters(w) <=> w[i] # Space
         /\ Len(w) > 0 => 1 \in Letters(w) /\ Len(w) \in Letters(w)
         /\ \A i \in 1..Len(w) - 1 : i \in Letters(w) \/ i + 1 \in Letters(w)
         /\ \A i \in Letters(w) : ToLower(w)[i] = w[i]
  <1>1. w \in Seq(Lowered \cup {Space}) /\ Len(w) \in Nat /\ Letters(w) \subseteq 1..Len(w)
    BY DEF Normal, Tidy, Letters
  <1>2. ASSUME NEW i \in 1..Len(w)
        PROVE  i \in Letters(w) <=> w[i] # Space
    <2>1. w[i] \in Lowered \/ w[i] = Space
      BY <1>1
    <2>2. w[i] \in Lowered => IsLetter(w[i])
      BY LetterFacts DEF Lowered, IsLetter
    <2>. QED
      BY <1>1, <2>1, <2>2, LetterFacts DEF Letters
  <1>3. ASSUME NEW i \in Letters(w)
        PROVE  ToLower(w)[i] = w[i]
    <2>1. w[i] \in Lowered \/ w[i] = Space
      BY <1>1
    <2>2. w[i] \in Lowered /\ IsLetter(w[i])
      BY <2>1, LetterFacts DEF Letters
    <2>3. LowerOf[w[i]] = w[i]
      BY <2>2, LetterFacts DEF Lowered, IsLetter
    <2>. QED
      BY <1>1, <2>2, <2>3 DEF ToLower, Letters
  <1>4. Len(w) > 0 => 1 \in Letters(w) /\ Len(w) \in Letters(w)
    <2>1. Len(w) > 0 => w # <<>> /\ 1 \in 1..Len(w) /\ Len(w) \in 1..Len(w)
      BY <1>1
    <2>. QED
      BY <1>2, <2>1 DEF Normal, Tidy
  <1>5. \A i \in 1..Len(w) - 1 : i \in Letters(w) \/ i + 1 \in Letters(w)
    <2>1. \A i \in 1..Len(w) - 1 : i \in 1..Len(w) /\ i + 1 \in 1..Len(w)
      BY <1>1
    <2>. QED
      BY <1>2, <2>1 DEF Normal, Tidy
  <1>. QED
    BY <1>1, <1>2, <1>3, <1>4, <1>5

(* A normal text is a beginning of every normal text of the same words:    *)
(* rune by rune, the letters are matched with themselves.                  *)
LEMMA NormalPrefix ==
  ASSUME NEW w, NEW v, Normal(w), Normal(v), SameWords(w, v)
  PROVE  Len(w) <= Len(v) /\ \A i \in 1..Len(w) : w[i] = v[i]
  <1>1. PICK f \in [Letters(w) -> Letters(v)] :
          /\ \A l \in Letters(v) : \E k \in Letters(w) : f[k] = l
          /\ \A k \in Letters(w) : ToLower(w)[k] = ToLower(v)[f[k]]
          /\ \A j, k \in Letters(w) : j < k => /\ f[j] < f[k]
                                               /\ Apart(w, j, k) <=> Apart(v, f[j], f[k])
    BY DEF SameWords
  <1>2. /\ Len(w) \in Nat
        /\ Letters(w) \subseteq 1..Len(w)
        /\ \A i \in 1..Len(w) : i \in Letters(w) <=> w[i] # Space
        /\ Len(w) > 0 => 1 \in Letters(w) /\ Len(w) \in Letters(w)
        /\ \A i \in 1..Len(w) - 1 : i \in Letters(w) \/ i + 1 \in Letters(w)
    BY NormalFacts
  <1>3. /\ Len(v) \in Nat
        /\ Letters(v) \subseteq 1..Len(v)
        /\ \A i \in 1..Len(v) : i \in Letters(v) <=> v[i] # Space
        /\ Len(v) > 0 => 1 \in Letters(v)
        /\ \A i \in 1..Len(v) - 1 : i \in Letters(v) \/ i + 1 \in Letters(v)
    BY NormalFacts
  <1>4. \A k \in Letters(w) : f[k] \in Letters(v) /\ v[f[k]] = w[k] /\ f[k] \in 1..Len(v)
    BY <1>1, <1>3, NormalFacts
  <1>. DEFINE Agree(k) == k <= Len(v) /\ \A i \in 1..k : /\ w[i] = v[i]
                                                         /\ i \in Letters(w) => f[i] = i
              I == {k \in Nat : k <= Len(w) => Agree(k)}
  <1>5. 0 \in I
    BY <1>3
  <1>6. ASSUME NEW k \in Nat, k \in I  PROVE k + 1 \in I
    <2> SUFFICES ASSUME k + 1 <= Len(w)  PROVE Agree(k + 1)
      OBVIOUS
    <2>1. k <= Len(v) /\ \A i \in 1..k : w[i] = v[i] /\ (i \in Letters(w) => f[i] = i)
      BY <1>2, <1>6
    <2>. HIDE DEF I
    <2>2. ASSUME k + 1 \in Letters(v)
          PROVE  \E j \in Letters(w) : j > k /\ f[j] = k + 1
      <3>1. PICK j \in Letters(w) : f[j] = k + 1
        BY <1>1, <2>2
      <3>2. j \in 1..Len(w) /\ ~(j \in 1..k)
        BY <1>2, <2>1, <3>1
      <3>. QED
        BY <3>1, <3>2
    <2>3. CASE k + 1 \in Letters(w)
      <3>1. f[k + 1] \in Letters(v) /\ f[k + 1] \in 1..Len(v) /\ v[f[k + 1]] = w[k + 1]
        BY <1>4, <2>3
      <3>2. f[k + 1] > k
        <4>1. ASSUME NEW j \in Letters(w), j < k + 1  PROVE f[j] = j /\ f[k + 1] > j
          <5>1. j \in 1..k /\ f[j] = j
            BY <1>2, <2>1, <4>1
          <5>. QED
            BY <1>1, <2>3, <4>1, <5>1
        <4>2. CASE k = 0
          BY <3>1, <4>2
        <4>3. CASE k > 0 /\ k \in Letters(w)
          BY <4>1, <4>3
        <4>4. CASE k > 0 /\ k \notin Letters(w)
          <5>1. k > 1 /\ k - 1 \in Letters(w)
            <6>1. k # 1
              BY <1>2, <4>4
            <6>2. k - 1 \in 1..Len(w) - 1 /\ (k - 1) + 1 = k
              BY <1>2, <4>4, <6>1
            <6>. QED
              BY <1>2, <4>4, <6>1, <6>2
          <5>2. f[k + 1] > k - 1
            BY <4>1, <5>1
          <5>3. w[k] = Space /\ v[k] = Space
            BY <1>2, <2>1, <4>4
          <5>4. k \in 1..Len(v) /\ k \notin Letters(v)
            BY <1>3, <2>1, <4>4, <5>3
          <5>. QED
            BY <3>1, <5>2, <5>4
        <4>. QED
          BY <4>2, <4>3, <4>4
      <3>3. k + 1 \in 1..Len(v)
        BY <1>3, <3>1, <3>2
      <3>4. k + 1 \in Letters(v)
        <4>1. CASE k = 0
          BY <1>3, <3>3, <4>1
        <4>2. CASE k > 0 /\ k \notin Letters(v)
          <5>1. k \in 1..Len(v) - 1
            BY <1>3, <3>3, <4>2
          <5>. QED
            BY <1>3, <4>2, <5>1
        <4>3. CASE k > 0 /\ k \in Letters(v)
          <5>1. k \in 1..Len(w) /\ k \in 1..k /\ k \in 1..Len(v)
            BY <1>2, <1>3, <2>1, <4>3
          <5>2. w[k] # Space /\ w[k + 1] # Space
            BY <1>2, <1>3, <2>1, <2>3, <4>3, <5>1
          <5>3. k \in Letters(w) /\ f[k] = k
            BY <1>2, <2>1, <5>1, <5>2
          <5>4. ~Apart(w, k, k + 1)
            BY <5>1, <5>2 DEF Apart
          <5>5. ~Apart(v, k, f[k + 1])
            BY <1>1, <2>3, <5>3, <5>4
          <5>6. k + 1 \in k..f[k + 1]
            BY <3>1, <3>2
          <5>. QED
            BY <1>3, <3>3, <5>5, <5>6 DEF Apart
        <4>. QED
          BY <4>1, <4>2, <4>3
      <3>5. PICK j \in Letters(w) : j > k /\ f[j] = k + 1
        BY <2>2, <3>4
      <3>6. f[k + 1] = k + 1
        <4>1. j \in 1..Len(w) /\ (j > k + 1 => f[k + 1] < f[j])
          BY <1>1, <1>2, <2>3, <3>5
        <4>. QED
          BY <3>1, <3>2, <3>5, <4>1
      <3>. QED
        BY <1>3, <2>1, <3>1, <3>3, <3>6
    <2>4. CASE k + 1 \notin Letters(w)
      <3>1. k > 0 /\ k + 1 < Len(w)
        BY <1>2, <2>4
      <3>2. k \in Letters(w) /\ k + 2 \in Letters(w) /\ w[k + 1] = Space
        <4>1. k \in 1..Len(w) - 1 /\ k + 1 \in 1..Len(w) - 1 /\ (k + 1) + 1 = k + 2
          BY <1>2, <3>1
        <4>. QED
          BY <1>2, <2>4, <4>1
      <3>3. f[k] = k /\ f[k + 2] > k /\ f[k + 2] \in 1..Len(v)
        <4>1. k \in 1..k
          BY <3>1
        <4>. QED
          BY <1>1, <1>4, <2>1, <3>2, <4>1
      <3>4. Apart(v, k, f[k + 2])
        <4>1. k + 1 \in k..k + 2 /\ k < k + 2
          OBVIOUS
        <4>2. Apart(w, k, k + 2)
          BY <3>2, <4>1 DEF Apart
        <4>. QED
          BY <1>1, <3>2, <3>3, <4>1, <4>2
      <3>5. k + 1 \in 1..Len(v)
        BY <1>3, <3>3
      <3>6. v[k] # Space
        <4>1. k \in 1..k /\ k \in 1..Len(w)
          BY <1>2, <3>1
        <4>. QED
          BY <1>2, <2>1, <3>2, <4>1
      <3>7. v[k + 1] = Space
        <4> SUFFICES ASSUME v[k + 1] # Space  PROVE FALSE
          OBVIOUS
        <4>1. k + 1 \in Letters(v)
          BY <1>3, <3>5
        <4>2. PICK j \in Letters(w) : j > k /\ f[j] = k + 1
          BY <2>2, <4>1
        <4>3. j \in 1..Len(w) /\ j # k + 1
          BY <1>2, <2>4, <4>2
        <4>4. f[k + 2] <= k + 1
          <5>1. CASE j = k + 2
            BY <3>3, <4>2, <5>1
          <5>2. CASE j > k + 2
            <6>1. f[k + 2] < f[j]
              BY <1>1, <3>2, <5>2
            <6>. QED
              BY <3>3, <4>2, <6>1
          <5>. QED
            BY <4>2, <4>3, <5>1, <5>2
        <4>5. f[k + 2] = k + 1
          BY <3>3, <4>4
        <4>6. \A i \in k..k + 1 : i = k \/ i = k + 1
          OBVIOUS
        <4>. QED
          BY <3>4, <3>6, <4>5, <4>6 DEF Apart
      <3>. QED
        BY <1>3, <2>1, <2>4, <3>2, <3>5, <3>7
    <2>. QED
      BY <2>3, <2>4
  <1>7. Agree(Len(w))
    <2>. HIDE DEF I
    <2>1. Len(w) \in I
      BY <1>2, <1>5, <1>6, SetInduction
    <2>. QED
      BY <1>2, <2>1 DEF I
  <1>. QED
    BY <1>7

(* Normal texts of the same words are the same.                            *)
LEMMA NormalIsUnique ==
  ASSUME NEW w, NEW v, Normal(w), Normal(v), SameWords(w, v)
  PROVE  w = v
  <1>1. w \in Seq(Lowered \cup {Space}) /\ v \in Seq(Lowered \cup {Space})
    BY DEF Normal, Tidy
  <1>2. SameWords(v, w)
    BY <1>1, SameWordsSymmetric
  <1>3. Len(w) <= Len(v) /\ Len(v) <= Len(w) /\ \A i \in 1..Len(w) : w[i] = v[i]
    BY <1>2, NormalPrefix
  <1>4. Len(w) = Len(v)
    BY <1>1, <1>3
  <1>. QED
    BY <1>1, <1>3, <1>4

(* Two titles have one normal form iff they consist of the same words.     *)
LEMMA NormalFormOfWords ==
  ASSUME NEW S, NEW s \in Seq(S), NEW t \in Seq(S)
  PROVE  NormalizeTitle(s) = NormalizeTitle(t) <=> SameWords(s, t)
  <1>. DEFINE w == NormalizeTitle(s)
              v == NormalizeTitle(t)
              R == S \cup Lowered \cup {Space}
  <1>1. Normal(w) /\ Normal(v) /\ SameWords(s, w) /\ SameWords(t, v)
    BY NormalizeKeepsWords
  <1>2. s \in Seq(R) /\ t \in Seq(R) /\ w \in Seq(R) /\ v \in Seq(R)
    BY <1>1 DEF Normal, Tidy
  <1>. HIDE DEF w, v, R
  <1>3. SameWords(w, s) /\ SameWords(v, t)
    BY <1>1, <1>2, SameWordsSymmetric
  <1>4. w = v => SameWords(s, t)
    BY <1>1, <1>3, SameWordsTransitive
  <1>5. ASSUME SameWords(s, t)  PROVE w = v
    <2>1. SameWords(w, v)
      BY <1>1, <1>3, <1>5, SameWordsTransitive
    <2>. QED
      BY <1>1, <2>1, NormalIsUnique
  <1>. QED
    BY <1>4, <1>5 DEF w, v

(* What is left of a text without the white space around it.               *)
LEMMA TrimType ==
  ASSUME NEW S, NEW s \in Seq(S)
  PROVE  /\ TrimSpace(s) \in Seq(S)
         /\ s # <<>> /\ s[1] # Space /\ s[Len(s)] # Space => TrimSpace(s) = s
  <1>. DEFINE kept == {k \in DOMAIN s : s[k] # Space}
  <1>1. kept \subseteq 1..Len(s) /\ Len(s) \in Nat
    OBVIOUS
  <1>2. CASE kept = {}
    <2>1. s # <<>> => s[1] = Space
      BY <1>2
    <2>. QED
      BY <1>2, <2>1 DEF TrimSpace
  <1>3. CASE kept # {}
    <2>1. 1 \in kept /\ Len(s) \in kept <=> s # <<>> /\ s[1] # Space /\ s[Len(s)] # Space
      BY <1>1
    <2>. DEFINE from == Min(kept)
                to == Max(kept)
    <2>2. TrimSpace(s) = SubSeq(s, from, to)
      BY <1>3 DEF TrimSpace
    <2>. HIDE DEF kept
    <2>3. from \in kept /\ \A k \in kept : from <= k
      <3>1. kept \subseteq Nat
        BY <1>1
      <3>. QED
        BY <1>3, <3>1, MinIsLeast
    <2>4. to \in kept /\ \A k \in kept : k <= to
      <3>1. kept \subseteq 0..Len(s)
        BY <1>1
      <3>. QED
        BY <1>1, <1>3, <3>1, MaxIsGreatest
    <2>. HIDE DEF from, to
    <2>5. from \in 1..Len(s) /\ to \in 1..Len(s)
      BY <1>1, <2>3, <2>4
    <2>6. TrimSpace(s) \in Seq(S)
      BY <1>1, <2>2, <2>5
    <2>7. 1 \in kept /\ Len(s) \in kept => from = 1 /\ to = Len(s)
      BY <1>1, <2>3, <2>4, <2>5
    <2>8. SubSeq(s, 1, Len(s)) = s
      OBVIOUS
    <2>. QED
      BY <2>1, <2>2, <2>6, <2>7, <2>8
  <1>. QED
    BY <1>2, <1>3

(* The summary of a note is a text.                                        *)
LEMMA SummaryType ==
  ASSUME NEW S, NEW s \in Seq(S)
  PROVE  SplitKind(s).summary \in Seq(S)
  <1>1. CASE Cuts(s) = {}
    BY <1>1 DEF SplitKind
  <1>2. CASE Cuts(s) # {}
    <2>1. Cuts(s) \subseteq Nat
      BY DEF Cuts
    <2>2. PICK k : k = Min(Cuts(s))
      OBVIOUS
    <2>3. k \in Cuts(s)
      BY <1>2, <2>1, <2>2, MinIsLeast
    <2>4. k \in 1..Len(s) - 1
      BY <2>3 DEF Cuts
    <2>5. SubSeq(s, k + 2, Len(s)) \in Seq(S)
      BY <2>4
    <2>6. SplitKind(s).summary = TrimSpace(SubSeq(s, k + 2, Len(s)))
      BY <1>2, <2>2 DEF SplitKind, Split
    <2>. QED
      BY <2>5, <2>6, TrimType
  <1>. QED
    BY <1>1, <1>2

(* A content and what Graft may have shortened it to.                      *)
LEMMA ShownText ==
  ASSUME NEW c \in Contents, NEW shown \in {c, HashContent(c)}
  PROVE  /\ shown \in Seq(STRING) /\ shown # <<>> /\ shown[1] # Space
         /\ HashContent(shown) = HashContent(c)
         /\ c # <<>> /\ HashContent(c) # <<>> /\ c \in Seq(STRING) /\ HashContent(c) \in Seq(STRING)
  <1>1. c \in Seq(STRING) /\ c # <<>> /\ c[1] # Space /\ HashRunes \in Nat /\ HashRunes > 0
    BY TextAssumption
  <1>2. CASE Len(c) <= HashRunes
    BY <1>1, <1>2 DEF HashContent, TruncateRunes
  <1>3. CASE ~(Len(c) <= HashRunes)
    <2>1. HashContent(c) = SubSeq(c, 1, HashRunes)
      BY <1>3 DEF HashContent, TruncateRunes
    <2>2. /\ HashContent(c) \in Seq(STRING) /\ Len(HashContent(c)) = HashRunes
          /\ HashContent(c)[1] = c[1]
      BY <1>1, <1>3, <2>1
    <2>3. HashContent(HashContent(c)) = HashContent(c)
      BY <1>1, <2>2 DEF HashContent, TruncateRunes
    <2>. QED
      BY <1>1, <2>2, <2>3
  <1>. QED
    BY <1>2, <1>3

(* A text after another.                                                   *)
LEMMA After ==
  ASSUME NEW S, NEW p \in Seq(S), NEW t \in Seq(S)
  PROVE  /\ p \o t \in Seq(S) /\ Len(p \o t) = Len(p) + Len(t)
         /\ \A i \in 1..Len(p) : (p \o t)[i] = p[i]
         /\ SubSeq(p \o t, Len(p) + 1, Len(p \o t)) = t
  <1>1. p \o t \in Seq(S) /\ Len(p \o t) = Len(p) + Len(t) /\ Len(t) \in Nat /\ Len(p) \in Nat
    OBVIOUS
  <1>2. ASSUME NEW i \in 1..Len(p)  PROVE (p \o t)[i] = p[i]
    OBVIOUS
  <1>3. ASSUME NEW i \in 1..Len(t)  PROVE (p \o t)[i + Len(p)] = t[i]
    OBVIOUS
  <1>4. SubSeq(p \o t, Len(p) + 1, Len(p \o t)) = t
    <2>1. PICK s : s = p \o t
      OBVIOUS
    <2>2. PICK q : q = SubSeq(s, Len(p) + 1, Len(s))
      OBVIOUS
    <2>3. q \in Seq(S) /\ Len(q) = Len(t) /\ \A i \in 1..Len(t) : q[i] = t[i]
      BY <1>1, <1>3, <2>1, <2>2
    <2>. QED
      BY <2>1, <2>2, <2>3
  <1>. QED
    BY <1>1, <1>2, <1>4

(* A text of one rune.                                                     *)
LEMMA OneRune ==
  ASSUME NEW a
  PROVE  <<a>> \in Seq({a}) /\ <<a>> # <<>> /\ <<a>>[1] = a /\ Len(<<a>>) = 1
  OBVIOUS

(* What Graft puts before a comment.                                       *)
CommentPrefix == <<"comment", ":", Space>>

(* It is a text of three runes ...                                         *)
LEMMA PrefixText ==
  /\ CommentPrefix \in Seq({"comment", ":", Space}) /\ Len(CommentPrefix) = 3
  /\ CommentPrefix[1] = "comment" /\ CommentPrefix[2] = ":" /\ CommentPrefix[3] = Space
  <1>1. PICK a, b, c : a = "comment" /\ b = ":" /\ c = Space
    OBVIOUS
  <1>2. PICK p : p = <<a, b, c>>
    OBVIOUS
  <1>3. p \in Seq({a, b, c}) /\ Len(p) = 3 /\ p[1] = a /\ p[2] = b /\ p[3] = c
    BY <1>2
  <1>. QED
    BY <1>1, <1>2, <1>3 DEF CommentPrefix

(* ... and the text after it stays as it is.                               *)
LEMMA PrefixedText ==
  ASSUME NEW S, NEW t \in Seq(S)
  PROVE  /\ CommentPrefix \o t \in Seq(S \cup {"comment", ":", Space}) /\ Len(CommentPrefix \o t) = 3 + Len(t)
         /\ (CommentPrefix \o t)[1] = "comment" /\ (CommentPrefix \o t)[2] = ":" /\ (CommentPrefix \o t)[3] = Space
         /\ SubSeq(CommentPrefix \o t, 4, Len(CommentPrefix \o t)) = t
         /\ SubSeq(CommentPrefix \o t, 1, 1) = <<"comment">>
  <1>1. PICK R : R = S \cup {"comment", ":", Space}
    OBVIOUS
  <1>2. t \in Seq(R) /\ CommentPrefix \in Seq(R)
    BY <1>1, PrefixText
  <1>3. PICK s : s = CommentPrefix \o t
    OBVIOUS
  <1>4. /\ s \in Seq(R) /\ Len(s) = Len(CommentPrefix) + Len(t)
        /\ \A i \in 1..Len(CommentPrefix) : s[i] = CommentPrefix[i]
        /\ SubSeq(s, Len(CommentPrefix) + 1, Len(s)) = t
    BY <1>2, <1>3, After
  <1>5. SubSeq(s, 1, 1) = <<"comment">>
    <2>1. PICK a : a = "comment"
      OBVIOUS
    <2>2. a \in R /\ s[1] = a /\ Len(s) \in Nat /\ Len(s) >= 3
      BY <1>1, <1>2, <1>4, <2>1, PrefixText
    <2>3. PICK q : q = SubSeq(s, 1, 1)
      OBVIOUS
    <2>4. q \in Seq(R) /\ Len(q) = 1 /\ q[1] = a
      BY <1>4, <2>2, <2>3
    <2>5. PICK o : o = <<a>>
      OBVIOUS
    <2>6. o \in Seq(R) /\ Len(o) = 1 /\ o[1] = a
      BY <2>2, <2>5
    <2>7. q = o
      BY <2>4, <2>6
    <2>. QED
      BY <2>1, <2>3, <2>5, <2>7
  <1>. QED
    BY <1>1, <1>3, <1>4, <1>5, PrefixText

(* splitKind cuts a comment after Graft's prefix, whatever separators the  *)
(* text itself has.                                                        *)
LEMMA SplitComment ==
  ASSUME NEW S, NEW t \in Seq(S), t # <<>>, t[1] # Space, t[Len(t)] # Space
  PROVE  SplitKind(CommentPrefix \o t) = [kind |-> <<"comment">>, summary |-> t]
  <1>1. PICK s : s = CommentPrefix \o t
    OBVIOUS
  <1>2. /\ s \in Seq(S \cup {"comment", ":", Space}) /\ Len(s) = 3 + Len(t)
        /\ Len(t) \in Nat /\ Len(t) > 0
        /\ s[1] = "comment" /\ s[2] = ":" /\ s[3] = Space
        /\ SubSeq(s, 1, 1) = <<"comment">>
        /\ SubSeq(s, 4, Len(s)) = t
    <2>1. Len(t) \in Nat /\ Len(t) > 0
      OBVIOUS
    <2>2. s \in Seq(S \cup {"comment", ":", Space}) /\ Len(s) = 3 + Len(t)
      BY <1>1, PrefixedText
    <2>3. /\ s[1] = "comment" /\ s[2] = ":" /\ s[3] = Space
      BY <1>1, PrefixedText
    <2>4. /\ SubSeq(s, 1, 1) = <<"comment">>
          /\ SubSeq(s, 4, Len(s)) = t
      BY <1>1, PrefixedText
    <2>. QED
      BY <2>1, <2>2, <2>3, <2>4
  <1>3. 2 \in Cuts(s) /\ 1 \notin Cuts(s) /\ Cuts(s) \subseteq Nat \ {0}
    BY <1>2 DEF Cuts
  <1>4. Min(Cuts(s)) = 2
    <2>1. Cuts(s) \subseteq Nat /\ Cuts(s) # {}
      BY <1>3
    <2>2. Min(Cuts(s)) \in Cuts(s) /\ Min(Cuts(s)) <= 2
      BY <1>3, <2>1, MinIsLeast
    <2>. QED
      BY <1>3, <2>2
  <1>5. SplitKind(s) = Split(s, 2)
    BY <1>3, <1>4 DEF SplitKind
  <1>6. SubSeq(s, 1, 2 - 1) = <<"comment">>
    BY <1>2
  <1>7. SubSeq(s, 2 + 2, Len(s)) = t
    BY <1>2
  <1>8. TrimSpace(<<"comment">>) = <<"comment">>
    <2>1. PICK a : a = "comment"
      OBVIOUS
    <2>2. a # Space
      BY <2>1 DEF Space
    <2>3. PICK q : q = <<a>>
      OBVIOUS
    <2>4. q \in Seq({a}) /\ q # <<>> /\ q[1] = a /\ Len(q) = 1
      BY <2>3, OneRune
    <2>5. TrimSpace(q) = q
      BY <2>2, <2>4, TrimType
    <2>. QED
      BY <2>1, <2>3, <2>5
  <1>9. KindOf(<<"comment">>) = <<"comment">>
    <2>1. <<"comment">> # <<"Commit">>
      OBVIOUS
    <2>2. IsLetter("comment") /\ LowerOf["comment"] = "comment"
      BY DEF IsLetter, LowerOf
    <2>3. ToLower(<<"comment">>) = <<"comment">>
      BY <2>2 DEF ToLower
    <2>. QED
      BY <2>1, <2>3 DEF KindOf
  <1>10. TrimSpace(t) = t
    BY TrimType
  <1>11. SplitKind(s) = [kind |-> <<"comment">>, summary |-> t]
    BY <1>5, <1>6, <1>7, <1>8, <1>9, <1>10 DEF Split
  <1>. QED
    BY <1>1, <1>11

-----------------------------------------------------------------------------
(* What Graft published, and what the bridge read of it. *)

(* The comments are those the bridge sent, whole or shortened, each under  *)
(* its number.                                                             *)
Numbered == \A i \in DOMAIN comments :
              \E s \in Series, c \in Contents : \E shown \in {c, HashContent(c)} :
                comments[i] = Comment(i - 1, s, c, shown)

(* What was read was published.                                            *)
ReadInv == \A k \in DOMAIN read :
             \E item \in Range(IssueItems) \cup Range(comments) : read[k] = Note(item)

TextInv == Numbered /\ ReadInv

(* ParseNotes keeps items of the outbox.                                   *)
LEMMA NotesOfItems ==
  ASSUME Inv, NEW s, NEW k \in DOMAIN ParseNotes(Host, Items(s))
  PROVE  \E item \in Range(IssueItems) \cup Range(comments) :
           ParseNotes(Host, Items(s))[k] = Note(item)
  <1>. DEFINE all == IssueItems \o comments
  <1>1. IssueItems \in Seq(Range(IssueItems)) /\ comments \in Seq(Comments)
    BY TextAssumption DEF Inv, Typed
  <1>2. k \in DOMAIN Items(s) /\ ParseNotes(Host, Items(s))[k] = Note(Items(s)[k])
    BY DEF ParseNotes
  <1>3. k \in DOMAIN all /\ Items(s)[k] = all[k]
    BY <1>2 DEF Items, Restrict
  <1>4. \/ k \in DOMAIN IssueItems /\ all[k] = IssueItems[k]
        \/ \E i \in DOMAIN comments : all[k] = comments[i]
    <2>1. Len(IssueItems) \in Nat /\ Len(comments) \in Nat
      BY <1>1
    <2>2. k \in 1..Len(IssueItems) + Len(comments)
      BY <1>1, <1>3
    <2>3. CASE k <= Len(IssueItems)
      BY <1>1, <2>1, <2>2, <2>3
    <2>4. CASE k > Len(IssueItems)
      <3>1. k - Len(IssueItems) \in DOMAIN comments /\ all[k] = comments[k - Len(IssueItems)]
        BY <1>1, <2>1, <2>2, <2>4
      <3>. QED
        BY <3>1
    <2>. QED
      BY <2>1, <2>2, <2>3, <2>4
  <1>5. all[k] \in Range(IssueItems) \cup Range(comments)
    BY <1>4 DEF Range
  <1>. QED
    BY <1>2, <1>3, <1>5

(* Every step keeps the texts.                                             *)
LEMMA TextStep ==
  ASSUME Inv, TextInv, [Next]_vars
  PROVE  TextInv'
  <1>1. /\ comments \in Seq(Comments) /\ Len(comments) \in Nat
        /\ DOMAIN comments = 1..Len(comments)
    BY DEF Inv, Typed
  <1>2. \/ comments' = comments
        \/ \E s \in Series, c \in Contents : \E shown \in {c, HashContent(c)} :
             comments' = Append(comments, Comment(Len(comments), s, c, shown))
    <2>1. (pc = "wait" /\ \E delay \in Delays : Effect(delay)) \/ comments' = comments
      BY DEF Next, Answer, Outbox, ReplyToIssue, LatestPosts, CreatePost, Call, Connect,
             Deliver, Redirect, Fails, Down, Succeeds, Lost, vars
    <2>. QED
      BY <2>1, EffectStep
  <1>3. /\ Numbered'
        /\ Range(comments) \subseteq Range(comments')
    <2>1. CASE comments' = comments
      BY <2>1 DEF TextInv, Numbered, Comment
    <2>2. CASE comments' # comments
      <3>1. PICK s \in Series, c \in Contents : \E shown \in {c, HashContent(c)} :
              comments' = Append(comments, Comment(Len(comments), s, c, shown))
        BY <1>2, <2>2
      <3>2. PICK shown \in {c, HashContent(c)} :
              comments' = Append(comments, Comment(Len(comments), s, c, shown))
        BY <3>1
      <3>3. /\ DOMAIN comments' = 1..Len(comments) + 1
            /\ comments'[Len(comments) + 1] = Comment(Len(comments), s, c, shown)
            /\ \A i \in DOMAIN comments : comments'[i] = comments[i]
        BY <1>1, <3>2
      <3>4. Len(comments) = (Len(comments) + 1) - 1
        BY <1>1
      <3>5. ASSUME NEW i \in DOMAIN comments'
            PROVE  \E x \in Series, y \in Contents : \E z \in {y, HashContent(y)} :
                     comments'[i] = Comment(i - 1, x, y, z)
        BY <1>1, <3>2, <3>3, <3>4, <3>5 DEF TextInv, Numbered
      <3>6. Numbered'
        BY <3>5 DEF Numbered, Comment
      <3>7. Range(comments) \subseteq Range(comments')
        BY <1>1, <3>3 DEF Range
      <3>. QED
        BY <3>6, <3>7
    <2>. QED
      BY <2>1, <2>2
  <1>4. \/ read' = read
        \/ read' = <<>>
        \/ \E s : read' = ParseNotes(Host, Items(s))
    BY DEF Next, Answer, Outbox, ReplyToIssue, LatestPosts, CreatePost, Call, Connect,
           Deliver, Redirect, Fails, Down, Succeeds, Lost, vars, callVars
  <1>5. ReadInv'
    <2>1. ASSUME NEW k \in DOMAIN read'
          PROVE  \E item \in Range(IssueItems) \cup Range(comments) : read'[k] = Note(item)
      <3>1. CASE read' = read
        BY <2>1, <3>1 DEF TextInv, ReadInv
      <3>2. CASE read' = <<>>
        BY <2>1, <3>2
      <3>3. CASE \E s : read' = ParseNotes(Host, Items(s))
        BY <2>1, <3>3, NotesOfItems
      <3>. QED
        BY <1>4, <3>1, <3>2, <3>3
    <2>. QED
      BY <1>3, <2>1 DEF ReadInv
  <1>. QED
    BY <1>3, <1>5 DEF TextInv

(* Spec keeps the texts.                                                   *)
LEMMA TextInvariance == Spec => []TextInv
  <1>1. Init => TextInv
    BY DEF Init, TextInv, Numbered, ReadInv
  <1>. QED
    BY <1>1, TextStep, Invariance, PTL DEF Spec

-----------------------------------------------------------------------------
(* What the bridge sends, where, and what becomes of it. *)

(* client.go: every variable is of its type, the key is a flag of a request*)
(* under way, Graft takes no more comments than there were replies.        *)
THEOREM TypeCorrect == Spec => []TypeOK
  <1>1. Inv => TypeOK
    BY DEF Inv
  <1>. QED
    BY <1>1, Invariance, PTL

(* netguard.go, dial: the Graft client is never connected to an address    *)
(* that is not public, for every resolver, redirect and actor document.    *)
THEOREM GraftIsPublic == Spec => []DialsPublicOnly
  <1>1. Inv => DialsPublicOnly
    BY DEF Inv, DialInv, DialsPublicOnly, Client, Policy, IpAllowed, GraftPolicy
  <1>. QED
    BY <1>1, Invariance, PTL

(* client.go of Discourse: the API key is sent to the configured forum     *)
(* only, over every chain of redirects.                                    *)
THEOREM KeyIsSafe == Spec => []KeyStaysHome
  <1>1. Inv => KeyStaysHome
    BY DEF Inv, TypeOK, KeyInv, KeyStaysHome, Underway
  <1>. QED
    BY <1>1, Invariance, PTL

(* config.go, checkScheme, and netguard.go, Validate: plain HTTP is spoken *)
(* to Discourse alone, and only when the operator allowed it.              *)
THEOREM NoPlainText == Spec => []NothingInTheClear
  <1>1. ASSUME Inv, pc = "wait", req.url.scheme = "http"
        PROVE  Client = "discourse" /\ config.insecure
    <2>1. Policy.allowHTTP
      BY <1>1 DEF Inv, TypeOK, SchemeInv, Underway
    <2>. QED
      BY <2>1 DEF Policy, GraftPolicy, DiscoursePolicy, Client
  <1>2. Inv => NothingInTheClear
    BY <1>1 DEF NothingInTheClear
  <1>. QED
    BY <1>2, Invariance, PTL

(* sign.go: what SignRequest made is accepted at the inbox it was made for,*)
(* while its clock, when the request gets there, is within the window that *)
(* VerifyRequest allows, less the second the Date header may lack.         *)
THEOREM OwnSignaturesVerify == Spec => []HonestIsAccepted
  <1>1. ASSUME Inv, pc = "wait", AtInbox, req.method = "POST", req.url = first,
               NEW delay \in Delays, delay + skew \in -MaxClockSkew .. MaxClockSkew - Second
        PROVE  Accepted(delay)
    <2>1. Underway /\ first \in Urls /\ first.host # Forum
      BY <1>1, WireAssumption DEF Inv, TypeOK, Underway, AtInbox
    <2>2. op.kind = "reply" /\ op.content \in Contents
      BY <1>1, <2>1 DEF Inv, KeyInv, Typed, Ops, Kinds, SignInv
    <2>3. op.kind = "reply" /\ op.content \in Contents /\ op.at \in Moments
      BY <1>1, <2>1, <2>2 DEF Inv, SignInv
    <2>4. op.at \in Int /\ delay \in Int /\ skew \in Int
      <3>1. skew \in Skews
        BY <1>1 DEF Inv, TypeOK
      <3>2. /\ \A m \in Moments \cup Skews : m \in Int
            /\ \A d \in Delays : d \in Int
        BY WireAssumption
      <3>. QED
        BY <2>3, <3>1, <3>2
    <2>5. PICK r : r = Signed(first, op.content, op.at)
      OBVIOUS
    <2>6. /\ r \in Requests /\ r.url = first /\ r.body = op.content /\ r.digest = op.content
          /\ r.date = HttpDate(op.at) /\ r.sig # Absent /\ r.sig.headers = SignedHeaders
          /\ r.sig.over = BuildSigningString(SignedHeaders, r)
      BY <2>1, <2>3, <2>5, SignedTyped
    <2>7. req = [r EXCEPT !.url = first]
      BY <1>1, <2>1, <2>3, <2>5 DEF Inv, SignInv
    <2>8. req = r
      BY <2>6, <2>7 DEF Requests
    <2>9. /\ HttpDate(op.at) \in Int
          /\ HttpDate(op.at) <= op.at /\ op.at < HttpDate(op.at) + Second
      BY <2>4, DateType
    <2>10. req.date # Absent /\ req.digest # Absent
      BY <2>3, <2>6, <2>8, <2>9, AbsentAssumption
    <2>11. InWindow(HttpDate(op.at), op.at + delay + skew)
      BY <1>1, <2>9, <2>4, SignatureAssumption DEF InWindow, MaxClockSkew
    <2>12. RequiredSignedHeaders \subseteq SignedHeaders
      BY DEF RequiredSignedHeaders, SignedHeaders
    <2>13. VerifyRequest(req, op.at + delay + skew)
      BY <2>6, <2>8, <2>10, <2>11, <2>12 DEF VerifyRequest
    <2>14. ~AtForum
      BY <1>1, <2>1 DEF AtForum
    <2>. QED
      BY <2>13, <2>14 DEF Accepted
  <1>2. Inv => HonestIsAccepted
    BY <1>1 DEF HonestIsAccepted
  <1>. QED
    BY <1>2, Invariance, PTL

(* sign.go, BuildSigningString: a comment is taken only by the series whose*)
(* inbox the request was signed for, wherever it is redirected.            *)
THEOREM SignedForOneInbox == Spec => SignedForThisInbox
  <1>1. ASSUME Inv, [Next]_vars, comments' # comments
        PROVE  /\ first.host = Host
               /\ first.path = <<"inbox", Last(comments').uri.path[2]>>
    <2>1. pc = "wait" /\ \E delay \in Delays : Effect(delay)
      BY <1>1 DEF Next, Answer, Outbox, ReplyToIssue, LatestPosts, CreatePost, Call, Connect,
                  Deliver, Redirect, Fails, Down, Succeeds, Lost, vars
    <2>. QED
      BY <1>1, <2>1, EffectStep
  <1>2. Inv /\ [Next]_vars =>
          [comments' # comments =>
             /\ first.host = Host
             /\ first.path = <<"inbox", Last(comments').uri.path[2]>>]_vars
    BY <1>1
  <1>. QED
    BY <1>2, Invariance, PTL DEF Spec, SignedForThisInbox

(* bridge.go, hashContent, against note.go, splitKind: a comment the bridge*)
(* posted comes back from the outbox with the hash that was recorded for   *)
(* it, for every content and every number of runes that are hashed.        *)
THEOREM EchoesAreRecognised == Spec => []EchoRecognised
  <1>1. ASSUME Inv, TextInv, NEW k \in DOMAIN read, NEW c \in Range(comments),
               read[k].uri = c.uri, Last(c.source) # Space, Last(HashContent(c.source)) # Space
        PROVE  /\ read[k].kind = <<"comment">>
               /\ HashContent(read[k].summary) = HashContent(c.source)
    <2>1. PICK i \in DOMAIN comments : c = comments[i]
      BY DEF Range
    <2>2. PICK item \in Range(IssueItems) \cup Range(comments) : read[k] = Note(item)
      BY <1>1 DEF TextInv, ReadInv
    <2>3. /\ DOMAIN comments \subseteq Nat \ {0} /\ Len(IssueItems) \in Nat
      BY <1>1, TextAssumption DEF Inv, Typed
    <2>4. PICK s \in Series, x \in Contents : \E shown \in {x, HashContent(x)} :
            c = Comment(i - 1, s, x, shown)
      BY <1>1, <2>1 DEF TextInv, Numbered
    <2>5. PICK shown \in {x, HashContent(x)} : c = Comment(i - 1, s, x, shown)
      BY <2>4
    <2>6. /\ c.uri = NoteURI(Host, s, Len(IssueItems) + i)
          /\ c.content = CommentPrefix \o shown
          /\ c.source = x
      BY <2>3, <2>5 DEF Comment, CommentPrefix
    <2>7. item.uri = c.uri
      BY <1>1, <2>2 DEF Note
    <2>8. item \notin Range(IssueItems)
      <3>1. <<s, Len(IssueItems) + i>> \in ParseNoteURI(Host, item.uri)
        BY <2>3, <2>6, <2>7 DEF ParseNoteURI, NoteURI
      <3>2. Len(IssueItems) + i \notin 1..Len(IssueItems)
        BY <2>3
      <3>. QED
        BY <3>1, <3>2, TextAssumption
    <2>9. item = c
      <3>1. PICK j \in DOMAIN comments : item = comments[j]
        BY <2>2, <2>8 DEF Range
      <3>2. PICK y, z, w : item = Comment(j - 1, y, z, w)
        BY <1>1, <3>1 DEF TextInv, Numbered
      <3>3. item.uri.path[4] = Len(IssueItems) + j /\ c.uri.path[4] = Len(IssueItems) + i
        BY <2>3, <2>6, <3>2 DEF Comment, NoteURI
      <3>4. i = j
        BY <2>3, <2>7, <3>3
      <3>. QED
        BY <2>1, <3>1, <3>4
    <2>10. /\ shown \in Seq(STRING) /\ shown # <<>> /\ shown[1] # Space
           /\ HashContent(shown) = HashContent(x)
           /\ x # <<>> /\ HashContent(x) # <<>> /\ x \in Seq(STRING)
           /\ HashContent(x) \in Seq(STRING)
      BY ShownText
    <2>11. shown[Len(shown)] # Space
      BY <1>1, <2>6, <2>10 DEF Last
    <2>12. SplitKind(c.content) = [kind |-> <<"comment">>, summary |-> shown]
      BY <2>6, <2>10, <2>11, SplitComment
    <2>13. /\ read[k].kind = SplitKind(c.content).kind
           /\ read[k].summary = SplitKind(c.content).summary
      BY <2>2, <2>9 DEF Note
    <2>. QED
      BY <2>6, <2>10, <2>12, <2>13
  <1>2. Inv /\ TextInv => EchoRecognised
    BY <1>1 DEF EchoRecognised
  <1>. QED
    BY <1>2, Invariance, TextInvariance, PTL

(* note.go, NormalizeTitle and MatchIssueByTitle: a topic is matched with  *)
(* the first issue of the same words and with no other, for all titles and *)
(* all issues Graft may have.                                              *)
THEOREM TitlesAreMatchedByWords == Spec => []TitlesMatchByWords
  <1>. DEFINE R == STRING \cup {"comment", ":", Space}
  <1>1. ASSUME Inv, TextInv, NEW k \in DOMAIN read
        PROVE  read[k].summary \in Seq(R)
    <2>1. PICK item \in Range(IssueItems) \cup Range(comments) : read[k] = Note(item)
      BY <1>1 DEF TextInv, ReadInv
    <2>2. item.content \in Seq(R)
      <3>1. CASE item \in Range(IssueItems)
        <4>1. item.content \in Seq(STRING)
          BY <3>1, TextAssumption
        <4>. QED
          BY <4>1
      <3>2. CASE item \in Range(comments)
        <4>1. PICK i \in DOMAIN comments : item = comments[i]
          BY <3>2 DEF Range
        <4>2. PICK s \in Series, c \in Contents : \E shown \in {c, HashContent(c)} :
                item = Comment(i - 1, s, c, shown)
          BY <1>1, <4>1 DEF TextInv, Numbered
        <4>3. PICK shown \in {c, HashContent(c)} : item = Comment(i - 1, s, c, shown)
          BY <4>2
        <4>4. shown \in Seq(STRING)
          BY ShownText
        <4>5. item.content = CommentPrefix \o shown
          BY <4>3 DEF Comment, CommentPrefix
        <4>. QED
          BY <4>4, <4>5, PrefixedText
      <3>. QED
        BY <2>1, <3>1, <3>2
    <2>. QED
      BY <2>1, <2>2, SummaryType DEF Note
  <1>2. ASSUME Inv, TextInv, NEW t \in Titles
        PROVE  {k \in DOMAIN read : /\ read[k].kind = <<"issue">>
                                    /\ NormalizeTitle(read[k].summary) = NormalizeTitle(t)}
               = {k \in DOMAIN read : read[k].kind = <<"issue">> /\ SameWords(read[k].summary, t)}
    <2>1. t \in Seq(STRING)
      BY TextAssumption
    <2>3. t \in Seq(R)
      BY <2>1
    <2>2. ASSUME NEW k \in DOMAIN read
          PROVE  NormalizeTitle(read[k].summary) = NormalizeTitle(t)
                   <=> SameWords(read[k].summary, t)
      BY <1>1, <1>2, <2>3, NormalFormOfWords
    <2>. QED
      BY <2>2
  <1>3. Inv /\ TextInv => TitlesMatchByWords
    BY <1>2 DEF TitlesMatchByWords, MatchIssueByTitle
  <1>. QED
    BY <1>3, Invariance, TextInvariance, PTL


-----------------------------------------------------------------------------
(* A call makes a bounded number of exchanges: the safety half of CallsEnd.*)

(* An upper bound on the steps the call still takes: a chain of redirects, *)
(* two steps for each request; and for a reply that has yet to learn of    *)
(* its inbox, another chain.                                               *)
StepsLeft == (IF op.kind = "reply" /\ op.stage = "GET" THEN 2 * MaxRedirects ELSE 0)
             + 2 * (MaxRedirects - sent)
             + (IF pc = "dial" THEN 1 ELSE 0)

(* Every step of a call ends it or leaves fewer steps to take.             *)
CallShrinks ==
  [][(pc \in {"dial", "wait"}) => pc' = "idle" \/ StepsLeft' < StepsLeft]_vars

(* A step of a call that does not end it leaves fewer.                     *)
LEMMA ShorterStep ==
  ASSUME Inv, Next, pc \in {"dial", "wait"}, pc' # "idle"
  PROVE  StepsLeft' < StepsLeft
  <1>1. op \in Ops /\ sent \in 1..MaxRedirects /\ MaxRedirects \in Nat
    BY NetguardAssumption DEF Inv, TypeOK, Typed, Underway
  <1>2. CASE Connect
    BY <1>1, <1>2 DEF Connect, StepsLeft
  <1>3. CASE \E u \in Redirects, keepsMethod \in BOOLEAN : Redirect(u, keepsMethod)
    <2>1. PICK u \in Redirects, keepsMethod \in BOOLEAN : Redirect(u, keepsMethod)
      BY <1>3
    <2>2. pc = "wait" /\ pc' = "dial" /\ op' = op /\ sent' = sent + 1
      BY <2>1 DEF Redirect, Ends, Follows
    <2>. QED
      BY <1>1, <2>2 DEF StepsLeft
  <1>4. CASE Deliver
    <2>1. pc = "wait" /\ op.kind = "reply" /\ op.stage = "GET"
      BY <1>4 DEF Deliver
    <2>2. /\ pc' = "dial" /\ sent' = 1
          /\ \E now \in Moments : op' = [op EXCEPT !.stage = "POST", !.at = now]
      BY <1>4 DEF Deliver, Send, Ends
    <2>3. op'.stage = "POST"
      BY <1>1, <2>2 DEF Ops
    <2>. QED
      BY <1>1, <2>1, <2>2, <2>3 DEF StepsLeft
  <1>5. CASE Fails \/ Lost \/ Succeeds
    BY <1>5 DEF Fails, Lost, Succeeds, Ends
  <1>6. CASE \/ \E s \in Series : Outbox(s) \/ \E c \in Contents : ReplyToIssue(s, c)
             \/ LatestPosts \/ CreatePost \/ Down
    BY <1>6 DEF Outbox, ReplyToIssue, LatestPosts, CreatePost, Call, Down
  <1>. QED
    BY <1>2, <1>3, <1>4, <1>5, <1>6 DEF Next, Answer

(* client.go and netguard.go, CheckRedirect: the steps a call may still    *)
(* take are a number, and each it takes makes it smaller or ends the call, *)
(* whatever the servers answer and wherever they redirect to.              *)
THEOREM CallsAreBounded ==
  Spec => [](pc \in {"dial", "wait"} => StepsLeft \in Nat) /\ CallShrinks
  <1>1. ASSUME Inv, pc \in {"dial", "wait"}
        PROVE  StepsLeft \in Nat
    <2>1. sent \in 1..MaxRedirects /\ MaxRedirects \in Nat
      BY <1>1, NetguardAssumption DEF Inv, TypeOK
    <2>. QED
      BY <2>1 DEF StepsLeft
  <1>2. Inv /\ [Next]_vars =>
          [(pc \in {"dial", "wait"}) => pc' = "idle" \/ StepsLeft' < StepsLeft]_vars
    BY ShorterStep
  <1>. QED
    BY <1>1, <1>2, Invariance, PTL DEF Spec, CallShrinks
=============================================================================
