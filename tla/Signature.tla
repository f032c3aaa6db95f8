------------------------------ MODULE Signature ------------------------------
(***************************************************************************)
(* HTTP signatures (src/internal/ap/sign.go) with symbolic cryptography:   *)
(* a digest is the body it was computed from, a signature is the signing   *)
(* string it was made of, and no two of them are confused.  The bridge     *)
(* signs with one key.  VerifyRequest is what Graft does with a request in *)
(* its inbox ("kept identical to Graft's").                                *)
(*                                                                         *)
(* A request is a record with the fields method, url, body, date, digest,  *)
(* sig and key; key is about the client of Discourse and is not signed.    *)
(***************************************************************************)
EXTENDS Integers

CONSTANTS
  Absent,  \* the value of a header or body that is not there
  Second   \* a second, in the ticks that instants are counted in

ASSUME SignatureAssumption == Second \in Nat \ {0}

MaxClockSkew == 5 * 60 * Second

SignedHeaders == {"(request-target)", "host", "date", "digest"}

RequiredSignedHeaders == {"(request-target)", "digest"}

(* Faulty variant: the method stands for the whole request target.         *)
MethodSigningString(headers, r) ==
  [h \in headers |-> CASE h = "(request-target)" -> <<r.method>>
                       [] h = "host"             -> r.url.host
                       [] h = "date"             -> r.date
                       [] h = "digest"           -> r.digest]

BuildSigningString(headers, r) ==
  [h \in headers |-> CASE h = "(request-target)" -> <<r.method, r.url.path>>
                       [] h = "host"             -> r.url.host
                       [] h = "date"             -> r.date
                       [] h = "digest"           -> r.digest]

Sealed(headers, r) == [headers |-> headers, over |-> BuildSigningString(headers, r)]

(* The Date header has whole seconds: the fraction is cut off.             *)
HttpDate(now) == now - (now % Second)

(* Faulty variant: the request is signed before its Digest is set.         *)
SignBeforeDigest(r, now) ==
  LET dated == [r EXCEPT !.date = HttpDate(now)]
  IN  [dated EXCEPT !.digest = r.body, !.sig = Sealed(SignedHeaders, dated)]

SignRequest(r, now) ==
  LET dated == [r EXCEPT !.digest = r.body, !.date = HttpDate(now)]
  IN  [dated EXCEPT !.sig = Sealed(SignedHeaders, dated)]

(* Within the skew on both sides, boundaries included.                     *)
InWindow(signedAt, now) == now - signedAt \in -MaxClockSkew..MaxClockSkew

VerifyRequest(r, now) ==
  /\ r.sig # Absent
  /\ r.date # Absent /\ InWindow(r.date, now)
  /\ r.digest # Absent /\ r.digest = r.body
  /\ RequiredSignedHeaders \subseteq r.sig.headers
  /\ r.sig.over = BuildSigningString(r.sig.headers, r)
=============================================================================
