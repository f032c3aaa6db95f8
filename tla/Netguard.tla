------------------------------ MODULE Netguard ------------------------------
(***************************************************************************)
(* The policy of the bridge's HTTP clients (src/internal/netguard): which  *)
(* URLs a remote party may send them to, which addresses they connect to   *)
(* and what a redirect does to a request.  A policy is a record            *)
(* [allowPrivate, allowHTTP] (Config); a URL that does not parse, has      *)
(* userinfo or names no host is one that is not proper.                    *)
(***************************************************************************)
EXTENDS Naturals

CONSTANTS
  Hosts,         \* host names and, among them, literal addresses
  Addresses,     \* the addresses a host name may resolve to
  Public,        \* the addresses outside the private and special blocks
  LocalNames,    \* localhost and names under .local
  Paths,         \* paths of URLs
  MaxRedirects   \* MaxRedirects, which bounds the requests of a chain

ASSUME NetguardAssumption ==
  /\ Public \subseteq Addresses
  /\ LocalNames \subseteq Hosts \ Addresses
  /\ MaxRedirects \in Nat \ {0}

Urls == [scheme : {"https", "http"}, host : Hosts, path : Paths, proper : BOOLEAN]

IpAllowed(a, allowPrivate) == allowPrivate \/ a \in Public

Validate(policy, u) ==
  /\ u.proper
  /\ u.scheme = "https" \/ policy.allowHTTP
  /\ u.host \notin LocalNames
  /\ u.host \in Addresses => IpAllowed(u.host, policy.allowPrivate)

(* Faulty variant: the name is checked, and resolved once more to dial it. *)
DialsName(policy, host, answer) ==
  IF host \in Addresses
  THEN {host} \cap {a \in Addresses : IpAllowed(a, policy.allowPrivate)}
  ELSE IF \E a \in answer : IpAllowed(a, policy.allowPrivate) THEN Addresses ELSE {}

(* dial: where a connection to host may end up when the resolver's answer  *)
(* holds these addresses, in any order.                                    *)
Dials(policy, host, answer) ==
  {a \in IF host \in Addresses THEN {host} ELSE answer : IpAllowed(a, policy.allowPrivate)}

(* Faulty variant: the client's default limit is gone with the new policy. *)
FollowsForEver(policy, sent, u) == Validate(policy, u)

(* CheckRedirect: whether the client follows to u after sent requests.     *)
Follows(policy, sent, u) == sent < MaxRedirects /\ Validate(policy, u)

(* Faulty variant: the new host is compared with the last one.             *)
KeepsHeadersOfLast(first, last, u) == last.host = u.host

(* The sensitive headers stay while the host is that of the first request. *)
KeepsHeaders(first, last, u) == first.host = u.host
=============================================================================
