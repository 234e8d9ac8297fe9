------------------------------ MODULE ClientIP ------------------------------
(***************************************************************************)
(* client_ip.go: whose address a request is evaluated for.  A goroutine    *)
(* reads the clock once and the store of ProviderRanges up to five times,  *)
(* each time under its lock; refreshes run between the reads.              *)
(***************************************************************************)
EXTENDS ProviderRanges

CONSTANTS
  Trusted,               \* the addresses in clientIP.trustedProxies
  Requests,              \* the requests explored, as shaped below
  maximumForwardedHops,
  NoRequest, NoAddress, Missing

(* strategy : clientIP.strategy of the middleware the request reaches: all   *)
(*            middlewares share the store;                                   *)
(* direct : the peer, or NoAddress if RemoteAddr is no address;              *)
(* chain  : X-Forwarded-For split at commas, NoAddress for what is none;     *)
(* header : header[p] is what the client header of provider p holds: Missing *)
(*          if it is blank, NoAddress if it is not one address.              *)
ASSUME RequestsShaped ==
  \A q \in Requests :
    /\ q.strategy \in {"direct", "forwarded", "cloudflare", "bunny"}
    /\ q.direct \in Addresses \cup {NoAddress}
    /\ q.chain \in Seq(Addresses \cup {NoAddress})
    /\ q.header \in [Providers -> Addresses \cup {Missing, NoAddress}]

ASSUME NotAddresses == NoAddress \notin Addresses /\ Missing \notin Addresses \cup {NoAddress}
ASSUME HopsNatural  == maximumForwardedHops \in Nat

VARIABLES
  place,       \* where the goroutine is in extractClientIPWithSource
  request,
  now,         \* its reading of the clock
  peer,        \* the hop it asks about: the direct peer, then the forwarded one
  client,      \* the address it has taken so far, and in the end
  label,       \* clientIPSource, once known
  ever,        \* history: <<ip, p>> such that ip has passed for a node of p
  always       \* history: ... all the time since the request arrived

requestVars == <<place, request, now, peer, client, label, ever, always>>
vars == <<rangeVars, requestVars>>

Labels == {"direct", "forwarded", "cloudflare", "bunny", "cdn_unresolved", "fallback_error"}

TypeOK ==
  /\ RangesTypeOK
  /\ place \in {"idle", "recognize", "recognizeHop", "check", "name", "done"}
  /\ request \in Requests \cup {NoRequest}
  /\ now \in Nat
  /\ peer \in Addresses \cup {NoAddress}
  /\ client \in Addresses \cup {NoAddress}
  /\ label \in Labels \cup {"none"}
  /\ always \subseteq ever /\ ever \subseteq Addresses \X Providers

Init ==
  /\ RangesInit
  /\ place = "idle" /\ request = NoRequest /\ now = Never
  /\ peer = NoAddress /\ client = NoAddress /\ label = "none"
  /\ ever = {} /\ always = {}

-----------------------------------------------------------------------------
(* extractForwardedIP: the chain is walked from its end for as long as the   *)
(* current hop is trusted.                                                   *)
ipIsTrusted(ip) == ip \in Trusted

malformed(chain) ==
  Len(chain) > maximumForwardedHops \/ \E i \in DOMAIN chain : chain[i] = NoAddress

(* Operators named <operation>_<slip> are an operation with a slip in it;    *)
(* only the runs that show that a property notices the slip use them.        *)
walk_fromTheLeft(direct, chain) == chain[1]

walk(direct, chain) ==
  LET current[i \in 0..Len(chain)] ==        \* after the last i hops
        IF i = 0 THEN direct
        ELSE IF ipIsTrusted(current[i - 1]) THEN chain[Len(chain) + 1 - i]
        ELSE current[i - 1]
  IN  current[Len(chain)]

extractForwardedIP(direct, chain) ==
  IF chain = <<>> \/ ~ipIsTrusted(direct) THEN [ip |-> direct, err |-> FALSE]
  ELSE IF malformed(chain) THEN [ip |-> direct, err |-> TRUE]
  ELSE [ip |-> walk(direct, chain), err |-> FALSE]

-----------------------------------------------------------------------------
Done(ip, source) ==
  /\ place' = "done"
  /\ client' = ip
  /\ label' = source
  /\ UNCHANGED <<request, now, peer>>

Nodes(at) == {node \in Addresses \X Providers : matches(node[1], at) = {node[2]}}

Reading == UNCHANGED <<rangeVars, ever, always>>

Arrive(q) ==
  /\ place = "idle"
  /\ request' = q
  /\ now' = clock
  /\ peer' = q.direct
  /\ ever' = Nodes(clock)
  /\ always' = Nodes(clock)
  /\ IF q.direct = NoAddress
     THEN place' = "done" /\ label' = "fallback_error" /\ UNCHANGED client
     ELSE place' = "recognize" /\ UNCHANGED <<client, label>>
  /\ UNCHANGED rangeVars

Vouched_cloudflareFirst(p) ==
  LET value == IF request.header["cloudflare"] \in Addresses
               THEN request.header["cloudflare"] ELSE request.header[p]
  IN  IF value \notin Addresses THEN Done(peer, "cdn_unresolved")
      ELSE /\ place' = "check"
           /\ client' = value
           /\ UNCHANGED <<request, now, peer, label>>

(* extractRecognizedProviderIP for the peer, up to its second look at the    *)
(* store: p is a provider that vouches for the hop.                          *)
Vouched(p) ==
  LET value == request.header[p] IN
    CASE value = Missing   -> Done(peer, "cdn_unresolved")
      [] value = NoAddress -> Done(peer, "fallback_error")
      [] OTHER -> /\ place' = "check"
                  /\ client' = value
                  /\ UNCHANGED <<request, now, peer, label>>

(* The direct peer is no provider's node: the strategy decides.              *)
Unrecognized ==
  LET forwarded == extractForwardedIP(request.direct, request.chain) IN
    IF request.strategy # "forwarded" THEN Done(request.direct, "direct")
    ELSE IF forwarded.err THEN Done(forwarded.ip, "fallback_error")
    ELSE /\ place' = "recognizeHop"
         /\ peer' = forwarded.ip
         /\ UNCHANGED <<request, now, client, label>>

Recognize ==
  /\ place \in {"recognize", "recognizeHop"}
  /\ LET found == providerFor(peer, now) IN
       CASE found = "ambiguous" -> Done(peer, "fallback_error")
         [] found \in Providers -> Vouched(found)
         [] found = "none" /\ place = "recognize" -> Unrecognized
         [] OTHER -> Done(peer, IF peer = request.direct THEN "direct" ELSE "forwarded")
  /\ Reading

Check_nothing ==
  /\ place = "check"
  /\ place' = "name"
  /\ UNCHANGED <<request, now, peer, client, label>>
  /\ Reading

(* The address in the header must not be a node itself.                      *)
Check ==
  /\ place = "check"
  /\ IF providerFor(client, now) \in Providers
     THEN Done(peer, "cdn_unresolved")
     ELSE place' = "name" /\ UNCHANGED <<request, now, peer, client, label>>
  /\ Reading

(* recognizedProviderSource looks the peer up once more to name its provider.*)
Name ==
  /\ place = "name"
  /\ Done(client, IF providerFor(peer, now) \in Providers
                  THEN providerFor(peer, now) ELSE "fallback_error")
  /\ Reading

Leave ==
  /\ place = "done"
  /\ place' = "idle" /\ request' = NoRequest /\ now' = Never
  /\ peer' = NoAddress /\ client' = NoAddress /\ label' = "none"
  /\ ever' = {} /\ always' = {}
  /\ UNCHANGED rangeVars

Background ==
  /\ RangesNext
  /\ UNCHANGED <<place, request, now, peer, client, label>>
  /\ IF place = "idle" THEN UNCHANGED <<ever, always>>
     ELSE /\ ever' = ever \cup Nodes(now)'
          /\ always' = always \cap Nodes(now)'

Next ==
  \/ \E q \in Requests : Arrive(q)
  \/ Recognize \/ Check \/ Name \/ Leave
  \/ Background

Spec == Init /\ [][Next]_vars

-----------------------------------------------------------------------------
Answered == place = "done" /\ request.direct # NoAddress

(* The hop that a chain of trusted proxies vouches for: the last one that is *)
(* not trusted, or the first of all.                                         *)
Hops(q) == q.chain \o <<q.direct>>
LastHop(q) ==
  LET untrusted == {i \in DOMAIN Hops(q) : ~ipIsTrusted(Hops(q)[i])}
  IN  IF untrusted = {} THEN Hops(q)[1]
      ELSE Hops(q)[CHOOSE i \in untrusted : \A j \in untrusted : j <= i]

OnPath(q) ==
  {q.direct} \cup
    (IF q.strategy = "forwarded" /\ ~malformed(q.chain) THEN {LastHop(q)} ELSE {})

(* Whoever a request is said to come from, somebody entitled to has said so: *)
(* it is the peer, the hop the trusted proxies name, or what is in the       *)
(* header of a provider that one of these two was a node of at some instant  *)
(* since the request arrived (README.md:120-128).                            *)
AddressIsVouchedFor ==
  Answered =>
    \/ client \in OnPath(request)
    \/ \E hop \in OnPath(request), p \in Providers :
         <<hop, p>> \in ever /\ request.header[p] = client

(* No address that has been a provider's node all the time is reported as a  *)
(* visitor, whichever way it was found and whatever a refresh did meanwhile  *)
(* (README.md:130-135).                                                      *)
Visitors == {"direct", "forwarded", "cloudflare", "bunny"}

NodesAreNotVisitors ==
  Answered /\ label \in Visitors => \A p \in Providers : <<client, p>> \notin always

(* The label, read apart from the header, names the provider whose header    *)
(* was believed unless the hop changed hands meanwhile (client_ip.go:36-37). *)
LabelNamesItsHeader ==
  Answered /\ label \in Providers =>
    \A p \in Providers : <<peer, p>> \in always => label = p /\ client = request.header[p]

(* A header "that names a provider node" leaves the visitor unresolved       *)
(* (README.md:130-132): also a node that both providers list.                *)
HeaderNamesNoNode ==
  Answered /\ label \in Providers =>
    ~\E s \in Sources : fresh(s, now) /\ Covers(sources[s].networks, client)

=============================================================================
