--------------------------- MODULE ClientIPProofs ---------------------------
(***************************************************************************)
(* Theorems about ClientIP, for any addresses, chains, headers, lists and  *)
(* durations.  The first part is the walk along the chain: the recursive   *)
(* function has the closed form nearest, found with the least number       *)
(* principle.  The second part is the goroutine among the refreshes: what  *)
(* the store says at an instant lies between always and ever.              *)
(***************************************************************************)
EXTENDS ClientIP, ProviderRangesProofs, SequenceTheorems, TLAPS

(* The hop reached after i steps, if each is taken, and the step at which    *)
(* the walk of i steps has stopped.                                          *)
hop(direct, chain, i) == IF i = 0 THEN direct ELSE chain[Len(chain) + 1 - i]

Stops(direct, chain, i) == {j \in 0..i : j = i \/ ~ipIsTrusted(hop(direct, chain, j))}

nearest(direct, chain, i) ==
  CHOOSE j \in Stops(direct, chain, i) : \A k \in Stops(direct, chain, i) : j <= k

LEMMA NearestStop ==
  ASSUME NEW direct, NEW chain, NEW i \in Nat
  PROVE  /\ nearest(direct, chain, i) \in Stops(direct, chain, i)
         /\ \A k \in Stops(direct, chain, i) : nearest(direct, chain, i) <= k
<1>1. i \in Stops(direct, chain, i) /\ Stops(direct, chain, i) \subseteq Nat  BY DEF Stops
<1>2. \E j \in Stops(direct, chain, i) : \A k \in Stops(direct, chain, i) : j <= k
  BY <1>1, LeastNumber
<1> QED  BY <1>2 DEF nearest

LEMMA NearestUnique ==
  ASSUME NEW direct, NEW chain, NEW i \in Nat, NEW j \in Stops(direct, chain, i),
         \A k \in Stops(direct, chain, i) : j <= k
  PROVE  nearest(direct, chain, i) = j
<1>1. nearest(direct, chain, i) <= j /\ j <= nearest(direct, chain, i)  BY NearestStop
<1>2. j \in Nat /\ nearest(direct, chain, i) \in Nat  BY NearestStop DEF Stops
<1> QED  BY <1>1, <1>2

LEMMA NearestNext ==
  ASSUME NEW direct, NEW chain, NEW i \in Nat \ {0}
  PROVE  nearest(direct, chain, i) =
           IF ipIsTrusted(hop(direct, chain, nearest(direct, chain, i - 1)))
           THEN i ELSE nearest(direct, chain, i - 1)
<1> DEFINE j == nearest(direct, chain, i - 1)
<1>1. /\ j \in 0..(i - 1) /\ (j = i - 1 \/ ~ipIsTrusted(hop(direct, chain, j)))
      /\ \A k \in 0..(i - 1) : ~ipIsTrusted(hop(direct, chain, k)) => j <= k
      /\ j <= i - 1
  BY NearestStop DEF Stops
<1> HIDE DEF j
<1>2. CASE ipIsTrusted(hop(direct, chain, j))
  <2>1. j = i - 1  BY <1>1, <1>2
  <2>2. \A k \in 0..(i - 1) : ipIsTrusted(hop(direct, chain, k))
    BY <1>1, <1>2, <2>1
  <2>3. i \in Stops(direct, chain, i) /\ \A k \in Stops(direct, chain, i) : i <= k
    BY <2>2 DEF Stops
  <2> QED  BY <1>2, <2>3, NearestUnique DEF j
<1>3. CASE ~ipIsTrusted(hop(direct, chain, j))
  <2>1. j \in Stops(direct, chain, i) /\ \A k \in Stops(direct, chain, i) : j <= k
    BY <1>1, <1>3 DEF Stops
  <2> QED  BY <1>3, <2>1, NearestUnique DEF j
<1> QED  BY <1>2, <1>3

(* What the loop of extractForwardedIP computes. *)
LEMMA WalkStops ==
  ASSUME NEW direct, NEW chain, Len(chain) \in Nat
  PROVE  walk(direct, chain) = hop(direct, chain, nearest(direct, chain, Len(chain)))
<1> DEFINE n == Len(chain)
           Steps(g) == [i \in 0..n |->
                          IF i = 0 THEN direct
                          ELSE IF ipIsTrusted(g[i - 1]) THEN chain[n + 1 - i]
                          ELSE g[i - 1]]
           closed == [i \in 0..n |-> hop(direct, chain, nearest(direct, chain, i))]
           current == CHOOSE g : g = Steps(g)
<1>1. walk(direct, chain) = current[n]  BY DEF walk
<1>2. closed = Steps(closed)
  <2> SUFFICES ASSUME NEW i \in 0..n PROVE closed[i] = Steps(closed)[i]
    BY Zenon
  <2>1. CASE i = 0
    <3>1. nearest(direct, chain, 0) = 0
      <4>1. 0 \in Stops(direct, chain, 0) /\ \A k \in Stops(direct, chain, 0) : 0 <= k
        BY DEF Stops
      <4> QED  BY <4>1, NearestUnique
    <3> QED  BY <2>1, <3>1 DEF hop
  <2>2. CASE i # 0
    <3>1. i \in Nat \ {0} /\ i - 1 \in 0..n  BY <2>2
    <3>2. closed[i - 1] = hop(direct, chain, nearest(direct, chain, i - 1))  BY <3>1
    <3>3. Steps(closed)[i] = IF ipIsTrusted(closed[i - 1]) THEN chain[n + 1 - i] ELSE closed[i - 1]
      BY <2>2
    <3>4. closed[i] = hop(direct, chain, nearest(direct, chain, i))  OBVIOUS
    <3>5. hop(direct, chain, i) = chain[n + 1 - i]  BY <2>2 DEF hop
    <3> HIDE DEF closed, Steps, n
    <3> QED  BY <3>1, <3>2, <3>3, <3>4, <3>5, NearestNext
  <2> QED  BY <2>1, <2>2
<1>3. current = Steps(current)
  <2> HIDE DEF closed, Steps
  <2> QED  BY <1>2
<1>4. \A i \in 0..n : current[i] = closed[i]
  <2> DEFINE T == {i \in 0..n : current[i] # closed[i]}
  <2> HIDE DEF current
  <2>1. ASSUME T # {} PROVE FALSE
    <3>0. T \subseteq Nat  OBVIOUS
    <3> HIDE DEF T
    <3>1. PICK i \in T : \A k \in T : i <= k  BY <2>1, <3>0, LeastNumber
    <3> USE DEF T
    <3>2. i \in 0..n /\ current[i] # closed[i]  BY <3>1
    <3>3. i # 0  BY <1>2, <1>3, <3>2
    <3>4. i - 1 \in 0..n /\ i - 1 \notin T  BY <3>1, <3>2, <3>3
    <3>5. current[i - 1] = closed[i - 1]  BY <3>4
    <3>6. Steps(current)[i] = Steps(closed)[i]  BY <3>2, <3>3, <3>5
    <3> QED  BY <1>2, <1>3, <3>2, <3>6
  <2> QED  BY <2>1
<1> HIDE DEF current
<1> QED  BY <1>1, <1>4
(* It is the hop that the chain of trusted proxies vouches for. *)
LEMMA WalkFindsLastHop ==
  ASSUME NEW q \in Requests, q.direct \in Addresses, ~malformed(q.chain)
  PROVE  walk(q.direct, q.chain) = LastHop(q) /\ LastHop(q) \in Addresses
<1> DEFINE n == Len(q.chain)  h == Hops(q)  m == nearest(q.direct, q.chain, n)
           untrusted == {i \in DOMAIN h : ~ipIsTrusted(h[i])}
<1>1. /\ q.chain \in Seq(Addresses \cup {NoAddress}) /\ n \in Nat /\ DOMAIN q.chain = 1..n
      /\ \A i \in 1..n : q.chain[i] \in Addresses
  <2>1. q.chain \in Seq(Addresses \cup {NoAddress})  BY RequestsShaped
  <2>2. n \in Nat /\ DOMAIN q.chain = 1..n  BY <2>1, LenProperties
  <2>3. \A i \in 1..n : q.chain[i] \in Addresses \cup {NoAddress}
    BY <2>1, <2>2, ElementOfSeq
  <2> QED  BY <2>1, <2>2, <2>3 DEF malformed
<1>2. /\ DOMAIN h = 1..(n + 1) /\ h[n + 1] = q.direct
      /\ \A i \in 1..n : h[i] = q.chain[i]
  <2>1. q.direct \in Addresses \cup {NoAddress}  OBVIOUS
  <2>2. h = Append(q.chain, q.direct)  BY <1>1 DEF Hops
  <2> HIDE DEF h
  <2>3. h \in Seq(Addresses \cup {NoAddress}) /\ Len(h) = n + 1
        /\ h[n + 1] = q.direct /\ \A i \in 1..n : h[i] = q.chain[i]
    BY <1>1, <2>1, <2>2, AppendProperties
  <2> QED  BY <2>3, LenProperties
<1>3. \A j \in 0..n : hop(q.direct, q.chain, j) = h[n + 1 - j]
  BY <1>1, <1>2 DEF hop
<1>4. walk(q.direct, q.chain) = h[n + 1 - m]
      /\ m \in 0..n /\ (m = n \/ ~ipIsTrusted(h[n + 1 - m]))
      /\ \A k \in 0..n : ~ipIsTrusted(h[n + 1 - k]) => m <= k
  <2>1. walk(q.direct, q.chain) = hop(q.direct, q.chain, m)  BY <1>1, WalkStops
  <2>2. m \in 0..n /\ (m = n \/ ~ipIsTrusted(hop(q.direct, q.chain, m)))
        /\ \A k \in 0..n : ~ipIsTrusted(hop(q.direct, q.chain, k)) => m <= k
    BY <1>1, NearestStop DEF Stops
  <2> HIDE DEF m, h, n
  <2> QED  BY <1>3, <2>1, <2>2
<1> HIDE DEF h, m, n
<1>5. h[n + 1 - m] \in Addresses  BY <1>1, <1>2, <1>4
<1>6. \A i \in untrusted : n + 1 - m >= i
  <2> SUFFICES ASSUME NEW i \in untrusted PROVE n + 1 - m >= i  OBVIOUS
  <2>1. i \in 1..(n + 1) /\ ~ipIsTrusted(h[i])  BY <1>2
  <2> DEFINE k == n + 1 - i
  <2>2. k \in 0..n /\ n + 1 - k = i  BY <1>1, <2>1
  <2> HIDE DEF k
  <2>3. m <= k  BY <1>4, <2>1, <2>2
  <2> QED  BY <1>1, <1>4, <2>1, <2>3 DEF k
<1>7. LastHop(q) = h[n + 1 - m]
  <2>1. LastHop(q) = IF untrusted = {} THEN h[1]
                     ELSE h[CHOOSE i \in untrusted : \A j \in untrusted : j <= i]
    BY DEF LastHop, h
  <2>2. CASE untrusted = {}
    <3>1. m = n
      <4>1. n + 1 - m \in 1..(n + 1)  BY <1>1, <1>4
      <4> QED  BY <1>2, <1>4, <2>2, <4>1
    <3> QED  BY <1>1, <2>1, <2>2, <3>1
  <2>3. CASE untrusted # {}
    <3> DEFINE last == n + 1 - m
    <3>1. last \in 1..(n + 1)  BY <1>1, <1>4
    <3>2. last \in untrusted
      <4>1. PICK i \in untrusted : TRUE  BY <2>3
      <4>2. CASE m = n
        <5>1. last = 1  BY <1>1, <4>2
        <5>2. i \in 1..(n + 1) /\ i <= last  BY <1>2, <1>6, <1>1, <1>4
        <5>3. i = last  BY <1>1, <5>1, <5>2
        <5> QED  BY <5>3
      <4>3. CASE m # n
        BY <1>2, <1>4, <3>1, <4>3
      <4> QED  BY <4>2, <4>3
    <3>3. \A i \in untrusted : i <= last /\ i \in Nat  BY <1>1, <1>2, <1>4, <1>6
    <3> HIDE DEF last, untrusted
    <3>4. (CHOOSE i \in untrusted : \A j \in untrusted : j <= i) = last
      BY <3>2, <3>3
    <3> QED  BY <2>1, <2>3, <3>4 DEF last
  <2> QED  BY <2>2, <2>3
<1> QED  BY <1>4, <1>5, <1>7
-----------------------------------------------------------------------------
(* What the goroutine knows at each place. *)
OnItsWay ==
  /\ place # "idle" => request \in Requests
  /\ place \notin {"idle", "done"} =>
       request.direct \in Addresses /\ peer \in Addresses /\ peer \in OnPath(request)
  /\ place = "recognize" => peer = request.direct

Sandwich == place # "idle" => always \subseteq Nodes(now) /\ Nodes(now) \subseteq ever

Believed ==
  place \in {"check", "name"} =>
    /\ client \in Addresses
    /\ \E p \in Providers : <<peer, p>> \in ever /\ request.header[p] = client
    /\ \A p \in Providers : <<peer, p>> \in always => request.header[p] = client

NoNode == place = "name" => \A p \in Providers : <<client, p>> \notin always

Answers == AddressIsVouchedFor /\ NodesAreNotVisitors /\ LabelNamesItsHeader

RequestOK == OnItsWay /\ Sandwich /\ Believed /\ NoNode /\ Answers

CInv == IInv /\ TypeOK /\ RequestOK

-----------------------------------------------------------------------------
LEMMA ProviderNamed ==
  ASSUME NEW ip, NEW at
  PROVE  /\ providerFor(ip, at) \in Providers \cup {"none", "ambiguous"}
         /\ \A p \in Providers : providerFor(ip, at) = p <=> matches(ip, at) = {p}
<1>1. matches(ip, at) \subseteq Providers  BY ProvidersKnown DEF matches
<1>2. CASE matches(ip, at) = Providers
  BY <1>2 DEF providerFor, Providers
<1>3. CASE matches(ip, at) = {}
  BY <1>3 DEF providerFor, Providers
<1>4. CASE matches(ip, at) # Providers /\ matches(ip, at) # {}
  <2>1. PICK p \in Providers : matches(ip, at) = {p}  BY <1>1, <1>4 DEF Providers
  <2>2. providerFor(ip, at) = p  BY <1>4, <2>1 DEF providerFor
  <2> QED  BY <2>1, <2>2
<1> QED  BY <1>2, <1>3, <1>4

LEMMA NodeNamed ==
  ASSUME NEW ip \in Addresses, NEW p \in Providers, NEW at
  PROVE  <<ip, p>> \in Nodes(at) <=> providerFor(ip, at) = p
<1>1. <<ip, p>> \in Nodes(at) <=> matches(ip, at) = {p}  BY DEF Nodes
<1> QED  BY <1>1, ProviderNamed

LEMMA NodesTyped ==
  ASSUME NEW at
  PROVE  Nodes(at) \subseteq Addresses \X Providers
BY DEF Nodes

LEMMA ReadingKeepsNodes ==
  ASSUME Reading, UNCHANGED now
  PROVE  Nodes(now)' = Nodes(now) /\ UNCHANGED <<ever, always>>
BY DEF Reading, rangeVars, updaterVars, Nodes, matches, fresh

(* A header holds an address, or says that it does not. *)
LEMMA RequestTyped ==
  ASSUME NEW q \in Requests
  PROVE  /\ q.direct \in Addresses \cup {NoAddress}
         /\ \A p \in Providers : q.header[p] \in Addresses \cup {Missing, NoAddress}
         /\ q.strategy \in {"direct", "forwarded", "cloudflare", "bunny"}
BY RequestsShaped

LEMMA InitCInv == Init => CInv
<1> SUFFICES ASSUME Init PROVE CInv  OBVIOUS
<1>1. IInv  BY InitIInv DEF Init
<1>2. TypeOK  BY <1>1 DEF Init, TypeOK, IInv, Never
<1>3. RequestOK
  BY DEF Init, RequestOK, OnItsWay, Sandwich, Believed, NoNode, Answers, AddressIsVouchedFor,
     NodesAreNotVisitors, LabelNamesItsHeader, Answered
<1> QED  BY <1>1, <1>2, <1>3 DEF CInv

LEMMA StepRanges == CInv /\ [Next]_vars => IInv'
<1>1. [Next]_vars => [RangesNext]_rangeVars
  BY DEF Next, vars, Arrive, Recognize, Check, Name, Reading, Leave, Background
<1> QED  BY <1>1, StepIInv DEF CInv

LEMMA ArriveOK == ASSUME CInv, NEW q \in Requests, Arrive(q) PROVE TypeOK' /\ RequestOK'
<1> USE DEF CInv, Arrive
<1>1. q.direct \in Addresses \cup {NoAddress}  BY RequestTyped
<1>2. Nodes(now)' = Nodes(clock)
  BY DEF rangeVars, updaterVars, Nodes, matches, fresh
<1>3. RangesTypeOK'  BY DEF TypeOK, RangesTypeOK, rangeVars, updaterVars, worldVars
<1>4. TypeOK'
  BY <1>1, <1>3, NodesTyped DEF TypeOK, RangesTypeOK, Labels
<1>5. place' = (IF q.direct = NoAddress THEN "done" ELSE "recognize")
      /\ request' = q /\ peer' = q.direct /\ now' = clock
  OBVIOUS
<1>6. OnItsWay'  BY <1>1, <1>5 DEF OnItsWay, OnPath
<1>7. Sandwich'  BY <1>2 DEF Sandwich
<1>8. Believed' /\ NoNode'  BY <1>5 DEF Believed, NoNode
<1>9. Answers'
  BY <1>5 DEF Answers, AddressIsVouchedFor, NodesAreNotVisitors, LabelNamesItsHeader, Answered
<1> QED  BY <1>4, <1>6, <1>7, <1>8, <1>9 DEF RequestOK

(* A read of the store that ends with an answer. *)
LEMMA DoneOK ==
  ASSUME CInv, place \notin {"idle", "done"}, Reading,
         NEW ip \in Addresses, NEW source \in Labels, Done(ip, source),
         \/ ip \in OnPath(request)
         \/ \E p \in Providers : <<peer, p>> \in ever /\ request.header[p] = ip,
         source \in Visitors => \A p \in Providers : <<ip, p>> \notin always,
         source \in Providers =>
           \A p \in Providers : <<peer, p>> \in always => source = p /\ ip = request.header[p]
  PROVE  TypeOK' /\ RequestOK'
<1> USE DEF CInv
<1>1. /\ place' = "done" /\ client' = ip /\ label' = source
      /\ request' = request /\ now' = now /\ peer' = peer
  BY DEF Done
<1>2. Nodes(now)' = Nodes(now) /\ ever' = ever /\ always' = always
  BY <1>1, ReadingKeepsNodes
<1>3. RangesTypeOK'  BY DEF TypeOK, RangesTypeOK, Reading, rangeVars, updaterVars, worldVars
<1>4. TypeOK'  BY <1>1, <1>2, <1>3 DEF TypeOK
<1>5. OnItsWay' /\ Sandwich' /\ Believed' /\ NoNode'
  BY <1>1, <1>2 DEF OnItsWay, Sandwich, Believed, NoNode, RequestOK
<1>6. peer \in OnPath(request) /\ OnPath(request)' = OnPath(request)
  BY <1>1 DEF RequestOK, OnItsWay, OnPath
<1>7. AddressIsVouchedFor'  BY <1>1, <1>2, <1>6 DEF AddressIsVouchedFor
<1>8. NodesAreNotVisitors'  BY <1>1, <1>2 DEF NodesAreNotVisitors
<1>9. LabelNamesItsHeader'  BY <1>1, <1>2 DEF LabelNamesItsHeader
<1> QED  BY <1>4, <1>5, <1>7, <1>8, <1>9 DEF RequestOK, Answers
(* ... or with nothing but the next place. *)
LEMMA ReadOK ==
  ASSUME CInv, Reading, UNCHANGED <<request, now>>, RequestOK',
         place' \in {"recognize", "recognizeHop", "check", "name", "done"},
         peer' \in Addresses, client' \in Addresses \cup {NoAddress}, UNCHANGED label
  PROVE  TypeOK'
<1>1. ever' = ever /\ always' = always  BY ReadingKeepsNodes
<1>2. RangesTypeOK'  BY DEF CInv, TypeOK, RangesTypeOK, Reading, rangeVars, updaterVars, worldVars
<1> QED  BY <1>1, <1>2 DEF CInv, TypeOK

LEMMA ForwardedTyped ==
  ASSUME NEW q \in Requests, q.direct \in Addresses, q.strategy = "forwarded"
  PROVE  LET forwarded == extractForwardedIP(q.direct, q.chain) IN
           /\ forwarded.ip \in Addresses /\ forwarded.ip \in OnPath(q)
           /\ forwarded.err \in BOOLEAN /\ forwarded.err => forwarded.ip = q.direct
<1>1. CASE q.chain = <<>> \/ ~ipIsTrusted(q.direct)
  BY <1>1 DEF extractForwardedIP, OnPath
<1>2. CASE ~(q.chain = <<>> \/ ~ipIsTrusted(q.direct)) /\ malformed(q.chain)
  BY <1>2 DEF extractForwardedIP, OnPath
<1>3. CASE ~(q.chain = <<>> \/ ~ipIsTrusted(q.direct)) /\ ~malformed(q.chain)
  BY <1>3, WalkFindsLastHop DEF extractForwardedIP, OnPath
<1> QED  BY <1>1, <1>2, <1>3

LEMMA UnrecognizedOK ==
  ASSUME CInv, Reading, place = "recognize", providerFor(peer, now) = "none", Unrecognized
  PROVE  TypeOK' /\ RequestOK'
<1> USE DEF CInv
<1> DEFINE forwarded == extractForwardedIP(request.direct, request.chain)
<1>1. /\ request \in Requests /\ request.direct \in Addresses /\ peer = request.direct
      /\ peer \in OnPath(request)
  BY DEF RequestOK, OnItsWay
<1>2. \A p \in Providers : <<peer, p>> \notin always
  <2>1. always \subseteq Nodes(now)  BY DEF RequestOK, Sandwich
  <2>2. providerFor(peer, now) \notin Providers  BY DEF Providers
  <2> QED  BY <1>1, <2>1, <2>2, NodeNamed
<1>3. CASE request.strategy # "forwarded"
  <2>1. Done(peer, "direct")  BY <1>1, <1>3 DEF Unrecognized
  <2> QED  BY <1>1, <1>2, <2>1, DoneOK DEF Labels, Providers
<1>4. CASE request.strategy = "forwarded" /\ forwarded.err
  <2>1. forwarded.ip = peer  BY <1>1, <1>4, ForwardedTyped
  <2>2. Done(peer, "fallback_error")  BY <1>4, <2>1 DEF Unrecognized
  <2> QED  BY <1>1, <2>2, DoneOK DEF Labels, Providers, Visitors
<1>5. CASE request.strategy = "forwarded" /\ ~forwarded.err
  <2>1. forwarded.ip \in Addresses /\ forwarded.ip \in OnPath(request)
    BY <1>1, <1>5, ForwardedTyped
  <2>2. /\ place' = "recognizeHop" /\ peer' = forwarded.ip
        /\ UNCHANGED <<request, now, client, label>>
    BY <1>5 DEF Unrecognized
  <2> HIDE DEF forwarded
  <2>3. Nodes(now)' = Nodes(now) /\ ever' = ever /\ always' = always
    BY <2>2, ReadingKeepsNodes
  <2>4. OnPath(request)' = OnPath(request)  BY <2>2 DEF OnPath
  <2>5. OnItsWay'  BY <1>1, <2>1, <2>2, <2>4 DEF OnItsWay
  <2>6. Sandwich' /\ Believed' /\ NoNode' /\ Answers'
    BY <2>2, <2>3 DEF RequestOK, Sandwich, Believed, NoNode, Answers, AddressIsVouchedFor,
       NodesAreNotVisitors, LabelNamesItsHeader, Answered
  <2>7. RequestOK'  BY <2>5, <2>6 DEF RequestOK
  <2> QED  BY <2>1, <2>2, <2>7, ReadOK DEF TypeOK
<1> QED  BY <1>3, <1>4, <1>5

LEMMA VouchedOK ==
  ASSUME CInv, Reading, place \in {"recognize", "recognizeHop"},
         NEW p \in Providers, providerFor(peer, now) = p, Vouched(p)
  PROVE  TypeOK' /\ RequestOK'
<1> USE DEF CInv
<1>1. /\ request \in Requests /\ request.direct \in Addresses /\ peer \in Addresses
      /\ peer \in OnPath(request)
  BY DEF RequestOK, OnItsWay
<1>2. request.header[p] \in Addresses \cup {Missing, NoAddress}  BY <1>1, RequestTyped
<1>3. CASE request.header[p] = Missing
  <2>1. Done(peer, "cdn_unresolved")  BY <1>3, NotAddresses DEF Vouched
  <2> QED  BY <1>1, <2>1, DoneOK DEF Labels, Providers, Visitors
<1>4. CASE request.header[p] = NoAddress
  <2>1. Done(peer, "fallback_error")  BY <1>4, NotAddresses DEF Vouched
  <2> QED  BY <1>1, <2>1, DoneOK DEF Labels, Providers, Visitors
<1>5. CASE request.header[p] \in Addresses
  <2>1. /\ place' = "check" /\ client' = request.header[p]
        /\ UNCHANGED <<request, now, peer, label>>
    BY <1>5, NotAddresses DEF Vouched
  <2>2. Nodes(now)' = Nodes(now) /\ ever' = ever /\ always' = always
    BY <2>1, ReadingKeepsNodes
  <2>3. OnPath(request)' = OnPath(request)  BY <2>1 DEF OnPath
  <2>4. OnItsWay'  BY <1>1, <2>1, <2>3 DEF OnItsWay
  <2>5. Sandwich'  BY <2>1, <2>2 DEF RequestOK, Sandwich
  <2>6. <<peer, p>> \in ever  BY <1>1, NodeNamed DEF RequestOK, Sandwich
  <2>7. \A r \in Providers : <<peer, r>> \in always => r = p
    BY <1>1, NodeNamed DEF RequestOK, Sandwich
  <2>8. Believed'  BY <1>5, <2>1, <2>2, <2>6, <2>7 DEF Believed
  <2>9. NoNode' /\ Answers'
    BY <2>1 DEF NoNode, Answers, AddressIsVouchedFor, NodesAreNotVisitors, LabelNamesItsHeader,
       Answered
  <2>10. RequestOK'  BY <2>4, <2>5, <2>8, <2>9 DEF RequestOK
  <2> QED  BY <1>1, <1>5, <2>1, <2>10, ReadOK
<1> QED  BY <1>2, <1>3, <1>4, <1>5

LEMMA RecognizeOK == ASSUME CInv, Recognize PROVE TypeOK' /\ RequestOK'
<1> USE DEF CInv
<1>1. /\ place \in {"recognize", "recognizeHop"} /\ Reading
      /\ request \in Requests /\ request.direct \in Addresses /\ peer \in Addresses
      /\ peer \in OnPath(request)
  BY DEF Recognize, RequestOK, OnItsWay
<1>2. CASE providerFor(peer, now) = "ambiguous"
  <2>1. Done(peer, "fallback_error")  BY <1>2 DEF Recognize, Providers
  <2> QED  BY <1>1, <2>1, DoneOK DEF Labels, Providers, Visitors
<1>3. CASE providerFor(peer, now) \in Providers
  <2>1. Vouched(providerFor(peer, now))  BY <1>3 DEF Recognize, Providers
  <2> QED  BY <1>1, <1>3, <2>1, VouchedOK
<1>4. CASE providerFor(peer, now) = "none" /\ place = "recognize"
  <2>1. Unrecognized  BY <1>4 DEF Recognize, Providers
  <2> QED  BY <1>1, <1>4, <2>1, UnrecognizedOK
<1>5. CASE providerFor(peer, now) = "none" /\ place = "recognizeHop"
  <2> DEFINE source == IF peer = request.direct THEN "direct" ELSE "forwarded"
  <2>1. Done(peer, source)  BY <1>5 DEF Recognize, Providers
  <2>2. \A p \in Providers : <<peer, p>> \notin always
    BY <1>1, <1>5, NodeNamed DEF RequestOK, Sandwich, Providers
  <2>3. source \in Labels /\ source \notin Providers  BY DEF Labels, Providers
  <2> HIDE DEF source
  <2> QED  BY <1>1, <2>1, <2>2, <2>3, DoneOK
<1> QED  BY <1>1, <1>2, <1>3, <1>4, <1>5, ProviderNamed

LEMMA CheckOK == ASSUME CInv, Check PROVE TypeOK' /\ RequestOK'
<1> USE DEF CInv
<1>1. /\ place = "check" /\ Reading
      /\ request \in Requests /\ peer \in Addresses /\ peer \in OnPath(request)
      /\ client \in Addresses
  BY DEF Check, RequestOK, OnItsWay, Believed
<1>2. CASE providerFor(client, now) \in Providers
  <2>1. Done(peer, "cdn_unresolved")  BY <1>2 DEF Check
  <2> QED  BY <1>1, <2>1, DoneOK DEF Labels, Providers, Visitors
<1>3. CASE providerFor(client, now) \notin Providers
  <2>1. place' = "name" /\ UNCHANGED <<request, now, peer, client, label>>
    BY <1>3 DEF Check
  <2>2. Nodes(now)' = Nodes(now) /\ ever' = ever /\ always' = always
    BY <1>1, <2>1, ReadingKeepsNodes
  <2>3. \A p \in Providers : <<client, p>> \notin always
    BY <1>1, <1>3, NodeNamed DEF RequestOK, Sandwich
  <2>4. OnItsWay' /\ Sandwich'
    BY <1>1, <2>1, <2>2 DEF RequestOK, OnItsWay, Sandwich, OnPath
  <2>5. Believed' /\ NoNode'
    BY <1>1, <2>1, <2>2, <2>3 DEF RequestOK, Believed, NoNode
  <2>6. Answers'
    BY <2>1 DEF Answers, AddressIsVouchedFor, NodesAreNotVisitors, LabelNamesItsHeader, Answered
  <2>7. RequestOK'  BY <2>4, <2>5, <2>6 DEF RequestOK
  <2> QED  BY <1>1, <2>1, <2>7, ReadOK
<1> QED  BY <1>2, <1>3

LEMMA NameOK == ASSUME CInv, Name PROVE TypeOK' /\ RequestOK'
<1> USE DEF CInv
<1> DEFINE source == IF providerFor(peer, now) \in Providers
                     THEN providerFor(peer, now) ELSE "fallback_error"
<1>1. /\ place = "name" /\ Reading /\ Done(client, source)
      /\ peer \in Addresses /\ client \in Addresses
  BY DEF Name, RequestOK, OnItsWay, Believed
<1>2. source \in Labels  BY DEF Labels, Providers
<1>3. \E p \in Providers : <<peer, p>> \in ever /\ request.header[p] = client
  BY <1>1 DEF RequestOK, Believed
<1>4. \A p \in Providers : <<client, p>> \notin always
  BY <1>1 DEF RequestOK, NoNode
<1>5. \A p \in Providers : <<peer, p>> \in always => source = p /\ client = request.header[p]
  BY <1>1, NodeNamed DEF RequestOK, Sandwich, Believed
<1> HIDE DEF source
<1> QED  BY <1>1, <1>2, <1>3, <1>4, <1>5, DoneOK

LEMMA LeaveOK == ASSUME CInv, Leave PROVE TypeOK' /\ RequestOK'
<1>1. RangesTypeOK'
  BY DEF CInv, Leave, TypeOK, RangesTypeOK, rangeVars, updaterVars, worldVars
<1>2. TypeOK'  BY <1>1 DEF Leave, TypeOK, Never
<1>3. RequestOK'
  BY DEF Leave, RequestOK, OnItsWay, Sandwich, Believed, NoNode, Answers, AddressIsVouchedFor,
     NodesAreNotVisitors, LabelNamesItsHeader, Answered
<1> QED  BY <1>2, <1>3

LEMMA BackgroundOK == ASSUME CInv, Background, RangesTypeOK' PROVE TypeOK' /\ RequestOK'
<1> USE DEF CInv
<1>1. UNCHANGED <<place, request, now, peer, client, label>>  BY DEF Background
<1>2. always' \subseteq always /\ ever \subseteq ever' /\ ever' \subseteq ever \cup Nodes(now)'
  BY DEF Background
<1>3. Nodes(now)' \subseteq Addresses \X Providers  BY <1>1 DEF Nodes
<1>4. TypeOK'
  <2>1. always \subseteq ever /\ ever \subseteq Addresses \X Providers  BY DEF TypeOK
  <2>2. always' \subseteq ever' /\ ever' \subseteq Addresses \X Providers
    BY <1>2, <1>3, <2>1
  <2> QED  BY <1>1, <2>2 DEF TypeOK
<1>5. Sandwich'  BY <1>1 DEF Background, Sandwich
<1>6. OnPath(request)' = OnPath(request)  BY <1>1 DEF OnPath
<1>7. OnItsWay'  BY <1>1, <1>6 DEF RequestOK, OnItsWay
<1>8. Believed'
  <2> SUFFICES ASSUME place \in {"check", "name"} PROVE Believed'  BY <1>1 DEF Believed
  <2>1. Believed  BY DEF RequestOK
  <2>2. PICK p \in Providers : <<peer, p>> \in ever /\ request.header[p] = client
    BY <2>1 DEF Believed
  <2>3. <<peer, p>> \in ever'  BY <1>2, <2>2
  <2> QED  BY <1>1, <1>2, <2>1, <2>2, <2>3 DEF Believed
<1>9. NoNode'  BY <1>1, <1>2 DEF RequestOK, NoNode
<1>10. Answers'
  <2> USE DEF RequestOK, Answers
  <2>1. NodesAreNotVisitors'  BY <1>1, <1>2 DEF NodesAreNotVisitors, Answered
  <2>2. LabelNamesItsHeader'  BY <1>1, <1>2 DEF LabelNamesItsHeader, Answered
  <2>3. AddressIsVouchedFor'  BY <1>1, <1>2, <1>6 DEF AddressIsVouchedFor, Answered
  <2> QED  BY <2>1, <2>2, <2>3
<1> QED  BY <1>4, <1>5, <1>7, <1>8, <1>9, <1>10 DEF RequestOK

LEMMA StepCInv == CInv /\ [Next]_vars => CInv'
<1> SUFFICES ASSUME CInv, [Next]_vars PROVE CInv'  OBVIOUS
<1>1. IInv'  BY StepRanges
<1>2. TypeOK' /\ RequestOK'
  <2>1. CASE UNCHANGED vars
    <3>1. TypeOK'
      BY <2>1 DEF CInv, vars, rangeVars, updaterVars, worldVars, requestVars, TypeOK, RangesTypeOK
    <3>2. Sandwich'
      BY <2>1 DEF CInv, RequestOK, Sandwich, vars, rangeVars, updaterVars, requestVars, Nodes,
         matches, fresh
    <3>3. OnItsWay' /\ Believed' /\ NoNode'
      BY <2>1 DEF CInv, RequestOK, OnItsWay, OnPath, Believed, NoNode, vars, requestVars
    <3>4. Answers'
      BY <2>1 DEF CInv, RequestOK, Answers, AddressIsVouchedFor, NodesAreNotVisitors,
         LabelNamesItsHeader, Answered, OnPath, vars, requestVars
    <3> QED  BY <3>1, <3>2, <3>3, <3>4 DEF RequestOK
  <2>2. CASE Background  BY <1>1, <2>2, BackgroundOK DEF IInv
  <2> QED
    BY <2>1, <2>2, ArriveOK, RecognizeOK, CheckOK, NameOK, LeaveOK DEF Next
<1> QED  BY <1>1, <1>2 DEF CInv

LEMMA AlwaysCInv == Spec => []CInv
BY InitCInv, StepCInv, PTL DEF Spec

(* Type correctness, of the address too that a chain yields. *)
THEOREM ClientTypeCorrect == Spec => []TypeOK
<1>1. CInv => TypeOK  BY DEF CInv
<1> QED  BY <1>1, AlwaysCInv, PTL

(* The address reported is the peer, the hop its trusted proxies name, or    *)
(* what a provider's node said, whatever the store did between the reads     *)
(* (client_ip.go:23-65, 95-126, 156-185).                                    *)
THEOREM AlwaysVouchedFor == Spec => []AddressIsVouchedFor
<1>1. CInv => AddressIsVouchedFor  BY DEF CInv, RequestOK, Answers
<1> QED  BY <1>1, AlwaysCInv, PTL

(* No address that was a node throughout passes for a visitor                *)
(* (client_ip.go:34-65, 122-125).                                            *)
THEOREM NeverANode == Spec => []NodesAreNotVisitors
<1>1. CInv => NodesAreNotVisitors  BY DEF CInv, RequestOK, Answers
<1> QED  BY <1>1, AlwaysCInv, PTL

(* A provider's label is that of the header believed, for a peer that did    *)
(* not change hands (client_ip.go:75-93, 106-121).                           *)
THEOREM LabelAlwaysFits == Spec => []LabelNamesItsHeader
<1>1. CInv => LabelNamesItsHeader  BY DEF CInv, RequestOK, Answers
<1> QED  BY <1>1, AlwaysCInv, PTL
-----------------------------------------------------------------------------
(* The store that a request reads is the one of ProviderRanges: whatever is  *)
(* proved of that one holds under any number of lookups                      *)
(* (client_ip.go:34-65 only reads it).                                       *)
THEOREM RunsTheStore == Spec => RangesSpec
<1>1. Init => RangesInit  BY DEF Init
<1>2. [Next]_vars => [RangesNext]_rangeVars
  BY DEF Next, vars, Arrive, Recognize, Check, Name, Reading, Leave, Background
<1>3. QED  BY <1>1, <1>2, PTL DEF Spec, RangesSpec

(* The second look, at the address of the header, lets a node pass only if   *)
(* two providers list it: nothing else makes HeaderNamesNoNode fail there    *)
(* (client_ip.go:122-125, provider_ranges.go:102-137).                       *)
SharedByNone ==
  \A s, t \in Sources : ProviderOf[s] # ProviderOf[t] =>
    \A list \in Lists[s], other \in Lists[t], ip \in Addresses :
      ~(Covers(list, ip) /\ Covers(other, ip))

NoListedNodePasses ==
  place = "check" /\ place' = "name" =>
    ~\E s \in Sources : fresh(s, now) /\ Covers(sources[s].networks, client)

THEOREM OnlySharedNodesPass ==
  ASSUME SharedByNone
  PROVE  Spec => [][NoListedNodePasses]_vars
<1>1. CInv /\ ListsHeld /\ [Next]_vars => NoListedNodePasses
  <2> SUFFICES ASSUME CInv, ListsHeld, [Next]_vars, place = "check", place' = "name",
                      NEW s \in Sources, fresh(s, now), Covers(sources[s].networks, client)
               PROVE  FALSE
    BY DEF NoListedNodePasses
  <2>1. Check /\ providerFor(client, now) \notin Providers
    BY DEF Next, vars, requestVars, Arrive, Recognize, Check, Name, Leave, Background, Done,
       Vouched, Unrecognized
  <2>2. client \in Addresses  BY DEF CInv, RequestOK, Believed
  <2>3. \A t \in Sources : Covers(sources[t].networks, client) => sources[t].networks \in Lists[t]
    BY DEF ListsHeld, Held, Covers
  <2>4. \A t \in Sources : Covers(sources[t].networks, client) => ProviderOf[t] = ProviderOf[s]
    BY <2>2, <2>3 DEF SharedByNone
  <2>5. matches(client, now) = {ProviderOf[s]}  BY <2>4 DEF matches
  <2>6. ProviderOf[s] \in Providers  BY ProvidersKnown
  <2> QED  BY <2>1, <2>5, <2>6, ProviderNamed
<1>2. QED  BY <1>1, AlwaysCInv, AlwaysListsHeld, RunsTheStore, PTL DEF Spec

-----------------------------------------------------------------------------
(* A list of provider p had the address, and not too long before at. *)
ListedBefore(ip, p, at) ==
  \E s \in Sources : /\ ProviderOf[s] = p
                     /\ publishedAt[s][ip] # Never
                     /\ at <= publishedAt[s][ip] + MaximumStaleAge

SeenPast == \A s \in Sources, ip \in Addresses : publishedAt[s][ip] <= clock

EverListed == \A ip \in Addresses, p \in Providers : <<ip, p>> \in ever => ListedBefore(ip, p, now)

LEMMA NodesListed ==
  ASSUME IInv, NEW at \in Nat, NEW ip \in Addresses, NEW p \in Providers, <<ip, p>> \in Nodes(at)
  PROVE  ListedBefore(ip, p, at)
<1>1. PICK s \in Sources : /\ ProviderOf[s] = p /\ fresh(s, at)
                           /\ Covers(sources[s].networks, ip)
  BY NodeNamed, NamedByAFreshList
<1>2. /\ sources[s].updatedAt \in Nat /\ publishedAt[s][ip] \in Nat
      /\ sources[s].updatedAt # 0 /\ sources[s].updatedAt <= publishedAt[s][ip]
  BY <1>1 DEF IInv, RangesTypeOK, ListsSeen, Never
<1>3. at - sources[s].updatedAt <= MaximumStaleAge  BY <1>1 DEF fresh
<1>4. publishedAt[s][ip] # Never /\ at <= publishedAt[s][ip] + MaximumStaleAge
  BY <1>2, <1>3, DurationsOrdered DEF Never
<1> QED  BY <1>1, <1>4 DEF ListedBefore

NodesListedNow ==
  \A ip \in Addresses, p \in Providers : <<ip, p>> \in Nodes(now) => ListedBefore(ip, p, now)

LEMMA NodesListedLater == (IInv /\ now \in Nat)' => NodesListedNow'
<1>1. IInv /\ now \in Nat => NodesListedNow  BY NodesListed DEF NodesListedNow
<1> QED  BY <1>1, PTL

LEMMA ListsSeenLater ==
  ASSUME IInv, SeenPast, [RangesNext]_rangeVars
  PROVE  /\ SeenPast'
         /\ \A s \in Sources, ip \in Addresses : publishedAt[s][ip] <= publishedAt'[s][ip]
<1>1. /\ clock \in Nat /\ publishedAt \in [Sources -> [Addresses -> Nat]]
      /\ clock <= clock'
  BY DEF IInv, RangesTypeOK, RangesNext, rangeVars, Start, Refresh, Fetch, Fetched, FetchFailed,
     Finish, Tick, Publish
<1>2. CASE UNCHANGED <<clock, publishedAt>>
  BY <1>1, <1>2 DEF SeenPast
<1>3. ASSUME NEW s \in Sources, NEW list \in Lists[s], Publish(s, list)
      PROVE  /\ clock' = clock
             /\ \A t \in Sources, ip \in Addresses :
                  publishedAt'[t][ip] \in {clock, publishedAt[t][ip]}
  BY <1>1, <1>3 DEF Publish, Seen
<1>4. CASE Tick
  <2>1. /\ clock' = clock + 1
        /\ \A t \in Sources, ip \in Addresses :
             publishedAt'[t][ip] \in {clock + 1, publishedAt[t][ip]}
    BY <1>4 DEF Tick, Seen
  <2> QED  BY <1>1, <2>1 DEF SeenPast
<1>5. ASSUME NEW s \in Sources, NEW list \in Lists[s], Publish(s, list)
      PROVE  /\ SeenPast'
             /\ \A t \in Sources, ip \in Addresses : publishedAt[t][ip] <= publishedAt'[t][ip]
  BY <1>1, <1>3, <1>5 DEF SeenPast
<1> QED
  BY <1>2, <1>4, <1>5 DEF RangesNext, rangeVars, worldVars, Start, Refresh, Fetch, Fetched,
     FetchFailed, Finish

LEMMA StepEverListed == CInv /\ SeenPast /\ EverListed /\ [Next]_vars => EverListed'
<1> SUFFICES ASSUME CInv, SeenPast, EverListed, [Next]_vars,
                    NEW ip \in Addresses, NEW p \in Providers, <<ip, p>> \in ever'
             PROVE  ListedBefore(ip, p, now)'
  BY DEF EverListed
<1>1. [RangesNext]_rangeVars /\ IInv'
  BY StepRanges DEF Next, vars, Arrive, Recognize, Check, Name, Reading, Leave, Background
<1>2. \A s \in Sources : /\ publishedAt[s][ip] \in Nat /\ publishedAt'[s][ip] \in Nat
                         /\ publishedAt[s][ip] <= publishedAt'[s][ip]
  BY <1>1, ListsSeenLater DEF CInv, IInv, RangesTypeOK
<1>3. now \in Nat /\ clock \in Nat  BY DEF CInv, TypeOK, RangesTypeOK
<1>4. CASE <<ip, p>> \in ever /\ now' = now
  <2>1. PICK s \in Sources : /\ ProviderOf[s] = p /\ publishedAt[s][ip] # Never
                             /\ now <= publishedAt[s][ip] + MaximumStaleAge
    BY <1>4 DEF EverListed, ListedBefore
  <2>2. /\ publishedAt'[s][ip] # Never
        /\ now <= publishedAt'[s][ip] + MaximumStaleAge
    BY <1>2, <1>3, <2>1, DurationsOrdered DEF Never
  <2> QED  BY <1>4, <2>1, <2>2 DEF ListedBefore
<1>5. ASSUME NEW q \in Requests, Arrive(q) PROVE ListedBefore(ip, p, now)'
  <2>1. ListedBefore(ip, p, clock)  BY <1>3, <1>5, NodesListed DEF Arrive, CInv
  <2> QED  BY <1>5, <2>1 DEF Arrive, ListedBefore, rangeVars, worldVars
<1>6. CASE Background
  <2>1. now' = now /\ ever' \subseteq ever \cup Nodes(now)'  BY <1>6 DEF Background
  <2>2. CASE <<ip, p>> \in Nodes(now)'
    <3>1. NodesListedNow'  BY <1>1, <1>3, <2>1, NodesListedLater
    <3> QED  BY <2>2, <3>1 DEF NodesListedNow
  <2> QED  BY <1>4, <2>1, <2>2
<1>7. CASE Leave  BY <1>7 DEF Leave
<1>8. CASE UNCHANGED <<ever, now>>  BY <1>4, <1>8
<1> QED
  BY <1>5, <1>6, <1>7, <1>8
     DEF Next, vars, requestVars, Recognize, Check, Name, Reading, Done, Vouched, Unrecognized

(* Whoever a request is said to come from, somebody a provider has named has *)
(* said so: the peer or the hop of the trusted proxies itself, or a node on  *)
(* that path that a list of its provider had in it at most MaximumStaleAge   *)
(* before the request was read, so that no outage and no race of a refresh   *)
(* with the lookup lets an older node speak for visitors (client_ip.go:34-65,*)
(* provider_ranges.go:102-137).                                              *)
VouchedByAPublishedList ==
  Answered =>
    \/ client \in OnPath(request)
    \/ \E node \in OnPath(request) \cap Addresses, p \in Providers :
         request.header[p] = client /\ ListedBefore(node, p, now)

THEOREM OnlyListedNodesVouch == Spec => []VouchedByAPublishedList
<1> DEFINE I == CInv /\ SeenPast /\ EverListed
<1>1. Init => I
  <2> SUFFICES ASSUME Init PROVE SeenPast /\ EverListed  BY InitCInv
  <2> QED  BY DEF Init, RangesInit, SeenPast, EverListed, Never
<1>2. I /\ [Next]_vars => I'
  <2> SUFFICES ASSUME I, [Next]_vars PROVE I'  OBVIOUS
  <2>1. [RangesNext]_rangeVars
    BY DEF Next, vars, Arrive, Recognize, Check, Name, Reading, Leave, Background
  <2>2. SeenPast'  BY <2>1, ListsSeenLater DEF CInv
  <2> QED  BY <2>2, StepCInv, StepEverListed
<1>3. I => VouchedByAPublishedList
  <2> SUFFICES ASSUME I, Answered, client \notin OnPath(request)
               PROVE  \E node \in OnPath(request) \cap Addresses, p \in Providers :
                        request.header[p] = client /\ ListedBefore(node, p, now)
    BY DEF VouchedByAPublishedList
  <2>1. PICK node \in OnPath(request), p \in Providers :
          <<node, p>> \in ever /\ request.header[p] = client
    BY DEF CInv, RequestOK, Answers, AddressIsVouchedFor
  <2>2. node \in Addresses  BY <2>1 DEF CInv, TypeOK
  <2> QED  BY <2>1, <2>2 DEF EverListed
<1>4. QED  BY <1>1, <1>2, <1>3, PTL DEF Spec
=============================================================================
