---------------------------- MODULE ExchangeProofs ----------------------------
(***************************************************************************)
(* Theorems about the conversions of AgentResponse, BodyCapture,           *)
(* Forwarding and Fingerprint: for bodies of any length, any limit and any *)
(* response, for any configured names, values of any length and any        *)
(* bounds, and for any two requests and their keys in the decision cache.  *)
(*                                                                         *)
(* The second part is the loop of forwarding.go.  What holds of a          *)
(* recursive function or a fold is proved from the least number principle: *)
(* UpTo gives, for a set T of numbers, the induction over 0..n.            *)
(***************************************************************************)
EXTENDS MCExchange, Fingerprint, SequenceTheorems, FiniteSetTheorems, WellFoundedInduction, TLAPS

Streams(S) == [bytes : Seq(S), end : {"eof", "error"}]

-----------------------------------------------------------------------------
(* A sequence that begins with one and goes on with another joins the two.   *)
LEMMA Joined ==
  ASSUME NEW S, NEW first \in Seq(S), NEW last \in Seq(S), NEW whole \in Seq(S),
         Len(whole) = Len(first) + Len(last),
         \A i \in 1..Len(first) : whole[i] = first[i],
         \A i \in 1..Len(last)  : whole[Len(first) + i] = last[i]
  PROVE  first \o last = whole
<1>1. /\ first \o last \in Seq(S) /\ Len(first \o last) = Len(whole)
      /\ Len(first) \in Nat /\ Len(last) \in Nat
  BY ConcatProperties
<1>2. ASSUME NEW i \in 1..Len(whole)  PROVE  (first \o last)[i] = whole[i]
  <2>1. CASE i <= Len(first)  BY <1>1, <2>1
  <2>2. CASE i > Len(first)
    <3>1. /\ i - Len(first) \in 1..Len(last)
          /\ Len(first) + (i - Len(first)) = i
      BY <1>1, <2>2
    <3>2. whole[i] = last[i - Len(first)]  BY <3>1
    <3>3. (first \o last)[i] = last[i - Len(first)]
      BY <1>1, <2>2, ConcatProperties
    <3>4. QED  BY <3>2, <3>3
  <2>3. QED  BY <1>1, <2>1, <2>2
<1>3. QED  BY <1>1, <1>2, SeqEqual

(* What was read and what was not make up the stream again.                  *)
LEMMA PutTogether ==
  ASSUME NEW S, NEW stream \in Streams(S), NEW n \in 0..Len(stream.bytes)
  PROVE  multiReader(SubSeq(stream.bytes, 1, n), rest(stream, n)) = stream
<1>1. ASSUME NEW bytes \in Seq(S), n \in 0..Len(bytes)
      PROVE  SubSeq(bytes, 1, n) \o SubSeq(bytes, n + 1, Len(bytes)) = bytes
  <2> DEFINE first == SubSeq(bytes, 1, n)
             last  == SubSeq(bytes, n + 1, Len(bytes))
  <2>1. /\ first \in Seq(S) /\ Len(first) = n
        /\ \A i \in 1..n : bytes[i] = first[i]
    BY <1>1
  <2>2. /\ last \in Seq(S) /\ Len(last) = Len(bytes) - n
        /\ \A i \in 1..(Len(bytes) - n) : bytes[n + i] = last[i]
    BY <1>1
  <2>3. bytes \in Seq(S) /\ Len(bytes) = n + (Len(bytes) - n)  BY <1>1
  <2> HIDE DEF first, last
  <2>4. /\ Len(bytes) = Len(first) + Len(last)
        /\ \A i \in 1..Len(first) : bytes[i] = first[i]
        /\ \A i \in 1..Len(last) : bytes[Len(first) + i] = last[i]
    <3>1. Len(first) = n /\ Len(last) = Len(bytes) - n  BY <2>1, <2>2
    <3>2. QED  BY <2>1, <2>2, <2>3, <3>1
  <2>5. first \o last = bytes  BY <2>1, <2>2, <2>3, <2>4, Joined
  <2>6. QED  BY <2>5 DEF first, last
<1>2. /\ stream.bytes \in Seq(S)
      /\ stream = [bytes |-> stream.bytes, end |-> stream.end]
  BY DEF Streams
<1>3. SubSeq(stream.bytes, 1, n) \o SubSeq(stream.bytes, n + 1, Len(stream.bytes))
        = stream.bytes
  BY <1>1, <1>2
<1>4. QED  BY <1>2, <1>3 DEF multiReader, rest

(* Whatever the request and the configuration, the handler behind reads the  *)
(* body that came and meets its end; the Agent gets the whole body, or is    *)
(* told that it is too long or could not be read; and no more than one byte  *)
(* beyond the limit is held (body.go:20-39).                                 *)
THEOREM BodyKeptIntact ==
  ASSUME NEW S, NEW request, NEW config, request.body \in Streams(S)
  PROVE  LET body     == request.body
             captured == captureRequestBody(request, config)
         IN /\ captured.replay = body
            /\ captured.read <= MaximumBytes + 1
            /\ captures(request, config) =>
                 \/ captured.body = body.bytes /\ body.end = "eof"
                 \/ captured.oversized /\ Len(body.bytes) > MaximumBytes
                 \/ captured.failed /\ body.end = "error"
            /\ captured.oversized => ~captured.failed /\ captured.body = <<>>
<1> DEFINE body   == request.body
           size   == Len(body.bytes)
           prefix == limited(body, MaximumBytes + 1)
           captured == captureRequestBody(request, config)
<1>1. /\ body \in Streams(S) /\ body.bytes \in Seq(S) /\ size \in Nat
      /\ body.end \in {"eof", "error"} /\ MaximumBytes \in Nat
  BY LimitNatural DEF Streams
<1>2. PICK n \in 0..size : /\ prefix.bytes = SubSeq(body.bytes, 1, n)
                           /\ Len(prefix.bytes) = n /\ n <= MaximumBytes + 1
                           /\ \/ n = MaximumBytes + 1 /\ prefix.end = "eof"
                              \/ n <= MaximumBytes /\ n = size /\ prefix = body
  <2>1. CASE size >= MaximumBytes + 1
    <3> DEFINE n == MaximumBytes + 1
    <3>1. prefix = [bytes |-> SubSeq(body.bytes, 1, n), end |-> "eof"]
      BY <2>1 DEF limited
    <3>2. n \in 0..size  BY <1>1, <2>1
    <3>3. Len(SubSeq(body.bytes, 1, n)) = n  BY <1>1, <2>1
    <3>4. QED  BY <1>1, <3>1, <3>2, <3>3
  <2>2. CASE size < MaximumBytes + 1
    <3>1. prefix = body  BY <1>1, <2>2 DEF limited
    <3>2. SubSeq(body.bytes, 1, size) = body.bytes  BY <1>1, SubSeqFull
    <3>3. /\ size \in 0..size /\ Len(prefix.bytes) = size
          /\ prefix.bytes = SubSeq(body.bytes, 1, size)
          /\ size <= MaximumBytes
      BY <1>1, <2>2, <3>1, <3>2
    <3>4. QED  BY <1>1, <3>1, <3>3
  <2>3. QED  BY <1>1, <2>1, <2>2
<1>3. multiReader(prefix.bytes, rest(body, Len(prefix.bytes))) = body
  BY <1>1, <1>2, PutTogether
<1>4. CASE captures(request, config)
  <2> DEFINE oversized == prefix.end = "eof" /\ Len(prefix.bytes) > MaximumBytes
             failed    == prefix.end = "error"
  <2>1. /\ captured.body = IF failed \/ oversized THEN <<>> ELSE prefix.bytes
        /\ captured.oversized = oversized /\ captured.failed = failed
        /\ captured.replay = multiReader(prefix.bytes, rest(body, Len(prefix.bytes)))
        /\ captured.read = Len(prefix.bytes)
    BY <1>4 DEF captureRequestBody
  <2>2. n = MaximumBytes + 1 => oversized /\ ~failed /\ size > MaximumBytes
    BY <1>1, <1>2
  <2>3. n # MaximumBytes + 1 => ~oversized /\ prefix = body
    BY <1>1, <1>2
  <2> HIDE DEF captured, prefix, oversized, failed
  <2>4. captured.replay = body /\ captured.read <= MaximumBytes + 1
    BY <1>2, <1>3, <2>1
  <2>5. captured.oversized => ~captured.failed /\ captured.body = <<>>
    BY <2>1, <2>2, <2>3
  <2>6. \/ captured.body = body.bytes /\ body.end = "eof"
        \/ captured.oversized /\ size > MaximumBytes
        \/ captured.failed /\ body.end = "error"
    <3>1. CASE n = MaximumBytes + 1  BY <2>1, <2>2, <3>1
    <3>2. CASE n # MaximumBytes + 1
      BY <1>1, <2>1, <2>3, <3>2 DEF failed
    <3>3. QED  BY <3>1, <3>2
  <2>7. QED  BY <2>4, <2>5, <2>6 DEF captured
<1>5. CASE ~captures(request, config)
  <2>1. /\ captured.replay = body /\ captured.read = 0
        /\ captured.oversized = FALSE
    BY <1>5 DEF captureRequestBody
  <2>2. QED  BY <1>1, <1>5, <2>1
<1>6. QED  BY <1>4, <1>5

-----------------------------------------------------------------------------
(* A failure is a 503 without Retry-After, or nothing the client notices.    *)
LEMMA FailureShown ==
  ASSUME NEW kind, NEW mode
  PROVE  handleFailure(kind, mode) \in {PassedOn, [status |-> 503, retryAfter |-> 0]}
<1> DEFINE response == [decision |-> "error", status |-> 503, retry |-> 0]
<1>1. response.decision = "error" /\ response.status = 503 /\ response.retry = 0  OBVIOUS
<1> HIDE DEF response
<1>2. enforcementStatus(response) = 503  BY <1>1 DEF enforcementStatus
<1>3. ~retryAfterShown(response)  BY <1>1 DEF retryAfterShown
<1>4. write(response) = [status |-> 503, retryAfter |-> 0]  BY <1>2, <1>3 DEF write
<1> QED  BY <1>4 DEF handleFailure, response

(* A denial that evaluate accepts is written with the status the Agent gave, *)
(* and with its Retry-After.                                                 *)
LEMMA DenialWritten ==
  ASSUME NEW response, validateEvaluationResponse(response),
         response.decision \in {"block", "challenge", "rate_limit"}
  PROVE  write(response).status = response.status /\ write(response).retryAfter = response.retry
<1>1. /\ response.status \in expectedStatus(response.decision)
      /\ response.retry \in 0..maximumRetryAfter
      /\ response.retry > 0 => response.decision \in {"rate_limit", "block"}
  BY DEF validateEvaluationResponse
<1>2. enforcementStatus(response) = response.status /\ response.status \in {403, 429}
  <2>1. CASE response.decision = "rate_limit"
    <3>1. response.status = 429  BY <1>1, <2>1 DEF expectedStatus
    <3>2. enforcementStatus(response) = 429  BY <2>1 DEF enforcementStatus
    <3> QED  BY <3>1, <3>2
  <2>2. CASE response.decision \in {"block", "challenge"}
    <3>1. response.status = 403  BY <1>1, <2>2 DEF expectedStatus
    <3>2. enforcementStatus(response) = 403  BY <2>2 DEF enforcementStatus
    <3> QED  BY <3>1, <3>2
  <2> QED  BY <2>1, <2>2
<1>3. response.retry = 0 \/ response.retry > 0  BY <1>1
<1> QED  BY <1>2, <1>3 DEF write, retryAfterShown

(* What ServeHTTP shows for any reply and under any failure mode: a denial   *)
(* with the Agent's status and Retry-After, else the service behind or a 503 *)
(* (agent.go:185-297, middleware.go:97-151, responses.go:60-66, 212-226).    *)
THEOREM ShownAsGiven ==
  ASSUME NEW reply, reply.kind \in Unanswered \cup Garbled \cup {"response"},
         NEW mode \in FailureModes
  PROVE  IF /\ evaluate(reply) = "answer"
            /\ reply.response.decision \in {"block", "challenge", "rate_limit"}
            /\ mode["explicitLocalDeny"] = "deny"
         THEN /\ shown(reply, mode).status = reply.response.status
              /\ shown(reply, mode).retryAfter = reply.response.retry
         ELSE shown(reply, mode) \in {PassedOn, [status |-> 503, retryAfter |-> 0]}
<1> DEFINE response == reply.response
           Denials == {"block", "challenge", "rate_limit"}
<1>1. CASE evaluate(reply) # "answer"
  <2>1. shown(reply, mode) = handleFailure(evaluate(reply), mode)  BY <1>1 DEF shown
  <2> QED  BY <1>1, <2>1, FailureShown
<1>2. CASE evaluate(reply) = "answer" /\ response.decision = "error"
  <2>1. shown(reply, mode) = handleFailure("unavailable", mode)  BY <1>2 DEF shown
  <2> QED  BY <1>2, <2>1, FailureShown
<1>3. CASE evaluate(reply) = "answer" /\ response.decision # "error"
  <2>1. shown(reply, mode) = handleDecision(response, mode)  BY <1>3 DEF shown
  <2>2. validateEvaluationResponse(response)
    BY <1>3 DEF evaluate, Unanswered, Garbled
  <2>3. CASE response.decision \in Denials
    <3>1. handleDecision(response, mode) =
            IF mode["explicitLocalDeny"] = "allow" THEN PassedOn ELSE write(response)
      BY <2>3 DEF handleDecision
    <3>2. mode["explicitLocalDeny"] \in {"allow", "deny"}  BY DEF FailureModes
    <3> QED  BY <1>3, <2>1, <2>2, <2>3, <3>1, <3>2, DenialWritten
  <2>4. CASE response.decision \notin Denials
    <3>1. handleDecision(response, mode) \in {PassedOn, handleFailure("malformed", mode)}
      BY <2>4 DEF handleDecision
    <3> QED  BY <2>1, <2>4, <3>1, FailureShown
  <2> QED  BY <2>3, <2>4
<1> QED  BY <1>1, <1>2, <1>3

-----------------------------------------------------------------------------
(* The theorems for the exchanges of the run: the values of the fields are   *)
(* those of MCExchange, the limits any numbers.                              *)
LEMMA Kinds ==
  ASSUME ExchangeInit
  PROVE  /\ exchange.kind = "reply" => exchange \in [kind : {"reply"}, reply : Replies]
         /\ exchange.kind = "headers" => exchange \in HeaderCases
         /\ exchange.kind = "cookies" => exchange \in CookieCases
         /\ exchange.kind = "body" => exchange \in BodyCases
<1>1. CASE exchange \in [kind : {"reply"}, reply : Replies]
  <2>1. exchange.kind = "reply"  BY <1>1
  <2> QED  BY <1>1, <2>1
<1>2. CASE exchange \in HeaderCases
  <2>1. PICK f \in Framings :
          exchange \in [kind : {"headers"}, configured : Configured, framing : {f},
                        values : Functions(Headers(f), Values)]
    BY <1>2 DEF HeaderCases
  <2>2. exchange.kind = "headers"  BY <2>1
  <2> QED  BY <1>2, <2>2
<1>3. CASE exchange \in CookieCases
  <2>1. exchange.kind = "cookies"  BY <1>3 DEF CookieCases
  <2> QED  BY <1>3, <2>1
<1>4. CASE exchange \in BodyCases
  <2>1. exchange.kind = "body"  BY <1>4 DEF BodyCases
  <2> QED  BY <1>4, <2>1
<1> QED  BY <1>1, <1>2, <1>3, <1>4 DEF ExchangeInit

LEMMA Exchanges ==
  ASSUME ExchangeInit
  PROVE  exchange.kind = "body" => exchange.request.body \in Streams(Nat)
<1> SUFFICES ASSUME exchange.kind = "body"
             PROVE  exchange.request.body \in Streams(Nat)
  OBVIOUS
<1>1. exchange \in BodyCases
  BY Kinds
<1>2. exchange.request.body \in Bodies  BY <1>1 DEF BodyCases
<1>3. ASSUME NEW n \in 0..(MaximumBytes + 2)
      PROVE  [i \in 1..n |-> i] \in Seq(Nat)
  BY LimitNatural
<1>4. QED  BY <1>2, <1>3 DEF Bodies, Streams

(* Capturing a body changes nothing for the handler behind                   *)
(* (body.go:20-39).                                                          *)
THEOREM BodyAlwaysIntact == ExchangeSpec => []BodyIntact
<1>1. ExchangeInit => BodyIntact
  BY Exchanges, BodyKeptIntact DEF BodyIntact
<1>2. BodyIntact /\ [ExchangeNext]_exchange => BodyIntact'
  BY DEF ExchangeNext, BodyIntact
<1>3. QED  BY <1>1, <1>2, PTL DEF ExchangeSpec

(* The replies of the run are replies.                                       *)
LEMMA RepliesSorted ==
  ASSUME ExchangeInit, exchange.kind = "reply"
  PROVE  exchange.reply.kind \in Unanswered \cup Garbled \cup {"response"}
<1>1. exchange \in [kind : {"reply"}, reply : Replies]
  BY Kinds
<1> QED  BY <1>1 DEF Replies

(* A denial is shown with the Agent's status and Retry-After, a failure as a *)
(* 503 whatever the Agent said (middleware.go:97-151, responses.go:60-66,    *)
(* 212-226).                                                                 *)
THEOREM AlwaysShownAsAnswered == ExchangeSpec => []ShownAsAnswered
<1>1. ExchangeInit => ShownAsAnswered
  BY RepliesSorted, ShownAsGiven DEF ShownAsAnswered, Denied, Accepted
<1>2. ShownAsAnswered /\ [ExchangeNext]_exchange => ShownAsAnswered'
  BY DEF ExchangeNext, ShownAsAnswered, Denied, Accepted
<1> QED  BY <1>1, <1>2, PTL DEF ExchangeSpec

(* The cache keeps exactly what the Agent said may be kept, save challenges  *)
(* (agent.go:279-295, cache.go:68-75).                                       *)
THEOREM AlwaysKeptAsAuthorised == ExchangeSpec => []CacheKeepsWhatWasAuthorised
<1>1. ASSUME NEW response, validateEvaluationResponse(response)
      PROVE  Cache!storable(response) <=> response.cacheable /\ ~response.token
  BY <1>1, TTLIsNat
     DEF validateEvaluationResponse, Cache!storable, Cache!enabled, Cache!Denials
<1>2. ExchangeInit /\ Accepted => validateEvaluationResponse(exchange.reply.response)
  BY RepliesSorted DEF Accepted, evaluate, Unanswered, Garbled
<1>3. ExchangeInit => CacheKeepsWhatWasAuthorised
  BY <1>1, <1>2 DEF CacheKeepsWhatWasAuthorised
<1>4. CacheKeepsWhatWasAuthorised /\ [ExchangeNext]_exchange => CacheKeepsWhatWasAuthorised'
  BY DEF ExchangeNext, CacheKeepsWhatWasAuthorised, Accepted, Cache!storable
<1>5. QED  BY <1>3, <1>4, PTL DEF ExchangeSpec

-----------------------------------------------------------------------------
(* Of numbers there is a least: what every induction below rests on.        *)
LEMMA LeastNumber ==
  ASSUME NEW T, T \subseteq Nat, T # {}
  PROVE  \E x \in T : \A y \in T : x <= y
<1>1. IsWellFoundedOn(OpToRel(<, Nat), Nat)  BY NatLessThanWellFounded
<1>2. PICK x \in T : \A y \in T : ~ (<<y, x>> \in OpToRel(<, Nat))  BY <1>1, WFMin
<1>3. \A y \in T : ~ (y < x)  BY <1>2 DEF OpToRel
<1>4. \A y \in T : x <= y  BY <1>3
<1> QED  BY <1>4

(* What holds at 0 and, where it holds at i, at i + 1, holds up to n.        *)
LEMMA UpTo ==
  ASSUME NEW n \in Nat, NEW T, 0 \in T, \A i \in 1..n : i - 1 \in T => i \in T
  PROVE  0..n \subseteq T
<1> DEFINE Missing == (0..n) \ T
<1>1. ASSUME Missing # {} PROVE FALSE
  <2>1. Missing \subseteq Nat  OBVIOUS
  <2> HIDE DEF Missing
  <2>2. PICK i \in Missing : \A j \in Missing : i <= j  BY <1>1, <2>1, LeastNumber
  <2> USE DEF Missing
  <2>3. i \in 1..n /\ i - 1 \in 0..n /\ i - 1 \notin Missing  BY <2>2
  <2> QED  BY <2>2, <2>3
<1> QED  BY <1>1

(* The loop over the names: one pass, and all passes up to a place.         *)
pass(names, values, taken, i) ==
  IF names[i] \in DOMAIN values THEN take(taken, names[i], values[names[i]]) ELSE taken

Passes(names, values, upTo, g) ==
  [i \in 0..upTo |-> IF i = 0 THEN Empty ELSE pass(names, values, g[i - 1], i)]

(* The recursive function of takeEach exists: it can be extended by a pass. *)
LEMMA PassesExist ==
  ASSUME NEW names, NEW values, NEW n \in Nat
  PROVE  \E g : g = Passes(names, values, n, g)
<1> DEFINE T == {i \in 0..n : \E g : g = Passes(names, values, i, g)}
<1>1. 0 \in T
  <2> DEFINE g == [i \in 0..0 |-> Empty]
  <2>1. g = Passes(names, values, 0, g)  BY DEF Passes
  <2> HIDE DEF g
  <2> QED  BY <2>1
<1>2. ASSUME NEW i \in 1..n, i - 1 \in T PROVE i \in T
  <2>1. PICK g : g = Passes(names, values, i - 1, g)  BY <1>2
  <2> DEFINE h == [j \in 0..i |-> IF j = i THEN pass(names, values, g[i - 1], i) ELSE g[j]]
  <2>2. ASSUME NEW j \in 0..i PROVE h[j] = Passes(names, values, i, h)[j]
    <3>1. CASE j = 0
      <4>1. h[j] = g[j]  BY <3>1
      <4>2. g[j] = Passes(names, values, i - 1, g)[j]  BY <2>1
      <4>3. Passes(names, values, i - 1, g)[j] = Empty  BY <3>1 DEF Passes
      <4>4. Passes(names, values, i, h)[j] = Empty  BY <3>1 DEF Passes
      <4> QED  BY <4>1, <4>2, <4>3, <4>4
    <3>2. CASE j \in 1..(i - 1)
      <4>1. h[j] = g[j] /\ h[j - 1] = g[j - 1]  BY <3>2
      <4>2. g[j] = Passes(names, values, i - 1, g)[j]  BY <2>1
      <4>3. Passes(names, values, i - 1, g)[j] = pass(names, values, g[j - 1], j)
        BY <3>2 DEF Passes
      <4> HIDE DEF h
      <4>4. Passes(names, values, i, h)[j] = pass(names, values, h[j - 1], j)
        BY <3>2 DEF Passes
      <4> QED  BY <4>1, <4>2, <4>3, <4>4
    <3>3. CASE j = i
      <4>1. h[j] = pass(names, values, g[i - 1], i) /\ h[i - 1] = g[i - 1]  BY <3>3
      <4> HIDE DEF h
      <4>2. Passes(names, values, i, h)[j] = pass(names, values, h[i - 1], i)
        BY <3>3 DEF Passes
      <4> QED  BY <4>1, <4>2
    <3> QED  BY <3>1, <3>2, <3>3
  <2>3. h = Passes(names, values, i, h)
    <3>1. /\ h = [j \in 0..i |-> h[j]]
          /\ Passes(names, values, i, h) = [j \in 0..i |-> Passes(names, values, i, h)[j]]
      BY DEF Passes
    <3> HIDE DEF h
    <3> QED  BY <2>2, <3>1
  <2> HIDE DEF h
  <2> QED  BY <2>3
<1> HIDE DEF T
<1>3. 0..n \subseteq T  BY <1>1, <1>2, UpTo
<1> QED  BY <1>3 DEF T

(* The loop after each of its passes.                                        *)
looped(names, values) == CHOOSE g : g = Passes(names, values, Len(names), g)

(* It starts with nothing taken and takes a pass at every place.            *)
LEMMA Looped ==
  ASSUME NEW names, NEW values, Len(names) \in Nat
  PROVE  /\ takeEach(names, values) = looped(names, values)[Len(names)]
         /\ looped(names, values)[0] = Empty
         /\ \A i \in 1..Len(names) :
              looped(names, values)[i] = pass(names, values, looped(names, values)[i - 1], i)
<1> DEFINE g == looped(names, values)
<1>1. g = Passes(names, values, Len(names), g)  BY PassesExist DEF looped
<1>2. takeEach(names, values) = g[Len(names)]
  BY DEF takeEach, looped, Passes, pass
<1> HIDE DEF g
<1>3. g[0] = Empty
  <2>1. Passes(names, values, Len(names), g)[0] = Empty  BY DEF Passes
  <2> QED  BY <1>1, <2>1
<1>4. ASSUME NEW i \in 1..Len(names) PROVE g[i] = pass(names, values, g[i - 1], i)
  <2>1. Passes(names, values, Len(names), g)[i] = pass(names, values, g[i - 1], i)
    BY DEF Passes
  <2> QED  BY <1>1, <2>1
<1> QED  BY <1>2, <1>3, <1>4 DEF g

-----------------------------------------------------------------------------
(* What names and their values count together: the fold of Bytes.           *)
oneMore(kept, g, s) ==
  IF s = {} THEN 0
  ELSE g[s \ {CHOOSE n \in s : TRUE}] + NameBytes + kept[CHOOSE n \in s : TRUE]

Sums(kept, S, g) == [s \in S |-> oneMore(kept, g, s)]

(* The recursive function of the fold exists, by the number of names.       *)
LEMMA SumsExist ==
  ASSUME NEW S, IsFiniteSet(S), NEW kept
  PROVE  \E g : g = Sums(kept, SUBSET S, g)
<1> DEFINE Level(k) == {s \in SUBSET S : Cardinality(s) <= k}
           T == {k \in 0..Cardinality(S) : \E g : g = Sums(kept, Level(k), g)}
<1>0. /\ Cardinality(S) \in Nat
      /\ \A s \in SUBSET S : IsFiniteSet(s) /\ Cardinality(s) \in 0..Cardinality(S)
  BY FS_CardinalityType, FS_Subset
<1>1. 0 \in T
  <2> DEFINE g == [s \in Level(0) |-> 0]
  <2>1. ASSUME NEW s \in Level(0) PROVE s = {}
    BY <1>0, FS_EmptySet
  <2>2. ASSUME NEW s \in Level(0) PROVE oneMore(kept, g, s) = 0
    BY <2>1 DEF oneMore
  <2>3. g = Sums(kept, Level(0), g)
    <3> HIDE DEF Level
    <3> QED  BY <2>2 DEF Sums
  <2> HIDE DEF g, Level
  <2> QED  BY <1>0, <2>3
<1>2. ASSUME NEW i \in 1..Cardinality(S), i - 1 \in T PROVE i \in T
  <2>1. PICK g : g = Sums(kept, Level(i - 1), g)  BY <1>2
  <2> DEFINE h == [s \in Level(i) |-> IF s \in Level(i - 1) THEN g[s] ELSE oneMore(kept, g, s)]
  <2>2. ASSUME NEW s \in Level(i) PROVE h[s] = oneMore(kept, h, s)
    <3>1. h[s] = oneMore(kept, g, s)
      <4>1. s \in Level(i - 1) => g[s] = oneMore(kept, g, s)
        <5> HIDE DEF Level
        <5>1. s \in Level(i - 1) => Sums(kept, Level(i - 1), g)[s] = oneMore(kept, g, s)
          BY DEF Sums
        <5> QED  BY <2>1, <5>1
      <4> HIDE DEF Level
      <4> QED  BY <4>1
    <3>2. CASE s = {}  BY <3>1, <3>2 DEF oneMore
    <3>3. CASE s # {}
      <4> DEFINE c == CHOOSE n \in s : TRUE
      <4>1. c \in s  BY <3>3
      <4> HIDE DEF c
      <4>2. s \ {c} \in Level(i - 1) /\ s \ {c} \in Level(i)
        <5>1. IsFiniteSet(s) /\ Cardinality(s) \in Nat /\ Cardinality(s) <= i  BY <1>0
        <5>2. Cardinality(s \ {c}) = Cardinality(s) - 1  BY <4>1, <5>1, FS_RemoveElement
        <5> QED  BY <5>1, <5>2
      <4> HIDE DEF Level
      <4>3. h[s \ {c}] = g[s \ {c}]  BY <4>2
      <4> HIDE DEF h
      <4> QED  BY <3>1, <3>3, <4>3 DEF oneMore, c
    <3> QED  BY <3>2, <3>3
  <2> HIDE DEF Level
  <2>3. h = [s \in Level(i) |-> h[s]]  OBVIOUS
  <2> HIDE DEF h
  <2>4. h = Sums(kept, Level(i), h)  BY <2>2, <2>3 DEF Sums
  <2> QED  BY <2>4
<1> HIDE DEF T
<1>3. Cardinality(S) \in T  BY <1>0, <1>1, <1>2, UpTo
<1> USE DEF T
<1>4. Level(Cardinality(S)) = SUBSET S  BY <1>0
<1> HIDE DEF Level
<1> QED  BY <1>3, <1>4

(* It says the same of a set wherever that set is part of a larger one.     *)
LEMMA SumsAgree ==
  ASSUME NEW S, IsFiniteSet(S), NEW part \in SUBSET S, NEW kept, NEW other,
         \A n \in part : kept[n] = other[n],
         NEW g, g = Sums(kept, SUBSET part, g), NEW h, h = Sums(other, SUBSET S, h)
  PROVE  g[part] = h[part]
<1> DEFINE T == {k \in 0..Cardinality(part) :
                   \A s \in SUBSET part : Cardinality(s) = k => g[s] = h[s]}
<1>0. /\ Cardinality(part) \in Nat
      /\ \A s \in SUBSET part : IsFiniteSet(s) /\ Cardinality(s) \in 0..Cardinality(part)
  <2>1. IsFiniteSet(part)  BY FS_Subset
  <2> QED  BY <2>1, FS_CardinalityType, FS_Subset
<1>1. ASSUME NEW s \in SUBSET part
      PROVE  g[s] = oneMore(kept, g, s) /\ h[s] = oneMore(other, h, s)
  <2>1. /\ Sums(kept, SUBSET part, g)[s] = oneMore(kept, g, s)
        /\ Sums(other, SUBSET S, h)[s] = oneMore(other, h, s)
    BY DEF Sums
  <2> QED  BY <2>1
<1>2. 0 \in T
  <2>1. ASSUME NEW s \in SUBSET part, Cardinality(s) = 0 PROVE g[s] = h[s]
    <3>1. s = {}  BY <1>0, <2>1, FS_EmptySet
    <3> QED  BY <1>1, <3>1 DEF oneMore
  <2> QED  BY <1>0, <2>1
<1>3. ASSUME NEW i \in 1..Cardinality(part), i - 1 \in T PROVE i \in T
  <2>1. ASSUME NEW s \in SUBSET part, Cardinality(s) = i PROVE g[s] = h[s]
    <3> DEFINE c == CHOOSE n \in s : TRUE
    <3>1. s # {}  BY <1>0, <2>1, FS_EmptySet
    <3>2. c \in s  BY <3>1
    <3>3. s \ {c} \in SUBSET part /\ Cardinality(s \ {c}) = i - 1
      BY <1>0, <2>1, <3>2, FS_RemoveElement
    <3>4. g[s \ {c}] = h[s \ {c}]  BY <1>3, <3>3
    <3>5. kept[c] = other[c]  BY <3>2
    <3>6. /\ oneMore(kept, g, s) = g[s \ {c}] + NameBytes + kept[c]
          /\ oneMore(other, h, s) = h[s \ {c}] + NameBytes + other[c]
      BY <3>1 DEF oneMore
    <3> HIDE DEF c
    <3> QED  BY <1>1, <3>4, <3>5, <3>6
  <2> QED  BY <1>0, <2>1
<1> HIDE DEF T
<1>4. Cardinality(part) \in T  BY <1>0, <1>2, <1>3, UpTo
<1> QED  BY <1>4 DEF T

(* Bytes is that function at the whole set.                                 *)
LEMMA BytesUnfolds ==
  ASSUME NEW kept, NEW names
  PROVE  Bytes(kept, names) = (CHOOSE g : g = Sums(kept, SUBSET names, g))[names]
BY DEF Bytes, Sums, oneMore, FoldSet, MapThenFoldSet

(* Only the values of the names counted matter. *)
LEMMA SameBytes ==
  ASSUME NEW names, IsFiniteSet(names), NEW kept, NEW other,
         \A n \in names : kept[n] = other[n]
  PROVE  Bytes(kept, names) = Bytes(other, names)
<1> DEFINE g == CHOOSE f : f = Sums(kept, SUBSET names, f)
           h == CHOOSE f : f = Sums(other, SUBSET names, f)
<1>1. g = Sums(kept, SUBSET names, g) /\ h = Sums(other, SUBSET names, h)
  BY SumsExist
<1>2. Bytes(kept, names) = g[names] /\ Bytes(other, names) = h[names]
  BY BytesUnfolds
<1> HIDE DEF g, h
<1> QED  BY <1>1, <1>2, SumsAgree

(* It counts the name it chooses and the rest.                              *)
LEMMA BytesChosen ==
  ASSUME NEW names, IsFiniteSet(names), NEW kept
  PROVE  /\ names = {} => Bytes(kept, names) = 0
         /\ names # {} =>
              LET c == CHOOSE n \in names : TRUE
              IN  Bytes(kept, names) = Bytes(kept, names \ {c}) + NameBytes + kept[c]
<1> DEFINE c == CHOOSE n \in names : TRUE
           g == CHOOSE f : f = Sums(kept, SUBSET names, f)
           h == CHOOSE f : f = Sums(kept, SUBSET (names \ {c}), f)
<1>1. g = Sums(kept, SUBSET names, g) /\ Bytes(kept, names) = g[names]
  BY SumsExist, BytesUnfolds
<1>2. h = Sums(kept, SUBSET (names \ {c}), h) /\ Bytes(kept, names \ {c}) = h[names \ {c}]
  <2>1. IsFiniteSet(names \ {c})  BY FS_Subset
  <2> HIDE DEF c
  <2> QED  BY <2>1, SumsExist, BytesUnfolds
<1> HIDE DEF g, h
<1>3. Sums(kept, SUBSET names, g)[names] = oneMore(kept, g, names)  BY DEF Sums
<1>4. h[names \ {c}] = g[names \ {c}]
  <2> HIDE DEF c
  <2>1. names \ {c} \in SUBSET names  OBVIOUS
  <2>2. ASSUME NEW part \in SUBSET names,
               NEW a, a = Sums(kept, SUBSET part, a), NEW b, b = Sums(kept, SUBSET names, b)
        PROVE  a[part] = b[part]
    BY <2>2, SumsAgree
  <2> QED  BY <1>1, <1>2, <2>1, <2>2
<1> QED  BY <1>1, <1>2, <1>3, <1>4 DEF oneMore

(* It is a number.                                                          *)
LEMMA BytesNatural ==
  ASSUME NEW names, IsFiniteSet(names), NEW kept, \A n \in names : kept[n] \in Nat
  PROVE  Bytes(kept, names) \in Nat
<1> DEFINE T == {k \in 0..Cardinality(names) :
                   \A s \in SUBSET names : Cardinality(s) = k => Bytes(kept, s) \in Nat}
<1>0. /\ Cardinality(names) \in Nat /\ NameBytes \in Nat
      /\ \A s \in SUBSET names : IsFiniteSet(s) /\ Cardinality(s) \in 0..Cardinality(names)
  BY FS_CardinalityType, FS_Subset, BoundsAreNumbers
<1>1. 0 \in T
  BY <1>0, FS_EmptySet, BytesChosen
<1>2. ASSUME NEW i \in 1..Cardinality(names), i - 1 \in T PROVE i \in T
  <2>1. ASSUME NEW s \in SUBSET names, Cardinality(s) = i PROVE Bytes(kept, s) \in Nat
    <3> DEFINE c == CHOOSE n \in s : TRUE
    <3>1. s # {} /\ IsFiniteSet(s)  BY <1>0, <2>1, FS_EmptySet
    <3>2. c \in s  BY <3>1
    <3>3. Bytes(kept, s) = Bytes(kept, s \ {c}) + NameBytes + kept[c]
      BY <3>1, BytesChosen
    <3> HIDE DEF c
    <3>4. s \ {c} \in SUBSET names /\ Cardinality(s \ {c}) = i - 1
      BY <1>0, <2>1, <3>1, <3>2, FS_RemoveElement
    <3>5. Bytes(kept, s \ {c}) \in Nat  BY <1>2, <3>4
    <3> QED  BY <1>0, <3>2, <3>3, <3>5
  <2> QED  BY <1>0, <2>1
<1> HIDE DEF T
<1>3. Cardinality(names) \in T  BY <1>0, <1>1, <1>2, UpTo
<1> QED  BY <1>3 DEF T

(* The order does not matter: any of the names can be counted last. *)
LEMMA BytesWithout ==
  ASSUME NEW names, IsFiniteSet(names), NEW kept, \A n \in names : kept[n] \in Nat,
         NEW last \in names
  PROVE  Bytes(kept, names) = Bytes(kept, names \ {last}) + NameBytes + kept[last]
<1> DEFINE Equal(s) == \A n \in s : Bytes(kept, s) = Bytes(kept, s \ {n}) + NameBytes + kept[n]
           T == {k \in 0..Cardinality(names) :
                   \A s \in SUBSET names : Cardinality(s) = k => Equal(s)}
<1>0. /\ Cardinality(names) \in Nat /\ NameBytes \in Nat
      /\ \A s \in SUBSET names : /\ IsFiniteSet(s) /\ Cardinality(s) \in 0..Cardinality(names)
                                 /\ Bytes(kept, s) \in Nat
  BY FS_CardinalityType, FS_Subset, BoundsAreNumbers, BytesNatural
<1>1. 0 \in T
  BY <1>0, FS_EmptySet
<1>2. ASSUME NEW i \in 1..Cardinality(names), i - 1 \in T PROVE i \in T
  <2>1. ASSUME NEW s \in SUBSET names, Cardinality(s) = i, NEW n \in s
        PROVE Bytes(kept, s) = Bytes(kept, s \ {n}) + NameBytes + kept[n]
    <3> DEFINE c == CHOOSE m \in s : TRUE
    <3>1. c \in s /\ IsFiniteSet(s)  BY <1>0, <2>1
    <3>2. Bytes(kept, s) = Bytes(kept, s \ {c}) + NameBytes + kept[c]
      BY <3>1, BytesChosen
    <3> HIDE DEF c
    <3>3. CASE n = c  BY <3>2, <3>3
    <3>4. CASE n # c
      <4>1. /\ \A m \in s : s \ {m} \in SUBSET names /\ Cardinality(s \ {m}) = i - 1
        BY <1>0, <2>1, <3>1, FS_RemoveElement
      <4>2. \A m \in s : Equal(s \ {m})  BY <1>2, <4>1
      <4>3. Bytes(kept, s \ {c}) = Bytes(kept, (s \ {c}) \ {n}) + NameBytes + kept[n]
        BY <3>1, <3>4, <4>2
      <4>4. Bytes(kept, s \ {n}) = Bytes(kept, (s \ {n}) \ {c}) + NameBytes + kept[c]
        BY <3>1, <3>4, <4>2
      <4>5. Bytes(kept, (s \ {n}) \ {c}) = Bytes(kept, (s \ {c}) \ {n})
        <5>1. (s \ {n}) \ {c} = (s \ {c}) \ {n}  OBVIOUS
        <5> QED  BY <5>1
      <4>6. Bytes(kept, (s \ {c}) \ {n}) \in Nat /\ kept[c] \in Nat /\ kept[n] \in Nat
        BY <1>0, <3>1
      <4> HIDE DEF Equal, T
      <4> QED  BY <1>0, <3>2, <4>3, <4>4, <4>5, <4>6
    <3> QED  BY <3>3, <3>4
  <2> QED  BY <1>0, <2>1
<1> HIDE DEF T
<1>3. Cardinality(names) \in T  BY <1>0, <1>1, <1>2, UpTo
<1> QED  BY <1>0, <1>3 DEF T

-----------------------------------------------------------------------------
Sized == [length : Nat, dirty : BOOLEAN]

(* What the loop has kept so far. *)
Takings ==
  {t \in [kept : UNION {[D -> Nat] : D \in SUBSET Nat}, total : Nat, truncated : BOOLEAN] :
     IsFiniteSet(DOMAIN t.kept)}

Bounded(t) ==
  /\ Cardinality(DOMAIN t.kept) <= maximumForwarded
  /\ Bytes(t.kept, DOMAIN t.kept) <= t.total
  /\ t.total <= maximumForwardedBytes
  /\ \A n \in DOMAIN t.kept : t.kept[n] <= maximumForwardedValueBytes

(* The parts of what was taken.                                             *)
LEMMA TakingsTyped ==
  ASSUME NEW t \in Takings
  PROVE  /\ DOMAIN t.kept \in SUBSET Nat /\ t.kept \in [DOMAIN t.kept -> Nat]
         /\ IsFiniteSet(DOMAIN t.kept) /\ t.total \in Nat /\ t.truncated \in BOOLEAN
         /\ t = [kept |-> t.kept, total |-> t.total, truncated |-> t.truncated]
BY DEF Takings

(* Nothing taken is within the bounds.                                      *)
LEMMA EmptyTakings == Empty \in Takings /\ Bounded(Empty) /\ DOMAIN Empty.kept = {}
                      /\ ~Empty.truncated
<1>1. /\ Empty.kept \in [{} -> Nat] /\ DOMAIN Empty.kept = {} /\ Empty.total = 0
      /\ Empty.truncated = FALSE
      /\ Empty = [kept |-> Empty.kept, total |-> Empty.total, truncated |-> Empty.truncated]
  BY DEF Empty
<1>2. IsFiniteSet({}) /\ Cardinality({}) = 0  BY FS_EmptySet
<1>3. Bytes(Empty.kept, {}) = 0  BY <1>2, BytesChosen
<1>4. Empty \in Takings
  <2>1. {} \in SUBSET Nat  OBVIOUS
  <2>2. Empty.kept \in UNION {[D -> Nat] : D \in SUBSET Nat}  BY <1>1, <2>1
  <2>3. Empty \in [kept : UNION {[D -> Nat] : D \in SUBSET Nat}, total : Nat,
                   truncated : BOOLEAN]
    <3> DEFINE K == UNION {[D -> Nat] : D \in SUBSET Nat}
    <3>1. Empty.kept \in K  BY <2>2
    <3> HIDE DEF K
    <3>2. Empty \in [kept : K, total : Nat, truncated : BOOLEAN]  BY <3>1 DEF Empty
    <3> QED  BY <3>2 DEF K
  <2>4. IsFiniteSet(DOMAIN Empty.kept)  BY <1>1, <1>2
  <2> QED  BY <2>3, <2>4 DEF Takings
<1>5. Bounded(Empty)
  <2>1. 0 <= maximumForwarded /\ 0 <= maximumForwardedBytes  BY BoundsAreNumbers
  <2> QED  BY <1>1, <1>2, <1>3, <2>1 DEF Bounded
<1> QED  BY <1>1, <1>4, <1>5

(* One name more: its value is what counts under it, the others stay.        *)
LEMMA AddTaken ==
  ASSUME NEW t \in Takings, NEW name \in Nat, NEW length \in Nat,
         NEW u, u = add(t, name, length)
  PROVE  /\ u \in Takings /\ u.truncated = t.truncated
         /\ DOMAIN u.kept = DOMAIN t.kept \cup {name} /\ u.kept[name] = length
         /\ \A n \in DOMAIN t.kept \ {name} : u.kept[n] = t.kept[n]
         /\ u.total = t.total + NameBytes + length
<1> DEFINE D == DOMAIN t.kept \cup {name}
           kept == [n \in D |-> IF n = name THEN length ELSE t.kept[n]]
<1>1. u = [kept |-> kept, total |-> t.total + NameBytes + length,
           truncated |-> t.truncated]
  BY DEF add
<1>2. kept \in [D -> Nat] /\ D \in SUBSET Nat /\ DOMAIN kept = D
  BY TakingsTyped
<1>3. IsFiniteSet(D)  BY TakingsTyped, FS_AddElement
<1>4. /\ t.total + NameBytes + length \in Nat /\ t.truncated \in BOOLEAN
  BY TakingsTyped, BoundsAreNumbers
<1>5. kept[name] = length /\ \A n \in DOMAIN t.kept \ {name} : kept[n] = t.kept[n]  OBVIOUS
<1> HIDE DEF kept
<1> QED  BY <1>1, <1>2, <1>3, <1>4, <1>5 DEF Takings

(* A flag changes nothing but the flag.                                     *)
LEMMA FlagTaken ==
  ASSUME NEW t \in Takings
  PROVE  /\ flag(t) \in Takings /\ flag(t).truncated /\ flag(t).kept = t.kept
         /\ flag(t).total = t.total
<1>1. t \in [kept : UNION {[D -> Nat] : D \in SUBSET Nat}, total : Nat, truncated : BOOLEAN]
      /\ IsFiniteSet(DOMAIN t.kept)
  BY DEF Takings
<1>2. flag(t) = [t EXCEPT !.truncated = TRUE]  BY DEF flag
<1>3. flag(t) \in [kept : UNION {[D -> Nat] : D \in SUBSET Nat}, total : Nat, truncated : BOOLEAN]
      /\ flag(t).truncated /\ flag(t).kept = t.kept /\ flag(t).total = t.total
  BY <1>1, <1>2
<1> QED  BY <1>1, <1>3 DEF Takings

(* What fits stays within the bounds when it is added.                      *)
LEMMA AddBounded ==
  ASSUME NEW t \in Takings, Bounded(t), NEW name \in Nat, NEW length \in Nat,
         length <= maximumForwardedValueBytes, fits(t, length)
  PROVE  Bounded(add(t, name, length))
<1> DEFINE u == add(t, name, length)
<1>0. u = add(t, name, length)  OBVIOUS
<1> HIDE DEF u
<1>1. /\ u \in Takings /\ DOMAIN u.kept = DOMAIN t.kept \cup {name} /\ u.kept[name] = length
      /\ \A n \in DOMAIN t.kept \ {name} : u.kept[n] = t.kept[n]
      /\ u.total = t.total + NameBytes + length
  BY <1>0, AddTaken
<1>2. /\ Cardinality(DOMAIN t.kept) < maximumForwarded
      /\ u.total <= maximumForwardedBytes
  BY <1>1 DEF fits
<1>3. /\ IsFiniteSet(DOMAIN u.kept) /\ IsFiniteSet(DOMAIN t.kept)
      /\ IsFiniteSet(DOMAIN t.kept \ {name})
      /\ \A n \in DOMAIN u.kept : u.kept[n] \in Nat
      /\ \A n \in DOMAIN t.kept : t.kept[n] \in Nat
      /\ t.total \in Nat /\ NameBytes \in Nat /\ maximumForwarded \in Nat
      /\ maximumForwardedValueBytes \in Nat /\ maximumForwardedBytes \in Nat
  BY <1>1, TakingsTyped, FS_Subset, BoundsAreNumbers
<1>4. Cardinality(DOMAIN u.kept) <= maximumForwarded
  <2>1. Cardinality(DOMAIN t.kept) \in Nat /\ Cardinality(DOMAIN u.kept) \in Nat
    BY <1>3, FS_CardinalityType
  <2>2. Cardinality(DOMAIN u.kept) = IF name \in DOMAIN t.kept THEN Cardinality(DOMAIN t.kept)
                                     ELSE Cardinality(DOMAIN t.kept) + 1
    BY <1>1, <1>3, FS_AddElement
  <2> QED  BY <1>2, <1>3, <2>1, <2>2
<1>5. Bytes(u.kept, DOMAIN u.kept) <= u.total
  <2> DEFINE others == DOMAIN t.kept \ {name}
  <2>1. DOMAIN u.kept \ {name} = others /\ name \in DOMAIN u.kept  BY <1>1
  <2> HIDE DEF others
  <2>2. Bytes(u.kept, DOMAIN u.kept) = Bytes(u.kept, others) + NameBytes + length
    BY <1>1, <1>3, <2>1, BytesWithout
  <2>3. Bytes(u.kept, others) = Bytes(t.kept, others)
    BY <1>1, <1>3, SameBytes DEF others
  <2>4. Bytes(t.kept, others) \in Nat /\ Bytes(t.kept, DOMAIN t.kept) \in Nat
    BY <1>3, BytesNatural DEF others
  <2>5. Bytes(t.kept, others) <= Bytes(t.kept, DOMAIN t.kept)
    <3>1. CASE name \in DOMAIN t.kept
      <4>1. Bytes(t.kept, DOMAIN t.kept) = Bytes(t.kept, others) + NameBytes + t.kept[name]
        BY <1>3, <3>1, BytesWithout DEF others
      <4> QED  BY <1>3, <2>4, <3>1, <4>1
    <3>2. CASE name \notin DOMAIN t.kept
      <4>1. others = DOMAIN t.kept  BY <3>2 DEF others
      <4> QED  BY <2>4, <4>1
    <3> QED  BY <3>1, <3>2
  <2>6. Bytes(t.kept, DOMAIN t.kept) <= t.total  BY DEF Bounded
  <2> QED  BY <1>1, <1>3, <2>2, <2>3, <2>4, <2>5, <2>6
<1>6. \A n \in DOMAIN u.kept : u.kept[n] <= maximumForwardedValueBytes
  BY <1>1 DEF Bounded
<1> QED  BY <1>0, <1>2, <1>4, <1>5, <1>6 DEF Bounded

(* One pass: either the whole value is kept or the request is flagged, a     *)
(* flag stays, no other name is touched and the bounds hold.                 *)
LEMMA Pass ==
  ASSUME NEW t \in Takings, NEW name \in Nat, NEW value \in Sized
  PROVE  LET u == take(t, name, value)
         IN /\ u \in Takings
            /\ t.truncated => u.truncated
            /\ ~u.truncated => name \in DOMAIN u.kept /\ u.kept[name] = value.length
            /\ DOMAIN t.kept \subseteq DOMAIN u.kept
            /\ DOMAIN u.kept \subseteq DOMAIN t.kept \cup {name}
            /\ \A n \in DOMAIN t.kept \ {name} : u.kept[n] = t.kept[n]
            /\ Bounded(t) => Bounded(u)
<1> DEFINE length == IF value.length > maximumForwardedValueBytes
                     THEN maximumForwardedValueBytes ELSE value.length
           cut    == IF length < value.length THEN flag(t) ELSE t
           barred == name \in InvalidNames \/ value.dirty
           u      == take(t, name, value)
<1>1. /\ length \in Nat /\ length <= maximumForwardedValueBytes /\ length <= value.length
      /\ value.length \in Nat /\ maximumForwardedValueBytes \in Nat
  BY BoundsAreNumbers DEF Sized
<1>2. u = CASE barred -> flag(t)
            [] ~barred /\ ~fits(t, length) -> flag(cut)
            [] OTHER -> add(cut, name, length)
  BY DEF take
<1> HIDE DEF length, barred
<1>3. /\ cut \in Takings /\ cut.kept = t.kept /\ cut.total = t.total
      /\ t.truncated => cut.truncated
      /\ ~cut.truncated => length = value.length
  BY <1>1, FlagTaken
<1>4. Bounded(t) => Bounded(cut)  BY <1>3 DEF Bounded
<1>5. fits(t, length) => fits(cut, length)  BY <1>3 DEF fits
<1> HIDE DEF cut
<1>6. CASE barred
  <2>1. u = flag(t)  BY <1>2, <1>6
  <2>2. Bounded(t) => Bounded(flag(t))  BY FlagTaken DEF Bounded
  <2> HIDE DEF u
  <2> QED  BY <2>1, <2>2, FlagTaken DEF u
<1>7. CASE ~barred /\ ~fits(t, length)
  <2>1. u = flag(cut)  BY <1>2, <1>7
  <2>2. Bounded(t) => Bounded(flag(cut))  BY <1>3, <1>4, FlagTaken DEF Bounded
  <2> HIDE DEF u
  <2> QED  BY <1>3, <2>1, <2>2, FlagTaken DEF u
<1>8. CASE ~barred /\ fits(t, length)
  <2>1. u = add(cut, name, length)  BY <1>2, <1>8
  <2>2. Bounded(t) => Bounded(u)
    <3> HIDE DEF u
    <3> QED  BY <1>1, <1>3, <1>4, <1>5, <1>8, <2>1, AddBounded
  <2>3. /\ u \in Takings /\ u.truncated = cut.truncated
        /\ DOMAIN u.kept = DOMAIN cut.kept \cup {name} /\ u.kept[name] = length
        /\ \A n \in DOMAIN cut.kept \ {name} : u.kept[n] = cut.kept[n]
    <3>1. cut \in Takings /\ length \in Nat  BY <1>1, <1>3
    <3> HIDE DEF u
    <3> QED  BY <2>1, <3>1, AddTaken, SMTT(40)
  <2> HIDE DEF u
  <2> QED  BY <1>3, <2>2, <2>3 DEF u
<1> QED  BY <1>6, <1>7, <1>8

-----------------------------------------------------------------------------
(* Names are numbers, and each has a value of some length.                  *)
SizedValues(values) == DOMAIN values \subseteq Nat /\ \A n \in DOMAIN values : values[n] \in Sized

(* What the first i passes have kept of the values named.                    *)
LoopInv(names, values, i, t) ==
  /\ t \in Takings /\ Bounded(t)
  /\ DOMAIN t.kept \subseteq DOMAIN values
  /\ ~t.truncated => \A j \in 1..i : names[j] \in DOMAIN values =>
       names[j] \in DOMAIN t.kept /\ t.kept[names[j]] = values[names[j]].length

(* Every pass keeps the invariant of the loop.                              *)
LEMMA LoopKeeps ==
  ASSUME NEW names \in Seq(Nat), NEW values, SizedValues(values)
  PROVE  \A i \in 0..Len(names) : LoopInv(names, values, i, looped(names, values)[i])
<1> DEFINE t(i) == looped(names, values)[i]
           T == {i \in 0..Len(names) : LoopInv(names, values, i, t(i))}
<1>0. Len(names) \in Nat /\ \A i \in 1..Len(names) : names[i] \in Nat
  BY LenProperties, ElementOfSeq
<1>1. 0 \in T
  <2>1. t(0) = Empty  BY <1>0, Looped
  <2> HIDE DEF t
  <2>2. LoopInv(names, values, 0, t(0))  BY <2>1, EmptyTakings DEF LoopInv
  <2> QED  BY <1>0, <2>2
<1>2. ASSUME NEW i \in 1..Len(names), i - 1 \in T PROVE i \in T
  <2>1. t(i) = pass(names, values, t(i - 1), i)  BY <1>0, Looped
  <2>2. LoopInv(names, values, i - 1, t(i - 1))  BY <1>2
  <2> HIDE DEF t, T
  <2>3. CASE names[i] \in DOMAIN values
    <3> DEFINE n == names[i]
               old == t(i - 1)
               new == take(old, n, values[n])
    <3>1. t(i) = new  BY <2>1, <2>3 DEF pass
    <3>2. old \in Takings /\ n \in Nat /\ values[n] \in Sized
      BY <1>0, <2>2, <2>3 DEF LoopInv, SizedValues
    <3> HIDE DEF n, old
    <3>3. /\ new \in Takings
          /\ old.truncated => new.truncated
          /\ ~new.truncated => n \in DOMAIN new.kept /\ new.kept[n] = values[n].length
          /\ DOMAIN old.kept \subseteq DOMAIN new.kept
          /\ DOMAIN new.kept \subseteq DOMAIN old.kept \cup {n}
          /\ \A m \in DOMAIN old.kept \ {n} : new.kept[m] = old.kept[m]
          /\ Bounded(old) => Bounded(new)
      BY <3>2, Pass
    <3> HIDE DEF new
    <3>4. Bounded(new) /\ DOMAIN new.kept \subseteq DOMAIN values
      BY <2>2, <2>3, <3>3 DEF LoopInv, old, n
    <3>5. ASSUME ~new.truncated, NEW j \in 1..i, names[j] \in DOMAIN values
          PROVE  names[j] \in DOMAIN new.kept /\ new.kept[names[j]] = values[names[j]].length
      <4>1. CASE names[j] = n  BY <3>3, <3>5, <4>1
      <4>2. CASE names[j] # n
        <5>1. j \in 1..(i - 1)  BY <4>2 DEF n
        <5>2. ~old.truncated  BY <3>3, <3>5
        <5>3. names[j] \in DOMAIN old.kept /\ old.kept[names[j]] = values[names[j]].length
          BY <2>2, <3>5, <5>1, <5>2 DEF LoopInv, old
        <5> QED  BY <3>3, <4>2, <5>3
      <4> QED  BY <4>1, <4>2
    <3>6. LoopInv(names, values, i, t(i))  BY <3>1, <3>3, <3>4, <3>5 DEF LoopInv
    <3> QED  BY <3>6 DEF T
  <2>4. CASE names[i] \notin DOMAIN values
    <3>1. t(i) = t(i - 1)  BY <2>1, <2>4 DEF pass
    <3>2. \A j \in 1..i : names[j] \in DOMAIN values => j \in 1..(i - 1)  BY <2>4
    <3>3. LoopInv(names, values, i, t(i))  BY <2>2, <3>1, <3>2 DEF LoopInv
    <3> QED  BY <3>3 DEF T
  <2> QED  BY <2>3, <2>4
<1> HIDE DEF T
<1>3. 0..Len(names) \subseteq T  BY <1>0, <1>1, <1>2, UpTo
<1> QED  BY <1>3 DEF T

(* The whole loop.                                                           *)
LEMMA EachTaken ==
  ASSUME NEW names \in Seq(Nat), NEW values, SizedValues(values)
  PROVE  LET t == takeEach(names, values)
         IN /\ t \in Takings /\ Bounded(t) /\ DOMAIN t.kept \subseteq DOMAIN values
            /\ ~t.truncated => \A n \in Range(names) \cap DOMAIN values :
                 n \in DOMAIN t.kept /\ t.kept[n] = values[n].length
<1> DEFINE t == takeEach(names, values)
<1>1. Len(names) \in Nat /\ DOMAIN names = 1..Len(names)  BY LenProperties
<1>2. LoopInv(names, values, Len(names), t)  BY <1>1, LoopKeeps, Looped
<1> HIDE DEF t
<1>3. \A n \in Range(names) : \E j \in 1..Len(names) : names[j] = n  BY <1>1 DEF Range
<1>4. ASSUME ~t.truncated, NEW n \in Range(names) \cap DOMAIN values
      PROVE  n \in DOMAIN t.kept /\ t.kept[n] = values[n].length
  BY <1>2, <1>3, <1>4 DEF LoopInv
<1>5. t \in Takings /\ Bounded(t) /\ DOMAIN t.kept \subseteq DOMAIN values
  BY <1>2 DEF LoopInv
<1> QED  BY <1>4, <1>5 DEF t

(* The names that come later change nothing for those that they are not.     *)
LEMMA LaterNames ==
  ASSUME NEW first \in Seq(Nat), NEW later \in Seq(Nat), NEW values, SizedValues(values),
         NEW n, n \notin Range(later)
  PROVE  LET alone == takeEach(first, values).kept
             among == takeEach(first \o later, values).kept
         IN /\ n \in DOMAIN alone <=> n \in DOMAIN among
            /\ n \in DOMAIN alone => alone[n] = among[n]
<1> DEFINE names == first \o later
           k     == Len(first)
           a(i)  == looped(first, values)[i]
           b(i)  == looped(names, values)[i]
           S == {i \in 0..k : a(i) = b(i)}
           same(i) == /\ n \in DOMAIN a(k).kept <=> n \in DOMAIN b(k + i).kept
                      /\ n \in DOMAIN a(k).kept => a(k).kept[n] = b(k + i).kept[n]
           U == {i \in 0..Len(later) : same(i)}
<1>1. /\ k \in Nat /\ Len(later) \in Nat /\ DOMAIN later = 1..Len(later)
      /\ names \in Seq(Nat) /\ Len(names) = k + Len(later)
      /\ \A i \in 1..Len(names) : names[i] = IF i <= k THEN first[i] ELSE later[i - k]
  BY ConcatProperties, LenProperties
<1>2. /\ a(0) = Empty /\ b(0) = Empty
      /\ \A i \in 1..k : a(i) = pass(first, values, a(i - 1), i)
      /\ \A i \in 1..Len(names) : b(i) = pass(names, values, b(i - 1), i)
      /\ takeEach(first, values) = a(k) /\ takeEach(names, values) = b(Len(names))
  <2> HIDE DEF names
  <2>1. k \in Nat /\ Len(names) \in Nat /\ Len(first) \in Nat  BY <1>1
  <2>2. /\ a(0) = Empty /\ takeEach(first, values) = a(k)
        /\ \A i \in 1..k : a(i) = pass(first, values, a(i - 1), i)
    BY <2>1, Looped
  <2>3. /\ b(0) = Empty /\ takeEach(names, values) = b(Len(names))
        /\ \A i \in 1..Len(names) : b(i) = pass(names, values, b(i - 1), i)
    BY <2>1, Looped
  <2> QED  BY <2>2, <2>3
<1>3. \A i \in 0..Len(names) : b(i) \in Takings
  BY <1>1, LoopKeeps DEF LoopInv
<1>4. \A i \in 1..Len(names) : names[i] \in Nat  BY <1>1, ElementOfSeq
<1> HIDE DEF a, b, names, k
<1>5. 0 \in S  BY <1>1, <1>2
<1>6. ASSUME NEW i \in 1..k, i - 1 \in S PROVE i \in S
  <2>1. i \in 1..Len(names) /\ names[i] = first[i] /\ a(i - 1) = b(i - 1)
    BY <1>1, <1>6
  <2>2. pass(first, values, a(i - 1), i) = pass(names, values, b(i - 1), i)
    BY <2>1 DEF pass
  <2> QED  BY <1>2, <2>1, <2>2
<1> HIDE DEF S
<1>7. k \in S
  <2>1. k \in Nat /\ k \in 0..k  BY <1>1
  <2>2. 0..k \subseteq S  BY <1>5, <1>6, <2>1, UpTo
  <2> QED  BY <2>1, <2>2
<1>8. a(k) = b(k)  BY <1>7 DEF S
<1>9. 0 \in U
  <2>1. k + 0 = k  BY <1>1
  <2> QED  BY <1>1, <1>8, <2>1
<1>10. ASSUME NEW i \in 1..Len(later), i - 1 \in U PROVE i \in U
  <2> DEFINE p == k + i
  <2>1. /\ p \in 1..Len(names) /\ p - 1 = k + (i - 1) /\ p - 1 \in 0..Len(names)
        /\ names[p] = later[i] /\ names[p] # n
    <3>1. p \in 1..Len(names) /\ p - 1 = k + (i - 1) /\ p - 1 \in 0..Len(names) /\ p > k /\ p - k = i
      BY <1>1
    <3>2. names[p] = later[i]
      <4>1. names[p] = IF p <= k THEN first[p] ELSE later[p - k]  BY <1>1, <3>1
      <4>2. ~(p <= k)  BY <1>1, <3>1
      <4> HIDE DEF p
      <4> QED  BY <3>1, <4>1, <4>2
    <3>3. later[i] # n  BY <1>1 DEF Range
    <3> QED  BY <3>1, <3>2, <3>3
  <2>2. b(p) = pass(names, values, b(p - 1), p) /\ b(p - 1) \in Takings /\ names[p] \in Nat
    BY <1>2, <1>3, <1>4, <2>1
  <2> HIDE DEF p
  <2>3. /\ n \in DOMAIN b(p - 1).kept <=> n \in DOMAIN b(p).kept
        /\ n \in DOMAIN b(p - 1).kept => b(p - 1).kept[n] = b(p).kept[n]
    <3>1. CASE names[p] \in DOMAIN values
      <4> DEFINE old   == b(p - 1)
                 name  == names[p]
                 value == values[name]
                 new   == take(old, name, value)
      <4>1. b(p) = new  BY <2>2, <3>1 DEF pass
      <4>2. old \in Takings /\ name \in Nat /\ value \in Sized  BY <2>2, <3>1 DEF SizedValues
      <4> HIDE DEF old, name, value
      <4>3. /\ DOMAIN old.kept \subseteq DOMAIN new.kept
            /\ DOMAIN new.kept \subseteq DOMAIN old.kept \cup {name}
            /\ \A m \in DOMAIN old.kept \ {name} : new.kept[m] = old.kept[m]
        BY <4>2, Pass
      <4> HIDE DEF new
      <4>4. name # n  BY <2>1 DEF name
      <4>5. /\ n \in DOMAIN old.kept <=> n \in DOMAIN new.kept
            /\ n \in DOMAIN old.kept => old.kept[n] = new.kept[n]
        BY <4>3, <4>4
      <4> QED  BY <4>1, <4>5 DEF old
    <3>2. CASE names[p] \notin DOMAIN values
      <4>1. b(p) = b(p - 1)  BY <2>2, <3>2 DEF pass
      <4> QED  BY <4>1
    <3> QED  BY <3>1, <3>2
  <2>4. same(i - 1)  BY <1>10
  <2>5. b(k + (i - 1)) = b(p - 1) /\ b(k + i) = b(p)  BY <2>1 DEF p
  <2>6. same(i)  BY <2>3, <2>4, <2>5
  <2> HIDE DEF same
  <2> QED  BY <2>6
<1> HIDE DEF U, same
<1>11. Len(later) \in U
  <2>1. Len(later) \in Nat /\ Len(later) \in 0..Len(later)  BY <1>1
  <2>2. 0..Len(later) \subseteq U  BY <1>9, <1>10, <2>1, UpTo
  <2> QED  BY <2>1, <2>2
<1>12. same(Len(later))  BY <1>11 DEF U
<1> QED  BY <1>1, <1>2, <1>12 DEF same, names

-----------------------------------------------------------------------------
(* The numbers of S before n.                                               *)
below(S, n) == {m \in S : m < n}

(* Every place of a finite set of numbers is held by one of them.            *)
LEMMA EveryPlaceHeld ==
  ASSUME NEW S \in SUBSET Nat, IsFiniteSet(S), NEW i \in 1..Cardinality(S)
  PROVE  \E n \in S : Cardinality(below(S, n)) = i - 1
<1> DEFINE Filled(R) == \A j \in 1..Cardinality(R) : \E n \in R : Cardinality(below(R, n)) = j - 1
           T == {k \in 0..Cardinality(S) : \A R \in SUBSET S : Cardinality(R) = k => Filled(R)}
<1>0. /\ Cardinality(S) \in Nat
      /\ \A R \in SUBSET S : IsFiniteSet(R) /\ Cardinality(R) \in 0..Cardinality(S)
  <2>1. Cardinality(S) \in Nat  BY FS_CardinalityType
  <2>2. ASSUME NEW R \in SUBSET S
        PROVE  IsFiniteSet(R) /\ Cardinality(R) \in 0..Cardinality(S)
    <3>1. IsFiniteSet(R) /\ Cardinality(R) <= Cardinality(S)  BY FS_Subset
    <3>2. Cardinality(R) \in Nat  BY <3>1, FS_CardinalityType
    <3> QED  BY <2>1, <3>1, <3>2
  <2> QED  BY <2>1, <2>2
<1>1. 0 \in T  BY <1>0
<1>2. ASSUME NEW k \in 1..Cardinality(S), k - 1 \in T PROVE k \in T
  <2>1. ASSUME NEW R \in SUBSET S, Cardinality(R) = k PROVE Filled(R)
    <3>1. R # {} /\ R \subseteq Nat /\ IsFiniteSet(R)  BY <1>0, <2>1, FS_EmptySet
    <3>2. PICK least \in R : \A m \in R : least <= m  BY <3>1, LeastNumber
    <3> DEFINE others == R \ {least}
    <3>3. others \in SUBSET S /\ Cardinality(others) = k - 1
      BY <1>0, <2>1, <3>1, FS_RemoveElement
    <3>4. Filled(others)  BY <1>2, <3>3
    <3>5. ASSUME NEW j \in 1..k PROVE \E n \in R : Cardinality(below(R, n)) = j - 1
      <4>1. CASE j = 1
        <5>1. below(R, least) = {}
          <6>1. \A m \in R : ~(m < least)  BY <3>1, <3>2
          <6> QED  BY <6>1 DEF below
        <5> QED  BY <4>1, <5>1, FS_EmptySet
      <4>2. CASE j # 1
        <5>1. j - 1 \in 1..Cardinality(others)  BY <3>3, <4>2
        <5>2. PICK n \in others : Cardinality(below(others, n)) = (j - 1) - 1  BY <3>4, <5>1
        <5>3. n \in R /\ n # least /\ n \in Nat /\ least \in Nat /\ least <= n
          BY <3>1, <3>2
        <5>4. /\ below(R, n) = below(others, n) \cup {least} /\ least \notin below(others, n)
              /\ below(others, n) \in SUBSET S
          <6>1. least < n  BY <5>3
          <6> QED  BY <3>1, <3>2, <6>1 DEF below
        <5>5. Cardinality(below(R, n)) = Cardinality(below(others, n)) + 1
          BY <1>0, <5>4, FS_AddElement
        <5> QED  BY <5>2, <5>3, <5>5
      <4> QED  BY <4>1, <4>2
    <3> QED  BY <2>1, <3>5
  <2> HIDE DEF Filled
  <2> QED  BY <1>0, <2>1
<1> HIDE DEF T
<1>3. Cardinality(S) \in T
  <2>1. Cardinality(S) \in 0..Cardinality(S)  BY <1>0
  <2> QED  BY <1>0, <1>1, <1>2, <2>1, UpTo
<1> QED  BY <1>3 DEF T

(* Of two numbers the greater has more below it.                             *)
LEMMA MoreBelow ==
  ASSUME NEW S \in SUBSET Nat, IsFiniteSet(S), NEW m \in S, NEW n \in S, m < n
  PROVE  Cardinality(below(S, m)) < Cardinality(below(S, n))
<1>1. below(S, m) \in SUBSET below(S, n) /\ m \in below(S, n) /\ m \notin below(S, m)
  <2>1. \A k \in S : k < m => k < n
    <3>1. \A k \in S : k \in Nat  OBVIOUS
    <3> QED  BY <3>1
  <2>2. ~(m < m)
    <3>1. m \in Nat  OBVIOUS
    <3> QED  BY <3>1
  <2> QED  BY <2>1, <2>2 DEF below
<1>2. IsFiniteSet(below(S, n))  BY FS_Subset DEF below
<1> QED  BY <1>1, <1>2, FS_Subset, FS_CardinalityType

(* sorted puts each of the numbers into its place and nothing else.          *)
LEMMA Sorted ==
  ASSUME NEW S \in SUBSET Nat, IsFiniteSet(S)
  PROVE  /\ sorted(S) \in Seq(Nat) /\ Range(sorted(S)) = S
         /\ DOMAIN sorted(S) = 1..Cardinality(S)
         /\ \A i, j \in 1..Cardinality(S) : i < j => sorted(S)[i] < sorted(S)[j]
<1>0. Cardinality(S) \in Nat  BY FS_CardinalityType
<1>1. ASSUME NEW i \in 1..Cardinality(S)
      PROVE  sorted(S)[i] \in S /\ Cardinality(below(S, sorted(S)[i])) = i - 1
  <2>1. sorted(S)[i] = CHOOSE n \in S : Cardinality(below(S, n)) = i - 1  BY DEF sorted, below
  <2>2. \E n \in S : Cardinality(below(S, n)) = i - 1  BY EveryPlaceHeld
  <2> QED  BY <2>1, <2>2
<1>2. DOMAIN sorted(S) = 1..Cardinality(S)  BY DEF sorted
<1>3. sorted(S) \in Seq(Nat)
  <2>1. sorted(S) = [i \in 1..Cardinality(S) |-> sorted(S)[i]]
    <3> DEFINE f == sorted(S)
    <3>1. f = [i \in 1..Cardinality(S) |->
                CHOOSE n \in S : Cardinality(below(S, n)) = i - 1]
      BY DEF sorted, below
    <3> HIDE DEF f
    <3>2. f = [i \in 1..Cardinality(S) |-> f[i]]  BY <3>1
    <3> QED  BY <3>2 DEF f
  <2>2. \A i \in 1..Cardinality(S) : sorted(S)[i] \in Nat  BY <1>1
  <2> QED  BY <1>0, <2>1, <2>2
<1>4. ASSUME NEW n \in S PROVE n \in Range(sorted(S))
  <2> DEFINE i == Cardinality(below(S, n)) + 1
  <2>1. below(S, n) \in SUBSET S /\ n \notin below(S, n) /\ IsFiniteSet(below(S, n))
    BY FS_Subset DEF below
  <2>2. Cardinality(below(S, n)) \in Nat /\ Cardinality(below(S, n)) < Cardinality(S)
    BY <2>1, FS_Subset, FS_CardinalityType
  <2>3. i \in 1..Cardinality(S) /\ i - 1 = Cardinality(below(S, n))  BY <1>0, <2>2
  <2> HIDE DEF i
  <2>4. sorted(S)[i] \in S /\ Cardinality(below(S, sorted(S)[i])) = Cardinality(below(S, n))
    BY <1>1, <2>3
  <2> DEFINE m == sorted(S)[i]
  <2>5. m \in S /\ m \in Nat /\ n \in Nat  BY <2>4
  <2>6. ~(m < n) /\ ~(n < m)
    <3>1. m < n => Cardinality(below(S, m)) < Cardinality(below(S, n))
      BY <2>5, MoreBelow
    <3>2. n < m => Cardinality(below(S, n)) < Cardinality(below(S, m))
      BY <2>5, MoreBelow
    <3> QED  BY <2>2, <2>4, <3>1, <3>2
  <2>7. m = n  BY <2>5, <2>6
  <2> QED  BY <1>2, <2>3, <2>7 DEF Range
<1>5. Range(sorted(S)) = S  BY <1>1, <1>2, <1>4 DEF Range
<1>6. ASSUME NEW i \in 1..Cardinality(S), NEW j \in 1..Cardinality(S), i < j
      PROVE  sorted(S)[i] < sorted(S)[j]
  <2> DEFINE m == sorted(S)[i]
             n == sorted(S)[j]
  <2>1. /\ m \in S /\ n \in S /\ m \in Nat /\ n \in Nat
        /\ Cardinality(below(S, m)) = i - 1 /\ Cardinality(below(S, n)) = j - 1
    BY <1>1
  <2> HIDE DEF m, n
  <2>2. n < m => Cardinality(below(S, n)) < Cardinality(below(S, m))  BY <2>1, MoreBelow
  <2>3. m # n /\ ~(n < m)  BY <1>6, <2>1, <2>2
  <2>4. m < n  BY <2>1, <2>3
  <2> QED  BY <2>4 DEF m, n
<1> QED  BY <1>2, <1>3, <1>5, <1>6

(* The policy holds the configured names.                                    *)
LEMMA PolicyNames ==
  ASSUME NEW mode, NEW configured \in Seq(Nat)
  PROVE  LET policy == newForwardingPolicy(mode, configured)
         IN /\ policy.names \in Seq(Nat) /\ Range(policy.names) = Range(configured)
            /\ policy.all = (mode = "all")
<1> DEFINE First  == {i \in DOMAIN configured : \A j \in 1..(i - 1) : configured[j] # configured[i]}
           places == sorted(First)
           names  == [i \in DOMAIN places |-> configured[places[i]]]
<1>0. Len(configured) \in Nat /\ DOMAIN configured = 1..Len(configured)  BY LenProperties
<1>1. newForwardingPolicy(mode, configured) = [all |-> mode = "all", names |-> names]
  BY DEF newForwardingPolicy
<1>2. First \in SUBSET Nat /\ First \subseteq DOMAIN configured /\ IsFiniteSet(First)
  <2>1. IsFiniteSet(1..Len(configured))  BY <1>0, FS_Interval
  <2> QED  BY <1>0, <2>1, FS_Subset
<1> HIDE DEF First
<1>3. /\ Range(places) = First /\ DOMAIN places = 1..Cardinality(First)
      /\ Cardinality(First) \in Nat
  BY <1>2, Sorted, FS_CardinalityType
<1> HIDE DEF places
<1>4. \A i \in DOMAIN places : places[i] \in First  BY <1>3 DEF Range
<1>5. \A i \in 1..Cardinality(First) : configured[places[i]] \in Nat
  BY <1>0, <1>2, <1>3, <1>4, ElementOfSeq
<1>6. names \in Seq(Nat)  BY <1>3, <1>5
<1>7. Range(names) \subseteq Range(configured)  BY <1>2, <1>4 DEF Range
<1>8. ASSUME NEW n \in Range(configured) PROVE n \in Range(names)
  <2> DEFINE At == {i \in 1..Len(configured) : configured[i] = n}
  <2>1. At # {} /\ At \subseteq Nat  BY <1>0 DEF Range
  <2>2. PICK i \in At : \A j \in At : i <= j
    <3> HIDE DEF At
    <3> QED  BY <2>1, LeastNumber
  <2>3. i \in First  BY <1>0, <2>2 DEF First
  <2>4. PICK k \in DOMAIN places : places[k] = i  BY <1>3, <2>3 DEF Range
  <2>5. names[k] = n  BY <2>2, <2>4
  <2> QED  BY <2>4, <2>5 DEF Range
<1> HIDE DEF names
<1>9. Range(names) = Range(configured)  BY <1>7, <1>8
<1> QED  BY <1>1, <1>6, <1>9

(* Both modes begin with the configured names; only "all" has more, and none *)
(* of those is configured.                                                   *)
LEMMA OrderNames ==
  ASSUME NEW policy, policy.names \in Seq(Nat), NEW present \in SUBSET Nat, IsFiniteSet(present)
  PROVE  /\ order(policy, present) \in Seq(Nat)
         /\ \E later \in Seq(Nat) : /\ order(policy, present) = policy.names \o later
                                    /\ Range(later) \cap Range(policy.names) = {}
         /\ ~policy.all => order(policy, present) = policy.names
         /\ Range(policy.names) \subseteq Range(order(policy, present))
         /\ policy.all => present \subseteq Range(order(policy, present))
<1> DEFINE others == present \ Range(policy.names)
           later  == IF policy.all THEN sorted(others) ELSE <<>>
           whole  == policy.names \o later
<1>1. order(policy, present) = whole  BY DEF order
<1>2. IsFiniteSet(others) /\ others \in SUBSET Nat  BY FS_Subset
<1>3. sorted(others) \in Seq(Nat) /\ Range(sorted(others)) = others  BY <1>2, Sorted
<1>4. <<>> \in Seq(Nat) /\ Range(<<>>) = {}  BY DEF Range
<1>5. /\ later \in Seq(Nat) /\ Range(later) \cap Range(policy.names) = {}
      /\ policy.all => Range(later) = others
      /\ ~policy.all => later = <<>>
  BY <1>3, <1>4
<1> HIDE DEF later
<1>6. /\ whole \in Seq(Nat) /\ Len(whole) = Len(policy.names) + Len(later)
      /\ Len(later) \in Nat /\ Len(policy.names) \in Nat
      /\ DOMAIN whole = 1..Len(whole) /\ DOMAIN later = 1..Len(later)
      /\ DOMAIN policy.names = 1..Len(policy.names)
      /\ \A i \in 1..Len(whole) : whole[i] = IF i <= Len(policy.names) THEN policy.names[i]
                                             ELSE later[i - Len(policy.names)]
  BY <1>5, ConcatProperties, LenProperties
<1>7. ~policy.all => whole = policy.names  BY <1>5
<1> HIDE DEF whole
<1>8. ASSUME NEW n \in Range(policy.names) PROVE n \in Range(whole)
  <2>1. PICK i \in 1..Len(policy.names) : policy.names[i] = n  BY <1>6 DEF Range
  <2>2. i \in 1..Len(whole) /\ i <= Len(policy.names)  BY <1>6, <2>1
  <2>3. whole[i] = policy.names[i]  BY <1>6, <2>2
  <2>4. i \in DOMAIN whole /\ whole[i] = n  BY <1>6, <2>1, <2>2, <2>3
  <2> QED  BY <2>4 DEF Range
<1>9. ASSUME NEW n \in Range(later) PROVE n \in Range(whole)
  <2>1. PICK i \in 1..Len(later) : later[i] = n  BY <1>6 DEF Range
  <2> DEFINE k == Len(policy.names) + i
  <2>2. k \in 1..Len(whole) /\ ~(k <= Len(policy.names)) /\ k - Len(policy.names) = i
    BY <1>6, <2>1
  <2> HIDE DEF k
  <2>3. k \in DOMAIN whole /\ whole[k] = n  BY <1>6, <2>1, <2>2
  <2> QED  BY <2>3 DEF Range
<1>10. policy.all => present \subseteq Range(whole)  BY <1>5, <1>8, <1>9
<1> QED  BY <1>1, <1>5, <1>6, <1>7, <1>8, <1>10 DEF whole

-----------------------------------------------------------------------------
(* Fewer names count no more together. *)
LEMMA FewerBytes ==
  ASSUME NEW names, IsFiniteSet(names), NEW kept, \A n \in names : kept[n] \in Nat,
         NEW part \in SUBSET names
  PROVE  Bytes(kept, part) <= Bytes(kept, names)
<1> DEFINE T == {k \in 0..Cardinality(names) :
                   \A s \in SUBSET names : Cardinality(s) = k /\ part \subseteq s
                     => Bytes(kept, part) <= Bytes(kept, s)}
<1>0. /\ Cardinality(names) \in Nat /\ NameBytes \in Nat
      /\ \A s \in SUBSET names : /\ IsFiniteSet(s) /\ Cardinality(s) \in 0..Cardinality(names)
                                 /\ Bytes(kept, s) \in Nat
  BY FS_CardinalityType, FS_Subset, BoundsAreNumbers, BytesNatural
<1>1. 0 \in T
  <2>1. ASSUME NEW s \in SUBSET names, Cardinality(s) = 0, part \subseteq s
        PROVE  Bytes(kept, part) <= Bytes(kept, s)
    <3>1. s = {}  BY <1>0, <2>1, FS_EmptySet
    <3>2. part = s  BY <2>1, <3>1
    <3> QED  BY <1>0, <3>2
  <2> QED  BY <1>0, <2>1
<1>2. ASSUME NEW i \in 1..Cardinality(names), i - 1 \in T PROVE i \in T
  <2>1. ASSUME NEW s \in SUBSET names, Cardinality(s) = i, part \subseteq s
        PROVE  Bytes(kept, part) <= Bytes(kept, s)
    <3>1. CASE part = s  BY <1>0, <3>1
    <3>2. CASE part # s
      <4>1. PICK n \in s : n \notin part  BY <2>1, <3>2
      <4>2. s \ {n} \in SUBSET names /\ Cardinality(s \ {n}) = i - 1 /\ part \subseteq s \ {n}
        BY <1>0, <2>1, <4>1, FS_RemoveElement
      <4>3. Bytes(kept, part) <= Bytes(kept, s \ {n})  BY <1>2, <4>2
      <4>4. Bytes(kept, s) = Bytes(kept, s \ {n}) + NameBytes + kept[n]
        BY <1>0, <4>1, BytesWithout
      <4>5. Bytes(kept, part) \in Nat /\ Bytes(kept, s \ {n}) \in Nat /\ kept[n] \in Nat
        BY <1>0, <4>1, <4>2
      <4> HIDE DEF T
      <4> QED  BY <1>0, <4>3, <4>4, <4>5
    <3> QED  BY <3>1, <3>2
  <2> QED  BY <1>0, <2>1
<1> HIDE DEF T
<1>3. Cardinality(names) \in T
  <2>1. Cardinality(names) \in 0..Cardinality(names)  BY <1>0
  <2> QED  BY <1>0, <1>1, <1>2, <2>1, UpTo
<1> QED  BY <1>3 DEF T

(* What a policy forwards of the values of one scope, headers or cookies.    *)
THEOREM AllTaken ==
  ASSUME NEW policy, policy.names \in Seq(Nat),
         NEW values, SizedValues(values), IsFiniteSet(DOMAIN values)
  PROVE  LET t == takeAll(policy, values)
         IN /\ t \in Takings /\ Bounded(t) /\ DOMAIN t.kept \subseteq DOMAIN values
            /\ ~t.truncated => \A n \in DOMAIN values :
                 policy.all \/ n \in Range(policy.names) =>
                   n \in DOMAIN t.kept /\ t.kept[n] = values[n].length
            /\ \A n \in Range(policy.names) :
                 LET alone == takeEach(policy.names, values).kept
                 IN /\ n \in DOMAIN alone <=> n \in DOMAIN t.kept
                    /\ n \in DOMAIN alone => alone[n] = t.kept[n]
<1> DEFINE present == DOMAIN values
           names   == order(policy, present)
           t       == takeAll(policy, values)
<1>1. present \in SUBSET Nat /\ IsFiniteSet(present)  BY DEF SizedValues
<1>2. PICK later \in Seq(Nat) : names = policy.names \o later
                                /\ Range(later) \cap Range(policy.names) = {}
  BY <1>1, OrderNames
<1>3. /\ names \in Seq(Nat) /\ Range(policy.names) \subseteq Range(names)
      /\ policy.all => present \subseteq Range(names)
  BY <1>1, OrderNames
<1>4. t = takeEach(names, values)  BY DEF takeAll
<1> HIDE DEF names, t
<1>5. /\ t \in Takings /\ Bounded(t) /\ DOMAIN t.kept \subseteq DOMAIN values
      /\ ~t.truncated => \A n \in Range(names) \cap DOMAIN values :
           n \in DOMAIN t.kept /\ t.kept[n] = values[n].length
  BY <1>3, <1>4, EachTaken
<1>6. ASSUME NEW n \in Range(policy.names)
      PROVE  LET alone == takeEach(policy.names, values).kept
             IN /\ n \in DOMAIN alone <=> n \in DOMAIN t.kept
                /\ n \in DOMAIN alone => alone[n] = t.kept[n]
  <2>1. n \notin Range(later)  BY <1>2
  <2> QED  BY <1>2, <1>4, <2>1, LaterNames
<1>7. ~t.truncated => \A n \in DOMAIN values :
        policy.all \/ n \in Range(policy.names) =>
          n \in DOMAIN t.kept /\ t.kept[n] = values[n].length
  BY <1>3, <1>5
<1> QED  BY <1>5, <1>6, <1>7 DEF t

-----------------------------------------------------------------------------
(* Pairs of a Cookie header, or the cookies parsed of them.                  *)
Pairs == Seq([name : Nat, value : Sized])

(* The names of the cookies.                                                *)
named(cookies) == {cookies[i].name : i \in DOMAIN cookies}

(* As many names as cookies only when none comes twice.                     *)
LEMMA CookiesNamed ==
  ASSUME NEW cookies \in Pairs
  PROVE  /\ Len(cookies) \in Nat /\ DOMAIN cookies = 1..Len(cookies)
         /\ IsFiniteSet(named(cookies)) /\ Cardinality(named(cookies)) <= Len(cookies)
         /\ Cardinality(named(cookies)) \in Nat
         /\ Cardinality(named(cookies)) = Len(cookies) =>
              \A i, j \in DOMAIN cookies : cookies[i].name = cookies[j].name => i = j
<1> DEFINE f == [i \in 1..Len(cookies) |-> cookies[i].name]
<1>1. Len(cookies) \in Nat /\ DOMAIN cookies = 1..Len(cookies)  BY LenProperties DEF Pairs
<1>2. f \in Surjection(1..Len(cookies), named(cookies))
  <2>1. f \in [1..Len(cookies) -> named(cookies)]  BY <1>1 DEF named
  <2>2. \A n \in named(cookies) : \E i \in 1..Len(cookies) : f[i] = n  BY <1>1 DEF named
  <2> HIDE DEF f
  <2> QED  BY <2>1, <2>2 DEF Surjection
<1>3. IsFiniteSet(1..Len(cookies)) /\ Cardinality(1..Len(cookies)) = Len(cookies)
  <2>1. 1 \in Int /\ Len(cookies) \in Int  BY <1>1
  <2>2. /\ IsFiniteSet(1..Len(cookies))
        /\ Cardinality(1..Len(cookies)) =
             IF 1 > Len(cookies) THEN 0 ELSE Len(cookies) - 1 + 1
    BY <2>1, FS_Interval
  <2> QED  BY <1>1, <2>2
<1> HIDE DEF f
<1>4. /\ IsFiniteSet(named(cookies)) /\ Cardinality(named(cookies)) <= Len(cookies)
      /\ Cardinality(named(cookies)) = Len(cookies) =>
           f \in Injection(1..Len(cookies), named(cookies))
  BY <1>2, <1>3, FS_Surjection
<1>5. ASSUME Cardinality(named(cookies)) = Len(cookies), NEW i \in DOMAIN cookies,
             NEW j \in DOMAIN cookies, cookies[i].name = cookies[j].name
      PROVE  i = j
  <2>1. f[i] = cookies[i].name /\ f[j] = cookies[j].name  BY <1>1 DEF f
  <2> QED  BY <1>1, <1>4, <1>5, <2>1 DEF Injection, IsInjective
<1> QED  BY <1>1, <1>4, <1>5, FS_CardinalityType

(* The first one of a name.                                                  *)
LEMMA FirstCookie ==
  ASSUME NEW cookies \in Pairs
  PROVE  /\ DOMAIN firstCookies(cookies) = named(cookies) /\ SizedValues(firstCookies(cookies))
         /\ \A n \in named(cookies) : \E i \in DOMAIN cookies :
              /\ cookies[i].name = n /\ firstCookies(cookies)[n] = cookies[i].value
<1> DEFINE First(n, i) == cookies[i].name = n /\ \A j \in 1..(i - 1) : cookies[j].name # n
<1>1. Len(cookies) \in Nat /\ DOMAIN cookies = 1..Len(cookies)  BY CookiesNamed
<1>2. \A i \in DOMAIN cookies : cookies[i].name \in Nat /\ cookies[i].value \in Sized
  <2>1. \A i \in DOMAIN cookies : cookies[i] \in [name : Nat, value : Sized]
    BY <1>1, ElementOfSeq DEF Pairs
  <2> QED  BY <2>1
<1>3. /\ DOMAIN firstCookies(cookies) = named(cookies)
      /\ \A n \in named(cookies) : firstCookies(cookies)[n] =
           cookies[CHOOSE i \in DOMAIN cookies : First(n, i)].value
  BY DEF firstCookies, named
<1>4. ASSUME NEW n \in named(cookies) PROVE \E i \in DOMAIN cookies : First(n, i)
  <2> DEFINE At == {i \in 1..Len(cookies) : cookies[i].name = n}
  <2>1. At # {} /\ At \subseteq Nat  BY <1>1 DEF named
  <2>2. PICK i \in At : \A j \in At : i <= j
    <3> HIDE DEF At
    <3> QED  BY <2>1, LeastNumber
  <2>3. First(n, i)  BY <1>1, <2>2
  <2> QED  BY <1>1, <2>2, <2>3
<1>5. ASSUME NEW n \in named(cookies)
      PROVE  \E i \in DOMAIN cookies :
               cookies[i].name = n /\ firstCookies(cookies)[n] = cookies[i].value
  <2> DEFINE i == CHOOSE i \in DOMAIN cookies : First(n, i)
  <2>1. i \in DOMAIN cookies /\ First(n, i)  BY <1>4
  <2>2. firstCookies(cookies)[n] = cookies[i].value  BY <1>3
  <2> HIDE DEF i
  <2> QED  BY <2>1, <2>2
<1> HIDE DEF First
<1>6. SizedValues(firstCookies(cookies))
  <2>1. named(cookies) \subseteq Nat  BY <1>2 DEF named
  <2>2. \A n \in named(cookies) : firstCookies(cookies)[n] \in Sized  BY <1>2, <1>5
  <2> QED  BY <1>3, <2>1, <2>2 DEF SizedValues
<1> QED  BY <1>3, <1>5, <1>6

(* Of the pairs net/http parses those that it can, and nothing else.         *)
LEMMA CookiesParsed ==
  ASSUME NEW pairs \in Pairs
  PROVE  /\ readCookies(pairs) \in Pairs
         /\ Range(readCookies(pairs)) = {pair \in Range(pairs) : parsable(pair)}
<1> DEFINE Kept   == {i \in DOMAIN pairs : parsable(pairs[i])}
           places == sorted(Kept)
           parsed == [i \in DOMAIN places |-> pairs[places[i]]]
<1>0. Len(pairs) \in Nat /\ DOMAIN pairs = 1..Len(pairs)  BY LenProperties DEF Pairs
<1>1. readCookies(pairs) = parsed  BY DEF readCookies
<1>2. Kept \in SUBSET Nat /\ Kept \subseteq DOMAIN pairs /\ IsFiniteSet(Kept)
  <2>1. IsFiniteSet(1..Len(pairs))  BY <1>0, FS_Interval
  <2> QED  BY <1>0, <2>1, FS_Subset
<1>3. \A i \in DOMAIN pairs : i \in Kept <=> parsable(pairs[i])  OBVIOUS
<1> HIDE DEF Kept
<1>4. /\ Range(places) = Kept /\ DOMAIN places = 1..Cardinality(Kept)
      /\ Cardinality(Kept) \in Nat
  BY <1>2, Sorted, FS_CardinalityType
<1> HIDE DEF places
<1>5. \A i \in DOMAIN places : places[i] \in Kept  BY <1>4 DEF Range
<1>6. \A i \in 1..Cardinality(Kept) : pairs[places[i]] \in [name : Nat, value : Sized]
  BY <1>0, <1>2, <1>4, <1>5, ElementOfSeq DEF Pairs
<1>7. parsed \in Pairs
  <2> DEFINE T == [name : Nat, value : Sized]
  <2>1. \A i \in 1..Cardinality(Kept) : pairs[places[i]] \in T  BY <1>6
  <2> HIDE DEF T
  <2>2. parsed \in Seq(T)  BY <1>4, <2>1
  <2> QED  BY <2>2 DEF T, Pairs
<1>8. ASSUME NEW i \in DOMAIN parsed PROVE parsed[i] \in Range(pairs) /\ parsable(parsed[i])
  BY <1>2, <1>3, <1>5 DEF Range
<1>9. ASSUME NEW pair \in Range(pairs), parsable(pair) PROVE pair \in Range(parsed)
  <2>1. PICK i \in DOMAIN pairs : pairs[i] = pair  BY DEF Range
  <2>2. i \in Kept  BY <1>3, <1>9, <2>1
  <2>3. PICK k \in DOMAIN places : places[k] = i  BY <1>4, <2>2 DEF Range
  <2>4. k \in DOMAIN parsed /\ parsed[k] = pair  BY <2>1, <2>3
  <2> QED  BY <2>4 DEF Range
<1> HIDE DEF parsed
<1>10. Range(parsed) = {pair \in Range(pairs) : parsable(pair)}
  <2>1. \A pair \in Range(parsed) : pair \in Range(pairs) /\ parsable(pair)
    BY <1>8 DEF Range
  <2> QED  BY <1>9, <2>1
<1> QED  BY <1>1, <1>7, <1>10

(* In the other direction the same pairs arrive.                             *)
LEMMA Reversed ==
  ASSUME NEW pairs \in Pairs
  PROVE  Reverse(pairs) \in Pairs /\ Range(Reverse(pairs)) = Range(pairs)
<1> DEFINE back == Reverse(pairs)
           k    == Len(pairs)
<1>1. k \in Nat /\ DOMAIN pairs = 1..k  BY LenProperties DEF Pairs
<1>2. back = [i \in 1..k |-> pairs[(k - i) + 1]]  BY DEF Reverse
<1>3. back \in Pairs
  <2>1. \A i \in 1..k : (k - i) + 1 \in 1..k  BY <1>1
  <2>2. \A i \in 1..k : pairs[i] \in [name : Nat, value : Sized]
    BY <1>1, ElementOfSeq DEF Pairs
  <2>3. \A i \in 1..k : pairs[(k - i) + 1] \in [name : Nat, value : Sized]  BY <2>1, <2>2
  <2> HIDE DEF k
  <2> QED  BY <1>1, <1>2, <2>3 DEF Pairs
<1> HIDE DEF back, k
<1>4. DOMAIN back = 1..k /\ \A i \in 1..k : back[i] = pairs[(k - i) + 1]  BY <1>2
<1>5. \A i \in 1..k : (k - i) + 1 \in 1..k /\ (k - ((k - i) + 1)) + 1 = i  BY <1>1
<1>6. \A i \in 1..k : back[(k - i) + 1] = pairs[i]  BY <1>4, <1>5
<1>7. Range(back) = Range(pairs)  BY <1>1, <1>4, <1>5, <1>6 DEF Range
<1> QED  BY <1>3, <1>7 DEF back

(* When none comes twice, the order in which they come makes no difference.  *)
LEMMA AnyOrder ==
  ASSUME NEW cookies \in Pairs, Cardinality(named(cookies)) = Len(cookies),
         NEW back \in Pairs, Range(back) = Range(cookies)
  PROVE  firstCookies(back) = firstCookies(cookies)
<1>1. \A c, d \in Range(cookies) : c.name = d.name => c = d
  BY CookiesNamed DEF Range
<1>2. named(back) = named(cookies)
  <2>1. named(back) = {c.name : c \in Range(back)}  BY DEF named, Range
  <2>2. named(cookies) = {c.name : c \in Range(cookies)}  BY DEF named, Range
  <2> QED  BY <2>1, <2>2
<1>3. ASSUME NEW n \in named(cookies)
      PROVE  firstCookies(back)[n] = firstCookies(cookies)[n]
  <2>1. PICK i \in DOMAIN cookies : cookies[i].name = n /\ firstCookies(cookies)[n] = cookies[i].value
    BY FirstCookie
  <2>2. PICK j \in DOMAIN back : back[j].name = n /\ firstCookies(back)[n] = back[j].value
    BY <1>2, FirstCookie
  <2>3. cookies[i] \in Range(cookies) /\ back[j] \in Range(cookies)  BY DEF Range
  <2> QED  BY <1>1, <2>1, <2>2, <2>3
<1>4. /\ DOMAIN firstCookies(back) = named(cookies)
      /\ DOMAIN firstCookies(cookies) = named(cookies)
  BY <1>2, FirstCookie
<1>5. /\ firstCookies(back) = [n \in named(cookies) |-> firstCookies(back)[n]]
      /\ firstCookies(cookies) = [n \in named(cookies) |-> firstCookies(cookies)[n]]
  <2>1. firstCookies(back) = [n \in DOMAIN firstCookies(back) |-> firstCookies(back)[n]]
    BY DEF firstCookies
  <2>2. firstCookies(cookies) = [n \in DOMAIN firstCookies(cookies) |-> firstCookies(cookies)[n]]
    BY DEF firstCookies
  <2> QED  BY <1>4, <2>1, <2>2
<1>6. [n \in named(cookies) |-> firstCookies(back)[n]]
        = [n \in named(cookies) |-> firstCookies(cookies)[n]]
  BY <1>3
<1> QED  BY <1>5, <1>6

-----------------------------------------------------------------------------
(* What the theorems need of an exchange: names are numbers, and the values  *)
(* of any length.                                                            *)
ForwardShape ==
  /\ Forwards => exchange.configured \in Seq(Nat)
  /\ exchange.kind = "headers" =>
       /\ SizedValues(exchange.values) /\ IsFiniteSet(DOMAIN exchange.values)
       /\ exchange.framing \in Framings
  /\ exchange.kind = "cookies" => exchange.values \in Pairs

(* The sequences of the run are sequences.                                  *)
LEMMA SequencesBounded ==
  ASSUME NEW S, NEW n \in Nat, NEW s \in BoundedSeq(S, n)
  PROVE  s \in Seq(S)
BY DEF BoundedSeq, SeqOf

(* The values of the run have a length.                                     *)
LEMMA ValuesSized == Values \subseteq Sized
<1>1. Short \in Nat /\ maximumForwardedValueBytes + 1 \in Nat
  BY BoundsAreNumbers DEF Short
<1> QED  BY <1>1 DEF Values, Sized

(* The exchanges of the run have the shape that the theorems ask for.       *)
LEMMA ForwardsShaped == ExchangeInit => ForwardShape
<1> SUFFICES ASSUME ExchangeInit PROVE ForwardShape  OBVIOUS
<1>1. exchange.kind = "headers" => exchange \in HeaderCases
  BY Kinds
<1>2. exchange.kind = "cookies" => exchange \in CookieCases
  BY Kinds
<1>3. CASE exchange.kind = "headers"
  <2> DEFINE known == {ContentLength, CookieHeader, 3, 4, 6}
  <2>1. /\ exchange.configured \in Configured /\ exchange.framing \in Framings
        /\ exchange.values \in Functions(known, Values)
    BY <1>1, <1>3 DEF HeaderCases, Functions, Headers
  <2>2. exchange.configured \in Seq(Nat)
    <3>1. {3, 6} \subseteq Nat /\ CookieHeader \in Nat /\ ContentLength \in Nat
      BY NamesAreNumbers
    <3>2. ASSUME NEW s \in BoundedSeq({3, 6}, 2) PROVE s \in Seq(Nat)
      <4>1. s \in Seq({3, 6})  BY <3>2, SequencesBounded
      <4> QED  BY <3>1, <4>1, SeqMonotonic
    <3>3. <<CookieHeader, 6>> \in Seq(Nat) /\ <<6, ContentLength>> \in Seq(Nat)  BY <3>1
    <3> QED  BY <2>1, <3>2, <3>3 DEF Configured
  <2>3. PICK D \in SUBSET known : exchange.values \in [D -> Values]
    BY <2>1 DEF Functions
  <2>4. known \subseteq Nat  BY NamesAreNumbers
  <2>5. IsFiniteSet(known)
    <3>1. IsFiniteSet({ContentLength}) /\ IsFiniteSet({CookieHeader})  BY FS_Singleton
    <3>2. IsFiniteSet(3..6)
      <4>1. 3 \in Int /\ 6 \in Int  OBVIOUS
      <4> QED  BY <4>1, FS_Interval
    <3>3. IsFiniteSet({ContentLength} \cup {CookieHeader})  BY <3>1, FS_Union
    <3>4. IsFiniteSet(({ContentLength} \cup {CookieHeader}) \cup 3..6)  BY <3>2, <3>3, FS_Union
    <3>5. known \in SUBSET (({ContentLength} \cup {CookieHeader}) \cup 3..6)  OBVIOUS
    <3> HIDE DEF known
    <3> QED  BY <3>4, <3>5, FS_Subset
  <2>6. IsFiniteSet(D)  BY <2>5, FS_Subset
  <2>7. DOMAIN exchange.values = D /\ \A n \in D : exchange.values[n] \in Values  BY <2>3
  <2>8. SizedValues(exchange.values)
    BY <2>4, <2>7, ValuesSized DEF SizedValues
  <2> QED  BY <1>3, <2>1, <2>2, <2>6, <2>7, <2>8 DEF ForwardShape
<1>4. CASE exchange.kind = "cookies"
  <2>1. /\ exchange.configured \in BoundedSeq({2, 3}, 2)
        /\ exchange.values \in BoundedSeq(CookiePairs, 4)
    BY <1>2, <1>4 DEF CookieCases
  <2>2. /\ exchange.configured \in Seq({2, 3})
        /\ exchange.values \in Seq(CookiePairs)
    BY <2>1, SequencesBounded
  <2>3. {2, 3} \subseteq Nat /\ CookiePairs \subseteq [name : Nat, value : Sized]
    BY ValuesSized DEF CookiePairs, Clean
  <2>4. exchange.configured \in Seq(Nat)  BY <2>2, <2>3, SeqMonotonic
  <2>5. exchange.values \in Pairs
    <3>1. ASSUME NEW A, NEW B, A \subseteq B, NEW s \in Seq(A) PROVE s \in Seq(B)
      BY <3>1, SeqMonotonic
    <3> DEFINE S == CookiePairs
               T == [name : Nat, value : Sized]
    <3>2. exchange.values \in Seq(S) /\ S \subseteq T  BY <2>2, <2>3
    <3> HIDE DEF S, T
    <3>3. exchange.values \in Seq(T)  BY <3>1, <3>2
    <3> QED  BY <3>3 DEF T, Pairs
  <2> QED  BY <1>4, <2>4, <2>5 DEF ForwardShape
<1> QED  BY <1>3, <1>4 DEF ForwardShape, Forwards

-----------------------------------------------------------------------------
(* The policy of one mode.                                                   *)
policyOf(mode) == newForwardingPolicy(mode, exchange.configured)

(* The policy of an exchange.                                               *)
LEMMA PolicyShaped ==
  ASSUME ForwardShape, Forwards, NEW mode
  PROVE  /\ policyOf(mode).names \in Seq(Nat)
         /\ Range(policyOf(mode).names) = Range(exchange.configured)
         /\ policyOf(mode).all = (mode = "all")
         /\ \A n : Contains(exchange.configured, n) <=> n \in Range(exchange.configured)
<1>1. exchange.configured \in Seq(Nat)  BY DEF ForwardShape
<1>2. DOMAIN exchange.configured = 1..Len(exchange.configured)  BY <1>1, LenProperties
<1>3. \A n : Contains(exchange.configured, n) <=> n \in Range(exchange.configured)
  BY <1>2 DEF Contains, Range
<1>4. ASSUME NEW configured \in Seq(Nat), NEW kind
      PROVE  LET policy == newForwardingPolicy(kind, configured)
             IN /\ policy.names \in Seq(Nat) /\ Range(policy.names) = Range(configured)
                /\ policy.all = (kind = "all")
  BY PolicyNames
<1>5. /\ policyOf(mode).names \in Seq(Nat)
      /\ Range(policyOf(mode).names) = Range(exchange.configured)
      /\ policyOf(mode).all = (mode = "all")
  BY <1>1, <1>4 DEF policyOf
<1> QED  BY <1>3, <1>5

(* The names of all configurations are those of the first mode. *)
LEMMA SameNames == policyOf("all").names = policyOf("allowlist").names
BY DEF policyOf, newForwardingPolicy

(* The headers without the raw Cookie header.                               *)
others == [n \in DOMAIN exchange.values \ {CookieHeader} |-> exchange.values[n]]

(* forwardedHeaders is the loop and the framing headers after it.           *)
LEMMA HeadersTaken ==
  ASSUME ForwardShape, exchange.kind = "headers", NEW mode
  PROVE  LET t == takeAll(policyOf(mode), others)
             kept == ForwardedBy(mode).kept
         IN /\ SizedValues(others) /\ IsFiniteSet(DOMAIN others)
            /\ DOMAIN others = DOMAIN exchange.values \ {CookieHeader}
            /\ \A n \in DOMAIN others : others[n] = exchange.values[n]
            /\ ForwardedBy(mode).truncated = t.truncated
            /\ DOMAIN kept = DOMAIN t.kept \cup framed
            /\ \A n \in framed : kept[n] = FramingBytes
            /\ \A n \in DOMAIN t.kept \ framed : kept[n] = t.kept[n]
<1>1. ForwardedBy(mode) = forwardedHeaders(policyOf(mode), exchange.values, framed)
  BY DEF ForwardedBy, policyOf
<1>2. DOMAIN others = DOMAIN exchange.values \ {CookieHeader}
      /\ \A n \in DOMAIN others : others[n] = exchange.values[n]
  BY DEF others
<1>3. SizedValues(others)
  BY <1>2 DEF ForwardShape, SizedValues
<1>4. IsFiniteSet(DOMAIN others)  BY <1>2, FS_RemoveElement DEF ForwardShape
<1> DEFINE t == takeAll(policyOf(mode), others)
<1>5. ForwardedBy(mode) =
        [kept |-> [n \in DOMAIN t.kept \cup framed |->
                    IF n \in framed THEN FramingBytes ELSE t.kept[n]],
         truncated |-> t.truncated]
  BY <1>1 DEF forwardedHeaders, others
<1> HIDE DEF t
<1> QED  BY <1>2, <1>3, <1>4, <1>5 DEF t

(* forwardedCookies is the loop over the first cookie of each name.         *)
LEMMA CookiesTaken ==
  ASSUME ForwardShape, exchange.kind = "cookies", NEW mode
  PROVE  LET t == takeAll(policyOf(mode), firstCookies(Parsed))
         IN /\ SizedValues(firstCookies(Parsed))
            /\ IsFiniteSet(DOMAIN firstCookies(Parsed))
            /\ DOMAIN firstCookies(Parsed) = named(Parsed)
            /\ Parsed \in Pairs
            /\ ForwardedBy(mode).kept = t.kept
            /\ ForwardedBy(mode).truncated =
                 (t.truncated \/ Cardinality(named(Parsed)) < Len(Parsed))
<1>1. Parsed \in Pairs  BY CookiesParsed DEF ForwardShape, Parsed
<1>2. /\ DOMAIN firstCookies(Parsed) = named(Parsed)
      /\ SizedValues(firstCookies(Parsed)) /\ IsFiniteSet(named(Parsed))
  BY <1>1, FirstCookie, CookiesNamed
<1>3. ForwardedBy(mode) = forwardedCookies(policyOf(mode), exchange.values)
  BY DEF ForwardedBy, policyOf
<1> DEFINE t == takeAll(policyOf(mode), firstCookies(Parsed))
<1>4. ForwardedBy(mode) =
        [kept |-> t.kept,
         truncated |-> t.truncated \/
           Cardinality(DOMAIN firstCookies(Parsed)) < Len(Parsed)]
  BY <1>3 DEF forwardedCookies, Parsed
<1> HIDE DEF t
<1> QED  BY <1>1, <1>2, <1>4 DEF t

(* The framing headers are not the raw Cookie header. *)
LEMMA OtherFrames == CookieHeader \notin framed
BY NamesAreNumbers DEF framed, framing

-----------------------------------------------------------------------------
(* What is not flagged is complete (forwarding.go:99-152, 165-215).          *)
THEOREM AlwaysCompleteUnlessFlagged == ExchangeSpec => []CompleteUnlessFlagged
<1>1. ASSUME ForwardShape, exchange.kind = "headers", NEW mode \in Modes,
             ~ForwardedBy(mode).truncated, NEW n \in DOMAIN Held,
             mode = "all" \/ Contains(exchange.configured, n)
      PROVE  n \in DOMAIN ForwardedBy(mode).kept /\ ForwardedBy(mode).kept[n] = Held[n].length
  <2> DEFINE t == takeAll(policyOf(mode), others)
  <2>1. Held = [m \in DOMAIN exchange.values \ ({CookieHeader} \cup framed) |-> exchange.values[m]]
    BY <1>1 DEF Held
  <2>2. n \in DOMAIN others /\ n \notin framed /\ Held[n] = others[n]
    BY <1>1, <2>1, HeadersTaken
  <2>3. policyOf(mode).all \/ n \in Range(policyOf(mode).names)
    BY <1>1, PolicyShaped DEF Forwards
  <2>4. policyOf(mode).names \in Seq(Nat)  BY <1>1, PolicyShaped DEF Forwards
  <2>5. ~t.truncated /\ SizedValues(others) /\ IsFiniteSet(DOMAIN others)
    BY <1>1, HeadersTaken
  <2>6. n \in DOMAIN t.kept /\ t.kept[n] = others[n].length
    BY <2>2, <2>3, <2>4, <2>5, AllTaken
  <2> QED  BY <1>1, <2>2, <2>6, HeadersTaken
<1>2. ASSUME ForwardShape, exchange.kind = "cookies", NEW mode \in Modes,
             ~ForwardedBy(mode).truncated
      PROVE  /\ \A n \in DOMAIN Held :
                  mode = "all" \/ Contains(exchange.configured, n) =>
                    n \in DOMAIN ForwardedBy(mode).kept /\ ForwardedBy(mode).kept[n] = Held[n].length
             /\ \A i, j \in DOMAIN Parsed :
                  Parsed[i].name = Parsed[j].name => i = j
  <2> DEFINE first == firstCookies(Parsed)
             t == takeAll(policyOf(mode), first)
  <2>1. Held = first  BY <1>2 DEF Held
  <2>2. /\ SizedValues(first) /\ IsFiniteSet(DOMAIN first) /\ Parsed \in Pairs
        /\ ForwardedBy(mode).kept = t.kept /\ ~t.truncated
        /\ ~(Cardinality(named(Parsed)) < Len(Parsed))
    BY <1>2, CookiesTaken
  <2>3. /\ policyOf(mode).names \in Seq(Nat)
        /\ \A n : mode = "all" \/ Contains(exchange.configured, n) =>
             policyOf(mode).all \/ n \in Range(policyOf(mode).names)
    BY <1>2, PolicyShaped DEF Forwards
  <2> HIDE DEF first
  <2>4. \A n \in DOMAIN first : policyOf(mode).all \/ n \in Range(policyOf(mode).names) =>
          n \in DOMAIN t.kept /\ t.kept[n] = first[n].length
    BY <2>2, <2>3, AllTaken
  <2> HIDE DEF t
  <2>5. Cardinality(named(Parsed)) = Len(Parsed)
    BY <2>2, CookiesNamed
  <2> QED  BY <2>1, <2>2, <2>3, <2>4, <2>5, CookiesNamed
<1>3. ForwardShape => CompleteUnlessFlagged
  BY <1>1, <1>2 DEF CompleteUnlessFlagged, Forwards
<1>4. ExchangeInit => CompleteUnlessFlagged  BY <1>3, ForwardsShaped
<1>5. CompleteUnlessFlagged /\ [ExchangeNext]_exchange => CompleteUnlessFlagged'
  <2> SUFFICES ASSUME CompleteUnlessFlagged, exchange' = exchange PROVE CompleteUnlessFlagged'
    BY DEF ExchangeNext
  <2>1. Parsed' = Parsed /\ framed' = framed  BY DEF Parsed, framed
  <2>2. Held' = Held  BY <2>1 DEF Held
  <2>3. \A mode \in Modes : ForwardedBy(mode)' = ForwardedBy(mode)  BY <2>1 DEF ForwardedBy
  <2> QED  BY <2>1, <2>2, <2>3 DEF CompleteUnlessFlagged, Forwards
<1> QED  BY <1>4, <1>5, PTL DEF ExchangeSpec

(* Neither the bounds nor the order of arrival cost configured data anything *)
(* (forwarding.go:96-98, 163-164).                                           *)
THEOREM AllowlistedDataAlwaysKept == ExchangeSpec => []AllowlistedDataIsKept
<1>1. ASSUME ForwardShape, Forwards, NEW values, SizedValues(values), IsFiniteSet(DOMAIN values),
             NEW n \in Range(exchange.configured)
      PROVE  LET alone == takeAll(policyOf("allowlist"), values).kept
                 among == takeAll(policyOf("all"), values).kept
             IN /\ n \in DOMAIN alone <=> n \in DOMAIN among
                /\ n \in DOMAIN alone => alone[n] = among[n]
  <2>1. /\ policyOf("all").names \in Seq(Nat) /\ n \in Range(policyOf("all").names)
        /\ policyOf("allowlist").names = policyOf("all").names
    BY <1>1, PolicyShaped, SameNames
  <2> DEFINE one == takeEach(policyOf("all").names, values).kept
             alone == takeAll(policyOf("allowlist"), values).kept
             among == takeAll(policyOf("all"), values).kept
  <2>2. /\ n \in DOMAIN one <=> n \in DOMAIN among
        /\ n \in DOMAIN one => one[n] = among[n]
    BY <1>1, <2>1, AllTaken
  <2>3. /\ n \in DOMAIN one <=> n \in DOMAIN alone
        /\ n \in DOMAIN one => one[n] = alone[n]
    <3>1. policyOf("allowlist").names \in Seq(Nat) /\ n \in Range(policyOf("allowlist").names)
      BY <2>1
    <3>2. one = takeEach(policyOf("allowlist").names, values).kept  BY <2>1
    <3> QED  BY <1>1, <3>1, <3>2, AllTaken
  <2> HIDE DEF one, alone, among
  <2>4. /\ n \in DOMAIN alone <=> n \in DOMAIN among
        /\ n \in DOMAIN alone => alone[n] = among[n]
    BY <2>2, <2>3
  <2> QED  BY <2>4 DEF alone, among
<1>2. ASSUME ForwardShape, Forwards, NEW n \in Range(exchange.configured)
      PROVE  LET alone == ForwardedBy("allowlist").kept
                 among == ForwardedBy("all").kept
             IN /\ n \in DOMAIN alone <=> n \in DOMAIN among
                /\ n \in DOMAIN alone => alone[n] = among[n]
  <2>1. CASE exchange.kind = "headers"
    <3> DEFINE alone == takeAll(policyOf("allowlist"), others).kept
               among == takeAll(policyOf("all"), others).kept
    <3>1. SizedValues(others) /\ IsFiniteSet(DOMAIN others)  BY <1>2, <2>1, HeadersTaken
    <3>2. /\ n \in DOMAIN alone <=> n \in DOMAIN among
          /\ n \in DOMAIN alone => alone[n] = among[n]
      BY <1>1, <1>2, <3>1
    <3>3. /\ DOMAIN ForwardedBy("allowlist").kept = DOMAIN alone \cup framed
          /\ \A m \in framed : ForwardedBy("allowlist").kept[m] = FramingBytes
          /\ \A m \in DOMAIN alone \ framed : ForwardedBy("allowlist").kept[m] = alone[m]
      BY <1>2, <2>1, HeadersTaken
    <3>4. /\ DOMAIN ForwardedBy("all").kept = DOMAIN among \cup framed
          /\ \A m \in framed : ForwardedBy("all").kept[m] = FramingBytes
          /\ \A m \in DOMAIN among \ framed : ForwardedBy("all").kept[m] = among[m]
      BY <1>2, <2>1, HeadersTaken
    <3> HIDE DEF alone, among
    <3> QED  BY <3>2, <3>3, <3>4
  <2>2. CASE exchange.kind = "cookies"
    <3> DEFINE first == firstCookies(Parsed)
    <3>1. /\ SizedValues(first) /\ IsFiniteSet(DOMAIN first)
          /\ ForwardedBy("allowlist").kept = takeAll(policyOf("allowlist"), first).kept
          /\ ForwardedBy("all").kept = takeAll(policyOf("all"), first).kept
      BY <1>2, <2>2, CookiesTaken
    <3> HIDE DEF first
    <3> QED  BY <1>1, <1>2, <3>1
  <2> QED  BY <1>2, <2>1, <2>2 DEF Forwards
<1>3. ASSUME ForwardShape, exchange.kind = "cookies", Cardinality(DOMAIN Held) = Len(Parsed)
      PROVE  ForwardedBy("all").kept =
               forwardedCookies(newForwardingPolicy("all", exchange.configured),
                                Reverse(exchange.values)).kept
  <2> DEFINE back == readCookies(Reverse(exchange.values))
  <2>1. Held = firstCookies(Parsed)  BY <1>3 DEF Held
  <2>2. /\ Parsed \in Pairs /\ DOMAIN firstCookies(Parsed) = named(Parsed)
        /\ ForwardedBy("all").kept = takeAll(policyOf("all"), firstCookies(Parsed)).kept
    BY <1>3, CookiesTaken
  <2>3. back \in Pairs /\ Range(back) = Range(Parsed)
    <3>1. exchange.values \in Pairs  BY <1>3 DEF ForwardShape
    <3>2. /\ Reverse(exchange.values) \in Pairs
          /\ Range(Reverse(exchange.values)) = Range(exchange.values)
      BY <3>1, Reversed
    <3> QED  BY <3>1, <3>2, CookiesParsed DEF Parsed
  <2>4. forwardedCookies(policyOf("all"), Reverse(exchange.values)).kept =
          takeAll(policyOf("all"), firstCookies(back)).kept
    BY DEF forwardedCookies
  <2> HIDE DEF back
  <2>5. firstCookies(back) = firstCookies(Parsed)
    BY <1>3, <2>1, <2>2, <2>3, AnyOrder
  <2> QED  BY <2>2, <2>4, <2>5 DEF policyOf
<1>4. ForwardShape => AllowlistedDataIsKept
  BY <1>2, <1>3 DEF AllowlistedDataIsKept
<1>5. ExchangeInit => AllowlistedDataIsKept  BY <1>4, ForwardsShaped
<1>6. AllowlistedDataIsKept /\ [ExchangeNext]_exchange => AllowlistedDataIsKept'
  BY DEF ExchangeNext, AllowlistedDataIsKept, Forwards, ForwardedBy, Held, Parsed, framed
<1> QED  BY <1>5, <1>6, PTL DEF ExchangeSpec

(* Only the framing headers go beyond the documented bounds, whatever these  *)
(* are: every other header, and every cookie, is within them                 *)
(* (forwarding.go:145-159, 206-212).                                         *)
THEOREM AlwaysBoundedUnlessFramed == ExchangeSpec => []BoundedUnlessFramed
<1>1. ASSUME ForwardShape, Forwards, NEW mode, NEW t \in Takings, Bounded(t), NEW kept, NEW frame,
             DOMAIN kept = DOMAIN t.kept \cup frame,
             \A n \in DOMAIN t.kept \ frame : kept[n] = t.kept[n]
      PROVE  LET names == DOMAIN kept \ frame
             IN /\ Cardinality(names) <= maximumForwarded
                /\ Bytes(kept, names) <= maximumForwardedBytes
                /\ \A n \in names : kept[n] <= maximumForwardedValueBytes
  <2> DEFINE D     == DOMAIN t.kept
             names == D \ frame
  <2>1. DOMAIN kept \ frame = names  BY <1>1
  <2>2. /\ IsFiniteSet(D) /\ \A n \in D : t.kept[n] \in Nat
        /\ t.total \in Nat /\ names \in SUBSET D
    BY TakingsTyped
  <2>3. /\ Cardinality(D) <= maximumForwarded /\ Bytes(t.kept, D) <= t.total
        /\ t.total <= maximumForwardedBytes
        /\ \A n \in D : t.kept[n] <= maximumForwardedValueBytes
    BY <1>1 DEF Bounded
  <2>4. /\ IsFiniteSet(names) /\ Cardinality(names) <= Cardinality(D)
        /\ Cardinality(names) \in Nat /\ Cardinality(D) \in Nat
    BY <2>2, FS_Subset, FS_CardinalityType
  <2>5. \A n \in names : kept[n] = t.kept[n]  BY <1>1
  <2> HIDE DEF D, names
  <2>6. Bytes(kept, names) = Bytes(t.kept, names)  BY <2>4, <2>5, SameBytes
  <2>7. Bytes(t.kept, names) <= Bytes(t.kept, D)  BY <2>2, FewerBytes
  <2>8. Bytes(t.kept, names) \in Nat /\ Bytes(t.kept, D) \in Nat
    BY <2>2, <2>4, BytesNatural
  <2>9. Bytes(kept, names) <= maximumForwardedBytes
    BY <2>2, <2>3, <2>6, <2>7, <2>8, BoundsAreNumbers
  <2>10. Cardinality(names) <= maximumForwarded  BY <2>3, <2>4, BoundsAreNumbers
  <2>11. \A n \in names : kept[n] <= maximumForwardedValueBytes  BY <2>2, <2>3, <2>5
  <2> QED  BY <2>1, <2>9, <2>10, <2>11
<1>2. ASSUME ForwardShape, exchange.kind = "headers", NEW mode \in Modes
      PROVE  LET kept  == ForwardedBy(mode).kept
                 names == DOMAIN kept \ framed
             IN /\ Cardinality(names) <= maximumForwarded
                /\ Bytes(kept, names) <= maximumForwardedBytes
                /\ \A n \in names : kept[n] <= maximumForwardedValueBytes
                /\ CookieHeader \notin DOMAIN kept
  <2> DEFINE t    == takeAll(policyOf(mode), others)
             kept == ForwardedBy(mode).kept
             names == DOMAIN kept \ framed
  <2>1. /\ SizedValues(others) /\ IsFiniteSet(DOMAIN others)
        /\ DOMAIN others = DOMAIN exchange.values \ {CookieHeader}
        /\ DOMAIN kept = DOMAIN t.kept \cup framed
        /\ \A n \in DOMAIN t.kept \ framed : kept[n] = t.kept[n]
    BY <1>2, HeadersTaken
  <2>2. policyOf(mode).names \in Seq(Nat)  BY <1>2, PolicyShaped DEF Forwards
  <2>3. t \in Takings /\ Bounded(t) /\ DOMAIN t.kept \subseteq DOMAIN others
    BY <2>1, <2>2, AllTaken
  <2> HIDE DEF t, kept
  <2>4. /\ Cardinality(names) <= maximumForwarded
        /\ Bytes(kept, names) <= maximumForwardedBytes
        /\ \A n \in names : kept[n] <= maximumForwardedValueBytes
    BY <1>1, <1>2, <2>1, <2>3 DEF Forwards
  <2>5. CookieHeader \notin DOMAIN kept  BY <2>1, <2>3, OtherFrames
  <2> QED  BY <2>4, <2>5 DEF kept
<1>3. ASSUME ForwardShape, exchange.kind = "cookies", NEW mode \in Modes
      PROVE  LET kept  == ForwardedBy(mode).kept
                 names == DOMAIN kept \ {}
             IN /\ Cardinality(names) <= maximumForwarded
                /\ Bytes(kept, names) <= maximumForwardedBytes
                /\ \A n \in names : kept[n] <= maximumForwardedValueBytes
  <2> DEFINE first == firstCookies(Parsed)
             t     == takeAll(policyOf(mode), first)
             kept  == ForwardedBy(mode).kept
  <2>1. SizedValues(first) /\ IsFiniteSet(DOMAIN first) /\ kept = t.kept
    BY <1>3, CookiesTaken
  <2>2. policyOf(mode).names \in Seq(Nat)  BY <1>3, PolicyShaped DEF Forwards
  <2> HIDE DEF first
  <2>3. t \in Takings /\ Bounded(t)  BY <2>1, <2>2, AllTaken
  <2> HIDE DEF t, kept
  <2>4. DOMAIN kept = DOMAIN t.kept \cup {} /\ \A n \in DOMAIN t.kept \ {} : kept[n] = t.kept[n]
    BY <2>1
  <2>5. /\ Cardinality(DOMAIN kept \ {}) <= maximumForwarded
        /\ Bytes(kept, DOMAIN kept \ {}) <= maximumForwardedBytes
        /\ \A n \in DOMAIN kept \ {} : kept[n] <= maximumForwardedValueBytes
    BY <1>1, <1>3, <2>3, <2>4 DEF Forwards
  <2>6. DOMAIN kept \ {} = DOMAIN kept  OBVIOUS
  <2> QED  BY <2>5, <2>6 DEF kept
<1>4. ForwardShape => BoundedUnlessFramed
  <2> SUFFICES ASSUME ForwardShape, Forwards, NEW mode \in Modes
               PROVE  LET kept  == ForwardedBy(mode).kept
                          names == DOMAIN kept \ (IF exchange.kind = "headers" THEN framed ELSE {})
                      IN /\ Cardinality(names) <= maximumForwarded
                         /\ Bytes(kept, names) <= maximumForwardedBytes
                         /\ \A n \in names : kept[n] <= maximumForwardedValueBytes
                         /\ exchange.kind = "headers" => CookieHeader \notin DOMAIN kept
    BY DEF BoundedUnlessFramed
  <2>1. CASE exchange.kind = "headers"  BY <1>2, <2>1
  <2>2. CASE exchange.kind = "cookies"
    <3>1. exchange.kind # "headers"  BY <2>2
    <3> QED  BY <1>3, <2>2, <3>1
  <2> QED  BY <2>1, <2>2 DEF Forwards
<1>5. ExchangeInit => BoundedUnlessFramed  BY <1>4, ForwardsShaped
<1>6. BoundedUnlessFramed /\ [ExchangeNext]_exchange => BoundedUnlessFramed'
  BY DEF ExchangeNext, BoundedUnlessFramed, Forwards, ForwardedBy, framed
<1> QED  BY <1>5, <1>6, PTL DEF ExchangeSpec

-----------------------------------------------------------------------------
(* The key of a request in the decision cache.  Sequences of parts that are  *)
(* equal and begin with equally many of them are equal in both.              *)
LEMMA SplitEqually ==
  ASSUME NEW S, NEW a \in Seq(S), NEW b \in Seq(S), NEW c \in Seq(S), NEW d \in Seq(S),
         a \o b = c \o d, Len(a) = Len(c)
  PROVE  a = c /\ b = d
<1>1. /\ a \o b \in Seq(S) /\ Len(a \o b) = Len(a) + Len(b)
      /\ \A i \in 1..(Len(a) + Len(b)) : (a \o b)[i] = IF i <= Len(a) THEN a[i] ELSE b[i - Len(a)]
  BY ConcatProperties
<1>2. /\ c \o d \in Seq(S) /\ Len(c \o d) = Len(c) + Len(d)
      /\ \A i \in 1..(Len(c) + Len(d)) : (c \o d)[i] = IF i <= Len(c) THEN c[i] ELSE d[i - Len(c)]
  BY ConcatProperties
<1>3. Len(a) \in Nat /\ Len(b) \in Nat /\ Len(d) \in Nat  BY LenProperties
<1>4. Len(b) = Len(d)  BY <1>1, <1>2, <1>3
<1>5. \A i \in 1..Len(a) : a[i] = c[i]
  <2> SUFFICES ASSUME NEW i \in 1..Len(a) PROVE a[i] = c[i]  OBVIOUS
  <2>1. i \in 1..(Len(a) + Len(b)) /\ i <= Len(a)  BY <1>3
  <2> QED  BY <1>1, <1>2, <1>4, <2>1
<1>6. \A i \in 1..Len(b) : b[i] = d[i]
  <2> SUFFICES ASSUME NEW i \in 1..Len(b) PROVE b[i] = d[i]  OBVIOUS
  <2> DEFINE j == Len(a) + i
  <2>1. j \in 1..(Len(a) + Len(b)) /\ ~(j <= Len(a)) /\ j - Len(a) = i  BY <1>3
  <2> HIDE DEF j
  <2> QED  BY <1>1, <1>2, <1>4, <2>1
<1> QED  BY <1>4, <1>5, <1>6, SeqEqual

(* Parts are strings, these three among them (which no prover knows).        *)
Parts == STRING \cup {"body-truncated", "headers-truncated", "cookies-truncated"}

(* No two of the names are the same in lower case.                           *)
ToldApart(names) == \A m, n \in names : Lower[m] = Lower[n] => m = n

Maps == UNION {[names -> Parts] : names \in {N \in SUBSET DOMAIN Lower : IsFiniteSet(N)}}

LowerMaps == DOMAIN Lower \subseteq Nat /\ \A n \in DOMAIN Lower : Lower[n] \in Parts

LEMMA MapWritten ==
  ASSUME LowerMaps, NEW values \in Maps
  PROVE  LET n == Cardinality(DOMAIN values)  keys == sorted(DOMAIN values) IN
           /\ n \in Nat /\ writeStringMap(values) \in Seq(Parts)
           /\ Len(writeStringMap(values)) = 2 * n
           /\ \A i \in 1..n : /\ keys[i] \in DOMAIN values
                              /\ writeStringMap(values)[2 * i - 1] = Lower[keys[i]]
                              /\ writeStringMap(values)[2 * i] = values[keys[i]]
           /\ \A name \in DOMAIN values : \E i \in 1..n : keys[i] = name
<1> DEFINE D == DOMAIN values  n == Cardinality(D)  keys == sorted(D)
           written == writeStringMap(values)
<1>1. /\ D \subseteq DOMAIN Lower /\ D \in SUBSET Nat /\ IsFiniteSet(D)
      /\ \A name \in D : values[name] \in Parts /\ Lower[name] \in Parts
  BY DEF Maps, LowerMaps
<1>2. n \in Nat  BY <1>1, FS_CardinalityType
<1>3. Range(keys) = D /\ DOMAIN keys = 1..n  BY <1>1, Sorted
<1>4. written = [i \in 1..(2 * n) |->
                   IF i % 2 = 1 THEN Lower[keys[(i + 1) \div 2]] ELSE values[keys[i \div 2]]]
  BY DEF writeStringMap
<1> HIDE DEF D, keys, n, written
<1>5. \A i \in 1..n : keys[i] \in D  BY <1>3 DEF Range
<1>6. ASSUME NEW i \in 1..n
      PROVE  written[2 * i - 1] = Lower[keys[i]] /\ written[2 * i] = values[keys[i]]
  <2>1. /\ 2 * i - 1 \in 1..(2 * n) /\ (2 * i - 1) % 2 = 1 /\ ((2 * i - 1) + 1) \div 2 = i
        /\ 2 * i \in 1..(2 * n) /\ (2 * i) % 2 # 1 /\ (2 * i) \div 2 = i
    BY <1>2
  <2> QED  BY <1>4, <2>1
<1>7. ASSUME NEW i \in 1..(2 * n) PROVE written[i] \in Parts
  <2>1. CASE i % 2 = 1
    <3>1. (i + 1) \div 2 \in 1..n  BY <1>2, <2>1
    <3> QED  BY <1>1, <1>4, <1>5, <2>1, <3>1
  <2>2. CASE i % 2 # 1
    <3>1. i \div 2 \in 1..n  BY <1>2, <2>2
    <3> QED  BY <1>1, <1>4, <1>5, <2>2, <3>1
  <2> QED  BY <2>1, <2>2
<1>8. written \in Seq(Parts) /\ Len(written) = 2 * n
  <2>1. 2 * n \in Nat /\ DOMAIN written = 1..(2 * n)  BY <1>2, <1>4
  <2>2. written \in [1..(2 * n) -> Parts]
    <3>1. written = [i \in 1..(2 * n) |-> written[i]]  BY <1>4
    <3> QED  BY <1>7, <3>1
  <2> QED  BY <2>1, <2>2
<1>9. \A name \in D : \E i \in 1..n : keys[i] = name  BY <1>3 DEF Range
<1> QED  BY <1>2, <1>5, <1>6, <1>8, <1>9 DEF D, n, keys, written

(* What is written of a map tells it, up to the case of its names.           *)
LEMMA MapTold ==
  ASSUME LowerMaps, NEW values \in Maps, NEW copy \in Maps,
         ToldApart(DOMAIN values \cup DOMAIN copy),
         writeStringMap(values) = writeStringMap(copy)
  PROVE  values = copy
<1> DEFINE n == Cardinality(DOMAIN values)  keys == sorted(DOMAIN values)
           m == Cardinality(DOMAIN copy)  names == sorted(DOMAIN copy)
           written == writeStringMap(values)
<1>1. /\ n \in Nat /\ Len(written) = 2 * n
      /\ \A i \in 1..n : /\ keys[i] \in DOMAIN values
                         /\ written[2 * i - 1] = Lower[keys[i]]
                         /\ written[2 * i] = values[keys[i]]
      /\ \A name \in DOMAIN values : \E i \in 1..n : keys[i] = name
  BY MapWritten
<1>2. /\ m \in Nat /\ Len(written) = 2 * m
      /\ \A i \in 1..m : /\ names[i] \in DOMAIN copy
                         /\ written[2 * i - 1] = Lower[names[i]]
                         /\ written[2 * i] = copy[names[i]]
      /\ \A name \in DOMAIN copy : \E i \in 1..m : names[i] = name
  <2>1. written = writeStringMap(copy)  OBVIOUS
  <2> HIDE DEF written
  <2> QED  BY <2>1, MapWritten
<1> HIDE DEF n, keys, m, names, written
<1>3. n = m  BY <1>1, <1>2
<1>4. ASSUME NEW i \in 1..n
      PROVE  keys[i] = names[i] /\ values[keys[i]] = copy[keys[i]]
  <2>1. keys[i] \in DOMAIN values /\ names[i] \in DOMAIN copy
    BY <1>1, <1>2, <1>3
  <2>2. Lower[keys[i]] = Lower[names[i]] /\ values[keys[i]] = copy[names[i]]
    BY <1>1, <1>2, <1>3
  <2>3. keys[i] = names[i]  BY <2>1, <2>2 DEF ToldApart
  <2> QED  BY <2>2, <2>3
<1>5. DOMAIN values = DOMAIN copy
  <2>1. ASSUME NEW name \in DOMAIN values PROVE name \in DOMAIN copy
    <3>1. PICK i \in 1..n : keys[i] = name  BY <1>1
    <3>2. names[i] = name /\ names[i] \in DOMAIN copy  BY <1>2, <1>3, <1>4, <3>1
    <3> QED  BY <3>2
  <2>2. ASSUME NEW name \in DOMAIN copy PROVE name \in DOMAIN values
    <3>1. PICK i \in 1..m : names[i] = name  BY <1>2
    <3>2. keys[i] = name /\ keys[i] \in DOMAIN values  BY <1>1, <1>3, <1>4, <3>1
    <3> QED  BY <3>2
  <2> QED  BY <2>1, <2>2
<1>6. ASSUME NEW name \in DOMAIN values PROVE values[name] = copy[name]
  <2>1. PICK i \in 1..n : keys[i] = name  BY <1>1
  <2> QED  BY <1>4, <2>1
<1>7. /\ values = [name \in DOMAIN values |-> values[name]]
      /\ copy = [name \in DOMAIN copy |-> copy[name]]
  BY DEF Maps
<1> QED  BY <1>5, <1>6, <1>7

(* A request to evaluate, by the parts its key is made of.                   *)
Evaluations ==
  [fixed : Parts, ClientIPSource : STRING, BodyTruncated : BOOLEAN, HeadersTruncated : BOOLEAN,
   CookiesTruncated : BOOLEAN, Headers : Maps, Cookies : Maps, Body : Parts]

SameShape(q, r) ==
  /\ q.BodyTruncated = r.BodyTruncated
  /\ q.HeadersTruncated = r.HeadersTruncated
  /\ q.CookiesTruncated = r.CookiesTruncated
  /\ Cardinality(DOMAIN q.Headers) = Cardinality(DOMAIN r.Headers)
  /\ q.Body = "" <=> r.Body = ""

LEMMA PartOnlyIf ==
  ASSUME NEW given \in BOOLEAN, NEW part \in Parts
  PROVE  /\ onlyIf(given, part) \in Seq(Parts)
         /\ Len(onlyIf(given, part)) = IF given THEN 1 ELSE 0
         /\ given => onlyIf(given, part)[1] = part
<1> DEFINE one == <<part>>
<1>0. one \in Seq(Parts) /\ Len(one) = 1 /\ one[1] = part  OBVIOUS
<1> HIDE DEF one
<1>1. CASE given
  <2>1. onlyIf(given, part) = one  BY <1>1 DEF onlyIf, one
  <2> QED  BY <1>0, <1>1, <2>1
<1>2. CASE ~given
  <2>1. onlyIf(given, part) = << >>  BY <1>2 DEF onlyIf
  <2>2. << >> \in Seq(Parts) /\ Len(<< >>) = 0  BY EmptySeq
  <2> QED  BY <1>2, <2>1, <2>2
<1> QED  BY <1>1, <1>2

(* A part more does not change what a sequence of parts begins with.         *)
LEMMA Begins ==
  ASSUME NEW a \in Seq(Parts), NEW b \in Seq(Parts), Len(a) >= 1
  PROVE  /\ a \o b \in Seq(Parts) /\ Len(a \o b) = Len(a) + Len(b)
         /\ (a \o b)[1] = a[1] /\ Len(a \o b) >= 1
<1>1. /\ a \o b \in Seq(Parts) /\ Len(a \o b) = Len(a) + Len(b)
      /\ \A i \in 1..(Len(a) + Len(b)) : (a \o b)[i] = IF i <= Len(a) THEN a[i] ELSE b[i - Len(a)]
  BY ConcatProperties
<1>2. Len(a) \in Nat /\ Len(b) \in Nat  BY LenProperties
<1>3. 1 \in 1..(Len(a) + Len(b)) /\ 1 <= Len(a) /\ Len(a) + Len(b) >= 1  BY <1>2
<1> QED  BY <1>1, <1>3

(* The key tells requests apart by everything it is made of, so long as they *)
(* have as many headers, the same flags, both a body or none, and no two     *)
(* names that differ only in case.  Then a denial can reach another request  *)
(* only if the two differ in the source of the client's address alone, which *)
(* the Agent is told and the key leaves out; without those conditions also   *)
(* through a part that moves, from the headers to the cookies say, or        *)
(* through the case of a cookie's name: the run key_collision has all three  *)
(* (agent.go:32, cache.go:143-191).                                          *)
THEOREM KeyTellsRequests ==
  ASSUME LowerMaps, NEW q \in Evaluations, NEW r \in Evaluations, SameShape(q, r),
         ToldApart(DOMAIN q.Headers \cup DOMAIN r.Headers),
         ToldApart(DOMAIN q.Cookies \cup DOMAIN r.Cookies),
         evaluationCacheKey(q) = evaluationCacheKey(r)
  PROVE  q = [r EXCEPT !.ClientIPSource = q.ClientIPSource]
<1> DEFINE Shape(e) == <<e.fixed>> \o onlyIf(e.BodyTruncated, "body-truncated")
                         \o onlyIf(e.HeadersTruncated, "headers-truncated")
                         \o onlyIf(e.CookiesTruncated, "cookies-truncated")
           UpToHeaders(e) == Shape(e) \o writeStringMap(e.Headers)
           UpToCookies(e) == UpToHeaders(e) \o writeStringMap(e.Cookies)
           BodyPart(e) == onlyIf(e.Body # "", e.Body)
           Bits(b, h, c) == 1 + (IF b THEN 1 ELSE 0) + (IF h THEN 1 ELSE 0) + (IF c THEN 1 ELSE 0)
<1>1. ASSUME NEW e \in Evaluations
      PROVE  /\ Shape(e) \in Seq(Parts) /\ Shape(e)[1] = e.fixed
             /\ Len(Shape(e)) = Bits(e.BodyTruncated, e.HeadersTruncated, e.CookiesTruncated)
             /\ writeStringMap(e.Headers) \in Seq(Parts)
             /\ writeStringMap(e.Cookies) \in Seq(Parts)
             /\ Len(writeStringMap(e.Headers)) = 2 * Cardinality(DOMAIN e.Headers)
             /\ UpToHeaders(e) \in Seq(Parts) /\ UpToCookies(e) \in Seq(Parts)
             /\ BodyPart(e) \in Seq(Parts)
             /\ Len(BodyPart(e)) = (IF e.Body # "" THEN 1 ELSE 0)
             /\ e.Body # "" => BodyPart(e)[1] = e.Body
             /\ evaluationCacheKey(e) = UpToCookies(e) \o BodyPart(e)
  <2>1. /\ e.fixed \in Parts /\ e.Body \in Parts /\ e.Headers \in Maps /\ e.Cookies \in Maps
        /\ e.BodyTruncated \in BOOLEAN /\ e.HeadersTruncated \in BOOLEAN
        /\ e.CookiesTruncated \in BOOLEAN
    BY DEF Evaluations
  <2> DEFINE b == onlyIf(e.BodyTruncated, "body-truncated")
             h == onlyIf(e.HeadersTruncated, "headers-truncated")
             c == onlyIf(e.CookiesTruncated, "cookies-truncated")
  <2>2. /\ b \in Seq(Parts) /\ h \in Seq(Parts) /\ c \in Seq(Parts)
        /\ Len(b) = (IF e.BodyTruncated THEN 1 ELSE 0)
        /\ Len(h) = (IF e.HeadersTruncated THEN 1 ELSE 0)
        /\ Len(c) = (IF e.CookiesTruncated THEN 1 ELSE 0)
    <3>1. /\ "body-truncated" \in Parts /\ "headers-truncated" \in Parts
          /\ "cookies-truncated" \in Parts
      BY DEF Parts
    <3> QED  BY <2>1, <3>1, PartOnlyIf
  <2>3. /\ writeStringMap(e.Headers) \in Seq(Parts)
        /\ writeStringMap(e.Cookies) \in Seq(Parts)
        /\ Len(writeStringMap(e.Headers)) = 2 * Cardinality(DOMAIN e.Headers)
    BY <2>1, MapWritten
  <2>4. /\ Shape(e) \in Seq(Parts) /\ Shape(e)[1] = e.fixed
        /\ Len(Shape(e)) = Bits(e.BodyTruncated, e.HeadersTruncated, e.CookiesTruncated)
    <3> HIDE DEF b, h, c
    <3> DEFINE d == <<e.fixed>>  f == d \o b  g == f \o h
    <3>1. d \in Seq(Parts) /\ Len(d) = 1 /\ d[1] = e.fixed  BY <2>1
    <3> HIDE DEF d
    <3>2. f \in Seq(Parts) /\ f[1] = e.fixed /\ Len(f) = 1 + Len(b) /\ Len(f) >= 1
      <4>1. Len(d) >= 1 /\ Len(d) + Len(b) = 1 + Len(b)  BY <2>2, <3>1
      <4> QED  BY <2>2, <3>1, <4>1, Begins
    <3> HIDE DEF f
    <3>3. g \in Seq(Parts) /\ g[1] = e.fixed /\ Len(g) = 1 + Len(b) + Len(h) /\ Len(g) >= 1
      <4>1. Len(f) + Len(h) = 1 + Len(b) + Len(h)  BY <3>2
      <4> QED  BY <2>2, <3>2, <4>1, Begins
    <3>4. /\ g \o c \in Seq(Parts) /\ (g \o c)[1] = e.fixed
          /\ Len(g \o c) = 1 + Len(b) + Len(h) + Len(c)
      <4> HIDE DEF g
      <4>1. Len(g) + Len(c) = 1 + Len(b) + Len(h) + Len(c)  BY <3>3
      <4> QED  BY <2>2, <3>3, <4>1, Begins
    <3>5. Shape(e) = g \o c  BY DEF d, f, g, b, h, c
    <3>6. Bits(e.BodyTruncated, e.HeadersTruncated, e.CookiesTruncated)
            = 1 + Len(b) + Len(h) + Len(c)
      BY <2>2
    <3> QED  BY <3>4, <3>5, <3>6
  <2>5. BodyPart(e) \in Seq(Parts) /\ Len(BodyPart(e)) = (IF e.Body # "" THEN 1 ELSE 0)
        /\ (e.Body # "" => BodyPart(e)[1] = e.Body)
    BY <2>1, PartOnlyIf
  <2>6. evaluationCacheKey(e) = UpToCookies(e) \o BodyPart(e)  BY DEF evaluationCacheKey
  <2> HIDE DEF Shape, BodyPart
  <2>7. UpToHeaders(e) \in Seq(Parts) /\ UpToCookies(e) \in Seq(Parts)  BY <2>3, <2>4
  <2> QED  BY <2>3, <2>4, <2>5, <2>6, <2>7
<1>2. /\ Len(BodyPart(q)) = Len(BodyPart(r))
      /\ UpToCookies(q) \o BodyPart(q) = UpToCookies(r) \o BodyPart(r)
  BY <1>1 DEF SameShape
<1>3. Bits(q.BodyTruncated, q.HeadersTruncated, q.CookiesTruncated)
        = Bits(r.BodyTruncated, r.HeadersTruncated, r.CookiesTruncated)
  BY DEF SameShape
<1> HIDE DEF Shape, BodyPart, Bits
<1>4. UpToCookies(q) = UpToCookies(r) /\ BodyPart(q) = BodyPart(r)
  <2>1. /\ UpToCookies(q) \in Seq(Parts) /\ BodyPart(q) \in Seq(Parts)
        /\ UpToCookies(r) \in Seq(Parts) /\ BodyPart(r) \in Seq(Parts)
    BY <1>1
  <2>2. /\ Len(BodyPart(q)) = Len(BodyPart(r))
        /\ UpToCookies(q) \o BodyPart(q) = UpToCookies(r) \o BodyPart(r)
    BY <1>2
  <2> DEFINE a == UpToCookies(q)  b == BodyPart(q)  c == UpToCookies(r)  d == BodyPart(r)
  <2>3. a \o b = c \o d /\ Len(b) = Len(d)  BY <2>2
  <2>4. a \in Seq(Parts) /\ b \in Seq(Parts) /\ c \in Seq(Parts) /\ d \in Seq(Parts)
    BY <2>1
  <2> HIDE DEF a, b, c, d
  <2>5. Len(a) = Len(c)
    <3>1. Len(a \o b) = Len(a) + Len(b)  BY <2>4, ConcatProperties
    <3>2. Len(c \o d) = Len(c) + Len(d)  BY <2>4, ConcatProperties
    <3>3. Len(a) \in Nat /\ Len(b) \in Nat /\ Len(c) \in Nat  BY <2>4, LenProperties
    <3> QED  BY <2>3, <3>1, <3>2, <3>3
  <2>6. a = c /\ b = d  BY <2>3, <2>4, <2>5, SplitEqually
  <2> QED  BY <2>6 DEF a, b, c, d
<1>5. Len(UpToHeaders(q)) = Len(UpToHeaders(r))
  <2>1. ASSUME NEW e \in Evaluations
        PROVE  Len(UpToHeaders(e)) = Len(Shape(e)) + 2 * Cardinality(DOMAIN e.Headers)
    <3>1. Shape(e) \in Seq(Parts) /\ writeStringMap(e.Headers) \in Seq(Parts)
      BY <1>1
    <3>2. Len(UpToHeaders(e)) = Len(Shape(e)) + Len(writeStringMap(e.Headers))
      BY <3>1, ConcatProperties
    <3>3. Len(writeStringMap(e.Headers)) = 2 * Cardinality(DOMAIN e.Headers)  BY <1>1
    <3> QED  BY <3>2, <3>3
  <2>2. Len(Shape(q)) = Len(Shape(r))  BY <1>1, <1>3
  <2> HIDE DEF UpToHeaders
  <2> QED  BY <2>1, <2>2 DEF SameShape
<1>6. UpToHeaders(q) = UpToHeaders(r) /\ writeStringMap(q.Cookies) = writeStringMap(r.Cookies)
  <2>1. /\ UpToHeaders(q) \in Seq(Parts) /\ UpToHeaders(r) \in Seq(Parts)
        /\ writeStringMap(q.Cookies) \in Seq(Parts) /\ writeStringMap(r.Cookies) \in Seq(Parts)
    BY <1>1
  <2>2. UpToHeaders(q) \o writeStringMap(q.Cookies) = UpToHeaders(r) \o writeStringMap(r.Cookies)
    BY <1>4
  <2> HIDE DEF UpToHeaders
  <2> QED  BY <1>5, <2>1, <2>2, SplitEqually
<1>7. Shape(q) = Shape(r) /\ writeStringMap(q.Headers) = writeStringMap(r.Headers)
  <2>1. /\ Shape(q) \in Seq(Parts) /\ Shape(r) \in Seq(Parts) /\ Len(Shape(q)) = Len(Shape(r))
        /\ writeStringMap(q.Headers) \in Seq(Parts) /\ writeStringMap(r.Headers) \in Seq(Parts)
    BY <1>1, <1>3
  <2>2. Shape(q) \o writeStringMap(q.Headers) = Shape(r) \o writeStringMap(r.Headers)
    BY <1>6
  <2> QED  BY <2>1, <2>2, SplitEqually
<1>8. q.fixed = r.fixed /\ q.Body = r.Body  BY <1>1, <1>4, <1>7 DEF SameShape
<1>9. q.Headers = r.Headers /\ q.Cookies = r.Cookies
  <2>1. q.Headers \in Maps /\ r.Headers \in Maps /\ q.Cookies \in Maps /\ r.Cookies \in Maps
    BY DEF Evaluations
  <2> QED  BY <1>6, <1>7, <2>1, MapTold
<1> QED  BY <1>8, <1>9 DEF Evaluations, SameShape
=============================================================================
