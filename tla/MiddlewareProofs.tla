--------------------------- MODULE MiddlewareProofs ---------------------------
(***************************************************************************)
(* Theorems about Middleware, for any requests, policies, failure modes,   *)
(* limits and number of goroutines: the pipeline fails closed, and it uses *)
(* the breaker and the cache only as their own modules say, so that what   *)
(* is proved of them in CircuitBreakerProofs and DecisionCacheProofs holds *)
(* of the pipeline too.                                                    *)
(***************************************************************************)
EXTENDS Middleware, TLAPS

(* What a goroutine carries depends on where it is: its reading is fresh     *)
(* while it works, it is served only when done, and what it has still to put *)
(* is what the Agent said at an instant since the request came.              *)
CallerOK(c) ==
  /\ pc[c] \notin {"idle", "done"} =>
       /\ wanted[c] \in Requests
       /\ reading[c] # Never
       /\ reading[c] <= clock /\ clock <= reading[c] + Patience
  /\ pc[c] # "done" => served[c] = NoEntry /\ outcome[c] = "none"
  /\ pc[c] = "storing" =>
       /\ response[c] \in Opinions
       /\ response[c].decision \in {"allow", "observe"} => allowedSince[c]
       /\ response[c].decision \in Denials =>
            deniedAt[wanted[c]] # Never /\ reading[c] <= deniedAt[wanted[c]]
  /\ wanted[c] # NoRequest /\ Passes(policy, wanted[c]) => allowedSince[c]

CallersOK == \A c \in Callers : CallerOK(c)

(* What the cache holds denies, and dates from before the Agent last denied  *)
(* that request.                                                             *)
EntryOK(entry) ==
  /\ entry \in Cache!Entry
  /\ entry.answer.decision \in Denials
  /\ entry.requestFingerprint = KeyOf[entry.request]
  /\ entry.expiresAt <= entry.createdAt + MaximumTTL
  /\ deniedAt[entry.request] # Never /\ entry.createdAt <= deniedAt[entry.request]

EntriesOK == \A k \in DOMAIN entries : EntryOK(entries[k])

(* The history of denials is up to date. *)
DenialsOK ==
  \A r \in Requests : deniedAt[r] <= clock /\ (Denies(policy, r) => deniedAt[r] = clock)

ServedOK == served \in [Callers -> Cache!Entry \cup {NoEntry}]

IInv == TypeOK /\ ServedOK /\ CallersOK /\ EntriesOK /\ DenialsOK /\ FailClosed

Closed == mode = [agentUnavailable |-> "deny", malformedResponse |-> "deny",
                  explicitLocalDeny |-> "deny"]

-----------------------------------------------------------------------------
(* What a failure and a decision are answered with.                          *)
LEMMA FailureAnswer ==
  ASSUME NEW kind \in {"unavailable", "malformed"}
  PROVE  handleFailure(kind) \in Reasons /\ (Closed => handleFailure(kind) # "next")
BY DEF handleFailure, Reasons, Closed

LEMMA DecisionAnswer ==
  ASSUME NEW answer
  PROVE  /\ handleDecision(answer) \in Reasons
         /\ Closed /\ handleDecision(answer) = "next"
              => answer.decision \in {"allow", "observe"}
<1>1. CASE answer.decision \in {"allow", "observe"}
  BY <1>1 DEF handleDecision, Denials, Reasons
<1>2. CASE answer.decision \in Denials
  BY <1>2 DEF handleDecision, Denials, Reasons, Closed
<1>3. CASE answer.decision \notin {"allow", "observe"} \cup Denials
  <2>1. handleDecision(answer) = handleFailure("malformed")
    BY <1>3 DEF handleDecision
  <2>2. QED  BY <2>1, FailureAnswer
<1>4. QED  BY <1>1, <1>2, <1>3

LEMMA DenialAnswered ==
  ASSUME NEW answer, handleDecision(answer) \in Denials
  PROVE  answer.decision \in Denials
<1>1. CASE answer.decision \in {"allow", "observe"}
  BY <1>1 DEF handleDecision, Denials
<1>2. CASE answer.decision \notin {"allow", "observe"} \cup Denials
  <2>1. handleDecision(answer) = handleFailure("malformed")
    BY <1>2 DEF handleDecision
  <2>2. QED  BY <2>1 DEF handleFailure, Denials
<1>3. QED  BY <1>1, <1>2

(* A goroutine that gets done keeps the invariant, if it hands on only what  *)
(* was allowed.                                                              *)
LEMMA DoneOK ==
  ASSUME IInv, NEW c \in Callers, NEW reason \in Reasons,
         NEW entry \in Cache!Entry \cup {NoEntry},
         Closed /\ reason = "next" => allowedSince[c],
         Done(c, reason, entry), UNCHANGED <<clock, mode, agentVars>>
  PROVE  TypeOK' /\ ServedOK' /\ CallersOK' /\ FailClosed'
<1> USE DEF IInv
<1>1. TypeOK'
  BY DurationsNatural DEF TypeOK, Done, agentVars, Never
<1>2. ServedOK'  BY DEF ServedOK, Done
<1>3. CallersOK'
  BY DEF TypeOK, ServedOK, CallersOK, CallerOK, Done, agentVars, Denials
<1>4. FailClosed'
  BY DEF TypeOK, FailClosed, Done, Closed
<1>5. QED  BY <1>1, <1>2, <1>3, <1>4

(* One that goes on to its next shared step keeps it too.                    *)
LEMMA GoToOK ==
  ASSUME IInv, NEW c \in Callers, NEW place \in {"admitting", "evaluating"},
         pc[c] \notin {"idle", "done"},
         GoTo(c, place), UNCHANGED <<clock, mode, agentVars, response>>
  PROVE  TypeOK' /\ ServedOK' /\ CallersOK' /\ FailClosed'
<1> USE DEF IInv, GoTo
<1>1. TypeOK'  BY DEF TypeOK, agentVars
<1>2. ServedOK'  BY DEF ServedOK
<1>3. CallersOK'  BY DEF TypeOK, CallersOK, CallerOK, agentVars
<1>4. FailClosed'  BY DEF FailClosed
<1>5. QED  BY <1>1, <1>2, <1>3, <1>4

-----------------------------------------------------------------------------
(* put leaves entries it found and one for the denial it was given.          *)
LEMMA PutOK ==
  ASSUME EntriesOK, NEW r \in Requests, NEW a \in Opinions, NEW now \in Nat,
         clock \in Nat, Cache!put(r, a, now), UNCHANGED agentVars,
         a.decision \in Denials => deniedAt[r] # Never /\ now <= deniedAt[r]
  PROVE  EntriesOK'
<1>1. deniedAt' = deniedAt  BY DEF agentVars
<1>2. CASE ~Cache!storable(a) \/ a.revision < latestRevision
  BY <1>1, <1>2 DEF Cache!put, Cache!cacheVars, EntriesOK, EntryOK
<1>3. CASE ~(~Cache!storable(a) \/ a.revision < latestRevision)
  <2>1. PICK es, index : /\ es \in {entries, Cache!Empty}
                         /\ Cache!insert(r, a, now, es, index)
    BY <1>3 DEF Cache!put
  <2>2. \A k \in DOMAIN es : EntryOK(es[k])
    BY <2>1 DEF EntriesOK, Cache!Empty
  <2> DEFINE composite == Cache!cacheCompositeKey(r, a)
             new       == Cache!newEntry(r, a, now)
  <2>3. PICK gone : entries' = Cache!with(Cache!keptEntries(es, gone), composite, new)
    BY <2>1 DEF Cache!insert
  <2>4. /\ \A k \in DOMAIN entries' : k # composite => k \in DOMAIN es /\ entries'[k] = es[k]
        /\ composite \in DOMAIN entries' => entries'[composite] = new
    BY <2>3 DEF Cache!with, Cache!keptEntries, Cache!Restrict
  <2>5. /\ new \in Cache!Entry /\ new.answer = a
        /\ new.request = r /\ new.requestFingerprint = KeyOf[r]
        /\ new.createdAt = now /\ new.expiresAt <= now + MaximumTTL
    <3>1. a.ttl \in Nat /\ MaximumTTL \in Nat  BY OpinionsTyped, DurationsNatural
    <3>2. Cache!lifetime(a) \in Nat /\ Cache!lifetime(a) <= MaximumTTL
      BY <3>1 DEF Cache!lifetime
    <3>3. KeyOf[r] \in Cache!Keys  BY DEF Cache!Keys
    <3>4. now + Cache!lifetime(a) \in Nat /\ now + Cache!lifetime(a) <= now + MaximumTTL
      BY <3>1, <3>2
    <3>5. QED  BY <3>3, <3>4 DEF Cache!newEntry, Cache!Entry
  <2>6. a.decision \in Denials  BY <1>3 DEF Cache!storable, Cache!Denials, Denials
  <2> HIDE DEF composite, new
  <2>7. EntryOK(new)  BY <2>5, <2>6 DEF EntryOK
  <2>8. \A k \in DOMAIN entries' : EntryOK(entries'[k])  BY <2>2, <2>4, <2>7
  <2>9. QED  BY <1>1, <2>8 DEF EntriesOK, EntryOK
<1>4. QED  BY <1>2, <1>3

LEMMA MissOK ==
  ASSUME EntriesOK, NEW r, NEW now, Cache!get_miss(r, now), UNCHANGED agentVars
  PROVE  EntriesOK'
<1>1. entries' = entries \/ \E dead : entries' = Cache!keptEntries(entries, dead)
  BY DEF Cache!get_miss
<1>2. \A k \in DOMAIN entries' : k \in DOMAIN entries /\ entries'[k] = entries[k]
  BY <1>1 DEF Cache!keptEntries, Cache!Restrict
<1>3. QED  BY <1>2 DEF EntriesOK, EntryOK, agentVars

(* As long as neither the cache nor the Agent does anything, they are fine.  *)
LEMMA NoNews ==
  ASSUME IInv, UNCHANGED <<clock, agentVars>>
  PROVE  DenialsOK' /\ (UNCHANGED cacheVars => EntriesOK')
BY DEF IInv, DenialsOK, EntriesOK, EntryOK, Denies, agentVars, cacheVars

(* A reply is an answer, or fails as one of the two kinds.                   *)
LEMMA ReplySorted ==
  ASSUME NEW r \in Requests, NEW reply \in Replies(r)
  PROVE  /\ evaluate(reply) \in {"answer", "unavailable", "malformed"}
         /\ evaluate(reply) = "answer" =>
              reply.response \in {Policies[policy][r], ErrorResponse}
<1>1. CASE reply \in {[kind |-> k] : k \in Faults}
  <2>1. reply.kind \in Unanswered \/ reply.kind \in Garbled  BY <1>1, FaultsKnown
  <2>2. CASE reply.kind \in Unanswered
    <3>1. reply.kind \notin Garbled /\ reply.kind # "response"
      BY <2>2 DEF Unanswered, Garbled
    <3>2. evaluate(reply) = "unavailable"  BY <2>2, <3>1 DEF evaluate
    <3>3. QED  BY <3>2
  <2>3. CASE reply.kind \in Garbled
    <3>1. reply.kind \notin Unanswered /\ reply.kind # "response"
      BY <2>3 DEF Unanswered, Garbled
    <3>2. evaluate(reply) = "malformed"  BY <2>3, <3>1 DEF evaluate
    <3>3. QED  BY <3>2
  <2>4. QED  BY <2>1, <2>2, <2>3
<1>2. CASE reply \in {[kind |-> "response", response |-> a] :
                       a \in {Policies[policy][r], ErrorResponse}}
  <2>1. /\ reply.kind = "response"
        /\ reply.response \in {Policies[policy][r], ErrorResponse}
    BY <1>2
  <2>2. reply.kind \notin Unanswered /\ reply.kind \notin Garbled
    BY <2>1 DEF Unanswered, Garbled
  <2>3. evaluate(reply) = IF validateEvaluationResponse(reply.response)
                          THEN "answer" ELSE "malformed"
    BY <2>1, <2>2 DEF evaluate
  <2>4. QED  BY <2>1, <2>3
<1>3. QED  BY <1>1, <1>2 DEF Replies

-----------------------------------------------------------------------------
LEMMA InitIInv == Init => IInv
<1> SUFFICES ASSUME Init PROVE IInv  OBVIOUS
<1> USE DEF Init
<1>1. clock = 1 /\ entries = Cache!Empty  BY DEF Breaker!Init, Cache!Init
<1>2. TypeOK
  BY <1>1, PolicyAtStart, DurationsNatural DEF TypeOK, Never
<1>3. ServedOK /\ CallersOK
  BY NoRequestIsNone DEF ServedOK, CallersOK, CallerOK
<1>4. EntriesOK  BY <1>1 DEF EntriesOK, Cache!Empty
<1>5. DenialsOK  BY <1>1 DEF DenialsOK, Never
<1>6. FailClosed  BY DEF FailClosed
<1>7. QED  BY <1>2, <1>3, <1>4, <1>5, <1>6 DEF IInv

LEMMA ArriveOK ==
  ASSUME IInv, NEW c \in Callers, NEW r \in Requests, Arrive(c, r) PROVE IInv'
<1> USE DEF IInv, Arrive
<1>1. TypeOK'  BY DEF TypeOK, agentVars, Passes
<1>2. ServedOK'  BY DEF ServedOK
<1>3. CallersOK'
  <2>1. clock \in Nat \ {0} /\ Patience \in Nat  BY DurationsNatural DEF TypeOK
  <2>2. /\ wanted'[c] = r /\ reading'[c] = clock /\ pc'[c] = "looking"
        /\ served'[c] = NoEntry /\ outcome'[c] = "none"
    BY DEF TypeOK, CallersOK, CallerOK
  <2>3. Passes(policy, r) => allowedSince'[c]  BY DEF TypeOK, Passes
  <2>4. Passes(policy, wanted[c])' => Passes(policy, r)
    BY <2>2 DEF Passes, agentVars
  <2>5. CallerOK(c)'
    BY <2>1, <2>2, <2>3, <2>4 DEF CallerOK, Never
  <2>6. ASSUME NEW d \in Callers \ {c} PROVE CallerOK(d)'
    BY <2>6 DEF TypeOK, CallersOK, CallerOK, agentVars, Passes
  <2>7. QED  BY <2>5, <2>6 DEF CallersOK
<1>4. EntriesOK' /\ DenialsOK'  BY NoNews
<1>5. FailClosed'
  BY DEF TypeOK, CallersOK, CallerOK, FailClosed
<1>6. QED  BY <1>1, <1>2, <1>3, <1>4, <1>5

LEMMA RejectOK ==
  ASSUME IInv, NEW c \in Callers, NEW why \in Causes, Reject(c, why) PROVE IInv'
<1>1. PICK reason \in Reasons : /\ Closed => reason # "next"
                                /\ Done(c, reason, NoEntry)
  <2>1. CASE why \in {"no_client_ip", "body_error"}
    BY <2>1, FailureAnswer DEF Reject
  <2>2. CASE why = "metadata"
    BY <2>2 DEF Reject, Reasons
  <2>3. CASE why = "oversized"
    BY <2>3 DEF Reject, Reasons
  <2>4. QED  BY <2>1, <2>2, <2>3 DEF Causes
<1>2. TypeOK' /\ ServedOK' /\ CallersOK' /\ FailClosed'
  BY <1>1, DoneOK DEF Reject
<1>3. EntriesOK' /\ DenialsOK'  BY NoNews DEF Reject
<1>4. QED  BY <1>2, <1>3 DEF IInv

LEMMA LookupOK == ASSUME IInv, NEW c \in Callers, Lookup(c) PROVE IInv'
<1>1. TypeOK' /\ ServedOK' /\ CallersOK' /\ FailClosed'
  <2>1. CASE Cache!hit(wanted[c], reading[c])
    <3> DEFINE entry == Cache!found(wanted[c])
    <3>1. Done(c, handleDecision(entry.answer), entry)
      BY <2>1 DEF Lookup, Cache!get_miss
    <3>2. entry \in Cache!Entry /\ entry.answer.decision \in Denials
      BY <2>1 DEF IInv, EntriesOK, EntryOK, Cache!hit, Cache!found
    <3>3. Closed => handleDecision(entry.answer) # "next"
      BY <3>2, DecisionAnswer DEF Denials
    <3>4. UNCHANGED <<clock, mode, agentVars>>  BY DEF Lookup
    <3> HIDE DEF entry
    <3>5. QED  BY <3>1, <3>2, <3>3, <3>4, DecisionAnswer, DoneOK
  <2>2. CASE ~Cache!hit(wanted[c], reading[c])
    BY <2>2, GoToOK DEF Lookup
  <2>3. QED  BY <2>1, <2>2
<1>2. EntriesOK' /\ DenialsOK'
  <2>1. CASE UNCHANGED cacheVars  BY <2>1, NoNews DEF Lookup
  <2>2. CASE Cache!get_miss(wanted[c], reading[c])
    BY <2>2, MissOK, NoNews DEF IInv, Lookup
  <2>3. QED  BY <2>1, <2>2 DEF Lookup
<1>3. QED  BY <1>1, <1>2 DEF IInv

LEMMA AskOK == ASSUME IInv, NEW c \in Callers, Ask(c) PROVE IInv'
<1>1. TypeOK' /\ ServedOK' /\ CallersOK' /\ FailClosed'
  <2>1. CASE GoTo(c, "evaluating") /\ UNCHANGED response
    BY <2>1, GoToOK DEF Ask
  <2>2. CASE Done(c, handleFailure("unavailable"), NoEntry)
    BY <2>2, FailureAnswer, DoneOK DEF Ask
  <2>3. QED  BY <2>1, <2>2 DEF Ask
<1>2. EntriesOK' /\ DenialsOK'  BY NoNews DEF Ask
<1>3. QED  BY <1>1, <1>2 DEF IInv

(* A reply that fails ends in a failure page; one that answers is carried to *)
(* the put, and what it lets through, the Agent lets through now.            *)
LEMMA EvaluatedOK ==
  ASSUME IInv, NEW c \in Callers, wanted[c] \in Requests,
         NEW reply \in Replies(wanted[c]), Evaluated(c, reply)
  PROVE  IInv'
<1>1. EntriesOK' /\ DenialsOK'  BY NoNews DEF Evaluated
<1>2. UNCHANGED <<clock, mode, agentVars>>  BY DEF Evaluated
<1>3. CASE evaluate(reply) # "answer"
  <2>1. Done(c, handleFailure(evaluate(reply)), NoEntry)  BY <1>3 DEF Evaluated
  <2>2. evaluate(reply) \in {"unavailable", "malformed"}  BY <1>3, ReplySorted
  <2>3. TypeOK' /\ ServedOK' /\ CallersOK' /\ FailClosed'
    BY <1>2, <2>1, <2>2, FailureAnswer, DoneOK
  <2>4. QED  BY <1>1, <2>3 DEF IInv
<1>4. CASE evaluate(reply) = "answer" /\ reply.response.decision = "error"
  <2>1. Done(c, handleFailure("unavailable"), NoEntry)  BY <1>4 DEF Evaluated
  <2>2. TypeOK' /\ ServedOK' /\ CallersOK' /\ FailClosed'
    BY <1>2, <2>1, FailureAnswer, DoneOK
  <2>3. QED  BY <1>1, <2>2 DEF IInv
<1>5. CASE evaluate(reply) = "answer" /\ reply.response.decision # "error"
  <2> DEFINE answer == reply.response
  <2>1. answer = Policies[policy][wanted[c]]
    BY <1>5, ReplySorted, ErrorDecidesError
  <2>2. pc[c] = "evaluating" /\ response' = [response EXCEPT ![c] = answer]
        /\ GoTo(c, "storing")
    BY <1>5 DEF Evaluated
  <2> HIDE DEF answer
  <2> USE DEF IInv
  <2>3. answer \in Opinions  BY <2>1 DEF Opinions, TypeOK
  <2>4. answer.decision \in {"allow", "observe"} => allowedSince[c]
    BY <2>1, NoRequestIsNone DEF CallersOK, CallerOK, Passes
  <2>5. TypeOK'  BY <1>2, <2>2, <2>3 DEF TypeOK, GoTo, agentVars
  <2>6. answer.decision \in Denials =>
          deniedAt[wanted[c]] # Never /\ reading[c] <= deniedAt[wanted[c]]
    <3>1. clock # Never /\ reading[c] <= clock
      BY <2>2 DEF TypeOK, CallersOK, CallerOK, Never
    <3>2. answer.decision \in Denials => deniedAt[wanted[c]] = clock
      BY <2>1 DEF DenialsOK, Denies
    <3>3. QED  BY <3>1, <3>2
  <2>7. ServedOK'  BY <2>2 DEF ServedOK, GoTo
  <2>8. CallersOK'
    <3>1. CallerOK(c)'
      BY <1>2, <2>6, <2>2, <2>3, <2>4
         DEF TypeOK, CallersOK, CallerOK, GoTo, agentVars, Passes
    <3>2. ASSUME NEW d \in Callers \ {c} PROVE CallerOK(d)'
      BY <1>2, <2>2, <3>2 DEF TypeOK, CallersOK, CallerOK, GoTo, agentVars, Passes
    <3>3. QED  BY <3>1, <3>2 DEF CallersOK
  <2>9. FailClosed'  BY <1>2, <2>2 DEF FailClosed, GoTo
  <2>10. QED  BY <1>1, <2>5, <2>7, <2>8, <2>9
<1>6. QED  BY <1>3, <1>4, <1>5

LEMMA StoreOK == ASSUME IInv, NEW c \in Callers, Put(c) PROVE IInv'
<1>1. /\ wanted[c] \in Requests /\ response[c] \in Opinions
      /\ reading[c] \in Nat /\ clock \in Nat
      /\ response[c].decision \in {"allow", "observe"} => allowedSince[c]
      /\ response[c].decision \in Denials =>
           deniedAt[wanted[c]] # Never /\ reading[c] <= deniedAt[wanted[c]]
  BY DurationsNatural DEF IInv, TypeOK, CallersOK, CallerOK, Put
<1>2. EntriesOK' /\ DenialsOK'  BY <1>1, PutOK, NoNews DEF IInv, Put
<1>3. TypeOK' /\ ServedOK' /\ CallersOK' /\ FailClosed'
  BY <1>1, DecisionAnswer, DoneOK DEF Put
<1>4. QED  BY <1>2, <1>3 DEF IInv

LEMMA LeaveOK == ASSUME IInv, NEW c \in Callers, Leave(c) PROVE IInv'
<1> USE DEF IInv, Leave
<1>1. TypeOK'  BY DEF TypeOK, agentVars
<1>2. ServedOK'  BY DEF ServedOK
<1>3. CallersOK'
  <2>1. /\ pc'[c] = "idle" /\ served'[c] = NoEntry /\ outcome'[c] = "none"
        /\ wanted'[c] = NoRequest
    BY DEF TypeOK, ServedOK
  <2>2. CallerOK(c)'  BY <2>1 DEF CallerOK
  <2>3. ASSUME NEW d \in Callers \ {c} PROVE CallerOK(d)'
    BY <2>3 DEF TypeOK, CallersOK, CallerOK, agentVars, Passes
  <2>4. QED  BY <2>2, <2>3 DEF CallersOK
<1>4. EntriesOK' /\ DenialsOK'  BY NoNews
<1>5. FailClosed'  BY DEF TypeOK, FailClosed
<1>6. QED  BY <1>1, <1>2, <1>3, <1>4, <1>5

(* Denials are only ever dated later: what was denied since some instant     *)
(* still was.                                                                *)
LEMMA DatedLater ==
  ASSUME IInv, clock' \in Nat \ {0}, clock <= clock',
         \A r \in Requests : deniedAt'[r] \in {clock', deniedAt[r]},
         NEW r \in Requests, NEW now \in Nat,
         deniedAt[r] # Never, now <= deniedAt[r]
  PROVE  deniedAt'[r] # Never /\ now <= deniedAt'[r]
<1>1. deniedAt[r] \in Nat /\ deniedAt[r] <= clock /\ clock \in Nat
  BY DurationsNatural DEF IInv, TypeOK, DenialsOK
<1>2. QED  BY <1>1 DEF Never

LEMMA EntriesDatedLater ==
  ASSUME IInv, clock' \in Nat \ {0}, clock <= clock', UNCHANGED cacheVars,
         \A r \in Requests : deniedAt'[r] \in {clock', deniedAt[r]}
  PROVE  EntriesOK'
<1> SUFFICES ASSUME NEW k \in DOMAIN entries
             PROVE  /\ deniedAt'[entries[k].request] # Never
                    /\ entries[k].createdAt <= deniedAt'[entries[k].request]
  BY DEF IInv, EntriesOK, EntryOK, cacheVars
<1>1. EntryOK(entries[k])  BY DEF IInv, EntriesOK
<1>2. entries[k].request \in Requests /\ entries[k].createdAt \in Nat
  BY <1>1 DEF EntryOK, Cache!Entry
<1>3. QED  BY <1>1, <1>2, DatedLater DEF EntryOK

LEMMA AmendOK == ASSUME IInv, Amend PROVE IInv'
<1> USE DEF IInv, Amend
<1>1. TypeOK'  BY DEF TypeOK, Passes
<1>2. ServedOK'  BY DEF ServedOK
<1>3. /\ clock' \in Nat \ {0} /\ clock <= clock'
      /\ \A r \in Requests : deniedAt'[r] \in {clock', deniedAt[r]}
  BY DurationsNatural DEF TypeOK
<1>4. CallersOK'
  <2> SUFFICES ASSUME NEW c \in Callers PROVE CallerOK(c)'  BY DEF CallersOK
  <2>1. CallerOK(c)  BY DEF CallersOK
  <2>2. wanted[c] # NoRequest /\ Passes(policy', wanted[c]) => allowedSince'[c]
    BY DEF TypeOK, Passes
  <2>3. allowedSince[c] => allowedSince'[c]  BY DEF TypeOK
  <2>4. pc[c] = "storing" /\ response[c].decision \in Denials =>
          deniedAt'[wanted[c]] # Never /\ reading[c] <= deniedAt'[wanted[c]]
    <3>1. reading[c] \in Nat  BY DurationsNatural DEF TypeOK
    <3>2. QED  BY <1>3, <2>1, <3>1, DatedLater DEF CallerOK
  <2>5. QED  BY <2>1, <2>2, <2>3, <2>4 DEF CallerOK, Passes
<1>5. EntriesOK'  BY <1>3, EntriesDatedLater
<1>6. DenialsOK'  BY <1>3 DEF TypeOK, DenialsOK, Denies
<1>7. FailClosed'  BY DEF TypeOK, FailClosed
<1>8. QED  BY <1>1, <1>2, <1>4, <1>5, <1>6, <1>7

LEMMA TickOK == ASSUME IInv, Tick PROVE IInv'
<1> USE DEF IInv, Tick, callerVars
<1>1. TypeOK'  BY DurationsNatural DEF TypeOK
<1>2. ServedOK'  BY DEF ServedOK
<1>3. /\ clock' \in Nat \ {0} /\ clock <= clock'
      /\ \A r \in Requests : deniedAt'[r] \in {clock', deniedAt[r]}
  BY DurationsNatural DEF TypeOK
<1>4. CallersOK'
  <2> SUFFICES ASSUME NEW c \in Callers PROVE CallerOK(c)'  BY DEF CallersOK
  <2>1. CallerOK(c)  BY DEF CallersOK
  <2>2. pc[c] \notin {"idle", "done"} =>
          reading[c] <= clock' /\ clock' <= reading[c] + Patience
    BY <2>1, DurationsNatural DEF TypeOK, CallerOK
  <2>3. pc[c] = "storing" /\ response[c].decision \in Denials =>
          deniedAt'[wanted[c]] # Never /\ reading[c] <= deniedAt'[wanted[c]]
    <3>1. reading[c] \in Nat  BY DurationsNatural DEF TypeOK
    <3>2. QED  BY <1>3, <2>1, <3>1, DatedLater DEF CallerOK
  <2>4. QED  BY <2>1, <2>2, <2>3 DEF CallerOK, Passes
<1>5. EntriesOK'  BY <1>3, EntriesDatedLater
<1>6. DenialsOK'  BY <1>3 DEF TypeOK, DenialsOK, Denies
<1>7. FailClosed'  BY DEF FailClosed
<1>8. QED  BY <1>1, <1>2, <1>4, <1>5, <1>6, <1>7

LEMMA RequestOf ==
  ASSUME IInv, NEW c \in Callers, wanted[c] # NoRequest PROVE wanted[c] \in Requests
BY DEF IInv, TypeOK

LEMMA StepIInv == IInv /\ [Next]_vars => IInv'
<1>1. ASSUME IInv, UNCHANGED vars PROVE IInv'
  BY <1>1, NoNews DEF IInv, vars, cacheVars, agentVars, callerVars, TypeOK, ServedOK, CallersOK,
              CallerOK, FailClosed, Passes
<1>2. ASSUME IInv, NEW c \in Callers, Step(c) PROVE IInv'
  BY <1>2, LookupOK, AskOK, StoreOK, LeaveOK, EvaluatedOK, RequestOf DEF Step
<1>3. QED
  BY <1>1, <1>2, ArriveOK, RejectOK, AmendOK, TickOK DEF Next

LEMMA AlwaysIInv == Spec => []IInv
<1> QED  BY InitIInv, StepIInv, PTL DEF Spec

(* Every variable of the pipeline stays within its type, whatever the Agent  *)
(* replies and however the goroutines interleave (middleware.go:15-150).     *)
THEOREM TypeCorrect == Spec => []TypeOK
<1>1. IInv => TypeOK  BY DEF IInv
<1> QED  BY AlwaysIInv, <1>1, PTL

(* With every failure mode at "deny", nothing is handed on that the Agent    *)
(* would not have let through at some instant since it came: the cache holds *)
(* denials only, a failure ends in a page, and an answer that is put was     *)
(* given while the request waited (middleware.go:88-150).                    *)
THEOREM FailsClosed == Spec => []FailClosed
<1>1. IInv => FailClosed  BY DEF IInv
<1> QED  BY AlwaysIInv, <1>1, PTL

(* A denial that is shown is at most MaximumTTL and a delay old, whether it  *)
(* comes from the Agent or from the cache, if no two requests share a key:   *)
(* an entry expires MaximumTTL after a reading taken before the Agent denied *)
(* its request (middleware.go:88-113, cache.go:56-59, 119-122).              *)
THEOREM DenialsAreRecent ==
  ASSUME MaximumTTL # 0, \A r, s \in Requests : KeyOf[r] = KeyOf[s] => r = s
  PROVE  Spec => DenialIsRecent
<1> DEFINE Recent(c) == /\ deniedAt[wanted[c]] # Never
                        /\ clock < deniedAt[wanted[c]] + MaximumTTL + Patience
           AllRecent == \A c \in Callers :
                          Answers(c) /\ outcome'[c] \in Denials => Recent(c)
<1>1. ASSUME IInv, NEW c \in Callers, pc[c] \notin {"idle", "done"}
      PROVE  /\ wanted[c] \in Requests /\ reading[c] \in Nat /\ clock \in Nat
             /\ clock <= reading[c] + Patience
             /\ MaximumTTL \in Nat \ {0} /\ Patience \in Nat
             /\ deniedAt[wanted[c]] \in Nat
  BY <1>1, DurationsNatural DEF IInv, TypeOK, CallersOK, CallerOK
<1>2. ASSUME IInv, NEW c \in Callers, Lookup(c), Cache!hit(wanted[c], reading[c])
      PROVE  Recent(c)
  <2> DEFINE entry == Cache!found(wanted[c])
  <2>1. EntryOK(entry) /\ ~Cache!expired(reading[c], entry)
        /\ entry.requestFingerprint = KeyOf[wanted[c]]
    BY <1>2 DEF IInv, EntriesOK, Cache!hit, Cache!found
  <2> HIDE DEF entry
  <2>2. entry.request \in Requests /\ entry.createdAt \in Nat /\ entry.expiresAt \in Nat
    BY <2>1 DEF EntryOK, Cache!Entry
  <2>3. pc[c] \notin {"idle", "done"}  BY <1>2 DEF Lookup
  <2>4. entry.request = wanted[c]  BY <1>1, <1>2, <2>1, <2>2, <2>3 DEF EntryOK
  <2>5. reading[c] < entry.expiresAt
    BY <1>1, <1>2, <2>1, <2>2, <2>3 DEF Cache!expired
  <2>6. /\ entry.expiresAt <= entry.createdAt + MaximumTTL
        /\ deniedAt[wanted[c]] # Never /\ entry.createdAt <= deniedAt[wanted[c]]
    BY <2>1, <2>4 DEF EntryOK
  <2>7. QED  BY <1>1, <1>2, <2>2, <2>3, <2>5, <2>6
<1>3. ASSUME IInv, NEW c \in Callers, Put(c), response[c].decision \in Denials
      PROVE  Recent(c)
  <2>1. /\ deniedAt[wanted[c]] # Never /\ reading[c] <= deniedAt[wanted[c]]
        /\ pc[c] \notin {"idle", "done"}
    BY <1>3 DEF IInv, CallersOK, CallerOK, Put
  <2>2. QED  BY <1>1, <1>3, <2>1
<1>4. ASSUME IInv, NEW c \in Callers, Step(c) PROVE AllRecent
  <2> SUFFICES ASSUME NEW d \in Callers, Answers(d), outcome'[d] \in Denials
               PROVE  Recent(d)
    OBVIOUS
  <2>1. ASSUME Lookup(c) PROVE Recent(d)
    <3>1. d = c /\ Cache!hit(wanted[c], reading[c])
      BY <1>4, <2>1 DEF Lookup, Done, GoTo, Answers, IInv, TypeOK
    <3>2. QED  BY <1>2, <1>4, <2>1, <3>1
  <2>2. ASSUME Put(c) PROVE Recent(d)
    <3>1. d = c /\ outcome'[d] = handleDecision(response[c])
      BY <1>4, <2>2 DEF Put, Done, Answers, IInv, TypeOK
    <3>2. response[c].decision \in Denials
      BY <3>1, DenialAnswered
    <3>3. QED  BY <1>3, <1>4, <2>2, <3>1, <3>2
  <2>3. ASSUME NEW kind \in {"unavailable", "malformed"},
               Done(c, handleFailure(kind), NoEntry)
        PROVE  FALSE
    <3>1. d = c /\ outcome'[d] = handleFailure(kind)
      BY <1>4, <2>3 DEF Done, Answers, IInv, TypeOK
    <3>2. QED  BY <3>1 DEF handleFailure, Denials
  <2>4. ASSUME NEW place, place # "done", GoTo(c, place) PROVE FALSE
    BY <1>4, <2>4 DEF GoTo, Answers, IInv, TypeOK
  <2>5. ASSUME Ask(c) PROVE FALSE  BY <2>3, <2>4, <2>5 DEF Ask
  <2>6. ASSUME Leave(c) PROVE FALSE
    BY <1>4, <2>6 DEF Leave, Answers, IInv, TypeOK
  <2>7. ASSUME NEW reply \in Replies(wanted[c]), wanted[c] # NoRequest,
               Evaluated(c, reply)
        PROVE  FALSE
    <3>1. evaluate(reply) \in {"answer", "unavailable", "malformed"}
      BY <1>4, <2>7, RequestOf, ReplySorted
    <3>2. QED  BY <2>3, <2>4, <2>7, <3>1 DEF Evaluated
  <2>8. QED  BY <1>4, <2>1, <2>2, <2>5, <2>6, <2>7 DEF Step
<1>5. ASSUME IInv, NEW c \in Callers, NEW why \in Causes, Reject(c, why)
      PROVE  AllRecent
  <2> SUFFICES ASSUME NEW d \in Callers, Answers(d), outcome'[d] \in Denials
               PROVE  FALSE
    OBVIOUS
  <2>1. d = c  BY <1>5 DEF Reject, Done, Answers, IInv, TypeOK
  <2>2. outcome'[c] \in {handleFailure("unavailable"), "invalid_request", "too_large"}
    BY <1>5 DEF Reject, Done, Causes, IInv, TypeOK
  <2>3. QED  BY <2>1, <2>2 DEF handleFailure, Denials
<1>6. ASSUME UNCHANGED pc PROVE AllRecent  BY <1>6 DEF Answers
<1>7. ASSUME IInv, NEW c \in Callers, NEW r \in Requests, Arrive(c, r) PROVE AllRecent
  BY <1>7 DEF Arrive, Answers, IInv, TypeOK
<1>8. IInv /\ [Next]_vars => [AllRecent]_vars
  BY <1>4, <1>5, <1>6, <1>7 DEF Next, Amend, Tick, callerVars
<1>9. QED  BY <1>8, AlwaysIInv, PTL DEF Spec, DenialIsRecent, AllRecent

-----------------------------------------------------------------------------
(* The breaker's view.  A goroutine waits for the Agent between Ask and      *)
(* Evaluated, and no other step changes who waits.                           *)
LEMMA AskedAlike ==
  ASSUME \A c \in Callers :
           /\ pc'[c] = "evaluating" <=> pc[c] = "evaluating"
           /\ pc[c] = "evaluating" => reading'[c] = reading[c]
  PROVE  breakerAsked' = breakerAsked
BY DEF breakerAsked

LEMMA BreakerUnchanged ==
  ASSUME UNCHANGED <<clock, breakerVars, tripped>>, breakerAsked' = breakerAsked
  PROVE  UNCHANGED Breaker!vars
BY DEF Breaker!vars, breakerVars

LEMMA AskRefines ==
  ASSUME IInv, NEW c \in Callers, Ask(c) PROVE [Breaker!Next]_Breaker!vars
<1> USE DEF IInv
<1>1. CASE Breaker!allow(reading[c]) /\ GoTo(c, "evaluating")
  <2>1. /\ reading[c] \in Breaker!Times
        /\ reading[c] <= clock /\ clock <= reading[c] + Patience
    BY DurationsNatural DEF Ask, TypeOK, CallersOK, CallerOK, Breaker!Times, Never
  <2>2. breakerAsked[c] = Breaker!Never
    BY DEF Ask, breakerAsked, Breaker!Never, Never
  <2>3. breakerAsked' = [breakerAsked EXCEPT ![c] = reading[c]]
    BY <1>1 DEF breakerAsked, GoTo, TypeOK
  <2>4. Breaker!Admit(c, reading[c])
    BY <1>1, <2>1, <2>2, <2>3 DEF Ask, Breaker!Admit, Breaker!Holds
  <2>5. QED  BY <2>1, <2>4 DEF Breaker!Next
<1>2. CASE Done(c, handleFailure("unavailable"), NoEntry) /\ UNCHANGED breakerVars
  <2>1. breakerAsked' = breakerAsked
    BY <1>2, AskedAlike DEF Ask, Done, TypeOK
  <2>2. QED  BY <1>2, <2>1, BreakerUnchanged DEF Ask
<1>3. QED  BY <1>1, <1>2 DEF Ask

LEMMA EvaluatedRefinesBreaker ==
  ASSUME IInv, NEW c \in Callers, NEW reply, Evaluated(c, reply)
  PROVE  [Breaker!Next]_Breaker!vars
<1> USE DEF IInv
<1>1. breakerAsked[c] = reading[c] /\ breakerAsked[c] # Breaker!Never
  BY DEF Evaluated, breakerAsked, TypeOK, CallersOK, CallerOK, Breaker!Never, Never
<1>2. breakerAsked' = [breakerAsked EXCEPT ![c] = Breaker!Never]
  <2>1. /\ pc'[c] # "evaluating"
        /\ \A d \in Callers \ {c} : pc'[d] = pc[d] /\ reading'[d] = reading[d]
    BY DEF Evaluated, Done, GoTo, TypeOK
  <2>2. QED  BY <2>1 DEF breakerAsked, Breaker!Never, Never
<1>3. CASE evaluate(reply) = "answer"
  <2>1. Breaker!Succeed(c)
    BY <1>1, <1>2, <1>3 DEF Evaluated, Breaker!Succeed
  <2>2. QED  BY <2>1 DEF Breaker!Next
<1>4. CASE evaluate(reply) # "answer"
  <2>1. clock <= MaxTime  BY DurationsNatural DEF TypeOK
  <2>2. Breaker!Fail(c)
    BY <1>1, <1>2, <1>4, <2>1 DEF Evaluated, Breaker!Fail
  <2>3. QED  BY <2>2 DEF Breaker!Next
<1>5. QED  BY <1>3, <1>4

LEMMA TickRefinesBreaker ==
  ASSUME IInv, Tick PROVE [Breaker!Next]_Breaker!vars
<1>1. breakerAsked' = breakerAsked  BY AskedAlike DEF Tick, callerVars
<1>2. \A c \in Breaker!Asking : clock < breakerAsked[c] + Patience
  BY DEF Tick, Breaker!Asking, breakerAsked, Breaker!Never, Never
<1>3. Breaker!Tick  BY <1>1, <1>2 DEF Tick, breakerVars, Breaker!Tick
<1>4. QED  BY <1>3 DEF Breaker!Next

LEMMA StepRefinesBreaker == IInv /\ [Next]_vars => [Breaker!Next]_Breaker!vars
<1>1. ASSUME UNCHANGED vars PROVE [Breaker!Next]_Breaker!vars
  BY <1>1, AskedAlike, BreakerUnchanged DEF vars, callerVars
<1>2. ASSUME IInv, NEW c \in Callers, NEW r \in Requests, Arrive(c, r)
      PROVE  UNCHANGED Breaker!vars
  <2>1. breakerAsked' = breakerAsked
    BY <1>2, AskedAlike DEF Arrive, IInv, TypeOK
  <2>2. QED  BY <1>2, <2>1, BreakerUnchanged DEF Arrive
<1>3. ASSUME IInv, NEW c \in Callers, NEW why \in Causes, Reject(c, why)
      PROVE  UNCHANGED Breaker!vars
  <2>1. breakerAsked' = breakerAsked
    BY <1>3, AskedAlike DEF Reject, Done, IInv, TypeOK
  <2>2. QED  BY <1>3, <2>1, BreakerUnchanged DEF Reject
<1>4. ASSUME IInv, NEW c \in Callers, Lookup(c) PROVE UNCHANGED Breaker!vars
  <2>1. breakerAsked' = breakerAsked
    BY <1>4, AskedAlike DEF Lookup, Done, GoTo, IInv, TypeOK
  <2>2. QED  BY <1>4, <2>1, BreakerUnchanged DEF Lookup
<1>5. ASSUME IInv, NEW c \in Callers, Put(c) PROVE UNCHANGED Breaker!vars
  <2>1. breakerAsked' = breakerAsked
    BY <1>5, AskedAlike DEF Put, Done, IInv, TypeOK
  <2>2. QED  BY <1>5, <2>1, BreakerUnchanged DEF Put
<1>6. ASSUME IInv, NEW c \in Callers, Leave(c) PROVE UNCHANGED Breaker!vars
  <2>1. breakerAsked' = breakerAsked
    BY <1>6, AskedAlike DEF Leave, IInv, TypeOK
  <2>2. QED  BY <1>6, <2>1, BreakerUnchanged DEF Leave
<1>7. ASSUME Amend PROVE UNCHANGED Breaker!vars
  BY <1>7, AskedAlike, BreakerUnchanged DEF Amend
<1>8. QED
  BY <1>1, <1>2, <1>3, <1>4, <1>5, <1>6, <1>7, AskRefines, EvaluatedRefinesBreaker,
     TickRefinesBreaker DEF Next, Step

(* The pipeline runs the breaker as CircuitBreaker says: it asks once, with  *)
(* a reading at most Patience old, and reports exactly once, with the same   *)
(* reading (middleware.go:88-107).  So what is proved of CircuitBreaker      *)
(* holds in the pipeline.                                                    *)
THEOREM RunsTheBreaker == Spec => BreakerSpec
<1>1. Init => Breaker!Init  BY DEF Init
<1>2. QED
  BY <1>1, AlwaysIInv, StepRefinesBreaker, PTL DEF Spec, BreakerSpec, Breaker!Spec

-----------------------------------------------------------------------------
(* The cache's view.  A goroutine carries its request from the lookup to the *)
(* put, or until it has answered with what it was served.                    *)
LEMMA CarriedAlike ==
  ASSUME \A c \in Callers :
           /\ Waits(c)' <=> Waits(c)
           /\ Waits(c) => wanted'[c] = wanted[c] /\ reading'[c] = reading[c]
           /\ served'[c] = served[c]
           /\ served[c] # NoEntry => wanted'[c] = wanted[c]
  PROVE  cacheWanted' = cacheWanted /\ cacheAsked' = cacheAsked
BY DEF cacheWanted, cacheAsked

(* What c alone changes. *)
LEMMA CarriedByOne ==
  ASSUME TypeOK, NEW c \in Callers,
         \A d \in Callers \ {c} : /\ pc'[d] = pc[d] /\ wanted'[d] = wanted[d]
                                  /\ reading'[d] = reading[d] /\ served'[d] = served[d]
  PROVE  /\ cacheWanted' = [cacheWanted EXCEPT ![c] = cacheWanted'[c]]
         /\ cacheAsked' = [cacheAsked EXCEPT ![c] = cacheAsked'[c]]
BY DEF cacheWanted, cacheAsked, Waits

(* After its put, or when it is answered without one, c carries nothing.     *)
LEMMA CarriesNoMore ==
  ASSUME IInv, NEW c \in Callers, pc[c] \notin {"idle", "done"}, NEW reason,
         Done(c, reason, NoEntry)
  PROVE  /\ cacheWanted' = [cacheWanted EXCEPT ![c] = NoRequest]
         /\ cacheAsked' = [cacheAsked EXCEPT ![c] = Cache!Never]
         /\ served' = served
<1> USE DEF IInv
<1>1. pc'[c] = "done" /\ served'[c] = NoEntry  BY DEF Done, TypeOK, ServedOK
<1>2. cacheWanted'[c] = NoRequest /\ cacheAsked'[c] = Cache!Never
  BY <1>1 DEF cacheWanted, cacheAsked, Waits, Cache!Never, Never
<1>3. \A d \in Callers \ {c} : /\ pc'[d] = pc[d] /\ wanted'[d] = wanted[d]
                                /\ reading'[d] = reading[d] /\ served'[d] = served[d]
  BY DEF Done, TypeOK, ServedOK
<1>4. served' = served
  BY DEF Done, ServedOK, CallersOK, CallerOK
<1>5. QED  BY <1>2, <1>3, <1>4, CarriedByOne

LEMMA CacheUnchanged ==
  ASSUME UNCHANGED <<clock, cacheVars>>, served' = served,
         cacheWanted' = cacheWanted, cacheAsked' = cacheAsked
  PROVE  UNCHANGED Cache!vars
BY DEF Cache!vars, cacheVars

LEMMA LookupRefines ==
  ASSUME IInv, NEW c \in Callers, Lookup(c) PROVE [Cache!Next]_Cache!vars
<1> USE DEF IInv
<1> DEFINE r == wanted[c]
           now == reading[c]
<1>1. /\ r \in Requests /\ now \in Cache!Times /\ now # Never
      /\ now <= clock /\ clock <= now + Patience
  BY DurationsNatural DEF Lookup, TypeOK, CallersOK, CallerOK, Cache!Times, Never
<1>2. served[c] = NoEntry  BY DEF Lookup, CallersOK, CallerOK
<1>3. cacheWanted[c] = NoRequest /\ cacheAsked[c] = Never
  BY <1>2 DEF Lookup, cacheWanted, cacheAsked, Waits
<1>4. Cache!Holds(c, now)  BY <1>1, <1>3 DEF Cache!Holds
<1>5. CASE Cache!hit(r, now)
  <2> DEFINE entry == Cache!found(r)
  <2>1. Done(c, handleDecision(entry.answer), entry) /\ UNCHANGED cacheVars
    BY <1>5 DEF Lookup, Cache!get_miss
  <2>2. entry # NoEntry
    BY <1>5, NoEntryIsNone DEF EntriesOK, EntryOK, Cache!hit, Cache!found
  <2>3. served' = [served EXCEPT ![c] = entry]  BY <2>1 DEF Done
  <2>4. /\ pc'[c] = "done" /\ served'[c] # NoEntry /\ wanted'[c] = r
        /\ \A d \in Callers \ {c} : /\ pc'[d] = pc[d] /\ wanted'[d] = wanted[d]
                                     /\ reading'[d] = reading[d] /\ served'[d] = served[d]
    BY <2>1, <2>2, <2>3 DEF Done, TypeOK, ServedOK
  <2>5. cacheWanted'[c] = r /\ cacheAsked'[c] = Never
    BY <2>4 DEF cacheWanted, cacheAsked, Waits
  <2>6. cacheWanted' = [cacheWanted EXCEPT ![c] = r] /\ cacheAsked' = cacheAsked
    <3>1. cacheAsked' = [cacheAsked EXCEPT ![c] = cacheAsked[c]]
      BY <1>3, <2>4, <2>5, CarriedByOne
    <3>2. cacheAsked' = cacheAsked  BY <3>1 DEF cacheAsked
    <3>3. QED  BY <2>4, <2>5, <3>2, CarriedByOne
  <2>7. Cache!Hit(c, r, now)
    BY <1>4, <1>5, <2>1, <2>3, <2>6 DEF Lookup, Cache!Hit, cacheVars
  <2>8. QED  BY <1>1, <2>7 DEF Cache!Next
<1>6. CASE ~Cache!hit(r, now)
  <2>1. Cache!get_miss(r, now) /\ GoTo(c, "admitting")  BY <1>6 DEF Lookup
  <2>2. /\ pc'[c] = "admitting" /\ wanted' = wanted /\ reading' = reading
        /\ served' = served
        /\ \A d \in Callers \ {c} : pc'[d] = pc[d]
    BY <2>1 DEF GoTo, TypeOK
  <2>3. cacheWanted'[c] = r /\ cacheAsked'[c] = now
    BY <2>2 DEF cacheWanted, cacheAsked, Waits
  <2>4. /\ cacheWanted' = [cacheWanted EXCEPT ![c] = r]
        /\ cacheAsked' = [cacheAsked EXCEPT ![c] = now]
    BY <2>2, <2>3, CarriedByOne
  <2>5. Cache!Miss(c, r, now)
    BY <1>4, <2>1, <2>2, <2>4 DEF Lookup, Cache!Miss
  <2>6. QED  BY <1>1, <2>5 DEF Cache!Next
<1>7. QED  BY <1>5, <1>6

LEMMA AskRefinesCache ==
  ASSUME IInv, NEW c \in Callers, Ask(c) PROVE [Cache!Next]_Cache!vars
<1> USE DEF IInv
<1>1. CASE GoTo(c, "evaluating")
  <2>1. /\ Waits(c) /\ Waits(c)' /\ UNCHANGED <<wanted, reading, served>>
        /\ \A d \in Callers \ {c} : pc'[d] = pc[d]
    BY <1>1 DEF Ask, GoTo, TypeOK, Waits
  <2>2. cacheWanted' = cacheWanted /\ cacheAsked' = cacheAsked
    BY <2>1, CarriedAlike DEF Waits
  <2>3. QED  BY <2>1, <2>2, CacheUnchanged DEF Ask
<1>2. CASE Done(c, handleFailure("unavailable"), NoEntry)
  <2>1. cacheAsked[c] # Cache!Never
    BY DEF Ask, cacheAsked, Waits, CallersOK, CallerOK, Cache!Never, Never
  <2>2. Cache!Abandon(c)
    BY <1>2, <2>1, CarriesNoMore DEF Ask, Cache!Abandon, cacheVars
  <2>3. QED  BY <2>2 DEF Cache!Next
<1>3. QED  BY <1>1, <1>2 DEF Ask

LEMMA EvaluatedRefinesCache ==
  ASSUME IInv, NEW c \in Callers, NEW reply, Evaluated(c, reply)
  PROVE  [Cache!Next]_Cache!vars
<1> USE DEF IInv
<1>1. CASE GoTo(c, "storing")
  <2>1. /\ Waits(c) /\ Waits(c)' /\ UNCHANGED <<wanted, reading, served>>
        /\ \A d \in Callers \ {c} : pc'[d] = pc[d]
    BY <1>1 DEF Evaluated, GoTo, TypeOK, Waits
  <2>2. cacheWanted' = cacheWanted /\ cacheAsked' = cacheAsked
    BY <2>1, CarriedAlike DEF Waits
  <2>3. QED  BY <2>1, <2>2, CacheUnchanged DEF Evaluated
<1>2. ASSUME NEW reason, Done(c, reason, NoEntry) PROVE Cache!Next
  <2>1. cacheAsked[c] # Cache!Never
    BY DEF Evaluated, cacheAsked, Waits, CallersOK, CallerOK, Cache!Never, Never
  <2>2. Cache!Abandon(c)
    BY <1>2, <2>1, CarriesNoMore DEF Evaluated, Cache!Abandon, cacheVars
  <2>3. QED  BY <2>2 DEF Cache!Next
<1>3. QED  BY <1>1, <1>2 DEF Evaluated

LEMMA PutRefines ==
  ASSUME IInv, NEW c \in Callers, Put(c) PROVE [Cache!Next]_Cache!vars
<1> USE DEF IInv
<1>1. /\ cacheAsked[c] = reading[c] /\ cacheAsked[c] # Cache!Never
      /\ cacheWanted[c] = wanted[c] /\ response[c] \in Opinions
  BY DEF Put, cacheAsked, cacheWanted, Waits, CallersOK, CallerOK, Cache!Never, Never
<1>2. Cache!Store(c, response[c])
  BY <1>1, CarriesNoMore DEF Put, Cache!Store
<1>3. QED  BY <1>1, <1>2 DEF Cache!Next

(* A goroutine that leaves had been served from the cache, or carried        *)
(* nothing already.                                                          *)
LEMMA LeaveRefines ==
  ASSUME IInv, NEW c \in Callers, Leave(c) PROVE [Cache!Next]_Cache!vars
<1> USE DEF IInv
<1>1. /\ pc'[c] = "idle" /\ wanted'[c] = NoRequest /\ served'[c] = NoEntry
      /\ \A d \in Callers \ {c} : /\ pc'[d] = pc[d] /\ wanted'[d] = wanted[d]
                                   /\ reading'[d] = reading[d] /\ served'[d] = served[d]
  BY DEF Leave, TypeOK, ServedOK
<1>2. /\ cacheWanted'[c] = NoRequest
      /\ cacheAsked'[c] = Never /\ cacheAsked[c] = Never
  BY <1>1 DEF Leave, cacheWanted, cacheAsked, Waits
<1>3. /\ cacheWanted' = [cacheWanted EXCEPT ![c] = NoRequest]
      /\ cacheAsked' = cacheAsked
  <2>1. cacheAsked' = [cacheAsked EXCEPT ![c] = cacheAsked[c]]
    BY <1>1, <1>2, CarriedByOne
  <2>2. cacheAsked' = cacheAsked  BY <2>1 DEF cacheAsked
  <2>3. QED  BY <1>1, <1>2, <2>2, CarriedByOne
<1>4. CASE served[c] # NoEntry
  <2>1. Cache!Return(c)
    BY <1>3, <1>4 DEF Leave, Cache!Return, cacheVars
  <2>2. QED  BY <2>1 DEF Cache!Next
<1>5. CASE served[c] = NoEntry
  <2>1. cacheWanted[c] = NoRequest  BY <1>5 DEF Leave, cacheWanted, Waits
  <2>2. cacheWanted' = cacheWanted  BY <1>3, <2>1 DEF cacheWanted
  <2>3. served' = served  BY <1>5 DEF Leave, ServedOK
  <2>4. QED  BY <1>3, <2>2, <2>3, CacheUnchanged DEF Leave
<1>6. QED  BY <1>4, <1>5

LEMMA TickRefinesCache ==
  ASSUME IInv, Tick PROVE [Cache!Next]_Cache!vars
<1>1. cacheWanted' = cacheWanted /\ cacheAsked' = cacheAsked
  BY CarriedAlike DEF Tick, callerVars, Waits
<1>2. \A c \in Callers : cacheAsked[c] # Cache!Never => clock < cacheAsked[c] + Patience
  BY DEF Tick, cacheAsked, Waits, Cache!Never, Never
<1>3. Cache!Tick  BY <1>1, <1>2 DEF Tick, cacheVars, callerVars, Cache!Tick
<1>4. QED  BY <1>3 DEF Cache!Next

LEMMA StepRefinesCache == IInv /\ [Next]_vars => [Cache!Next]_Cache!vars
<1>1. ASSUME UNCHANGED vars PROVE UNCHANGED Cache!vars
  BY <1>1, CarriedAlike, CacheUnchanged DEF vars, callerVars, Waits
<1>2. ASSUME IInv, NEW c \in Callers, NEW r \in Requests, Arrive(c, r)
      PROVE  UNCHANGED Cache!vars
  <2>1. served[c] = NoEntry  BY <1>2 DEF IInv, CallersOK, CallerOK, Arrive
  <2>2. cacheWanted' = cacheWanted /\ cacheAsked' = cacheAsked
    BY <1>2, <2>1, CarriedAlike DEF Arrive, IInv, TypeOK, Waits
  <2>3. QED  BY <1>2, <2>2, CacheUnchanged DEF Arrive
<1>3. ASSUME IInv, NEW c \in Callers, NEW why \in Causes, Reject(c, why)
      PROVE  UNCHANGED Cache!vars
  <2>1. served' = served
    BY <1>3 DEF Reject, Done, IInv, ServedOK, CallersOK, CallerOK
  <2>2. cacheWanted' = cacheWanted /\ cacheAsked' = cacheAsked
    BY <1>3, <2>1, CarriedAlike DEF Reject, Done, IInv, TypeOK, Waits
  <2>3. QED  BY <1>3, <2>1, <2>2, CacheUnchanged DEF Reject
<1>4. ASSUME Amend PROVE UNCHANGED Cache!vars
  BY <1>4, CarriedAlike, CacheUnchanged DEF Amend, Waits
<1>5. QED
  BY <1>1, <1>2, <1>3, <1>4, LookupRefines, AskRefinesCache, EvaluatedRefinesCache,
     PutRefines, LeaveRefines, TickRefinesCache DEF Next, Step

(* The pipeline runs the cache as DecisionCache says: it looks a request up  *)
(* once, and puts at most the one answer the Agent then gave for it, under   *)
(* the reading of the lookup (middleware.go:88-113).  So what is proved of   *)
(* DecisionCache holds in the pipeline.                                      *)
THEOREM RunsTheCache == Spec => CacheSpec
<1>1. Init => Cache!Init
  <2> SUFFICES ASSUME Init PROVE Cache!Init  OBVIOUS
  <2> QED  BY DEF Init
<1>2. QED
  BY <1>1, AlwaysIInv, StepRefinesCache, PTL DEF Spec, CacheSpec, Cache!Spec

-----------------------------------------------------------------------------
(* Whether a lookup can overlook an entry depends on the cache's own state:  *)
(* the index leads to every entry, every entry is of the latest revision and *)
(* stored under its own key, and a cache that is turned off holds none.      *)
Indexed(es, index) ==
  /\ Cache!Matches(es, index)
  /\ \A k \in DOMAIN es : k[1] = es[k].requestFingerprint

CacheOK ==
  /\ Indexed(entries, requestIndex)
  /\ Cache!OneRevision
  /\ ~Cache!enabled => entries = Cache!Empty

(* Deleting entries removes from the index exactly what pointed to them.     *)
LEMMA KeptIndexed ==
  ASSUME NEW es, NEW index, NEW dead, Indexed(es, index)
  PROVE  /\ Indexed(Cache!keptEntries(es, dead), Cache!keptIndex(es, index, dead))
         /\ DOMAIN Cache!keptEntries(es, dead) = DOMAIN es \ dead
         /\ \A k \in DOMAIN es \ dead : Cache!keptEntries(es, dead)[k] = es[k]
<1> DEFINE e == Cache!keptEntries(es, dead)
           i == Cache!keptIndex(es, index, dead)
<1>1. DOMAIN e = DOMAIN es \ dead /\ \A k \in DOMAIN es \ dead : e[k] = es[k]
  BY DEF Cache!keptEntries, Cache!Restrict
<1>2. /\ DOMAIN i = {f \in DOMAIN index : index[f] \notin dead}
      /\ \A f \in DOMAIN i : i[f] = index[f]
  BY DEF Cache!keptIndex, Cache!Restrict, Indexed, Cache!Matches
<1> HIDE DEF e, i
<1>3. Indexed(e, i)  BY <1>1, <1>2 DEF Indexed, Cache!Matches
<1>4. QED  BY <1>1, <1>3 DEF e, i

(* Inserting leaves every other entry findable: what had the fingerprint of  *)
(* the new one was replaced, and what the new one overwrites had its         *)
(* fingerprint.                                                              *)
LEMMA InsertIndexed ==
  ASSUME NEW r \in Requests, NEW a, NEW now, NEW es, NEW index,
         Indexed(es, index), Cache!insert(r, a, now, es, index)
  PROVE  /\ Indexed(entries', requestIndex')
         /\ entries'[Cache!cacheCompositeKey(r, a)] = Cache!newEntry(r, a, now)
         /\ \A k \in DOMAIN entries' :
              k # Cache!cacheCompositeKey(r, a) => k \in DOMAIN es /\ entries'[k] = es[k]
<1> DEFINE composite == Cache!cacheCompositeKey(r, a)
           new       == Cache!newEntry(r, a, now)
           swept     == {k \in DOMAIN es : Cache!expired(now, es[k])}
           liveIndex == Cache!keptIndex(es, index, swept)
           replaced  == IF KeyOf[r] \in DOMAIN liveIndex
                        THEN {liveIndex[KeyOf[r]]} \ {composite} ELSE {}
           dead      == swept \cup (replaced \cap DOMAIN es)
<1>1. PICK gone : /\ dead \subseteq gone
                  /\ entries' = Cache!with(Cache!keptEntries(es, gone), composite, new)
                  /\ requestIndex' = Cache!with(Cache!keptIndex(es, index, gone),
                                                KeyOf[r], composite)
  BY DEF Cache!insert
<1>2. new.requestFingerprint = KeyOf[r] /\ composite[1] = KeyOf[r]
  BY DEF Cache!newEntry, Cache!cacheCompositeKey
<1> HIDE DEF composite, new, swept, liveIndex, replaced, dead
<1> DEFINE e == Cache!keptEntries(es, gone)
           i == Cache!keptIndex(es, index, gone)
<1>3. /\ Indexed(e, i) /\ DOMAIN e = DOMAIN es \ gone
      /\ \A k \in DOMAIN e : e[k] = es[k]
  <2>1. /\ Indexed(e, i) /\ DOMAIN e = DOMAIN es \ gone
        /\ \A k \in DOMAIN es \ gone : e[k] = es[k]
    BY KeptIndexed
  <2> HIDE DEF e, i
  <2>2. QED  BY <2>1
<1> HIDE DEF e, i
<1>4. /\ DOMAIN entries' = DOMAIN e \cup {composite}
      /\ entries'[composite] = new
      /\ \A k \in DOMAIN e : k # composite => entries'[k] = e[k]
  BY <1>1 DEF Cache!with, e
<1>5. /\ DOMAIN requestIndex' = DOMAIN i \cup {KeyOf[r]}
      /\ requestIndex'[KeyOf[r]] = composite
      /\ \A f \in DOMAIN i : f # KeyOf[r] => requestIndex'[f] = i[f]
  BY <1>1 DEF Cache!with, i
<1>6. ASSUME NEW k \in DOMAIN e, e[k].requestFingerprint = KeyOf[r] PROVE k = composite
  <2>1. k \in DOMAIN es /\ k \notin swept /\ es[k].requestFingerprint = KeyOf[r]
        /\ k \notin replaced
    BY <1>1, <1>3, <1>6 DEF dead
  <2>2. KeyOf[r] \in DOMAIN index /\ index[KeyOf[r]] = k
    BY <2>1 DEF Indexed, Cache!Matches
  <2>3. KeyOf[r] \in DOMAIN liveIndex /\ liveIndex[KeyOf[r]] = k
    BY <2>1, <2>2 DEF liveIndex, Cache!keptIndex, Cache!Restrict
  <2>4. QED  BY <2>1, <2>3 DEF replaced
<1>7. composite \in DOMAIN e => e[composite].requestFingerprint = KeyOf[r]
  BY <1>2, <1>3 DEF Indexed
<1>8. Indexed(entries', requestIndex')
  <2>1. ASSUME NEW k \in DOMAIN entries'
        PROVE  /\ entries'[k].requestFingerprint \in DOMAIN requestIndex'
               /\ requestIndex'[entries'[k].requestFingerprint] = k
               /\ k[1] = entries'[k].requestFingerprint
    <3>1. CASE k = composite  BY <1>2, <1>4, <1>5, <3>1
    <3>2. CASE k # composite
      <4>1. k \in DOMAIN e /\ entries'[k] = e[k]  BY <1>4, <3>2
      <4>2. e[k].requestFingerprint # KeyOf[r]  BY <1>6, <3>2, <4>1
      <4>3. QED  BY <1>3, <1>5, <4>1, <4>2 DEF Indexed, Cache!Matches
    <3>3. QED  BY <3>1, <3>2
  <2>2. ASSUME NEW f \in DOMAIN requestIndex'
        PROVE  /\ requestIndex'[f] \in DOMAIN entries'
               /\ entries'[requestIndex'[f]].requestFingerprint = f
    <3>1. CASE f = KeyOf[r]  BY <1>2, <1>4, <1>5, <3>1
    <3>2. CASE f # KeyOf[r]
      <4>1. f \in DOMAIN i /\ requestIndex'[f] = i[f]  BY <1>5, <3>2
      <4>2. i[f] \in DOMAIN e /\ e[i[f]].requestFingerprint = f
        BY <1>3, <4>1 DEF Indexed, Cache!Matches
      <4>3. i[f] # composite  BY <1>7, <3>2, <4>2
      <4>4. QED  BY <1>4, <4>1, <4>2, <4>3
    <3>3. QED  BY <3>1, <3>2
  <2>3. QED  BY <2>1, <2>2 DEF Indexed, Cache!Matches
<1>9. /\ entries'[composite] = new
      /\ \A k \in DOMAIN entries' : k # composite => k \in DOMAIN es /\ entries'[k] = es[k]
  BY <1>3, <1>4
<1>10. QED  BY <1>8, <1>9 DEF composite, new

LEMMA PutKeepsCacheOK ==
  ASSUME CacheOK, NEW r \in Requests, NEW a, NEW now, Cache!put(r, a, now),
         latestRevision \in Nat, a.revision \in Nat
  PROVE  CacheOK' /\ latestRevision' \in Nat
<1>1. CASE UNCHANGED Cache!cacheVars
  BY <1>1 DEF Cache!cacheVars, CacheOK, Indexed, Cache!Matches, Cache!OneRevision,
              Cache!enabled
<1>2. CASE ~(~Cache!storable(a) \/ a.revision < latestRevision)
  <2>1. Cache!enabled /\ latestRevision' = a.revision  BY <1>2 DEF Cache!put, Cache!storable
  <2>2. PICK es, index : /\ Cache!insert(r, a, now, es, index)
                         /\ Indexed(es, index)
                         /\ \A k \in DOMAIN es : es[k].answer.revision = a.revision
    <3>1. CASE a.revision > latestRevision
      <4>1. Cache!insert(r, a, now, Cache!Empty, Cache!Empty)
        BY <1>2, <3>1 DEF Cache!put
      <4>2. DOMAIN Cache!Empty = {}  BY DEF Cache!Empty
      <4>3. Indexed(Cache!Empty, Cache!Empty)  BY <4>2 DEF Indexed, Cache!Matches
      <4>4. QED  BY <4>1, <4>2, <4>3
    <3>2. CASE a.revision = latestRevision
      <4>1. Cache!insert(r, a, now, entries, requestIndex)
        BY <1>2, <3>2 DEF Cache!put
      <4>2. QED  BY <3>2, <4>1 DEF CacheOK, Cache!OneRevision
    <3>3. QED  BY <1>2, <3>1, <3>2
  <2> DEFINE composite == Cache!cacheCompositeKey(r, a)
  <2>3. /\ Indexed(entries', requestIndex')
        /\ entries'[composite] = Cache!newEntry(r, a, now)
        /\ \A k \in DOMAIN entries' :
             k # composite => k \in DOMAIN es /\ entries'[k] = es[k]
    BY <2>2, InsertIndexed
  <2> HIDE DEF composite
  <2>4. Cache!OneRevision'
    BY <2>1, <2>2, <2>3 DEF Cache!OneRevision, Cache!newEntry
  <2>5. QED  BY <2>1, <2>3, <2>4 DEF CacheOK, Cache!enabled
<1>3. QED  BY <1>1, <1>2 DEF Cache!put

(* In what CacheOK describes, a lookup that misses finds at most one entry,  *)
(* and deletes it with its index.                                            *)
LEMMA MissKeepsCacheOK ==
  ASSUME CacheOK, NEW r, NEW now, Cache!get_miss(r, now)
  PROVE  CacheOK' /\ latestRevision' = latestRevision
<1>1. latestRevision' = latestRevision  BY DEF Cache!get_miss
<1>2. CASE UNCHANGED <<entries, requestIndex>>
  BY <1>1, <1>2 DEF CacheOK, Indexed, Cache!Matches, Cache!OneRevision, Cache!enabled
<1>3. CASE Cache!enabled /\ KeyOf[r] \in DOMAIN requestIndex
  <2> DEFINE dead == {requestIndex[KeyOf[r]]}
  <2>1. {requestIndex[KeyOf[r]]} \cap DOMAIN entries = dead /\ dead # {}
    BY <1>3 DEF CacheOK, Indexed, Cache!Matches
  <2>2. /\ entries' = Cache!keptEntries(entries, dead)
        /\ requestIndex' = Cache!keptIndex(entries, requestIndex, dead)
    BY <1>3, <2>1 DEF Cache!get_miss
  <2> HIDE DEF dead
  <2>3. Indexed(entries', requestIndex')
    BY <2>2, KeptIndexed DEF CacheOK
  <2>4. /\ DOMAIN entries' = DOMAIN entries \ dead
        /\ \A k \in DOMAIN entries' : entries'[k] = entries[k]
    BY <2>2 DEF Cache!keptEntries, Cache!Restrict
  <2>5. Cache!OneRevision'  BY <1>1, <2>4 DEF CacheOK, Cache!OneRevision
  <2>6. QED  BY <1>1, <1>3, <2>3, <2>5 DEF CacheOK, Cache!enabled
<1>4. QED  BY <1>1, <1>2, <1>3 DEF Cache!get_miss

LiveInv == CacheOK /\ latestRevision \in Nat

LEMMA InitLiveInv == Init => LiveInv
<1> SUFFICES ASSUME Init PROVE LiveInv  OBVIOUS
<1>1. entries = Cache!Empty /\ requestIndex = Cache!Empty /\ latestRevision = 0
  BY DEF Init, Cache!Init
<1>2. DOMAIN Cache!Empty = {}  BY DEF Cache!Empty
<1>3. QED
  BY <1>1, <1>2 DEF LiveInv, CacheOK, Indexed, Cache!Matches, Cache!OneRevision

LEMMA StepLiveInv == IInv /\ LiveInv /\ [Next]_vars => LiveInv'
<1> SUFFICES ASSUME IInv, LiveInv, [Next]_vars PROVE LiveInv'  OBVIOUS
<1>1. CASE UNCHANGED cacheVars
  BY <1>1 DEF cacheVars, LiveInv, CacheOK, Indexed, Cache!Matches, Cache!OneRevision,
              Cache!enabled
<1>2. ASSUME NEW c \in Callers, Lookup(c) PROVE LiveInv'
  <2>1. CASE Cache!get_miss(wanted[c], reading[c])
    BY <2>1, MissKeepsCacheOK DEF LiveInv
  <2>2. QED  BY <1>1, <1>2, <2>1 DEF Lookup
<1>3. ASSUME NEW c \in Callers, Put(c) PROVE LiveInv'
  <2>1. wanted[c] \in Requests /\ response[c] \in Opinions
    BY <1>3 DEF IInv, CallersOK, CallerOK, Put
  <2>2. QED  BY <1>3, <2>1, OpinionsTyped, PutKeepsCacheOK DEF Put, LiveInv
<1>4. QED
  BY <1>1, <1>2, <1>3 DEF Next, Step, Arrive, Reject, Ask, Evaluated, Leave, Amend,
                          Tick, vars, cacheVars

(* No lookup overlooks a denial that is live for its request, whatever other *)
(* goroutines stored, replaced, swept or evicted before, and whatever state  *)
(* the breaker and the Agent are in: the index leads to it, it is of the     *)
(* latest revision, and not expired (middleware.go:89-96, cache.go:39-67).   *)
THEOREM LiveDenialsEnforced == Spec => LiveDenialIsEnforced
<1> DEFINE Overlooked(c) == \E k \in DOMAIN entries : /\ entries[k].request = wanted[c]
                                                      /\ reading[c] < entries[k].expiresAt
           Enforced ==
             \A c \in Callers : pc[c] = "looking" /\ pc'[c] = "admitting" =>
               ~\E k \in DOMAIN entries : entries[k].request = wanted[c]
                                          /\ reading[c] < entries[k].expiresAt
<1>1. ASSUME IInv, LiveInv, NEW c \in Callers,
             Cache!get_miss(wanted[c], reading[c]), Overlooked(c)
      PROVE  FALSE
  <2>1. PICK k \in DOMAIN entries : /\ entries[k].request = wanted[c]
                                    /\ reading[c] < entries[k].expiresAt
    BY <1>1
  <2>2. /\ entries[k].requestFingerprint = KeyOf[wanted[c]]
        /\ entries[k].expiresAt \in Nat /\ reading[c] \in Nat
    BY <1>1, <2>1, DurationsNatural
       DEF IInv, EntriesOK, EntryOK, TypeOK, Cache!Entry
  <2>3. KeyOf[wanted[c]] \in DOMAIN requestIndex /\ requestIndex[KeyOf[wanted[c]]] = k
    BY <1>1, <2>1, <2>2 DEF LiveInv, CacheOK, Indexed, Cache!Matches
  <2>4. entries[k].answer.revision = latestRevision
    BY <1>1, <2>1 DEF LiveInv, CacheOK, Cache!OneRevision
  <2>5. Cache!enabled  BY <1>1, <2>1 DEF LiveInv, CacheOK, Cache!Empty
  <2>6. ~Cache!expired(reading[c], entries[k])  BY <2>1, <2>2 DEF Cache!expired
  <2>7. QED
    BY <1>1, <2>1, <2>2, <2>3, <2>4, <2>5, <2>6 DEF Cache!get_miss, Cache!hit
<1>2. IInv /\ LiveInv /\ [Next]_vars => [Enforced]_vars
  <2> SUFFICES ASSUME IInv, LiveInv, Next, NEW c \in Callers,
                      pc[c] = "looking", pc'[c] = "admitting"
               PROVE  ~Overlooked(c)
    OBVIOUS
  <2> HIDE DEF Overlooked
  <2>1. ASSUME NEW d \in Callers, Step(d)
        PROVE  d = c /\ Cache!get_miss(wanted[c], reading[c])
    <3>1. d = c
      BY <2>1 DEF Step, Lookup, Ask, Put, Leave, Evaluated, Done, GoTo, IInv, TypeOK
    <3>2. Lookup(c)
      BY <2>1, <3>1 DEF Step, Ask, Put, Leave, Evaluated
    <3>3. QED  BY <3>1, <3>2 DEF Lookup, Done, IInv, TypeOK
  <2>2. QED
    BY <1>1, <2>1 DEF Next, Arrive, Reject, Done, Amend, Tick, callerVars, IInv, TypeOK
<1>3. Spec => [](IInv /\ LiveInv)
  <2>1. IInv /\ LiveInv /\ [Next]_vars => (IInv /\ LiveInv)'
    BY StepIInv, StepLiveInv
  <2>2. Init => IInv /\ LiveInv  BY InitIInv, InitLiveInv
  <2>3. QED  BY <2>1, <2>2, PTL DEF Spec
<1>4. QED  BY <1>2, <1>3, PTL DEF Spec, LiveDenialIsEnforced, Enforced

=============================================================================
