----------------------------- MODULE Middleware -----------------------------
(***************************************************************************)
(* ServeHTTP (middleware.go:15-150): goroutines that share one decision    *)
(* cache and one circuit breaker and ask one local Agent, whose policy     *)
(* changes while they wait.  Each goroutine goes through                   *)
(*                                                                         *)
(*   idle -> looking -> admitting -> evaluating -> storing -> done -> idle *)
(*                                                                         *)
(* and may be done early: a cached denial, a refusal by the breaker, a     *)
(* failed evaluation.  A step is what happens up to the release of one     *)
(* mutex; what follows it up to the next shared step touches only the      *)
(* goroutine's own variables and is part of the same action.               *)
(***************************************************************************)
EXTENDS AgentResponse

CONSTANTS
  Callers, Requests, KeyOf,
  Policies,            \* the Agent's policies in time: Policies[i][r] is its response
  ErrorResponse,       \* a valid response that decides "error"
  Faults,              \* the replies without a valid response that are explored
  Modes,               \* the failureMode configurations explored
  FailureThreshold, OpenDuration, MaximumEntries, MaximumTTL,
  Patience,            \* bounds reading the clock .. the last use of the reading
  MaxTime,             \* bound: the last instant
  NoRequest, NoEntry, NoResponse

VARIABLES
  clock,
  failures, openUntil, probe,                \* m.breaker
  entries, requestIndex, latestRevision,     \* m.cache
  mode,                \* m.config.FailureMode
  policy,              \* the policy the Agent applies now, an index of Policies
  pc, wanted,          \* the goroutine's place in ServeHTTP, and its input
  reading,             \* its now
  response,            \* the valid response it has still to put
  outcome,             \* what it answered, once done
  served,              \* history: the entry it was answered from, or NoEntry
  allowedSince,        \* history: the Agent would have let its request through
                       \*          at some instant since it arrived
  deniedAt,            \* history: the last instant at which the Agent would
                       \*          have denied the request
  tripped              \* history: see CircuitBreaker

breakerVars == <<failures, openUntil, probe>>
cacheVars   == <<entries, requestIndex, latestRevision>>
agentVars   == <<policy, deniedAt>>
callerVars  == <<pc, wanted, reading, response, outcome, served, allowedSince>>
vars == <<clock, breakerVars, cacheVars, mode, agentVars, callerVars, tripped>>

Never == 0
Opinions == {Policies[i][r] : i \in DOMAIN Policies, r \in Requests}

(* To the breaker a goroutine waits while the Agent evaluates; to the cache,  *)
(* from its lookup to its put.                                               *)
Waits(c) == pc[c] \in {"admitting", "evaluating", "storing"}

breakerAsked == [c \in Callers |-> IF pc[c] = "evaluating" THEN reading[c] ELSE Never]
cacheAsked   == [c \in Callers |-> IF Waits(c) THEN reading[c] ELSE Never]
cacheWanted  == [c \in Callers |-> IF Waits(c) \/ served[c] # NoEntry
                                   THEN wanted[c] ELSE NoRequest]

Breaker == INSTANCE CircuitBreaker WITH
  asked <- breakerAsked, FaultsUntil <- MaxTime

Cache == INSTANCE DecisionCache WITH
  Answers <- Opinions \cup {ErrorResponse},
  wanted <- cacheWanted, asked <- cacheAsked

ASSUME PolicyAtStart      == 1 \in DOMAIN Policies
ASSUME OpinionsTyped      ==
  \A answer \in Opinions : answer.ttl \in Nat /\ answer.revision \in Nat
ASSUME ErrorDecidesError  == ErrorResponse.decision = "error"
ASSUME FaultsKnown        == Faults \subseteq Unanswered \cup Garbled
ASSUME DurationsNatural   == MaxTime \in Nat \ {0} /\ Patience \in Nat /\ MaximumTTL \in Nat
ASSUME NoRequestIsNone    == NoRequest \notin Requests
ASSUME NoEntryIsNone      == NoEntry \notin Cache!Entry

-----------------------------------------------------------------------------
Passes(i, r) == Policies[i][r].decision \in {"allow", "observe"}
Denials == {"block", "challenge", "rate_limit"}
Denies(i, r) == Policies[i][r].decision \in Denials

Reasons == {"next", "unavailable", "malformed", "invalid_request", "too_large"} \cup Denials

TypeOK ==
  /\ clock \in 1..MaxTime
  /\ mode \in Modes
  /\ policy \in DOMAIN Policies
  /\ pc \in [Callers -> {"idle", "looking", "admitting", "evaluating", "storing", "done"}]
  /\ wanted \in [Callers -> Requests \cup {NoRequest}]
  /\ reading \in [Callers -> 0..MaxTime]
  /\ response \in [Callers -> Opinions \cup {NoResponse}]
  /\ outcome \in [Callers -> Reasons \cup {"none"}]
  /\ allowedSince \in [Callers -> BOOLEAN]
  /\ deniedAt \in [Requests -> 0..MaxTime]

Init ==
  /\ mode \in Modes
  /\ policy = 1
  /\ pc = [c \in Callers |-> "idle"]
  /\ wanted = [c \in Callers |-> NoRequest]
  /\ reading = [c \in Callers |-> Never]
  /\ response = [c \in Callers |-> NoResponse]
  /\ outcome = [c \in Callers |-> "none"]
  /\ served = [c \in Callers |-> NoEntry]
  /\ Breaker!Init
  /\ Cache!Init
  /\ allowedSince = [c \in Callers |-> FALSE]
  /\ deniedAt = [r \in Requests |-> IF Denies(policy, r) THEN 1 ELSE Never]

-----------------------------------------------------------------------------
(* Operators named <operation>_<slip> are an operation with a slip in it;    *)
(* only the runs that show that a property notices the slip use them.        *)
handleFailure_open(kind) == "next"

(* What handleFailure and handleDecision answer with: "next" hands the       *)
(* request on, anything else is the page with that reason.                   *)
handleFailure(kind) ==
  IF (IF kind = "malformed" THEN mode.malformedResponse ELSE mode.agentUnavailable) = "allow"
  THEN "next" ELSE kind

handleDecision(answer) ==
  CASE answer.decision \in {"allow", "observe"} -> "next"
    [] answer.decision \in Denials ->
         IF mode.explicitLocalDeny = "allow" THEN "next" ELSE answer.decision
    [] OTHER -> handleFailure("malformed")

(* c is done and keeps only what it was asked and how it answered.           *)
Done(c, reason, entry) ==
  /\ pc' = [pc EXCEPT ![c] = "done"]
  /\ outcome' = [outcome EXCEPT ![c] = reason]
  /\ served' = [served EXCEPT ![c] = entry]
  /\ reading' = [reading EXCEPT ![c] = Never]
  /\ response' = [response EXCEPT ![c] = NoResponse]
  /\ UNCHANGED <<wanted, allowedSince>>

GoTo(c, place) ==
  /\ pc' = [pc EXCEPT ![c] = place]
  /\ UNCHANGED <<wanted, reading, outcome, served, allowedSince>>

(* A request arrives and is turned into an input.                            *)
Arrive(c, r) ==
  /\ pc[c] = "idle"
  /\ pc' = [pc EXCEPT ![c] = "looking"]
  /\ wanted' = [wanted EXCEPT ![c] = r]
  /\ reading' = [reading EXCEPT ![c] = clock]
  /\ allowedSince' = [allowedSince EXCEPT ![c] = Passes(policy, r)]
  /\ UNCHANGED <<clock, breakerVars, cacheVars, mode, agentVars, response, outcome,
                 served, tripped>>

(* ... or is answered before that: without a client address, or with a body  *)
(* that cannot be read, as a failure; with bad metadata or too long a body   *)
(* by a page.  Nothing shared is touched.                                    *)
Reject(c, why) ==
  /\ pc[c] = "idle"
  /\ Done(c, CASE why \in {"no_client_ip", "body_error"} -> handleFailure("unavailable")
               [] why = "metadata"  -> "invalid_request"
               [] why = "oversized" -> "too_large", NoEntry)
  /\ UNCHANGED <<clock, breakerVars, cacheVars, mode, agentVars, tripped>>

(* cache.get, and handleDecision if it has the answer.                       *)
Lookup(c) ==
  /\ pc[c] = "looking"
  /\ \/ /\ Cache!hit(wanted[c], reading[c])
        /\ LET entry == Cache!found(wanted[c])
           IN  Done(c, handleDecision(entry.answer), entry)
        /\ UNCHANGED cacheVars
     \/ /\ Cache!get_miss(wanted[c], reading[c])
        /\ GoTo(c, "admitting") /\ UNCHANGED response
  /\ UNCHANGED <<clock, breakerVars, mode, agentVars, tripped>>

Ask_waits(c) ==
  /\ pc[c] = "admitting"
  /\ Breaker!allow(reading[c])
  /\ GoTo(c, "evaluating")
  /\ UNCHANGED <<response, clock, cacheVars, mode, agentVars, tripped>>

Ask_unheeding(c) ==
  /\ pc[c] = "admitting"
  /\ IF Breaker!allows(reading[c]) THEN Breaker!allow(reading[c]) ELSE UNCHANGED breakerVars
  /\ GoTo(c, "evaluating")
  /\ UNCHANGED <<response, clock, cacheVars, mode, agentVars, tripped>>

(* breaker.allow, and handleFailure if it refuses.                           *)
Ask(c) ==
  /\ pc[c] = "admitting"
  /\ \/ /\ Breaker!allow(reading[c])
        /\ GoTo(c, "evaluating") /\ UNCHANGED response
     \/ /\ ~Breaker!allows(reading[c])
        /\ Done(c, handleFailure("unavailable"), NoEntry)
        /\ UNCHANGED breakerVars
  /\ UNCHANGED <<clock, cacheVars, mode, agentVars, tripped>>

(* The Agent replies, by the policy it applies now, or does not.             *)
Replies(r) ==
  {[kind |-> k] : k \in Faults}
  \cup {[kind |-> "response", response |-> a] : a \in {Policies[policy][r], ErrorResponse}}

Evaluated(c, reply) ==
  /\ pc[c] = "evaluating"
  /\ IF evaluate(reply) = "answer"
     THEN /\ Breaker!success
          /\ UNCHANGED tripped
          /\ IF reply.response.decision = "error"
             THEN Done(c, handleFailure("unavailable"), NoEntry)
             ELSE /\ response' = [response EXCEPT ![c] = reply.response]
                  /\ GoTo(c, "storing")
     ELSE /\ Breaker!failure(reading[c])
          /\ Done(c, handleFailure(evaluate(reply)), NoEntry)
          /\ Breaker!CountTripped
  /\ UNCHANGED <<clock, cacheVars, mode, agentVars>>

Put_readsClockAgain(c) ==
  /\ pc[c] = "storing"
  /\ Cache!put(wanted[c], response[c], clock)
  /\ Done(c, handleDecision(response[c]), NoEntry)
  /\ UNCHANGED <<clock, breakerVars, mode, agentVars, tripped>>

(* cache.put, then handleDecision.                                           *)
Put(c) ==
  /\ pc[c] = "storing"
  /\ Cache!put(wanted[c], response[c], reading[c])
  /\ Done(c, handleDecision(response[c]), NoEntry)
  /\ UNCHANGED <<clock, breakerVars, mode, agentVars, tripped>>

(* ServeHTTP returns. *)
Leave(c) ==
  /\ pc[c] = "done"
  /\ pc' = [pc EXCEPT ![c] = "idle"]
  /\ wanted' = [wanted EXCEPT ![c] = NoRequest]
  /\ outcome' = [outcome EXCEPT ![c] = "none"]
  /\ served' = [served EXCEPT ![c] = NoEntry]
  /\ allowedSince' = [allowedSince EXCEPT ![c] = FALSE]
  /\ UNCHANGED <<clock, breakerVars, cacheVars, mode, agentVars, reading, response, tripped>>

Step(c) ==
  \/ Lookup(c) \/ Ask(c) \/ Put(c) \/ Leave(c)
  \/ wanted[c] # NoRequest /\ \E reply \in Replies(wanted[c]) : Evaluated(c, reply)

-----------------------------------------------------------------------------
(* The Agent's policy changes. *)
Amend ==
  /\ policy + 1 \in DOMAIN Policies
  /\ policy' = policy + 1
  /\ deniedAt' = [r \in Requests |-> IF Denies(policy', r) THEN clock ELSE deniedAt[r]]
  /\ allowedSince' = [c \in Callers |-> allowedSince[c]
                        \/ (wanted[c] # NoRequest /\ Passes(policy', wanted[c]))]
  /\ UNCHANGED <<clock, breakerVars, cacheVars, mode, pc, wanted, reading, response,
                 outcome, served, tripped>>

Tick ==
  /\ clock < MaxTime
  /\ \A c \in Callers : pc[c] \notin {"idle", "done"} => clock < reading[c] + Patience
  /\ clock' = clock + 1
  /\ deniedAt' = [r \in Requests |-> IF Denies(policy, r) THEN clock' ELSE deniedAt[r]]
  /\ UNCHANGED <<breakerVars, cacheVars, mode, policy, callerVars, tripped>>

Causes == {"no_client_ip", "body_error", "metadata", "oversized"}

Next ==
  \/ \E c \in Callers, r \in Requests : Arrive(c, r)
  \/ \E c \in Callers, why \in Causes : Reject(c, why)
  \/ \E c \in Callers : Step(c)
  \/ Amend
  \/ Tick

Spec == Init /\ [][Next]_vars

(* Every goroutine runs on: no step of ServeHTTP waits for another request.  *)
FairSpec == Spec /\ \A c \in Callers : WF_vars(Step(c))

-----------------------------------------------------------------------------
Answers(c) == pc[c] # "done" /\ pc'[c] = "done"

(* With every failure mode at "deny", a request reaches the service behind   *)
(* only if at some instant since it arrived the Agent would have let it      *)
(* through: no failure, stale entry or race with a change of policy hands on *)
(* what was never allowed (middleware.go:116-150).                           *)
FailClosed ==
  mode = [agentUnavailable |-> "deny", malformedResponse |-> "deny",
          explicitLocalDeny |-> "deny"] =>
    \A c \in Callers : outcome[c] = "next" => allowedSince[c]

(* A page that denies is never older news than the cache may keep: the Agent *)
(* would have denied this very request at some instant less than MaximumTTL  *)
(* and Patience ago (middleware.go:88-113).                                  *)
DenialIsRecent ==
  [][\A c \in Callers : Answers(c) /\ outcome'[c] \in Denials =>
       /\ deniedAt[wanted[c]] # Never
       /\ clock < deniedAt[wanted[c]] + MaximumTTL + Patience]_vars

(* A lookup never overlooks a denial that is still live for its request, so  *)
(* that one stays in force whatever state the breaker and the Agent are in   *)
(* (middleware.go:89-96; plugin_test.go:551-579).                            *)
LiveDenialIsEnforced ==
  [][\A c \in Callers : pc[c] = "looking" /\ pc'[c] = "admitting" =>
       ~\E k \in DOMAIN entries :
          entries[k].request = wanted[c] /\ reading[c] < entries[k].expiresAt]_vars

(* Every request is answered, whatever the Agent does (middleware.go:15-114). *)
EveryRequestAnswered == \A c \in Callers : pc[c] = "looking" ~> pc[c] = "done"

(* The composition runs the breaker and the cache as their modules say.      *)
BreakerSpec == Breaker!Spec
CacheSpec   == Cache!Spec

=============================================================================
