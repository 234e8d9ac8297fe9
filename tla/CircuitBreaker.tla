--------------------------- MODULE CircuitBreaker ---------------------------
(***************************************************************************)
(* The circuit breaker of cache.go, shared by every goroutine that serves  *)
(* a request, and those goroutines as far as the breaker sees them: each   *)
(* reads the clock once (middleware.go:88), asks allow with that reading,  *)
(* waits for the Agent, and reports success or failure WITH THE SAME       *)
(* READING, by then up to Patience old.  Each method runs under the mutex  *)
(* and is one step; other goroutines run between the steps.                *)
(***************************************************************************)
EXTENDS Integers, FiniteSets

CONSTANTS
  Callers,            \* goroutines in ServeHTTP
  FailureThreshold,   \* circuitBreaker.failureThreshold
  OpenDuration,       \* circuitBreaker.openDuration, in units of the clock
  Patience,           \* bounds reading the clock .. the end of agent.evaluate
  MaxTime,            \* bound: the last instant
  FaultsUntil         \* bound: evaluations fail only up to this instant

ASSUME CallersFinite      == IsFiniteSet(Callers)
ASSUME ThresholdAtLeast1  == FailureThreshold \in Nat \ {0}
ASSUME DurationsPositive  == OpenDuration \in Nat \ {0} /\ Patience \in Nat
ASSUME BoundsNatural      == MaxTime \in Nat /\ FaultsUntil \in Nat

Never == 0                \* time.Time{}, which IsZero; the clock starts at 1
Times == 1..MaxTime

VARIABLES
  clock,
  failures, openUntil, probe,   \* the fields of circuitBreaker
  asked,      \* asked[c]: the reading c holds while it waits, Never if it does not
  tripped     \* history: calls outstanding when the breaker last opened

breakerVars == <<failures, openUntil, probe>>
vars == <<clock, failures, openUntil, probe, asked, tripped>>

Asking == {c \in Callers : asked[c] # Never}
Open   == openUntil # Never

TypeOK ==
  /\ clock \in Nat \ {0}
  /\ failures \in Nat
  /\ openUntil \in Nat
  /\ probe \in BOOLEAN
  /\ asked \in [Callers -> Nat]
  /\ tripped \in Nat

Init ==
  /\ clock = 1
  /\ failures = 0
  /\ openUntil = Never
  /\ probe = FALSE
  /\ asked = [c \in Callers |-> Never]
  /\ tripped = 0

-----------------------------------------------------------------------------
(* The methods, as the middleware calls them. *)

(* Operators named <method>_<slip> are the method with a slip in it; only the *)
(* runs that show that a property notices the slip use them.                *)
allows_unprobed(now) == ~Open \/ now >= openUntil

allows(now) == ~Open \/ (now >= openUntil /\ ~probe)

allow(now) ==
  /\ allows(now)
  /\ probe' = (probe \/ Open)
  /\ UNCHANGED <<failures, openUntil>>

success_decrements ==
  /\ failures' = failures - 1
  /\ openUntil' = Never
  /\ probe' = FALSE

success_keepsFailures ==
  /\ openUntil' = Never
  /\ probe' = FALSE
  /\ UNCHANGED failures

success ==
  /\ failures' = 0
  /\ openUntil' = Never
  /\ probe' = FALSE

failure_keepsProbe(now) ==
  /\ failures' = failures + 1
  /\ openUntil' = IF probe \/ failures' >= FailureThreshold
                  THEN now + OpenDuration
                  ELSE openUntil
  /\ UNCHANGED probe

failure_opensOnce(now) ==
  /\ failures' = failures + 1
  /\ openUntil' = IF failures' = FailureThreshold THEN now + OpenDuration ELSE openUntil
  /\ probe' = FALSE

failure(now) ==
  /\ failures' = failures + 1
  /\ openUntil' = IF probe \/ failures' >= FailureThreshold
                  THEN now + OpenDuration
                  ELSE openUntil
  /\ probe' = FALSE

-----------------------------------------------------------------------------
(* An idle goroutine holds a reading of the clock that may be late already. *)
Holds(c, now) == asked[c] = Never /\ now <= clock /\ clock <= now + Patience

(* The breaker lets it through to the Agent ... *)
Admit(c, now) ==
  /\ Holds(c, now)
  /\ allow(now)
  /\ asked' = [asked EXCEPT ![c] = now]
  /\ UNCHANGED <<clock, tripped>>

(* ... or refuses, and the request is answered by the failure mode. *)
Refuse(c, now) == Holds(c, now) /\ ~allows(now) /\ UNCHANGED vars

(* The Agent answered in time with a valid answer. *)
Succeed(c) ==
  /\ asked[c] # Never
  /\ success
  /\ asked' = [asked EXCEPT ![c] = Never]
  /\ UNCHANGED <<clock, tripped>>

(* History: how many calls are still out when the breaker opens.            *)
CountTripped == tripped' = IF ~Open /\ Open' THEN Cardinality(Asking') ELSE tripped

(* The Agent was unreachable, late or unintelligible, or the client went   *)
(* away and its context ended the call.                                    *)
Fail(c) ==
  /\ asked[c] # Never
  /\ clock <= FaultsUntil
  /\ failure(asked[c])
  /\ asked' = [asked EXCEPT ![c] = Never]
  /\ CountTripped
  /\ UNCHANGED clock

(* Time passes, but never past the deadline of a call still outstanding. *)
Tick ==
  /\ clock < MaxTime
  /\ \A c \in Asking : clock < asked[c] + Patience
  /\ clock' = clock + 1
  /\ UNCHANGED <<failures, openUntil, probe, asked, tripped>>

Next ==
  \/ \E c \in Callers, now \in Times : Admit(c, now) \/ Refuse(c, now)
  \/ \E c \in Callers : Succeed(c) \/ Fail(c)
  \/ Tick

Spec == Init /\ [][Next]_vars

(* The context deadline ends every call; time passes; and requests that    *)
(* miss the cache keep coming, so some goroutine asks the breaker for as   *)
(* long as it would admit one.                                             *)
Fairness ==
  /\ WF_vars(Tick)
  /\ \A c \in Callers : WF_vars(Succeed(c) \/ Fail(c))
  /\ WF_vars(\E c \in Callers : Admit(c, clock))

FairSpec == Spec /\ Fairness

-----------------------------------------------------------------------------
(* The breaker is open exactly when at least FailureThreshold calls have    *)
(* failed with no success since: neither the probe, nor a late report of a  *)
(* call admitted before it opened, leaves it open or closed by mistake      *)
(* (cache.go:222-238).                                                      *)
OpenExactlyAtThreshold == Open <=> failures >= FailureThreshold

(* The probe flag is set only while the breaker is open and some call that  *)
(* will clear it is outstanding.  A flag nobody clears would refuse every   *)
(* request for good (cache.go:215-219).                                     *)
ProbeIsAccounted == probe => Open /\ Asking # {}

(* While the breaker is open the Agent has at most the calls that were      *)
(* outstanding when it opened, and one probe.  A late failure clears the    *)
(* flag of a probe still in flight (cache.go:237), so a second probe may    *)
(* start, but only in the place of the call that just ended.                *)
ProbeSlot  == IF probe THEN 1 ELSE 0
StormBound == Open => Cardinality(Asking) <= tripped + ProbeSlot

(* A failure that leaves the breaker open holds off the Agent for           *)
(* OpenDuration less the time the failed call took: the window is counted   *)
(* from the reading taken before the call (middleware.go:88,103).           *)
FailureBuysQuiet ==
  [][failures' > failures /\ openUntil' # Never
       => openUntil' >= clock + OpenDuration - Patience]_vars

(* Once failures stop and requests keep coming, the breaker closes for good. *)
Recovers == (clock > FaultsUntil) ~> [](openUntil = Never)

(* The breaker implements the gate. *)
Gate == INSTANCE AgentGate WITH
          waiting <- Asking,
          shut <- Open,
          allowance <- IF Open THEN tripped + 1 ELSE 0
GateSpec == Gate!Spec

=============================================================================
