------------------------ MODULE CircuitBreakerProofs ------------------------
(***************************************************************************)
(* Theorems about CircuitBreaker, for any number of goroutines, threshold, *)
(* window and patience.  Everything follows from one inductive invariant:  *)
(* the bound on the calls outstanding needs that a set probe flag means an *)
(* open breaker with a call behind it, and the window needs that a reading *)
(* in use is at most Patience old.                                         *)
(***************************************************************************)
EXTENDS CircuitBreaker, TLAPS, FiniteSetTheorems

(* Every reading a waiting goroutine holds is in the past, but not by much. *)
ReadingsFresh == \A c \in Asking : asked[c] <= clock /\ clock <= asked[c] + Patience

IInv ==
  /\ TypeOK
  /\ OpenExactlyAtThreshold
  /\ ProbeIsAccounted
  /\ ReadingsFresh
  /\ StormBound

-----------------------------------------------------------------------------
(* The calls outstanding are finitely many: their number is a natural.      *)
LEMMA AskingFinite == IsFiniteSet(Asking) /\ Cardinality(Asking) \in Nat
<1>1. Asking \in SUBSET Callers  BY DEF Asking
<1>2. IsFiniteSet(Asking)  BY <1>1, FS_Subset, CallersFinite
<1>3. QED  BY <1>2, FS_CardinalityType

(* A call that starts adds one to the calls outstanding. *)
LEMMA OneMore ==
  ASSUME TypeOK, NEW c \in Callers, NEW now \in Nat, now # Never,
         asked[c] = Never, asked' = [asked EXCEPT ![c] = now]
  PROVE  /\ Asking' = Asking \cup {c}
         /\ c \notin Asking
         /\ Cardinality(Asking') = Cardinality(Asking) + 1
<1>1. Asking' = Asking \cup {c}  BY DEF Asking, TypeOK, Never
<1>2. c \notin Asking  BY DEF Asking
<1>3. QED  BY <1>1, <1>2, AskingFinite, FS_AddElement

(* A call that ends takes one away. *)
LEMMA OneLess ==
  ASSUME TypeOK, NEW c \in Callers, asked[c] # Never,
         asked' = [asked EXCEPT ![c] = Never]
  PROVE  /\ Asking' = Asking \ {c}
         /\ c \in Asking
         /\ Cardinality(Asking') = Cardinality(Asking) - 1
         /\ Cardinality(Asking') \in Nat
<1>1. Asking' = Asking \ {c}  BY DEF Asking, TypeOK, Never
<1>2. c \in Asking  BY DEF Asking
<1>3. IsFiniteSet(Asking \ {c})  BY AskingFinite, FS_RemoveElement
<1>4. QED  BY <1>1, <1>2, <1>3, AskingFinite, FS_RemoveElement, FS_CardinalityType

-----------------------------------------------------------------------------
LEMMA InitIInv == Init => IInv
<1> SUFFICES ASSUME Init PROVE IInv  OBVIOUS
<1> USE DEF Init, Never, Asking, Open
<1>1. TypeOK
  <2>1. asked \in [Callers -> Nat] /\ clock \in Nat \ {0}  OBVIOUS
  <2>2. probe \in BOOLEAN  OBVIOUS
  <2>3. failures \in Nat /\ openUntil \in Nat /\ tripped \in Nat  OBVIOUS
  <2>4. QED  BY <2>1, <2>2, <2>3 DEF TypeOK
<1>2. OpenExactlyAtThreshold  BY ThresholdAtLeast1 DEF OpenExactlyAtThreshold
<1>3. ProbeIsAccounted /\ ReadingsFresh /\ StormBound
  BY DEF ProbeIsAccounted, ReadingsFresh, StormBound
<1>4. QED  BY <1>1, <1>2, <1>3 DEF IInv

LEMMA AdmitIInv ==
  ASSUME IInv, NEW c \in Callers, NEW now \in Times, Admit(c, now)
  PROVE  IInv'
<1> USE DEF Never
<1>1. now \in Nat /\ now # Never  BY DEF Times
<1>2. /\ TypeOK /\ asked[c] = Never /\ allow(now)
      /\ now <= clock /\ clock <= now + Patience
      /\ asked' = [asked EXCEPT ![c] = now]
      /\ UNCHANGED <<clock, tripped>>
  BY DEF IInv, Admit, Holds
<1>3. /\ Asking' = Asking \cup {c}
      /\ Cardinality(Asking') = Cardinality(Asking) + 1
  BY <1>1, <1>2, OneMore
<1>4. TypeOK'  BY <1>1, <1>2 DEF TypeOK, allow, Open
<1>5. OpenExactlyAtThreshold'
  BY <1>2 DEF IInv, OpenExactlyAtThreshold, Open, allow
<1>6. ProbeIsAccounted'
  BY <1>2, <1>3 DEF IInv, ProbeIsAccounted, Open, allow
<1>7. ReadingsFresh'
  BY <1>1, <1>2, <1>3 DEF IInv, ReadingsFresh, TypeOK
<1>8. StormBound'
  <2>1. CASE ~Open  BY <1>2, <2>1 DEF StormBound, Open, allow
  <2>2. CASE Open
    <3>1. ~probe /\ probe'  BY <1>2, <2>2 DEF allow, allows
    <3>2. Cardinality(Asking) <= tripped + 0
      BY <2>2, <3>1 DEF IInv, StormBound, ProbeSlot
    <3>3. Cardinality(Asking') <= tripped' + 1
      BY <1>2, <1>3, <3>2, AskingFinite DEF TypeOK
    <3>4. QED  BY <3>1, <3>3 DEF StormBound, ProbeSlot
  <2>3. QED  BY <2>1, <2>2
<1>9. QED  BY <1>4, <1>5, <1>6, <1>7, <1>8 DEF IInv

LEMMA SucceedIInv ==
  ASSUME IInv, NEW c \in Callers, Succeed(c)
  PROVE  IInv'
<1> USE DEF Never
<1>1. /\ TypeOK /\ asked[c] # Never /\ success
      /\ asked' = [asked EXCEPT ![c] = Never]
      /\ UNCHANGED <<clock, tripped>>
  BY DEF IInv, Succeed
<1>2. Asking' = Asking \ {c}  BY <1>1, OneLess
<1>3. TypeOK'  BY <1>1 DEF TypeOK, success
<1>4. OpenExactlyAtThreshold'
  BY <1>1, ThresholdAtLeast1 DEF OpenExactlyAtThreshold, Open, success
<1>5. ProbeIsAccounted' /\ StormBound'
  BY <1>1 DEF ProbeIsAccounted, StormBound, Open, success
<1>6. ReadingsFresh'
  BY <1>1, <1>2 DEF IInv, ReadingsFresh, TypeOK
<1>7. QED  BY <1>3, <1>4, <1>5, <1>6 DEF IInv

(* What a failure does to openUntil: with the invariant, the breaker is     *)
(* open afterwards exactly when the count has reached the threshold, and    *)
(* its window then starts from the reading the failed call held.            *)
LEMMA FailureOpens ==
  ASSUME IInv, NEW c \in Callers, Fail(c)
  PROVE  /\ failures' = failures + 1
         /\ failures' >= FailureThreshold => openUntil' = asked[c] + OpenDuration
         /\ failures' < FailureThreshold => openUntil' = Never /\ ~Open
<1> USE DEF Never
<1>1. TypeOK /\ failure(asked[c])  BY DEF IInv, Fail
<1>2. failures' = failures + 1  BY <1>1 DEF failure
<1>3. ASSUME failures' >= FailureThreshold
      PROVE  openUntil' = asked[c] + OpenDuration
  BY <1>1, <1>3 DEF failure
<1>4. ASSUME failures' < FailureThreshold PROVE openUntil' = Never /\ ~Open
  <2>1. ~(failures >= FailureThreshold) /\ ~(failures' >= FailureThreshold)
    BY <1>1, <1>2, <1>4, ThresholdAtLeast1 DEF TypeOK
  <2>2. ~Open  BY <2>1 DEF IInv, OpenExactlyAtThreshold
  <2>3. ~probe  BY <2>2 DEF IInv, ProbeIsAccounted
  <2>4. QED  BY <1>1, <2>1, <2>2, <2>3 DEF failure, Open
<1>5. QED  BY <1>2, <1>3, <1>4

LEMMA FailIInv ==
  ASSUME IInv, NEW c \in Callers, Fail(c)
  PROVE  IInv'
<1> USE DEF Never
<1>1. /\ TypeOK /\ asked[c] # Never /\ probe' = FALSE
      /\ asked' = [asked EXCEPT ![c] = Never]
      /\ tripped' = IF ~Open /\ Open' THEN Cardinality(Asking') ELSE tripped
      /\ clock' = clock
  BY DEF IInv, Fail, CountTripped, failure
<1>2. /\ Asking' = Asking \ {c}
      /\ Cardinality(Asking') = Cardinality(Asking) - 1
      /\ Cardinality(Asking') \in Nat
  BY <1>1, OneLess
<1>3. /\ failures' = failures + 1
      /\ failures' >= FailureThreshold => openUntil' = asked[c] + OpenDuration
      /\ failures' < FailureThreshold => openUntil' = Never /\ ~Open
  BY FailureOpens
<1>4. TypeOK'
  <2>1. openUntil' \in Nat
    BY <1>1, <1>3, ThresholdAtLeast1, DurationsPositive DEF TypeOK
  <2>2. tripped' \in Nat  BY <1>1, <1>2 DEF TypeOK
  <2>3. asked' \in [Callers -> Nat]  BY <1>1 DEF TypeOK
  <2>4. probe' \in BOOLEAN  BY <1>1
  <2>5. failures' \in Nat /\ clock' \in Nat \ {0}  BY <1>1, <1>3 DEF TypeOK
  <2>6. QED  BY <2>1, <2>2, <2>3, <2>4, <2>5 DEF TypeOK
<1>5. OpenExactlyAtThreshold'
  BY <1>1, <1>3, ThresholdAtLeast1, DurationsPositive
     DEF TypeOK, OpenExactlyAtThreshold, Open
<1>6. ProbeIsAccounted'  BY <1>1 DEF ProbeIsAccounted
<1>7. ReadingsFresh'
  BY <1>1, <1>2 DEF IInv, ReadingsFresh, TypeOK
<1>8. StormBound'
  <2>1. CASE ~Open /\ Open'
    BY <1>1, <1>2, <2>1 DEF StormBound, ProbeSlot
  <2>2. CASE Open
    <3>1. Cardinality(Asking) <= tripped + 1
      BY <1>1, <2>2, AskingFinite DEF IInv, TypeOK, StormBound, ProbeSlot
    <3>2. Cardinality(Asking') <= tripped' + 0
      BY <1>1, <1>2, <2>2, <3>1, AskingFinite DEF TypeOK
    <3>3. QED  BY <1>1, <3>2 DEF StormBound, ProbeSlot
  <2>3. CASE ~Open'  BY <2>3 DEF StormBound
  <2>4. QED  BY <2>1, <2>2, <2>3
<1>9. QED  BY <1>4, <1>5, <1>6, <1>7, <1>8 DEF IInv

LEMMA TickIInv ==
  ASSUME IInv, Tick
  PROVE  IInv'
<1>1. /\ clock' = clock + 1
      /\ \A c \in Asking : clock < asked[c] + Patience
      /\ UNCHANGED <<failures, openUntil, probe, asked, tripped>>
  BY DEF Tick
<1>2. TypeOK'  BY <1>1 DEF IInv, TypeOK
<1>3. OpenExactlyAtThreshold' /\ ProbeIsAccounted' /\ StormBound'
  BY <1>1 DEF IInv, OpenExactlyAtThreshold, ProbeIsAccounted, StormBound,
              ProbeSlot, Open, Asking
<1>4. ReadingsFresh'
  BY <1>1, DurationsPositive DEF IInv, ReadingsFresh, TypeOK, Asking
<1>5. QED  BY <1>2, <1>3, <1>4 DEF IInv

LEMMA StepIInv == IInv /\ [Next]_vars => IInv'
<1> SUFFICES ASSUME IInv, [Next]_vars PROVE IInv'  OBVIOUS
<1>1. ASSUME NEW c \in Callers, NEW now \in Times, Admit(c, now) PROVE IInv'
  BY <1>1, AdmitIInv
<1>2. ASSUME NEW c \in Callers, Succeed(c) PROVE IInv'  BY <1>2, SucceedIInv
<1>3. ASSUME NEW c \in Callers, Fail(c) PROVE IInv'  BY <1>3, FailIInv
<1>4. CASE Tick  BY <1>4, TickIInv
<1>5. CASE UNCHANGED vars
  BY <1>5 DEF vars, IInv, TypeOK, OpenExactlyAtThreshold, ProbeIsAccounted,
              ReadingsFresh, StormBound, ProbeSlot, Open, Asking
<1>6. ASSUME NEW c \in Callers, NEW now \in Times, Refuse(c, now) PROVE IInv'
  BY <1>5, <1>6 DEF Refuse
<1>7. QED  BY <1>1, <1>2, <1>3, <1>4, <1>5, <1>6 DEF Next

LEMMA AlwaysIInv == Spec => []IInv
<1>1. QED  BY InitIInv, StepIInv, PTL DEF Spec

-----------------------------------------------------------------------------
(* The fields of the breaker keep their types. *)
THEOREM TypeCorrect == Spec => []TypeOK
<1>1. IInv => TypeOK  BY DEF IInv
<1>2. QED  BY <1>1, AlwaysIInv, PTL

(* The breaker is open exactly when FailureThreshold calls have failed with *)
(* no success since, whatever the order in which the reports arrive.        *)
THEOREM OpenAtThreshold == Spec => []OpenExactlyAtThreshold
<1>1. IInv => OpenExactlyAtThreshold  BY DEF IInv
<1>2. QED  BY <1>1, AlwaysIInv, PTL

(* A set probe flag always has a call outstanding that will clear it. *)
THEOREM ProbeAccounted == Spec => []ProbeIsAccounted
<1>1. IInv => ProbeIsAccounted  BY DEF IInv
<1>2. QED  BY <1>1, AlwaysIInv, PTL

(* While the breaker is open the calls outstanding never exceed those that  *)
(* were outstanding when it opened plus the probe.                          *)
THEOREM StormBounded == Spec => []StormBound
<1>1. IInv => StormBound  BY DEF IInv
<1>2. QED  BY <1>1, AlwaysIInv, PTL

(* Every failure that leaves the breaker open keeps it shut for             *)
(* OpenDuration - Patience from the instant of the report.                  *)
THEOREM QuietAfterFailure == Spec => FailureBuysQuiet
<1> DEFINE Quiet == failures' > failures /\ openUntil' # Never
                      => openUntil' >= clock + OpenDuration - Patience
<1>1. ASSUME IInv, Next PROVE Quiet
  <2>1. ASSUME NEW c \in Callers, Fail(c) PROVE Quiet
    <3>1. c \in Asking /\ TypeOK  BY <1>1, <2>1 DEF Fail, Asking, IInv
    <3>2. clock <= asked[c] + Patience  BY <1>1, <3>1 DEF IInv, ReadingsFresh
    <3>3. asked[c] \in Nat /\ clock \in Nat  BY <3>1 DEF TypeOK
    <3>4. openUntil' # Never => openUntil' = asked[c] + OpenDuration
      BY <1>1, <2>1, <3>1, FailureOpens, ThresholdAtLeast1 DEF TypeOK
    <3>5. QED  BY <3>2, <3>3, <3>4, DurationsPositive
  <2>2. ASSUME NEW c \in Callers, Succeed(c) PROVE Quiet
    BY <1>1, <2>2 DEF Succeed, success, IInv, TypeOK
  <2>3. ASSUME ~(failures' > failures) PROVE Quiet  BY <2>3
  <2>4. ASSUME failures' = failures PROVE Quiet
    BY <1>1, <2>3, <2>4 DEF IInv, TypeOK
  <2>5. QED
    BY <1>1, <2>1, <2>2, <2>4 DEF Next, Admit, allow, Refuse, Tick, vars
<1>2. ASSUME IInv, UNCHANGED vars PROVE Quiet
  BY <1>2 DEF vars, IInv, TypeOK
<1>3. IInv /\ [Next]_vars => [Quiet]_vars  BY <1>1, <1>2
<1>4. QED  BY <1>3, AlwaysIInv, PTL DEF Spec, FailureBuysQuiet, Quiet

-----------------------------------------------------------------------------
(* The breaker implements the gate of AgentGate: under the mapping          *)
(* waiting <- Asking, shut <- Open, each step is a step of the gate or      *)
(* leaves it alone.                                                         *)
THEOREM ImplementsGate == Spec => GateSpec
<1> USE DEF Never
<1>1. Init => Gate!Init
  BY DEF Init, Gate!Init, Asking, Open
<1>2. ASSUME IInv, Next PROVE [Gate!Next]_(Gate!gateVars)
  <2> DEFINE Allowance == IF Open THEN tripped + 1 ELSE 0
  <2> USE DEF Gate!gateVars
  <2>1. TypeOK  BY <1>2 DEF IInv
  <2>2. ASSUME NEW c \in Callers, NEW now \in Times, Admit(c, now)
        PROVE  Gate!Start(c)
    <3>1. /\ asked[c] = Never /\ now \in Nat /\ now # Never
          /\ asked' = [asked EXCEPT ![c] = now]
          /\ tripped' = tripped /\ openUntil' = openUntil /\ allows(now)
      BY <2>2 DEF Admit, Holds, allow, Times
    <3>2. Asking' = Asking \cup {c} /\ c \notin Asking  BY <2>1, <3>1, OneMore
    <3>3. Open => Cardinality(Asking) < Allowance
      <4>1. ASSUME Open PROVE Cardinality(Asking) <= tripped
        BY <1>2, <2>1, <3>1, <4>1, AskingFinite
           DEF allows, IInv, StormBound, ProbeSlot, TypeOK
      <4>2. QED  BY <2>1, <4>1, AskingFinite DEF TypeOK
    <3>4. QED
      BY <3>1, <3>2, <3>3 DEF Gate!Start, Open, Gate!Cardinality, Cardinality
  <2>3. ASSUME NEW c \in Callers, Succeed(c)
        PROVE  Gate!Finish(c) \/ Gate!Reopen(c)
    <3>1. /\ asked[c] # Never /\ asked' = [asked EXCEPT ![c] = Never]
          /\ tripped' = tripped /\ openUntil' = Never
      BY <2>3 DEF Succeed, success
    <3>2. Asking' = Asking \ {c} /\ c \in Asking  BY <2>1, <3>1, OneLess
    <3>3. QED  BY <3>1, <3>2 DEF Gate!Finish, Gate!Reopen, Open
  <2>4. ASSUME NEW c \in Callers, Fail(c)
        PROVE  Gate!Finish(c) \/ Gate!Shut(c)
    <3>1. /\ asked[c] # Never /\ asked' = [asked EXCEPT ![c] = Never]
          /\ tripped' = IF ~Open /\ Open' THEN Cardinality(Asking') ELSE tripped
      BY <2>4 DEF Fail, CountTripped
    <3>2. Asking' = Asking \ {c} /\ c \in Asking  BY <2>1, <3>1, OneLess
    <3>3. Open => Open'
      BY <1>2, <2>1, <2>4, FailureOpens, ThresholdAtLeast1, DurationsPositive
         DEF Open, TypeOK
    <3>4. Gate!Cardinality(Asking') = Cardinality(Asking')
      BY DEF Gate!Cardinality, Cardinality
    <3>5. CASE ~Open /\ Open'
      BY <3>1, <3>2, <3>4, <3>5 DEF Gate!Shut, Open
    <3>6. CASE Open <=> Open'
      BY <3>1, <3>2, <3>6 DEF Gate!Finish, Open
    <3>7. QED  BY <3>3, <3>5, <3>6
  <2>5. ASSUME asked' = asked, openUntil' = openUntil, tripped' = tripped
        PROVE  UNCHANGED Gate!gateVars
    BY <2>5 DEF Asking, Open
  <2>6. QED
    BY <1>2, <2>2, <2>3, <2>4, <2>5 DEF Next, Gate!Next, Refuse, Tick, vars
<1>3. UNCHANGED vars => UNCHANGED Gate!gateVars
  BY DEF vars, Gate!gateVars, Asking, Open
<1>4. QED  BY <1>1, <1>2, <1>3, AlwaysIInv, PTL DEF Spec, GateSpec, Gate!Spec

=============================================================================
