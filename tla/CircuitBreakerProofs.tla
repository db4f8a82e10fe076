------------------------ MODULE CircuitBreakerProofs ------------------------
(***************************************************************************)
(* The breaker's safety properties for every number of callers, every      *)
(* threshold, timeout and number of retries.                               *)
(***************************************************************************)
EXTENDS CircuitBreaker, TLAPS

\* In CLOSED the failure counter is exactly the run of failures since the last
\* success: what makes a trip mean "consecutive failures".
StreakIsCounted == state = "CLOSED" => failures = streak

\* The breaker's half of the inductive invariant.  ClosedBelowThreshold needs the
\* recovery to zero the counter; the reset of halfOpenSuccesses on both exits of
\* HALF_OPEN replaces the one transitionTo('HALF_OPEN') lacks.
BreakerInv ==
  /\ state \in CircuitState
  /\ failures \in Nat
  /\ halfOpenSuccesses \in Nat
  /\ sinceFailure \in {Never} \union 0..resetTimeout
  /\ streak \in Nat
  /\ ClosedBelowThreshold
  /\ ProbeCountFresh
  /\ OpenHasCause
  /\ StreakIsCounted

\* The callers' half: a sleeping retry has an attempt left, and a call in flight has
\* no outcome on record yet.
CallInv ==
  /\ pc \in [Caller -> {"idle", "running", "backoff"}]
  /\ attempt \in [Caller -> 0..maxRetries]
  /\ orphan \in [Caller -> BOOLEAN]
  /\ recorded \in [Caller -> Nat]
  /\ \A c \in Caller : pc[c] = "backoff" => attempt[c] < maxRetries
  /\ OneOutcomePerCall

IInv == BreakerInv /\ CallInv

LEMMA InvImpliesProperties == IInv => TypeOK /\ CountersFitState /\ OneOutcomePerCall
  BY DEF IInv, BreakerInv, CallInv, TypeOK, CountersFitState
-----------------------------------------------------------------------------
\* A success keeps the breaker's invariant and never opens the circuit.
LEMMA SuccessStep ==
  ASSUME BreakerInv, OnSuccess, streak' = 0
  PROVE  BreakerInv' /\ ~(state = "CLOSED" /\ state' = "OPEN")
<1> USE ThresholdAssumption
    DEF BreakerInv, CircuitState, ClosedBelowThreshold, ProbeCountFresh,
        OpenHasCause, StreakIsCounted, Never
<1>1. CASE CloseAfterRecovery
  BY <1>1 DEF CloseAfterRecovery
<1>2. CASE CreditProbe
  BY <1>2 DEF CreditProbe, ProbesComplete
<1>3. CASE ClearFailures
  BY <1>3 DEF ClearFailures
<1>4. CASE IgnoreSuccess
  BY <1>4 DEF IgnoreSuccess, breakerVars
<1>5. QED
  BY <1>1, <1>2, <1>3, <1>4 DEF OnSuccess

\* A failure keeps it too, and trips a closed circuit only at the threshold.
LEMMA FailureStep ==
  ASSUME BreakerInv, OnFailure, streak' = streak + 1
  PROVE  /\ BreakerInv'
         /\ state = "CLOSED" /\ state' = "OPEN" => streak' >= failureThreshold
<1> USE ThresholdAssumption
    DEF BreakerInv, CircuitState, ClosedBelowThreshold, ProbeCountFresh,
        OpenHasCause, StreakIsCounted, Never
<1>1. failures' = failures + 1 /\ sinceFailure' = 0
  BY DEF OnFailure
<1>2. CASE Reopen
  BY <1>1, <1>2 DEF Reopen
<1>3. CASE Trip
  BY <1>1, <1>3 DEF Trip, Trips
<1>4. CASE CountFailure
  BY <1>1, <1>4 DEF CountFailure, Trips
<1>5. QED
  BY <1>2, <1>3, <1>4 DEF OnFailure

LEMMA BreakerUnchanged ==
  ASSUME BreakerInv, UNCHANGED <<breakerVars, streak>>
  PROVE  BreakerInv'
  BY DEF BreakerInv, ClosedBelowThreshold, ProbeCountFresh, OpenHasCause,
         StreakIsCounted, breakerVars

\* Admitting a call keeps the callers' invariant ...
LEMMA AdmitStep ==
  ASSUME CallInv, NEW c \in Caller, Admit(c)
  PROVE  CallInv'
<1>1. /\ pc' \in [Caller -> {"idle", "running", "backoff"}]
      /\ recorded' \in [Caller -> Nat]
      /\ OneOutcomePerCall'
  BY DEF CallInv, Admit, OneOutcomePerCall, InFlight
<1>2. /\ attempt' \in [Caller -> 0..maxRetries]
      /\ \A d \in Caller : pc'[d] = "backoff" => attempt'[d] < maxRetries
  BY ThresholdAssumption DEF CallInv, Admit
<1>3. orphan' \in [Caller -> BOOLEAN]
  BY DEF CallInv, Admit
<1>4. QED
  BY <1>1, <1>2, <1>3 DEF CallInv

\* ... and so does recording the outcome of one that was in flight.
LEMMA SettleStep ==
  ASSUME CallInv, NEW c \in Caller, pc[c] = "running", Settle(c),
         orphan' \in [Caller -> BOOLEAN]
  PROVE  CallInv'
<1>1. recorded[c] = 0
  BY DEF CallInv, OneOutcomePerCall, InFlight
<1>2. /\ pc' \in [Caller -> {"idle", "running", "backoff"}]
      /\ recorded' \in [Caller -> Nat]
      /\ UNCHANGED attempt
  BY DEF CallInv, Settle
<1>3. \A d \in Caller : pc'[d] = "backoff" => attempt'[d] < maxRetries
  BY DEF CallInv, Settle
<1>4. OneOutcomePerCall'
  BY <1>1 DEF CallInv, Settle, OneOutcomePerCall, InFlight
<1>5. QED
  BY <1>2, <1>3, <1>4 DEF CallInv

LEMMA InitInv == Init => IInv
  BY ThresholdAssumption
  DEF Init, IInv, BreakerInv, CallInv, CircuitState, ClosedBelowThreshold,
      ProbeCountFresh, OpenHasCause, StreakIsCounted, OneOutcomePerCall, InFlight

\* One step: the invariant again, and a trip only after a full run of failures.
LEMMA StepInv ==
  ASSUME IInv, [Next]_vars
  PROVE  /\ IInv'
         /\ state = "CLOSED" /\ state' = "OPEN" => streak' >= failureThreshold
<1> USE DEF IInv
<1>1. ASSUME NEW c \in Caller, Start(c)
      PROVE  IInv' /\ ~(state = "CLOSED" /\ state' = "OPEN")
  <2>1. Admit(c) /\ (state' = state \/ (state = "OPEN" /\ state' = "HALF_OPEN"))
    BY <1>1 DEF Start, Execute, ExecuteAfterReset
  <2>2. CallInv'
    BY <2>1, AdmitStep
  <2>3. BreakerInv'
    BY <2>1, ThresholdAssumption
    DEF Admit, BreakerInv, CircuitState, ClosedBelowThreshold, ProbeCountFresh,
        OpenHasCause, StreakIsCounted
  <2>4. QED
    BY <2>1, <2>2, <2>3
<1>2. ASSUME NEW c \in Caller, AttemptSucceeds(c)
      PROVE  IInv' /\ ~(state = "CLOSED" /\ state' = "OPEN")
  <2>1. CallInv'
    BY <1>2, SettleStep DEF AttemptSucceeds, CallInv
  <2>2. QED
    BY <1>2, <2>1, SuccessStep DEF AttemptSucceeds
<1>3. ASSUME NEW c \in Caller, AttemptFailsFinally(c) \/ AttemptTimesOut(c)
      PROVE  /\ IInv'
             /\ state = "CLOSED" /\ state' = "OPEN" => streak' >= failureThreshold
  <2>1. orphan' \in [Caller -> BOOLEAN]
    BY <1>3 DEF AttemptFailsFinally, AttemptTimesOut, CallInv
  <2>2. CallInv'
    BY <1>3, <2>1, SettleStep DEF AttemptFailsFinally, AttemptTimesOut
  <2>3. QED
    BY <1>3, <2>2, FailureStep DEF AttemptFailsFinally, AttemptTimesOut
<1>4. ASSUME NEW c \in Caller, AttemptFailsRetryably(c) \/ Retry(c) \/ LateAnswer(c)
      PROVE  IInv' /\ state' = state
  <2>1. BreakerInv' /\ state' = state
    BY <1>4, BreakerUnchanged
    DEF AttemptFailsRetryably, Retry, LateAnswer, historyVars, breakerVars
  <2>2. CASE AttemptFailsRetryably(c)
    BY <2>1, <2>2
    DEF AttemptFailsRetryably, RetriesLeft, historyVars, CallInv,
        OneOutcomePerCall, InFlight
  <2>3. CASE Retry(c)
    BY <2>1, <2>3, ThresholdAssumption
    DEF Retry, historyVars, CallInv, OneOutcomePerCall, InFlight
  <2>4. CASE LateAnswer(c)
    BY <2>1, <2>4 DEF LateAnswer, historyVars, CallInv, OneOutcomePerCall, InFlight
  <2>5. QED
    BY <1>4, <2>2, <2>3, <2>4, <2>1
<1>5. CASE Reset
  <2>1. CallInv'
    BY <1>5 DEF Reset, callVars, CallInv, OneOutcomePerCall, InFlight
  <2>2. BreakerInv' /\ state' = "CLOSED"
    BY <1>5, ThresholdAssumption
    DEF Reset, BreakerInv, CircuitState, ClosedBelowThreshold, ProbeCountFresh,
        OpenHasCause, StreakIsCounted
  <2>3. QED
    BY <2>1, <2>2
<1>6. CASE Tick
  <2>1. CallInv'
    BY <1>6 DEF Tick, callVars, historyVars, CallInv, OneOutcomePerCall, InFlight
  <2>2. BreakerInv' /\ state' = state
    BY <1>6, ThresholdAssumption
    DEF Tick, historyVars, BreakerInv, ClosedBelowThreshold, ProbeCountFresh,
        OpenHasCause, StreakIsCounted, Never
  <2>3. QED
    BY <2>1, <2>2
<1>7. CASE UNCHANGED vars
  <2>1. CallInv'
    BY <1>7 DEF vars, callVars, historyVars, CallInv, OneOutcomePerCall, InFlight
  <2>2. BreakerInv' /\ state' = state
    BY <1>7, BreakerUnchanged DEF vars, historyVars, breakerVars
  <2>3. QED
    BY <2>1, <2>2
<1>8. QED
  BY <1>1, <1>2, <1>3, <1>4, <1>5, <1>6, <1>7 DEF Next, Answer
-----------------------------------------------------------------------------
\* Type correctness of every reachable state of the breaker and its callers.
THEOREM TypeCorrect == Spec => []TypeOK
<1>1. IInv /\ [Next]_vars => IInv'
  BY StepInv
<1>2. QED
  BY InitInv, <1>1, InvImpliesProperties, PTL DEF Spec

\* A closed circuit is below its threshold, a recovery starts from zero, and an open
\* circuit has the failures that opened it, for all parameters (resilience.ts:142-171).
THEOREM BreakerSafety ==
  Spec => []CountersFitState
<1>1. IInv /\ [Next]_vars => IInv'
  BY StepInv
<1>2. QED
  BY InitInv, <1>1, InvImpliesProperties, PTL DEF Spec

\* Every admitted call is recorded once, whatever its retries, timeouts and late
\* answers (withRetry and withTimeout inside execute, resilience.ts:292-309).
THEOREM OutcomesRecordedOnce == Spec => []OneOutcomePerCall
<1>1. IInv /\ [Next]_vars => IInv'
  BY StepInv
<1>2. QED
  BY InitInv, <1>1, InvImpliesProperties, PTL DEF Spec

\* The circuit trips only after failureThreshold consecutive failures.
THEOREM TripTheorem == Spec => TripsOnConsecutiveFailures
<1>1. IInv /\ [Next]_vars => IInv'
  BY StepInv
<1>2. IInv /\ [Next]_vars
        => [state = "CLOSED" /\ state' = "OPEN" => streak' >= failureThreshold]_vars
  BY StepInv
<1>3. QED
  BY InitInv, <1>1, <1>2, PTL DEF Spec, TripsOnConsecutiveFailures
=============================================================================
