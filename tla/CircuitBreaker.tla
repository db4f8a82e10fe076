--------------------------- MODULE CircuitBreaker ---------------------------
(***************************************************************************)
(* backend/src/lib/resilience.ts: withResilience(fn) runs an external call *)
(* as breaker.execute(withRetry(withTimeout(fn))).  One breaker is shared  *)
(* by every request of the Node process; its methods run atomically        *)
(* between two awaits, so any number of calls admitted in one breaker      *)
(* state can settle in another.                                            *)
(*                                                                         *)
(* Time is the age of the last recorded failure, saturated at              *)
(* resetTimeout: the code only compares that age with resetTimeoutMs.      *)
(* A caller is a request slot; it issues one guarded call after another.   *)
(***************************************************************************)
EXTENDS Integers

CONSTANTS
  Caller,                   \* concurrent request slots
  failureThreshold,         \* opts.failureThreshold
  halfOpenSuccessThreshold, \* opts.halfOpenSuccessThreshold
  resetTimeout,             \* opts.resetTimeoutMs, in clock units
  maxRetries,               \* retry.maxRetries
  FailureBound              \* bound: failures recorded without a reset

ASSUME ThresholdAssumption ==
  /\ failureThreshold \in Nat \ {0}
  /\ halfOpenSuccessThreshold \in Nat \ {0}
  /\ resetTimeout \in Nat \ {0}
  /\ maxRetries \in Nat
  /\ FailureBound \in Nat

VARIABLES
  state,             \* CircuitState
  failures,          \* this.failures
  halfOpenSuccesses, \* this.halfOpenSuccesses
  sinceFailure,      \* Date.now() - lastFailureTime, Never when that is null
  pc,                \* where each caller's call is
  attempt,           \* withRetry's loop counter, per caller
  orphan,            \* an attempt whose timeout fired is still running
  recorded,          \* history: outcomes the breaker recorded for the call
  streak             \* history: failures recorded since the last success

breakerVars == <<state, failures, halfOpenSuccesses, sinceFailure>>
callVars == <<pc, attempt, orphan>>
historyVars == <<recorded, streak>>
vars == <<breakerVars, callVars, historyVars>>

Never == -1
CircuitState == {"CLOSED", "OPEN", "HALF_OPEN"}
InFlight(c) == pc[c] \in {"running", "backoff"}

TypeOK ==
  /\ state \in CircuitState
  /\ failures \in Nat
  /\ halfOpenSuccesses \in Nat
  /\ sinceFailure \in {Never} \union 0..resetTimeout
  /\ pc \in [Caller -> {"idle", "running", "backoff"}]
  /\ attempt \in [Caller -> 0..maxRetries]
  /\ orphan \in [Caller -> BOOLEAN]
  /\ recorded \in [Caller -> Nat]
  /\ streak \in Nat

Init ==
  /\ state = "CLOSED"
  /\ failures = 0
  /\ halfOpenSuccesses = 0
  /\ sinceFailure = Never
  /\ pc = [c \in Caller |-> "idle"]
  /\ attempt = [c \in Caller |-> 0]
  /\ orphan = [c \in Caller |-> FALSE]
  /\ recorded = [c \in Caller |-> 0]
  /\ streak = 0
-----------------------------------------------------------------------------
(***************************************************************************)
(* The breaker's two callbacks.  A definition marked "Mutant" is a         *)
(* plausible bug in the definition after it and is used nowhere.           *)
(***************************************************************************)

\* Mutant: the comparison is strict
ShouldAttemptResetStrict == sinceFailure = Never \/ sinceFailure > resetTimeout

ShouldAttemptReset == sinceFailure = Never \/ sinceFailure >= resetTimeout

\* onSuccess in HALF_OPEN: the success that completes the recovery closes
ProbesComplete == halfOpenSuccesses + 1 >= halfOpenSuccessThreshold

CloseAfterRecovery ==
  /\ state = "HALF_OPEN"
  /\ ProbesComplete
  /\ state' = "CLOSED"
  /\ failures' = 0
  /\ halfOpenSuccesses' = 0
  /\ sinceFailure' = Never

\* Mutant: the success is compared with the threshold but not counted
CreditProbeUncounted ==
  /\ state = "HALF_OPEN"
  /\ ~ProbesComplete
  /\ UNCHANGED breakerVars

CreditProbe ==
  /\ state = "HALF_OPEN"
  /\ ~ProbesComplete
  /\ halfOpenSuccesses' = halfOpenSuccesses + 1
  /\ UNCHANGED <<state, failures, sinceFailure>>

\* Mutant: a success does not interrupt a run of failures
ClearFailuresNever == state = "CLOSED" /\ UNCHANGED breakerVars

ClearFailures ==
  /\ state = "CLOSED"
  /\ failures' = 0
  /\ UNCHANGED <<state, halfOpenSuccesses, sinceFailure>>

\* a late success of a call admitted before the circuit opened
IgnoreSuccess == state = "OPEN" /\ UNCHANGED breakerVars

OnSuccess == CloseAfterRecovery \/ CreditProbe \/ ClearFailures \/ IgnoreSuccess

\* Mutant: the circuit reopens with the recovery's successes still counted
ReopenKeepingProbes ==
  state = "HALF_OPEN" /\ state' = "OPEN" /\ UNCHANGED halfOpenSuccesses

Reopen == state = "HALF_OPEN" /\ state' = "OPEN" /\ halfOpenSuccesses' = 0

Trips == failures + 1 >= failureThreshold

Trip == state = "CLOSED" /\ Trips /\ state' = "OPEN" /\ UNCHANGED halfOpenSuccesses

CountFailure ==
  /\ state = "OPEN" \/ (state = "CLOSED" /\ ~Trips)
  /\ UNCHANGED <<state, halfOpenSuccesses>>

\* onFailure: the failure is counted and dated in every state
OnFailure ==
  /\ failures < FailureBound
  /\ failures' = failures + 1
  /\ sinceFailure' = 0
  /\ Reopen \/ Trip \/ CountFailure
-----------------------------------------------------------------------------
(***************************************************************************)
(* One caller's call through execute, withRetry and withTimeout.           *)
(***************************************************************************)

\* The call passes the breaker and its first attempt goes out
Admit(c) ==
  /\ pc' = [pc EXCEPT ![c] = "running"]
  /\ attempt' = [attempt EXCEPT ![c] = 0]
  /\ recorded' = [recorded EXCEPT ![c] = 0]
  /\ UNCHANGED <<failures, halfOpenSuccesses, sinceFailure, orphan, streak>>

\* The slot is free; at most one abandoned attempt per slot is followed
Free(c) == pc[c] = "idle" /\ ~orphan[c]

Execute(c) ==
  /\ Free(c)
  /\ state # "OPEN"
  /\ UNCHANGED state
  /\ Admit(c)

\* execute finds the circuit open and the reset timeout over
ExecuteAfterReset(c) ==
  /\ Free(c)
  /\ state = "OPEN"
  /\ ShouldAttemptReset
  /\ state' = "HALF_OPEN"
  /\ Admit(c)

\* The promise given to execute settles: the caller's call is over
Settle(c) ==
  /\ pc' = [pc EXCEPT ![c] = "idle"]
  /\ recorded' = [recorded EXCEPT ![c] = @ + 1]
  /\ UNCHANGED attempt

AttemptSucceeds(c) ==
  /\ pc[c] = "running"
  /\ OnSuccess
  /\ Settle(c)
  /\ streak' = 0
  /\ UNCHANGED orphan

RetriesLeft(c) == attempt[c] < maxRetries

\* Mutant: withRetry around the breaker, so that it hears of every attempt
AttemptFailsRetryablyHeard(c) ==
  /\ pc[c] = "running"
  /\ RetriesLeft(c)
  /\ OnFailure
  /\ pc' = [pc EXCEPT ![c] = "backoff"]
  /\ recorded' = [recorded EXCEPT ![c] = @ + 1]
  /\ UNCHANGED <<attempt, orphan, streak>>

\* A retryable error with attempts left: sleep, the breaker is not told
AttemptFailsRetryably(c) ==
  /\ pc[c] = "running"
  /\ RetriesLeft(c)
  /\ pc' = [pc EXCEPT ![c] = "backoff"]
  /\ UNCHANGED <<breakerVars, attempt, orphan, historyVars>>

\* An error that is not retryable, or the last attempt
AttemptFailsFinally(c) ==
  /\ pc[c] = "running"
  /\ OnFailure
  /\ Settle(c)
  /\ streak' = streak + 1
  /\ UNCHANGED orphan

\* withTimeout rejects with a TimeoutError, which isRetryableError does not
\* accept; fn is not cancelled
AttemptTimesOut(c) ==
  /\ pc[c] = "running"
  /\ OnFailure
  /\ Settle(c)
  /\ streak' = streak + 1
  /\ orphan' = [orphan EXCEPT ![c] = TRUE]

\* The abandoned fn answers: resolve and reject of a settled promise do nothing
LateAnswer(c) ==
  /\ orphan[c]
  /\ orphan' = [orphan EXCEPT ![c] = FALSE]
  /\ UNCHANGED <<breakerVars, pc, attempt, historyVars>>

\* The backoff sleep ends and withRetry calls fn again
Retry(c) ==
  /\ pc[c] = "backoff"
  /\ pc' = [pc EXCEPT ![c] = "running"]
  /\ attempt' = [attempt EXCEPT ![c] = @ + 1]
  /\ UNCHANGED <<breakerVars, orphan, historyVars>>

\* reset(): manual recovery
Reset ==
  /\ state' = "CLOSED"
  /\ failures' = 0
  /\ halfOpenSuccesses' = 0
  /\ sinceFailure' = Never
  /\ streak' = 0
  /\ UNCHANGED <<callVars, recorded>>

Tick ==
  /\ sinceFailure \in 0..(resetTimeout - 1)
  /\ sinceFailure' = sinceFailure + 1
  /\ UNCHANGED <<state, failures, halfOpenSuccesses, callVars, historyVars>>

Start(c) == Execute(c) \/ ExecuteAfterReset(c)

Answer(c) ==
  \/ AttemptSucceeds(c)
  \/ AttemptFailsRetryably(c)
  \/ AttemptFailsFinally(c)
  \/ AttemptTimesOut(c)

Next ==
  \/ \E c \in Caller : Start(c) \/ Answer(c) \/ Retry(c) \/ LateAnswer(c)
  \/ Reset
  \/ Tick

Spec == Init /\ [][Next]_vars

(***************************************************************************)
(* Fairness: the clock runs; withTimeout settles every attempt and sleep() *)
(* ends; an abandoned request ends with its socket; requests keep coming   *)
(* (the service polls and users retry), each finding the breaker as it is. *)
(***************************************************************************)
Fairness ==
  /\ WF_vars(Tick)
  /\ \A c \in Caller :
       WF_vars(Start(c)) /\ WF_vars(Answer(c)) /\ WF_vars(Retry(c))
         /\ WF_vars(LateAnswer(c))

FairSpec == Spec /\ Fairness
-----------------------------------------------------------------------------
(***************************************************************************)
(* Properties.                                                             *)
(***************************************************************************)

\* A closed circuit has fewer failures on record than its threshold, however
\* the results of overlapping calls are ordered: it cannot stay closed past it.
ClosedBelowThreshold == state = "CLOSED" => failures < failureThreshold

\* Outside HALF_OPEN no success is credited, so every recovery starts its count
\* from zero although transitionTo('HALF_OPEN') does not reset the counter.
ProbeCountFresh ==
  /\ state # "HALF_OPEN" => halfOpenSuccesses = 0
  /\ halfOpenSuccesses < halfOpenSuccessThreshold

\* An open or half-open circuit shows the failures that opened it and when the
\* last one was (what /health/full derives nextRetryTime from).
OpenHasCause ==
  state # "CLOSED" => failures >= failureThreshold /\ sinceFailure # Never

\* The breaker's counters fit its state whatever results come late.
CountersFitState == TypeOK /\ ClosedBelowThreshold /\ ProbeCountFresh /\ OpenHasCause

\* The circuit trips only when the last failureThreshold recorded outcomes were
\* all failures, with any interleaving of late results, recoveries and resets.
TripsOnConsecutiveFailures ==
  [][state = "CLOSED" /\ state' = "OPEN" => streak' >= failureThreshold]_vars

\* The breaker records one outcome per admitted call: a whole retry sequence is
\* one outcome, and a late answer after a timeout is none.
OneOutcomePerCall ==
  \A c \in Caller : recorded[c] <= 1 /\ (InFlight(c) => recorded[c] = 0)

\* The circuit does not stay open for ever: late failures of calls admitted
\* before it opened push the reset time back only finitely often.
OpenIsTemporary == state = "OPEN" ~> state # "OPEN"

\* A recovery is always decided, one way or the other.
RecoveryIsDecided == state = "HALF_OPEN" ~> state # "HALF_OPEN"

=============================================================================
