--------------------------- MODULE TestRunControl ---------------------------
(***************************************************************************)
(* Cancelling, completing, retrying and deleting one test run              *)
(* (testRun.service.ts; the copilot tools testrun_cancel and               *)
(* testrun_retry call it).  Every operation reads the row, tests its       *)
(* status, and then writes by id: two awaits with others in between.       *)
(* The run has its owner and results; who else asks is refused unseen.     *)
(***************************************************************************)
EXTENDS Naturals

CONSTANT Call  \* requests to these operations

Live == {"PENDING", "RUNNING"}
VALID_COMPLETION_STATUSES == {"PASSED", "FAILED", "SKIPPED", "FLAKY"}
Retryable == {"FAILED", "SKIPPED", "FLAKY"}
Finished == VALID_COMPLETION_STATUSES
Operation == {"cancel", "complete", "retry", "delete"}

VARIABLES
  run,         \* status of the row, or "deleted"
  wanted,      \* per call: the operation, once it has passed its tests
  reruns,      \* the calls that created a run in its place
  overtaken    \* history: the calls that had found the run undecided when it was decided

controlVars == <<run, wanted, reruns, overtaken>>

ControlTypeOK ==
  /\ run \in Live \union Finished \union {"deleted"}
  /\ wanted \in [Call -> Operation \union {"new", "over"}]
  /\ reruns \subseteq Call
  /\ overtaken \subseteq Call

ControlInit ==
  /\ run \in Live \union Finished
  /\ wanted = [c \in Call |-> "new"]
  /\ reruns = {}
  /\ overtaken = {}

Permits(operation) ==
  CASE operation \in {"cancel", "complete"} -> run \in Live
    [] operation = "retry" -> run \in Retryable
    [] operation = "delete" -> run # "deleted"

\* getTestRunById and the test of the status that follows it
ReadRun(c, operation) ==
  /\ wanted[c] = "new"
  /\ wanted' = [wanted EXCEPT ![c] = IF Permits(operation) THEN operation ELSE "over"]
  /\ UNCHANGED <<run, reruns, overtaken>>

Over(c) == wanted' = [wanted EXCEPT ![c] = "over"]

\* The row is written by its id, whatever it says by now
Decides(c, status) ==
  /\ run' = IF run = "deleted" THEN run ELSE status
  /\ overtaken' = IF run \in Live THEN {d \in Call \ {c} : wanted[d] \in {"cancel", "complete"}}
                  ELSE overtaken
  /\ Over(c) /\ UNCHANGED reruns

\* CANCELLED is no status of the schema: a cancelled run has FAILED
cancelTestRun(c) ==
  /\ wanted[c] = "cancel"
  /\ Decides(c, "FAILED")

completeTestRun(c, status) ==
  /\ wanted[c] = "complete"
  /\ status \in VALID_COMPLETION_STATUSES
  /\ Decides(c, status)

\* Mutant: the row itself is set back to PENDING
RetryInPlace(c) ==
  /\ wanted[c] = "retry"
  /\ run' = IF run = "deleted" THEN run ELSE "PENDING"
  /\ Over(c) /\ UNCHANGED <<reruns, overtaken>>

\* A new row with the same name, branch and commit
retryTestRun(c) ==
  /\ wanted[c] = "retry"
  /\ reruns' = reruns \union {c}
  /\ Over(c) /\ UNCHANGED <<run, overtaken>>

deleteTestRun(c) ==
  /\ wanted[c] = "delete"
  /\ run' = "deleted"
  /\ Over(c) /\ UNCHANGED <<reruns, overtaken>>
-----------------------------------------------------------------------------
\* No call returns a finished run to a live status, whatever overlaps.
FinishedStaysFinished ==
  [][(run \in Finished) => (run' \in Finished \union {"deleted"})]_controlVars

\* Only a call that had found the run undecided before the first decision, and so tested
\* its status too early, overwrites that decision; no call does that asks after it, and
\* each at most once.
FirstDecisionStands ==
  [][(run \in Finished /\ run' # run) =>
       \/ run' = "deleted"
       \/ \E c \in overtaken : wanted[c] \in {"cancel", "complete"} /\ wanted'[c] = "over"]_controlVars
=============================================================================
