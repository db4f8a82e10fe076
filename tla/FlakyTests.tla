------------------------------ MODULE FlakyTests ------------------------------
(***************************************************************************)
(* The flakiness of one test (FlakyTestService.analyzeTest): its latest    *)
(* results, oldest first, are walked with the status and the commit of the *)
(* one before; a change of status on the same commit is a flip.            *)
(***************************************************************************)
EXTENDS Integers, Sequences

CONSTANTS
  Status,   \* statuses of results, PASSED, FAILED and others
  Commit,   \* commits of the runs; NoCommit is one
  NoCommit, \* a run whose commit is unknown
  Walk      \* lengths of the history

WINDOW_SIZE == 50

ASSUME FlakyAssumption ==
  /\ {"PASSED", "FAILED"} \subseteq Status /\ "none" \notin Status
  /\ NoCommit \in Commit /\ Walk \subseteq 0..WINDOW_SIZE

VARIABLE past  \* results of the test in order, each with the commit of its run

FlakyInit ==
  \E n \in Walk : past \in [1..n -> [status : Status, commit : Commit]]

Start == [status |-> "none", commit |-> NoCommit, flips |-> 0, failures |-> 0]

\* Mutant: a change of status is a flip whatever the commits
StepOfAnyCommit(so, result) ==
  [status |-> result.status, commit |-> result.commit,
   failures |-> so.failures + (IF result.status = "FAILED" THEN 1 ELSE 0),
   flips |-> so.flips + (IF so.status \notin {"none", result.status} THEN 1 ELSE 0)]

\* Two unknown commits are the same one
Step(so, result) ==
  [status |-> result.status, commit |-> result.commit,
   failures |-> so.failures + (IF result.status = "FAILED" THEN 1 ELSE 0),
   flips |-> so.flips + (IF so.status \notin {"none", result.status} /\ so.commit = result.commit
                         THEN 1 ELSE 0)]

\* What the walk knows after each of the results
walked[i \in 0..Len(past)] == IF i = 0 THEN Start ELSE Step(walked[i - 1], past[i])

\* A short history is stable, and reports no failures
analyzeTest ==
  LET n == Len(past)
      flips == walked[n].flips IN
  IF n < 5 THEN [flips |-> 0, failures |-> 0, severity |-> "STABLE"]
  ELSE [flips |-> flips, failures |-> walked[n].failures,
        severity |-> IF 10 * flips > 3 * n THEN "HIGH"
                     ELSE IF 10 * flips > n THEN "MEDIUM"
                     ELSE IF flips > 0 THEN "LOW" ELSE "STABLE"]

\* Two neighbouring runs of one commit that disagree
Disagree(i) == past[i].commit = past[i + 1].commit /\ past[i].status # past[i + 1].status

\* Among tests with a history, those and only those are unstable of which two
\* neighbouring runs of one commit disagree: a test that a commit breaks or repairs
\* is not flaky (FlakyTestService.ts:93-104).  A flaky test has failed and passed.
FlakyInv ==
  LET result == analyzeTest IN
  Len(past) >= 5 =>
       /\ (result.severity # "STABLE") = (\E i \in 1..(Len(past) - 1) : Disagree(i))
       /\ result.flips > 0 => result.failures < Len(past)
       /\ result.flips > 0 /\ (\A i \in DOMAIN past : past[i].status \in {"PASSED", "FAILED"})
            => result.failures > 0
       /\ result.severity = "HIGH" => result.flips >= 2
=============================================================================
