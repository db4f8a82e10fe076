---------------------------- MODULE WorkflowRuns ----------------------------
(***************************************************************************)
(* The runs of one GitHub workflow as the backend sees them, and how       *)
(* github.service.ts translates their states into test_runs.status.        *)
(* The sync (WorkflowSync) and the monitor (WorkflowMonitor) build on it.  *)
(***************************************************************************)
EXTENDS Naturals, FiniteSets

CONSTANTS
  Run,          \* runs of the workflow, by build number, which GitHub counts up
  Conclusion    \* the conclusions GitHub may give them

ASSUME RunAssumption == Run \subseteq Nat

ASSUME ConclusionAssumption == Conclusion \subseteq {"success", "failure", "skipped", "cancelled"}

VARIABLES
  gh,           \* GitHub's state of each run
  schema        \* the database: sqlite (status is a string) or postgres (an enum without ERROR)

GitHubStatus == {"queued", "waiting", "in_progress"} \union Conclusion
Status == {"PENDING", "RUNNING", "PASSED", "FAILED", "SKIPPED", "ERROR"}

RunsTypeOK ==
  /\ gh \in [Run -> GitHubStatus \union {"none"}]
  /\ schema \in {"sqlite", "postgres"}

RunsInit ==
  /\ gh = [r \in Run |-> "none"]
  /\ schema \in {"sqlite", "postgres"}

Enter(r, s) == gh' = [gh EXCEPT ![r] = s] /\ UNCHANGED schema

Created == {r \in Run : gh[r] # "none"}

\* GitHub lists the newest first: those with fewer than n newer ones are on a page of n
OnPage(r, n) == r \in Created /\ Cardinality({q \in Created : q > r}) < n

Page(n) == {r \in Run : OnPage(r, n)}

\* Somebody pushes, or a dispatch is carried out
CreateRun(r) == (\A q \in Created : q < r) /\ Enter(r, "queued")

\* A run may wait for an approval first
Begin(r) ==
  \/ gh[r] = "queued" /\ (Enter(r, "waiting") \/ Enter(r, "in_progress"))
  \/ gh[r] = "waiting" /\ Enter(r, "in_progress")

Conclude(r) == gh[r] = "in_progress" /\ \E s \in Conclusion : Enter(r, s)

Proceeds(r) == Begin(r) \/ Conclude(r)

\* Mutant: what is not known to have ended is still running
MapGitHubStatusLenient(s) ==
  CASE s = "queued" -> "PENDING"
    [] s = "success" -> "PASSED"
    [] s = "failure" -> "FAILED"
    [] s = "skipped" -> "SKIPPED"
    [] OTHER -> "RUNNING"

\* Any other state (waiting) or conclusion (cancelled) is an ERROR
MapGitHubStatus(s) ==
  CASE s = "queued" -> "PENDING"
    [] s = "in_progress" -> "RUNNING"
    [] s = "success" -> "PASSED"
    [] s = "failure" -> "FAILED"
    [] s = "skipped" -> "SKIPPED"
    [] OTHER -> "ERROR"

IsCompleted(status) == status \in {"PASSED", "FAILED", "SKIPPED", "ERROR"}

\* Prisma rejects a value the column's enum does not have
Recordable(status) == schema = "postgres" => status # "ERROR"

\* What is written of a run in state s
Record(s) == [status |-> MapGitHubStatus(s), completed |-> IsCompleted(MapGitHubStatus(s))]

Row == [status : Status, completed : BOOLEAN]
NoRow == [status |-> "none", completed |-> FALSE]
=============================================================================
