--------------------------- MODULE WorkflowMonitor ---------------------------
(***************************************************************************)
(* Starting a pipeline (github.service.ts): a row without a build number,  *)
(* the dispatch, and the monitor that polls the workflow and copies what   *)
(* it sees into that row.  The dispatch answers without naming the run it  *)
(* creates, so the monitor takes the first run of the list.                *)
(*                                                                         *)
(* Abstracted: commits, durations, pipeline.lastRunAt, the five seconds    *)
(* between polls; one pipeline is started, once.                           *)
(***************************************************************************)
EXTENDS WorkflowRuns

CONSTANTS
  DisturbanceBound  \* bound: failed calls and restarts together

ASSUME MonitorAssumption == DisturbanceBound \in Nat

VARIABLES
  owed, mine,     \* dispatches GitHub has accepted and not carried out; the runs they became
  mon,            \* where startPipeline and the monitor are
  polled,         \* the state the monitor fetched
  started,        \* the row startPipeline created
  disturbances    \* failed calls and restarts so far

github == <<gh, schema, owed, mine>>
vars == <<github, mon, polled, started, disturbances>>

Polling == {"poll", "save", "giving_up"}
Stage == {"branch", "create", "dispatch", "running", "touch", "refused", "over", "failed", "lost"}
         \union Polling

TypeOK ==
  /\ RunsTypeOK
  /\ owed \in 0..DisturbanceBound + 1
  /\ mine \subseteq Created
  /\ mon \in Stage
  /\ polled \in GitHubStatus \union {"none"}
  /\ mon = "save" <=> polled # "none"
  /\ started \in Row \union {NoRow}
  /\ disturbances \in 0..DisturbanceBound

\* The configuration names a branch, or the repository's default branch is asked for
Init ==
  /\ RunsInit
  /\ owed = 0 /\ mine = {}
  /\ mon \in {"branch", "create"}
  /\ polled = "none"
  /\ started = NoRow
  /\ disturbances = 0

Disturb == disturbances < DisturbanceBound /\ disturbances' = disturbances + 1

\* A run created by a push, or by an accepted dispatch
Appears(r) ==
  /\ CreateRun(r)
  /\ UNCHANGED <<mon, polled, started, disturbances>>

Push(r) == Appears(r) /\ UNCHANGED <<owed, mine>>

CarryOut(r) ==
  /\ owed > 0
  /\ Appears(r)
  /\ owed' = owed - 1
  /\ mine' = mine \union {r}

RunProceeds(r) ==
  /\ Proceeds(r)
  /\ UNCHANGED <<owed, mine, mon, polled, started, disturbances>>
-----------------------------------------------------------------------------
(***************************************************************************)
(* startPipeline.                                                          *)
(***************************************************************************)

ReadDefaultBranch ==
  /\ mon = "branch"
  /\ mon' = "create"
  /\ UNCHANGED <<github, polled, started, disturbances>>

CreateRow ==
  /\ mon = "create"
  /\ started' = [status |-> "PENDING", completed |-> FALSE]
  /\ mon' = "dispatch"
  /\ UNCHANGED <<github, polled, disturbances>>

Accept == owed' = owed + 1 /\ UNCHANGED <<gh, schema, mine>>

Dispatch ==
  /\ mon = "dispatch"
  /\ Accept
  /\ mon' = "running"
  /\ UNCHANGED <<polled, started, disturbances>>

\* GitHub accepted, its answer is lost and withResilience asks again
DispatchUnanswered ==
  /\ mon = "dispatch"
  /\ Disturb
  /\ Accept
  /\ UNCHANGED <<mon, polled, started>>

DispatchRefused ==
  /\ mon = "dispatch"
  /\ Disturb
  /\ mon' = "refused"
  /\ UNCHANGED <<github, polled, started>>

\* Not 204: the row is FAILED, without completedAt
MarkFailed ==
  /\ mon = "refused"
  /\ started' = [started EXCEPT !.status = "FAILED"]
  /\ mon' = "failed"
  /\ UNCHANGED <<github, polled, disturbances>>

MarkRunning ==
  /\ mon = "running"
  /\ started' = [started EXCEPT !.status = "RUNNING"]
  /\ mon' = "touch"
  /\ UNCHANGED <<github, polled, disturbances>>

\* The pipeline's lastRunAt is written, and the monitor begins
TouchPipeline ==
  /\ mon = "touch"
  /\ mon' = "poll"
  /\ UNCHANGED <<github, polled, started, disturbances>>

\* Any of these calls throws: logged and thrown on, the row stays as it is, RUNNING and
\* followed by nobody when it was the write of lastRunAt
StartFails ==
  /\ mon \in {"branch", "create", "dispatch", "refused", "running", "touch"}
  /\ Disturb
  /\ mon' = "failed"
  /\ UNCHANGED <<github, polled, started>>
-----------------------------------------------------------------------------
(***************************************************************************)
(* monitorWorkflowProgress.                                                *)
(***************************************************************************)

\* workflow_runs[0], whichever run that is; an empty list is asked for again
Poll ==
  /\ mon = "poll"
  /\ \E r \in Page(1) : polled' = gh[r]
  /\ mon' = "save"
  /\ UNCHANGED <<github, started, disturbances>>

Saved(next) == mon' = next /\ polled' = "none"

\* A final status is written with completedAt and ends the loop; a status the column
\* does not take throws
SavePoll ==
  LET status == MapGitHubStatus(polled) IN
  /\ mon = "save"
  /\ \/ /\ Recordable(status) /\ IsCompleted(status)
        /\ started' = [status |-> status, completed |-> TRUE]
        /\ Saved("over")
     \/ /\ Recordable(status) /\ ~IsCompleted(status)
        /\ started' = [started EXCEPT !.status = status]
        /\ Saved("poll")
     \/ /\ ~Recordable(status)
        /\ Saved("giving_up")
        /\ UNCHANGED started
  /\ UNCHANGED <<github, disturbances>>

MonitorFails ==
  /\ mon \in {"poll", "save"}
  /\ Disturb
  /\ Saved("giving_up")
  /\ UNCHANGED <<github, started>>

\* Mutant: the catch only logs
GivenUpSilently == started

GivenUp ==
  IF Recordable("ERROR") THEN [status |-> "ERROR", completed |-> TRUE] ELSE started

\* The catch around the loop: ERROR, if the column takes it
GiveUp ==
  /\ mon = "giving_up"
  /\ started' = GivenUp
  /\ mon' = "over"
  /\ UNCHANGED <<github, polled, disturbances>>

GiveUpFails ==
  /\ mon = "giving_up"
  /\ Disturb
  /\ mon' = "over"
  /\ UNCHANGED <<github, polled, started>>

\* No start-up code looks for rows whose monitor is gone
Restart ==
  /\ mon \notin {"over", "failed", "lost"}
  /\ Disturb
  /\ mon' = "lost" /\ polled' = "none"
  /\ UNCHANGED <<github, started>>

Step ==
  \/ ReadDefaultBranch \/ CreateRow \/ Dispatch \/ MarkFailed \/ MarkRunning
  \/ TouchPipeline \/ SavePoll \/ GiveUp

Next ==
  \/ \E r \in Run : Push(r) \/ CarryOut(r) \/ RunProceeds(r)
  \/ Step \/ Poll
  \/ DispatchUnanswered \/ DispatchRefused \/ StartFails \/ MonitorFails \/ GiveUpFails
  \/ Restart

Spec == Init /\ [][Next]_vars

(***************************************************************************)
(* Fairness: GitHub carries out the dispatches it accepted, starts its     *)
(* runs and ends them (its own time limits), and the event loop, the       *)
(* database and the calls withResilience limits drive startPipeline and    *)
(* the monitor.  Nothing obliges anyone to push, nor listWorkflowRuns to   *)
(* answer: the monitor awaits it bare (:149).                              *)
(***************************************************************************)
Fairness ==
  /\ \A r \in Run : WF_vars(RunProceeds(r))
  /\ WF_vars(\E r \in Run : CarryOut(r))
  /\ WF_vars(Step)

FairSpec == Spec /\ Fairness
-----------------------------------------------------------------------------
(***************************************************************************)
(* Properties.                                                             *)
(***************************************************************************)

\* Where the column takes ERROR, it needs two failures, the monitor's and the best
\* effort update's, before a monitor that is over leaves its row unfinished.
TwoFailuresStrandARow ==
  (mon = "over" /\ ~started.completed) => (schema = "postgres" \/ disturbances > 1)

\* github.service.ts:150-203: a monitor that is over has finished its row, but for
\* two failures.
MonitorInv == TypeOK /\ TwoFailuresStrandARow

\* A monitor whose polls are answered does not poll for ever, whatever conclusion GitHub
\* gives; one that gets no answer waits for it for good (github.service.ts:149).
MonitorEnds == mon \in Polling ~> (mon \in {"over", "lost"} \/ [](mon = "poll"))

\* github.service.ts:109, "Start monitoring the workflow progress": a started row that
\* is PASSED belongs to a run that this start created and that succeeded.
StartedRowFollowsItsRun ==
  (mon = "over" /\ started.status = "PASSED") => \E r \in mine : gh[r] = "success"
=============================================================================
