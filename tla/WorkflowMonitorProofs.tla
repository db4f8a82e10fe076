------------------------ MODULE WorkflowMonitorProofs ------------------------
(***************************************************************************)
(* Starting and monitoring a pipeline, for any number of runs, any         *)
(* conclusions and any number of failures: type correctness, and what it   *)
(* takes to leave the row of a finished monitor unfinished.                *)
(***************************************************************************)
EXTENDS WorkflowMonitor, TLAPS

\* Only lost answers make GitHub accept more than one dispatch.
DispatchesKnown ==
  /\ owed <= disturbances + 1
  /\ mon \in {"branch", "create", "dispatch"} => owed <= disturbances

\* The monitor gives up after a failure, or because a status was rejected.
GivingUpHasACause == mon = "giving_up" => (schema = "postgres" \/ disturbances > 0)

IInv ==
  /\ TypeOK
  /\ DispatchesKnown
  /\ GivingUpHasACause
  /\ TwoFailuresStrandARow

LEMMA InitInv == Init => IInv
<1> SUFFICES ASSUME Init PROVE IInv
  OBVIOUS
<1>1. RunsTypeOK
  BY DEF Init, RunsInit, RunsTypeOK
<1>2. /\ owed = 0 /\ mine = {} /\ polled = "none"
      /\ mon \in {"branch", "create"} /\ started = NoRow /\ disturbances = 0
  BY DEF Init
<1>3. owed \in 0..DisturbanceBound + 1 /\ disturbances \in 0..DisturbanceBound
  BY <1>2, MonitorAssumption
<1>4. mon \in Stage /\ mon # "save" /\ mon # "giving_up" /\ mon # "over"
  BY <1>2 DEF Stage, Polling
<1>5. TypeOK
  BY <1>1, <1>2, <1>3, <1>4 DEF TypeOK
<1>6. DispatchesKnown
  BY <1>2 DEF DispatchesKnown
<1>7. QED
  BY <1>4, <1>5, <1>6 DEF IInv, GivingUpHasACause, TwoFailuresStrandARow

\* Every translation is a status, and the states of a run stay GitHub's.
LEMMA StatusType == \A s : MapGitHubStatus(s) \in Status
  BY DEF MapGitHubStatus, Status

LEMMA RunStep ==
  ASSUME RunsTypeOK, NEW r \in Run, CreateRun(r) \/ Proceeds(r)
  PROVE  /\ RunsTypeOK' /\ schema' = schema
         /\ Created \subseteq Created' /\ r \in Created'
<1>1. PICK s \in GitHubStatus : gh' = [gh EXCEPT ![r] = s] /\ UNCHANGED schema
  BY DEF CreateRun, Proceeds, Begin, Conclude, Enter, GitHubStatus
<1>2. s # "none"
  BY ConclusionAssumption DEF GitHubStatus
<1>3. QED
  BY <1>1, <1>2 DEF RunsTypeOK, Created

\* What GitHub does.
LEMMA GitHubInv ==
  ASSUME IInv, NEW r \in Run, Push(r) \/ CarryOut(r) \/ RunProceeds(r)
  PROVE  IInv'
<1> USE MonitorAssumption, ConclusionAssumption DEF IInv
<1>1. CreateRun(r) \/ Proceeds(r)
  BY DEF Push, CarryOut, Appears, RunProceeds
<1>2. /\ RunsTypeOK' /\ schema' = schema
      /\ Created \subseteq Created' /\ r \in Created'
  BY <1>1, RunStep DEF TypeOK
<1>3. UNCHANGED <<mon, polled, started, disturbances>>
  BY DEF Push, CarryOut, Appears, RunProceeds
<1>4. /\ owed' \in 0..DisturbanceBound + 1 /\ owed' <= owed
  BY DEF Push, CarryOut, RunProceeds, TypeOK
<1>5. mine' \subseteq Created'
  BY <1>2 DEF Push, CarryOut, Appears, RunProceeds, TypeOK
<1>6. TypeOK'
  BY <1>2, <1>3, <1>4, <1>5 DEF TypeOK
<1>7. QED
  BY <1>2, <1>3, <1>4, <1>6
  DEF TypeOK, DispatchesKnown, GivingUpHasACause, TwoFailuresStrandARow

\* Changing the status of the started row leaves it a row.
LEMMA StartedType ==
  ASSUME started \in Row \union {NoRow}, NEW s \in Status
  PROVE  [started EXCEPT !.status = s] \in Row
<1>1. CASE started \in Row
  BY <1>1 DEF Row
<1>2. CASE started = NoRow
  BY <1>2 DEF Row, NoRow
<1>3. QED
  BY <1>1, <1>2

\* What startPipeline and the monitor do, and what goes wrong.
LEMMA MonitorStep ==
  ASSUME IInv, ReadDefaultBranch \/ CreateRow \/ Dispatch \/ DispatchUnanswered \/ DispatchRefused \/ MarkFailed \/ MarkRunning
         \/ TouchPipeline
         \/ StartFails \/ Poll \/ SavePoll \/ MonitorFails \/ GiveUp \/ GiveUpFails \/ Restart
  PROVE  IInv'
<1> USE MonitorAssumption, ConclusionAssumption DEF IInv, github, Stage, Polling
<1>1. CASE ReadDefaultBranch
  <2>1. TypeOK'
    BY <1>1 DEF ReadDefaultBranch, TypeOK, RunsTypeOK, DispatchesKnown, Row, NoRow, Status, GitHubStatus, Created
  <2>2. QED
    BY <1>1, <2>1
    DEF ReadDefaultBranch, TypeOK, RunsTypeOK, DispatchesKnown, GivingUpHasACause,
        TwoFailuresStrandARow
<1>2. CASE CreateRow
  <2>1. TypeOK'
    BY <1>2 DEF CreateRow, TypeOK, RunsTypeOK, DispatchesKnown, Row, NoRow, Status, GitHubStatus, Created
  <2>2. QED
    BY <1>2, <2>1
    DEF CreateRow, TypeOK, RunsTypeOK, DispatchesKnown, GivingUpHasACause,
        TwoFailuresStrandARow
<1>3. CASE Dispatch
  <2>1. TypeOK'
    BY <1>3 DEF Dispatch, Accept, TypeOK, RunsTypeOK, DispatchesKnown, Row, NoRow, Status, GitHubStatus, Created
  <2>2. QED
    BY <1>3, <2>1
    DEF Dispatch, Accept, TypeOK, RunsTypeOK, DispatchesKnown, GivingUpHasACause,
        TwoFailuresStrandARow
<1>4. CASE DispatchUnanswered
  <2>1. TypeOK'
    BY <1>4 DEF DispatchUnanswered, Accept, Disturb, TypeOK, RunsTypeOK, DispatchesKnown, Row, NoRow, Status, GitHubStatus, Created
  <2>2. QED
    BY <1>4, <2>1
    DEF DispatchUnanswered, Accept, Disturb, TypeOK, RunsTypeOK, DispatchesKnown, GivingUpHasACause,
        TwoFailuresStrandARow
<1>5. CASE DispatchRefused
  <2>1. TypeOK'
    BY <1>5 DEF DispatchRefused, Disturb, TypeOK, RunsTypeOK, DispatchesKnown, Row, NoRow, Status, GitHubStatus, Created
  <2>2. QED
    BY <1>5, <2>1
    DEF DispatchRefused, Disturb, TypeOK, RunsTypeOK, DispatchesKnown, GivingUpHasACause,
        TwoFailuresStrandARow
<1>6. CASE MarkFailed
  <2>1. started' \in Row
    BY <1>6, StartedType DEF MarkFailed, TypeOK, Status
  <2>2. TypeOK'
    BY <1>6, <2>1 DEF MarkFailed, TypeOK, RunsTypeOK, DispatchesKnown, GitHubStatus, Created
  <2>3. QED
    BY <1>6, <2>2
    DEF MarkFailed, TypeOK, RunsTypeOK, DispatchesKnown, GivingUpHasACause,
        TwoFailuresStrandARow
<1>7. CASE MarkRunning
  <2>1. started' \in Row
    BY <1>7, StartedType DEF MarkRunning, TypeOK, Status
  <2>2. TypeOK'
    BY <1>7, <2>1 DEF MarkRunning, TypeOK, RunsTypeOK, DispatchesKnown, GitHubStatus, Created
  <2>3. QED
    BY <1>7, <2>2
    DEF MarkRunning, TypeOK, RunsTypeOK, DispatchesKnown, GivingUpHasACause,
        TwoFailuresStrandARow
<1>8. CASE TouchPipeline
  <2>1. TypeOK'
    BY <1>8 DEF TouchPipeline, TypeOK, RunsTypeOK, GitHubStatus, Created
  <2>2. QED
    BY <1>8, <2>1
    DEF TouchPipeline, TypeOK, RunsTypeOK, DispatchesKnown, GivingUpHasACause,
        TwoFailuresStrandARow
<1>9. CASE StartFails
  <2>1. TypeOK'
    BY <1>9 DEF StartFails, Disturb, TypeOK, RunsTypeOK, DispatchesKnown, Row, NoRow, Status, GitHubStatus, Created
  <2>2. QED
    BY <1>9, <2>1
    DEF StartFails, Disturb, TypeOK, RunsTypeOK, DispatchesKnown, GivingUpHasACause,
        TwoFailuresStrandARow
<1>10. CASE Poll
  <2>1. polled' \in GitHubStatus /\ polled' # "none"
    <3>1. PICK r \in Page(1) : polled' = gh[r]
      BY <1>10 DEF Poll
    <3>2. r \in Run /\ gh[r] # "none"
      BY <3>1 DEF Page, OnPage, Created
    <3>3. QED
      BY <3>1, <3>2 DEF TypeOK, RunsTypeOK
  <2>2. TypeOK'
    BY <1>10, <2>1 DEF Poll, TypeOK, RunsTypeOK, Created
  <2>3. QED
    BY <1>10, <2>2
    DEF Poll, TypeOK, RunsTypeOK, DispatchesKnown, GivingUpHasACause,
        TwoFailuresStrandARow
<1>11. CASE SavePoll
  <2> DEFINE status == MapGitHubStatus(polled)
  <2>1. status \in Status
    BY StatusType
  <2>2. [status |-> status, completed |-> TRUE] \in Row
    BY <2>1 DEF Row
  <2>3. [started EXCEPT !.status = status] \in Row
    BY <2>1, StartedType DEF TypeOK
  <2>4. started' \in Row \union {NoRow}
    BY <1>11, <2>2, <2>3 DEF SavePoll, TypeOK
  <2>5. TypeOK'
    BY <1>11, <2>4 DEF SavePoll, Saved, TypeOK, RunsTypeOK, DispatchesKnown, GitHubStatus, Created
  <2>6. QED
    BY <1>11, <2>5
    DEF SavePoll, Saved, TypeOK, RunsTypeOK, DispatchesKnown, GivingUpHasACause,
        TwoFailuresStrandARow, Recordable
<1>12. CASE MonitorFails
  <2>1. TypeOK'
    BY <1>12 DEF MonitorFails, Disturb, Saved, TypeOK, RunsTypeOK, DispatchesKnown, Row, NoRow, Status, GitHubStatus, Created
  <2>2. QED
    BY <1>12, <2>1
    DEF MonitorFails, Disturb, Saved, TypeOK, RunsTypeOK, DispatchesKnown, GivingUpHasACause,
        TwoFailuresStrandARow
<1>13. CASE GiveUp
  <2>1. TypeOK'
    BY <1>13 DEF GiveUp, GivenUp, Recordable, TypeOK, RunsTypeOK, DispatchesKnown, Row, NoRow, Status, GitHubStatus, Created
  <2>2. QED
    BY <1>13, <2>1
    DEF GiveUp, GivenUp, Recordable, TypeOK, RunsTypeOK, DispatchesKnown, GivingUpHasACause,
        TwoFailuresStrandARow
<1>14. CASE GiveUpFails
  <2>1. TypeOK'
    BY <1>14 DEF GiveUpFails, Disturb, TypeOK, RunsTypeOK, DispatchesKnown, Row, NoRow, Status, GitHubStatus, Created
  <2>2. QED
    BY <1>14, <2>1
    DEF GiveUpFails, Disturb, TypeOK, RunsTypeOK, DispatchesKnown, GivingUpHasACause,
        TwoFailuresStrandARow
<1>15. CASE Restart
  <2>1. TypeOK'
    BY <1>15 DEF Restart, Disturb, TypeOK, RunsTypeOK, DispatchesKnown, Row, NoRow, Status, GitHubStatus, Created
  <2>2. QED
    BY <1>15, <2>1
    DEF Restart, Disturb, TypeOK, RunsTypeOK, DispatchesKnown, GivingUpHasACause,
        TwoFailuresStrandARow
<1>16. QED
  BY <1>1, <1>2, <1>3, <1>4, <1>5, <1>6, <1>7, <1>8, <1>9, <1>10, <1>11, <1>12, <1>13, <1>14, <1>15

LEMMA StepInv ==
  ASSUME IInv, [Next]_vars
  PROVE  IInv'
<1>1. CASE UNCHANGED vars
  BY <1>1
  DEF vars, github, IInv, TypeOK, RunsTypeOK, Created, DispatchesKnown, GivingUpHasACause,
      TwoFailuresStrandARow
<1>2. CASE Next
  BY <1>2, GitHubInv, MonitorStep DEF Next, Step
<1>3. QED
  BY <1>1, <1>2

\* The inductive invariant holds in every behaviour.
THEOREM Invariance == Spec => []IInv
  BY InitInv, StepInv, PTL DEF Spec

\* MonitorInv (github.service.ts:192-202): with a column that takes ERROR,
\* one failure never leaves the row of a finished monitor unfinished.
THEOREM StrandingTheorem == Spec => []MonitorInv
<1>1. IInv => MonitorInv
  BY DEF IInv, MonitorInv
<1>2. QED
  BY <1>1, Invariance, PTL
=============================================================================
