---------------------------- MODULE WorkflowSync ----------------------------
(***************************************************************************)
(* How test_runs follows the runs of a workflow: the sync poller and the   *)
(* workflow_run webhook both look a build up and create or update its row  *)
(* (github-sync.service.ts, webhook.routes.ts).  Every fetch, find and     *)
(* write is an await, so that syncs and webhook requests interleave.       *)
(*                                                                         *)
(* Abstracted: commits, durations, pipeline.lastRunAt, the loop over       *)
(* several pipelines.                                                      *)
(***************************************************************************)
EXTENDS WorkflowRuns

CONSTANTS
  Sync,             \* firings of the sync interval that may overlap
  Hook,             \* webhook deliveries
  PageSize,         \* how many runs a sync asks for: 10
  DisturbanceBound  \* bound: failed calls and restarts together

ASSUME SyncAssumption ==
  /\ Sync \intersect Hook = {}
  /\ PageSize \in Nat \ {0}
  /\ DisturbanceBound \in Nat

VARIABLES
  past,           \* the states each run has been in, each announced by a webhook
  syncing,        \* GitHubSyncService.syncing
  pc,             \* where each sync and webhook request is
  job,            \* the payloads it still has to upsert
  current,        \* the payload it is upserting, and the status findFirst saw
  row,            \* test_runs by build number
  disturbances    \* failed calls and restarts so far

github == <<gh, schema, past>>
upserting == <<syncing, pc, job, current>>
vars == <<github, upserting, row, disturbances>>

Upserter == Sync \union Hook
Payload == [run : Run, status : GitHubStatus]
NoPayload == [found |-> "nothing"]
Stage == {"new", "idle", "fetch", "find", "write"}

TypeOK ==
  /\ RunsTypeOK
  /\ past \in [Run -> SUBSET GitHubStatus]
  /\ syncing \in BOOLEAN
  /\ pc \in [Upserter -> Stage]
  /\ job \in [Upserter -> SUBSET Payload]
  /\ current \in [Upserter -> [payload : Payload, found : Status \union {"none"}]
                              \union {NoPayload}]
  /\ row \in [Run -> Row \union {NoRow}]
  /\ disturbances \in 0..DisturbanceBound
  /\ \A u \in Upserter : pc[u] = "write" <=> current[u] # NoPayload

\* A webhook request exists once; the interval fires again and again
Init ==
  /\ RunsInit
  /\ past = [r \in Run |-> {}]
  /\ syncing = FALSE
  /\ pc = [u \in Upserter |-> IF u \in Hook THEN "new" ELSE "idle"]
  /\ job = [u \in Upserter |-> {}]
  /\ current = [u \in Upserter |-> NoPayload]
  /\ row = [r \in Run |-> NoRow]
  /\ disturbances = 0

Disturb == disturbances < DisturbanceBound /\ disturbances' = disturbances + 1

GitHub(r) ==
  /\ CreateRun(r) \/ Proceeds(r)
  /\ past' = [past EXCEPT ![r] = @ \union {gh'[r]}]
  /\ UNCHANGED <<upserting, row, disturbances>>
-----------------------------------------------------------------------------
\* Mutant: the flag is not tested
MayStartAnyTime == syncing \in BOOLEAN

MayStart == ~syncing

\* syncAll: a firing that finds a sync in progress is skipped
StartSync(u) ==
  /\ u \in Sync /\ pc[u] = "idle"
  /\ MayStart
  /\ syncing' = TRUE
  /\ pc' = [pc EXCEPT ![u] = "fetch"]
  /\ UNCHANGED <<github, job, current, row, disturbances>>

Snapshot == {[run |-> r, status |-> gh[r]] : r \in Page(PageSize)}

FetchRecentRuns(u) ==
  /\ pc[u] = "fetch"
  /\ job' = [job EXCEPT ![u] = Snapshot]
  /\ pc' = [pc EXCEPT ![u] = "find"]
  /\ UNCHANGED <<github, syncing, current, row, disturbances>>

FetchFails(u) ==
  /\ pc[u] = "fetch"
  /\ Disturb
  /\ pc' = [pc EXCEPT ![u] = "find"]
  /\ UNCHANGED <<github, syncing, job, current, row>>

\* POST /webhooks/github: any state a run has been in, late, or never
DeliverWebhook(u) ==
  /\ pc[u] = "new"
  /\ \E r \in Run : \E s \in past[r] : job' = [job EXCEPT ![u] = {[run |-> r, status |-> s]}]
  /\ pc' = [pc EXCEPT ![u] = "find"]
  /\ UNCHANGED <<github, syncing, current, row, disturbances>>

\* upsertWorkflowRun: findFirst by build number
FindRow(u) ==
  /\ pc[u] = "find"
  /\ \E p \in job[u] :
       /\ job' = [job EXCEPT ![u] = @ \ {p}]
       /\ current' = [current EXCEPT ![u] = [payload |-> p, found |-> row[p.run].status]]
  /\ pc' = [pc EXCEPT ![u] = "write"]
  /\ UNCHANGED <<github, syncing, row, disturbances>>

\* Mutant: a row that is completed is left alone
WritesUncompleted(r, found, status) ==
  IF found = "none" THEN row[r] = NoRow ELSE found # status /\ ~IsCompleted(found)

\* A row that was not found is created, unless its unique build number is taken by
\* now; a row that was found is updated when its status differed
Writes(r, found, status) == IF found = "none" THEN row[r] = NoRow ELSE found # status

\* Written or failed and logged: the next payload is taken
AfterUpsert(u) ==
  /\ pc' = [pc EXCEPT ![u] = "find"]
  /\ current' = [current EXCEPT ![u] = NoPayload]
  /\ UNCHANGED <<syncing, job>>

\* Mutant: an unfinished run leaves completedAt as it was
WrittenKeepingDate(r, s) == [Record(s) EXCEPT !.completed = @ \/ row[r].completed]

\* What row r then holds: completedAt is written with every status, null for an
\* unfinished run, so nothing of the old row remains
Written(r, s) == Record(s)

UpsertRow(u) ==
  LET p == current[u].payload
      status == MapGitHubStatus(p.status)
  IN
  /\ pc[u] = "write"
  /\ row' = IF Writes(p.run, current[u].found, status) /\ Recordable(status)
            THEN [row EXCEPT ![p.run] = Written(p.run, p.status)] ELSE row
  /\ AfterUpsert(u)
  /\ UNCHANGED <<github, disturbances>>

UpsertFails(u) ==
  /\ pc[u] = "write"
  /\ Disturb
  /\ AfterUpsert(u)
  /\ UNCHANGED <<github, row>>

\* Mutant: a webhook request clears the flag too
SyncingAfterAny(u) == u \notin Upserter

SyncingAfter(u) == syncing /\ u \notin Sync

\* Nothing left: the webhook answers, the sync leaves its finally block
Finish(u) ==
  /\ pc[u] = "find" /\ job[u] = {}
  /\ pc' = [pc EXCEPT ![u] = "idle"]
  /\ syncing' = SyncingAfter(u)
  /\ UNCHANGED <<github, job, current, row, disturbances>>

\* Requests and syncs are gone, the rows stay, the interval is set up again
Restart ==
  /\ Disturb
  /\ syncing' = FALSE
  /\ pc' = [u \in Upserter |-> IF pc[u] = "new" THEN "new" ELSE "idle"]
  /\ job' = [u \in Upserter |-> {}]
  /\ current' = [u \in Upserter |-> NoPayload]
  /\ UNCHANGED <<github, row>>

Proceed(u) == FetchRecentRuns(u) \/ FindRow(u) \/ UpsertRow(u) \/ Finish(u)

Next ==
  \/ \E r \in Run : GitHub(r)
  \/ \E u \in Upserter :
       \/ StartSync(u) \/ Proceed(u)
       \/ DeliverWebhook(u) \/ FetchFails(u) \/ UpsertFails(u)
  \/ Restart

Spec == Init /\ [][Next]_vars

(***************************************************************************)
(* Fairness: the sync interval keeps firing and the event loop drives what *)
(* was begun.  Nothing obliges anyone to push, GitHub to conclude a run,   *)
(* or a webhook to arrive.                                                 *)
(***************************************************************************)
Fairness ==
  /\ WF_vars(\E u \in Sync : StartSync(u))
  /\ \A u \in Upserter : WF_vars(Proceed(u))

FairSpec == Spec /\ Fairness
-----------------------------------------------------------------------------
(***************************************************************************)
(* Properties.                                                             *)
(***************************************************************************)

\* A row says of its build only what GitHub said of that build at some time, however
\* syncs and late webhooks interleave.
RowsAreHonest ==
  \A r \in Run : row[r] # NoRow => \E s \in past[r] : row[r] = Record(s)

\* The flag of syncAll keeps syncs apart, also when one fails, a webhook is served
\* meanwhile or the next firing comes before the end.
OneSyncAtATime == \A u, v \in Sync : pc[u] # "idle" /\ pc[v] # "idle" => u = v

\* github-sync.service.ts:108-135: at most one sync is under way.
SyncInv == TypeOK /\ OneSyncAtATime

Conclusive(r) == row[r].status \in {"PASSED", "FAILED", "SKIPPED"}

\* Without webhooks the poller alone never takes a recorded conclusion back: it is
\* only a late payload, or a sync that a webhook overtook, that reopens a row.
ConclusionsStand ==
  [][(\A u \in Hook : pc[u] = "new") =>
       (\A r \in Run : Conclusive(r) => row'[r] = row[r])]_vars

\* Lost, late and overtaking webhooks, failed queries and restarts are repaired by the
\* poller: the row of a concluded run ends with its conclusion for good, provided the
\* column can hold it and newer runs do not push the run off the page a sync asks for
\* (github-sync.service.ts:80).  A row whose run has left the page is nobody's concern.
RowsConverge ==
  \A r \in Run : \A c \in Conclusion :
    (gh[r] = c /\ Recordable(MapGitHubStatus(c)))
      ~> ([](row[r] = Record(c)) \/ ~OnPage(r, PageSize))
=============================================================================
