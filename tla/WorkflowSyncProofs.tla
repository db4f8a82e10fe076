------------------------- MODULE WorkflowSyncProofs -------------------------
(***************************************************************************)
(* The sync poller and the webhook for any number of runs, webhook         *)
(* deliveries and overlapping firings: type correctness, one sync at a     *)
(* time, and rows that never lie about their build.                        *)
(***************************************************************************)
EXTENDS WorkflowSync, TLAPS

\* What GitHub answers now is one of the states it has announced.
PastIncludesNow == \A r \in Run : gh[r] # "none" => gh[r] \in past[r]

\* A payload on its way carries a state its run has been in.
PayloadsAreHonest ==
  /\ \A u \in Upserter : \A p \in job[u] : p.status \in past[p.run]
  /\ \A u \in Upserter : pc[u] = "write" =>
       current[u].payload.status \in past[current[u].payload.run]

\* The flag is up while a sync is under way.
FlagIsUp == \A u \in Sync : pc[u] # "new" /\ (pc[u] # "idle" => syncing)

IInv ==
  /\ TypeOK
  /\ PastIncludesNow
  /\ PayloadsAreHonest
  /\ FlagIsUp
  /\ OneSyncAtATime
  /\ RowsAreHonest

\* What is written of a run is a row.
LEMMA RecordIsRow == \A s \in GitHubStatus : Record(s) \in Row
  BY DEF Record, Row, MapGitHubStatus, IsCompleted, Status

LEMMA InitInv == Init => IInv
<1> SUFFICES ASSUME Init PROVE IInv
  OBVIOUS
<1>1. TypeOK
  <2>1. RunsTypeOK /\ past \in [Run -> SUBSET GitHubStatus]
    BY DEF Init, RunsInit, RunsTypeOK
  <2>2. /\ pc \in [Upserter -> Stage]
        /\ job \in [Upserter -> SUBSET Payload]
        /\ current \in [Upserter -> {NoPayload}]
    BY DEF Init, Stage
  <2>3. \A u \in Upserter : pc[u] # "write" /\ current[u] = NoPayload
    BY DEF Init
  <2>4. row \in [Run -> Row \union {NoRow}] /\ disturbances \in 0..DisturbanceBound
    BY SyncAssumption DEF Init
  <2>5. syncing \in BOOLEAN
    BY DEF Init
  <2>6. current \in [Upserter -> [payload : Payload, found : Status \union {"none"}]
                                 \union {NoPayload}]
    BY <2>2
  <2>7. QED
    BY <2>1, <2>2, <2>3, <2>4, <2>5, <2>6 DEF TypeOK
<1>2. FlagIsUp /\ OneSyncAtATime
  BY SyncAssumption DEF Init, FlagIsUp, OneSyncAtATime, Upserter
<1>3. QED
  BY <1>1, <1>2
  DEF Init, IInv, RunsInit, PastIncludesNow, PayloadsAreHonest, RowsAreHonest

\* Steps of GitHub: the announced states only grow, and hold what is new.
LEMMA GitHubInv ==
  ASSUME IInv, NEW r \in Run, GitHub(r)
  PROVE  IInv'
<1> USE DEF IInv
<1>1. PICK s \in GitHubStatus : gh' = [gh EXCEPT ![r] = s] /\ UNCHANGED schema
  BY DEF GitHub, CreateRun, Proceeds, Begin, Conclude, Enter, GitHubStatus
<1>2. gh \in [Run -> GitHubStatus \union {"none"}] /\ past \in [Run -> SUBSET GitHubStatus]
  BY DEF TypeOK, RunsTypeOK
<1>3. past' = [past EXCEPT ![r] = @ \union {s}]
  BY <1>1, <1>2 DEF GitHub
<1>4. UNCHANGED <<syncing, pc, job, current, row, disturbances>>
  BY DEF GitHub, upserting
<1>5. \A q \in Run : past[q] \subseteq past'[q]
  BY <1>2, <1>3
<1>6. TypeOK'
  <2>1. RunsTypeOK'
    BY <1>1, <1>2 DEF TypeOK, RunsTypeOK
  <2>2. past' \in [Run -> SUBSET GitHubStatus]
    BY <1>2, <1>3
  <2>3. QED
    BY <2>1, <2>2, <1>4 DEF TypeOK
<1>7. PastIncludesNow'
  BY <1>1, <1>2, <1>3, <1>5 DEF PastIncludesNow
<1>8. PayloadsAreHonest'
  <2>1. ASSUME NEW u \in Upserter, NEW p \in job'[u]
        PROVE  p.status \in past'[p.run]
    BY <2>1, <1>4, <1>5 DEF TypeOK, PayloadsAreHonest, Payload
  <2>2. ASSUME NEW u \in Upserter, pc'[u] = "write"
        PROVE  current'[u].payload.status \in past'[current'[u].payload.run]
    <3>1. current[u] \in [payload : Payload, found : Status \union {"none"}]
      BY <2>2, <1>4 DEF TypeOK
    <3>2. current[u].payload.run \in Run
      BY <3>1 DEF Payload
    <3>3. QED
      BY <2>2, <3>2, <1>4, <1>5 DEF PayloadsAreHonest
  <2>3. QED
    BY <2>1, <2>2 DEF PayloadsAreHonest
<1>9. RowsAreHonest'
  BY <1>4, <1>5 DEF RowsAreHonest, TypeOK
<1>10. QED
  BY <1>4, <1>6, <1>7, <1>8, <1>9 DEF FlagIsUp, OneSyncAtATime

\* Steps of a sync or a webhook request, and failures.
LEMMA UpserterInv ==
  ASSUME IInv, NEW u \in Upserter,
         StartSync(u) \/ FetchRecentRuns(u) \/ FetchFails(u) \/ DeliverWebhook(u)
         \/ FindRow(u) \/ UpsertRow(u) \/ UpsertFails(u) \/ Finish(u)
  PROVE  IInv'
<1> USE DEF IInv
<1>1. CASE StartSync(u)
  <2>1. TypeOK'
    BY <1>1 DEF StartSync, TypeOK, RunsTypeOK, github, Stage
  <2>2. FlagIsUp' /\ OneSyncAtATime'
    BY <1>1, SyncAssumption
    DEF StartSync, MayStart, FlagIsUp, OneSyncAtATime, TypeOK, Upserter
  <2>3. QED
    BY <1>1, <2>1, <2>2
    DEF StartSync, github, PastIncludesNow, PayloadsAreHonest, RowsAreHonest, TypeOK
<1>2. CASE FetchRecentRuns(u)
  <2>1. Snapshot \subseteq Payload /\ \A p \in Snapshot : p.status \in past[p.run]
    <3>1. \A r \in Page(PageSize) : r \in Run /\ gh[r] # "none"
      BY DEF Page, OnPage, Created
    <3>2. QED
      BY <3>1 DEF Snapshot, Payload, PastIncludesNow, TypeOK, RunsTypeOK
  <2>2. TypeOK'
    BY <1>2, <2>1 DEF FetchRecentRuns, TypeOK, RunsTypeOK, github, Stage
  <2>3. FlagIsUp' /\ OneSyncAtATime'
    BY <1>2 DEF FetchRecentRuns, FlagIsUp, OneSyncAtATime, TypeOK, Upserter
  <2>4. PayloadsAreHonest'
    BY <1>2, <2>1 DEF FetchRecentRuns, github, PayloadsAreHonest, TypeOK
  <2>5. QED
    BY <1>2, <2>2, <2>3, <2>4
    DEF FetchRecentRuns, github, PastIncludesNow, RowsAreHonest
<1>3. CASE FetchFails(u)
  <2>1. TypeOK'
    BY <1>3, SyncAssumption DEF FetchFails, Disturb, TypeOK, RunsTypeOK, github, Stage
  <2>2. FlagIsUp' /\ OneSyncAtATime'
    BY <1>3 DEF FetchFails, FlagIsUp, OneSyncAtATime, TypeOK, Upserter
  <2>3. QED
    BY <1>3, <2>1, <2>2
    DEF FetchFails, github, PastIncludesNow, PayloadsAreHonest, RowsAreHonest, TypeOK
<1>4. CASE DeliverWebhook(u)
  <2>1. PICK r \in Run : \E s \in past[r] :
          job' = [job EXCEPT ![u] = {[run |-> r, status |-> s]}]
    BY <1>4 DEF DeliverWebhook
  <2> PICK s \in past[r] : job' = [job EXCEPT ![u] = {[run |-> r, status |-> s]}]
    BY <2>1
  <2>2. [run |-> r, status |-> s] \in Payload
    BY <2>1 DEF Payload, TypeOK
  <2>3. TypeOK'
    BY <1>4, <2>1, <2>2 DEF DeliverWebhook, TypeOK, RunsTypeOK, github, Stage
  <2>4. FlagIsUp' /\ OneSyncAtATime'
    BY <1>4 DEF DeliverWebhook, FlagIsUp, OneSyncAtATime, TypeOK, Upserter
  <2>5. PayloadsAreHonest'
    BY <1>4, <2>1 DEF DeliverWebhook, github, PayloadsAreHonest, TypeOK
  <2>6. QED
    BY <1>4, <2>3, <2>4, <2>5 DEF DeliverWebhook, github, PastIncludesNow, RowsAreHonest
<1>5. CASE FindRow(u)
  <2>1. PICK p \in job[u] :
          /\ job' = [job EXCEPT ![u] = @ \ {p}]
          /\ current' = [current EXCEPT ![u] = [payload |-> p, found |-> row[p.run].status]]
    BY <1>5 DEF FindRow
  <2>2. p \in Payload /\ p.run \in Run
    BY <2>1 DEF TypeOK, Payload
  <2>3. row[p.run].status \in Status \union {"none"}
    BY <2>2 DEF TypeOK, Row, NoRow
  <2>4. [payload |-> p, found |-> row[p.run].status]
          \in [payload : Payload, found : Status \union {"none"}]
    BY <2>2, <2>3
  <2>5. TypeOK'
    <3>1. current' \in [Upserter -> [payload : Payload, found : Status \union {"none"}]
                                     \union {NoPayload}]
      BY <2>1, <2>4 DEF TypeOK
    <3>2. current'[u] # NoPayload
      <4>1. "payload" \in DOMAIN current'[u]
        BY <2>1 DEF TypeOK
      <4>2. QED
        BY <4>1 DEF NoPayload
    <3>3. job' \in [Upserter -> SUBSET Payload]
      BY <2>1 DEF TypeOK
    <3>4. pc' \in [Upserter -> Stage] /\ pc' = [pc EXCEPT ![u] = "write"]
      BY <1>5 DEF FindRow, TypeOK, Stage
    <3>5. \A v \in Upserter : pc'[v] = "write" <=> current'[v] # NoPayload
      BY <3>2, <3>4, <2>1 DEF TypeOK
    <3>6. QED
      BY <1>5, <3>1, <3>3, <3>4, <3>5 DEF FindRow, TypeOK, RunsTypeOK, github
  <2>6. FlagIsUp' /\ OneSyncAtATime'
    BY <1>5 DEF FindRow, FlagIsUp, OneSyncAtATime, TypeOK, Upserter
  <2>7. PayloadsAreHonest'
    <3>1. \A v \in Upserter : job'[v] \subseteq job[v]
      BY <2>1 DEF TypeOK
    <3>2. current'[u].payload = p /\ \A v \in Upserter \ {u} : current'[v] = current[v]
      BY <2>1 DEF TypeOK
    <3>3. \A v \in Upserter \ {u} : pc'[v] = pc[v]
      BY <1>5 DEF FindRow, TypeOK
    <3>4. past' = past
      BY <1>5 DEF FindRow, github
    <3>5. QED
      BY <2>1, <3>1, <3>2, <3>3, <3>4 DEF PayloadsAreHonest
  <2>8. QED
    BY <1>5, <2>5, <2>6, <2>7 DEF FindRow, github, PastIncludesNow, RowsAreHonest
<1>6. CASE UpsertRow(u)
  <2> DEFINE p == current[u].payload
  <2>1. p \in Payload /\ p.run \in Run /\ p.status \in GitHubStatus /\ p.status \in past[p.run]
    <3>1. pc[u] = "write"
      BY <1>6 DEF UpsertRow
    <3>2. current[u] \in [payload : Payload, found : Status \union {"none"}]
      BY <3>1 DEF TypeOK
    <3>3. QED
      BY <3>1, <3>2 DEF PayloadsAreHonest, Payload
  <2>2. row' = row \/ row' = [row EXCEPT ![p.run] = Record(p.status)]
    BY <1>6 DEF UpsertRow, Written
  <2>3. row' \in [Run -> Row \union {NoRow}]
    BY <2>1, <2>2, RecordIsRow DEF TypeOK
  <2>4. RowsAreHonest'
    <3>1. past' = past
      BY <1>6 DEF UpsertRow, github
    <3>2. ASSUME NEW r \in Run, row'[r] # NoRow
          PROVE  \E s \in past[r] : row'[r] = Record(s)
      BY <3>2, <2>1, <2>2 DEF RowsAreHonest, TypeOK
    <3>3. QED
      BY <3>1, <3>2 DEF RowsAreHonest, Record, MapGitHubStatus, IsCompleted
  <2>5. TypeOK'
    BY <1>6, <2>3 DEF UpsertRow, AfterUpsert, TypeOK, RunsTypeOK, github, Stage
  <2>6. FlagIsUp' /\ OneSyncAtATime'
    BY <1>6 DEF UpsertRow, AfterUpsert, FlagIsUp, OneSyncAtATime, TypeOK, Upserter
  <2>7. QED
    BY <1>6, <2>4, <2>5, <2>6
    DEF UpsertRow, AfterUpsert, github, PastIncludesNow, PayloadsAreHonest, TypeOK
<1>7. CASE UpsertFails(u)
  <2>1. TypeOK'
    BY <1>7, SyncAssumption
    DEF UpsertFails, AfterUpsert, Disturb, TypeOK, RunsTypeOK, github, Stage
  <2>2. FlagIsUp' /\ OneSyncAtATime'
    BY <1>7 DEF UpsertFails, AfterUpsert, FlagIsUp, OneSyncAtATime, TypeOK, Upserter
  <2>3. QED
    BY <1>7, <2>1, <2>2
    DEF UpsertFails, AfterUpsert, github, PastIncludesNow, PayloadsAreHonest,
        RowsAreHonest, TypeOK
<1>8. CASE Finish(u)
  <2>1. TypeOK'
    <3>1. syncing' \in BOOLEAN
      BY <1>8, Zenon DEF Finish, SyncingAfter, TypeOK
    <3>2. pc' \in [Upserter -> Stage]
      BY <1>8 DEF Finish, TypeOK, Stage
    <3>3. \A v \in Upserter : pc'[v] = "write" <=> current'[v] # NoPayload
      BY <1>8 DEF Finish, TypeOK
    <3>4. QED
      BY <1>8, <3>1, <3>2, <3>3 DEF Finish, TypeOK, RunsTypeOK, github
  <2>2. FlagIsUp' /\ OneSyncAtATime'
    BY <1>8 DEF Finish, SyncingAfter, FlagIsUp, OneSyncAtATime, TypeOK, Upserter
  <2>3. QED
    BY <1>8, <2>1, <2>2
    DEF Finish, github, PastIncludesNow, PayloadsAreHonest, RowsAreHonest, TypeOK
<1>9. QED
  BY <1>1, <1>2, <1>3, <1>4, <1>5, <1>6, <1>7, <1>8

LEMMA RestartInv ==
  ASSUME IInv, Restart
  PROVE  IInv'
<1> USE DEF IInv
<1>1. TypeOK'
  <2>1. /\ pc' \in [Upserter -> Stage]
        /\ job' \in [Upserter -> SUBSET Payload]
        /\ current' \in [Upserter -> {NoPayload}]
    BY DEF Restart, Stage
  <2>2. \A u \in Upserter : pc'[u] # "write" /\ current'[u] = NoPayload
    BY DEF Restart
  <2>3. current' \in [Upserter -> [payload : Payload, found : Status \union {"none"}]
                                  \union {NoPayload}]
    BY <2>1
  <2>4. disturbances' \in 0..DisturbanceBound
    BY SyncAssumption DEF Restart, Disturb, TypeOK
  <2>5. QED
    BY <2>1, <2>2, <2>3, <2>4 DEF Restart, TypeOK, RunsTypeOK, github
<1>2. FlagIsUp' /\ OneSyncAtATime'
  BY DEF Restart, FlagIsUp, OneSyncAtATime, TypeOK, Upserter
<1>3. QED
  BY <1>1, <1>2
  DEF Restart, github, PastIncludesNow, PayloadsAreHonest, RowsAreHonest

LEMMA StepInv ==
  ASSUME IInv, [Next]_vars
  PROVE  IInv'
<1>1. CASE UNCHANGED vars
  BY <1>1
  DEF vars, github, upserting, IInv, TypeOK, RunsTypeOK, PastIncludesNow,
      PayloadsAreHonest, FlagIsUp, OneSyncAtATime, RowsAreHonest
<1>2. CASE Next
  BY <1>2, GitHubInv, UpserterInv, RestartInv DEF Next, Proceed
<1>3. QED
  BY <1>1, <1>2

\* The inductive invariant holds in every behaviour.
THEOREM Invariance == Spec => []IInv
  BY InitInv, StepInv, PTL DEF Spec

\* SyncInv (github-sync.service.ts:110): for every number of runs, firings and
\* deliveries the flag admits one sync at a time.
THEOREM SyncTheorem == Spec => []SyncInv
<1>1. IInv => SyncInv
  BY DEF IInv, SyncInv
<1>2. QED
  BY <1>1, Invariance, PTL

\* github-sync.service.ts:28-73: a row is what GitHub once said of its own build.
THEOREM HonestyTheorem == Spec => []RowsAreHonest
<1>1. IInv => RowsAreHonest
  BY DEF IInv
<1>2. QED
  BY <1>1, Invariance, PTL
-----------------------------------------------------------------------------
\* No webhook request has been made so far.
PollerAlone == \A h \in Hook : pc[h] = "new"

\* A run that has concluded stays as it is.
ConclusionIsFinal == \A r \in Run : \A s \in past[r] : s \in Conclusion => gh[r] = s

\* Who has fetched nothing has nothing to upsert, and a job has one payload per run.
JobsAreOfOneFetch ==
  \A u \in Upserter :
    /\ pc[u] \in {"new", "idle", "fetch"} => job[u] = {}
    /\ \A p, q \in job[u] : p.run = q.run => p = q
    /\ pc[u] = "write" => \A p \in job[u] : p.run # current[u].payload.run

\* What the poller is about to write of a concluded row is what the row says.
PayloadsAgree ==
  \A u \in Sync :
    /\ \A p \in job[u] : Conclusive(p.run) => p.status = gh[p.run]
    /\ (pc[u] = "write" /\ Conclusive(current[u].payload.run))
         => current[u].payload.status = gh[current[u].payload.run]

AloneInv == ConclusionIsFinal /\ JobsAreOfOneFetch /\ (PollerAlone => PayloadsAgree)

\* A row with a conclusion shows what its run has ended with.
LEMMA ConclusiveRows ==
  ASSUME IInv, ConclusionIsFinal, NEW r \in Run, Conclusive(r)
  PROVE  gh[r] \in Conclusion /\ row[r] = Record(gh[r])
<1>1. row[r] # NoRow
  BY DEF Conclusive, NoRow
<1>2. PICK s \in past[r] : row[r] = Record(s)
  BY <1>1 DEF IInv, RowsAreHonest
<1>3. s \in GitHubStatus
  BY DEF IInv, TypeOK
<1>4. MapGitHubStatus(s) \in {"PASSED", "FAILED", "SKIPPED"}
  BY <1>2 DEF Conclusive, Record
<1>5. s \in Conclusion
  BY <1>3, <1>4 DEF MapGitHubStatus, GitHubStatus
<1>6. QED
  BY <1>2, <1>5 DEF ConclusionIsFinal

LEMMA AloneInit == Init => AloneInv
<1> SUFFICES ASSUME Init PROVE AloneInv
  OBVIOUS
<1>1. /\ \A r \in Run : past[r] = {}
      /\ \A u \in Upserter : pc[u] # "write" /\ job[u] = {}
  BY DEF Init, RunsInit, Upserter
<1>2. Sync \subseteq Upserter
  BY DEF Upserter
<1>3. ConclusionIsFinal
  BY <1>1 DEF ConclusionIsFinal
<1>4. JobsAreOfOneFetch
  BY <1>1, <1>2 DEF JobsAreOfOneFetch
<1>5. PayloadsAgree
  BY <1>1, <1>2 DEF PayloadsAgree
<1>6. QED
  BY <1>3, <1>4, <1>5 DEF AloneInv

LEMMA AloneGitHub ==
  ASSUME IInv, AloneInv, NEW r \in Run, GitHub(r)
  PROVE  AloneInv'
<1>1. PICK s \in GitHubStatus : gh' = [gh EXCEPT ![r] = s] /\ UNCHANGED schema
  BY DEF GitHub, CreateRun, Proceeds, Begin, Conclude, Enter, GitHubStatus
<1>2. gh[r] \notin Conclusion
  <2>1. CreateRun(r) => r \notin Created
    BY RunAssumption DEF CreateRun
  <2>2. QED
    BY <2>1, ConclusionAssumption DEF GitHub, Created, Proceeds, Begin, Conclude
<1>3. /\ gh \in [Run -> GitHubStatus \union {"none"}] /\ past \in [Run -> SUBSET GitHubStatus]
      /\ gh'[r] = s /\ past' = [past EXCEPT ![r] = @ \union {s}]
      /\ UNCHANGED <<pc, job, current, row>>
  BY <1>1 DEF GitHub, upserting, IInv, TypeOK, RunsTypeOK
<1>4. \A q \in Run : Conclusive(q) => q # r
  BY <1>2, ConclusiveRows DEF AloneInv
<1>5. ConclusionIsFinal'
  BY <1>1, <1>2, <1>3 DEF AloneInv, ConclusionIsFinal
<1>6. JobsAreOfOneFetch'
  BY <1>3 DEF AloneInv, JobsAreOfOneFetch
<1>7. ASSUME PollerAlone' PROVE PayloadsAgree'
  <2>1. PayloadsAgree
    BY <1>3, <1>7 DEF PollerAlone, AloneInv
  <2>2. \A u \in Sync : \A p \in job[u] : p.run \in Run
    BY DEF IInv, TypeOK, Upserter, Payload
  <2>3. \A u \in Sync : pc[u] = "write" => current[u].payload.run \in Run
    BY DEF IInv, TypeOK, Upserter, Payload
  <2>4. QED
    BY <1>1, <1>3, <1>4, <2>1, <2>2, <2>3 DEF PayloadsAgree, Conclusive
<1>8. QED
  BY <1>5, <1>6, <1>7 DEF AloneInv

LEMMA AloneUpserter ==
  ASSUME IInv, AloneInv, NEW u \in Upserter,
         StartSync(u) \/ FetchRecentRuns(u) \/ FetchFails(u) \/ DeliverWebhook(u)
         \/ FindRow(u) \/ UpsertRow(u) \/ UpsertFails(u) \/ Finish(u)
  PROVE  AloneInv'
<1> USE DEF AloneInv
<1>1. /\ UNCHANGED <<gh, past>>
      /\ pc \in [Upserter -> Stage] /\ job \in [Upserter -> SUBSET Payload]
      /\ DOMAIN current = Upserter /\ row \in [Run -> Row \union {NoRow}]
      /\ Sync \subseteq Upserter /\ Hook \subseteq Upserter
  BY DEF StartSync, FetchRecentRuns, FetchFails, DeliverWebhook, FindRow, UpsertRow, UpsertFails,
         Finish, github, IInv, TypeOK, Upserter
<1>2. ConclusionIsFinal'
  BY <1>1 DEF ConclusionIsFinal
<1>3. PollerAlone' => PollerAlone
  BY <1>1 DEF StartSync, FetchRecentRuns, FetchFails, DeliverWebhook, FindRow, UpsertRow,
     UpsertFails, Finish, AfterUpsert, PollerAlone
<1>4. CASE StartSync(u)
  BY <1>1, <1>2, <1>3, <1>4 DEF StartSync, JobsAreOfOneFetch, PayloadsAgree, Conclusive
<1>5. CASE FetchRecentRuns(u)
  <2>1. \A p \in Snapshot : p.status = gh[p.run]
    BY DEF Snapshot
  <2>2. \A p, q \in Snapshot : p.run = q.run => p = q
    BY DEF Snapshot
  <2>3. JobsAreOfOneFetch'
    BY <1>1, <1>5, <2>2 DEF FetchRecentRuns, JobsAreOfOneFetch
  <2>4. PollerAlone' => PayloadsAgree'
    BY <1>1, <1>3, <1>5, <2>1 DEF FetchRecentRuns, PayloadsAgree, Conclusive
  <2>5. QED
    BY <1>2, <2>3, <2>4
<1>6. CASE FetchFails(u)
  BY <1>1, <1>2, <1>3, <1>6 DEF FetchFails, JobsAreOfOneFetch, PayloadsAgree, Conclusive
<1>7. CASE DeliverWebhook(u)
  <2>1. u \in Hook
    BY <1>7 DEF DeliverWebhook, IInv, FlagIsUp, Upserter
  <2>2. ~PollerAlone'
    BY <1>1, <1>7, <2>1 DEF DeliverWebhook, PollerAlone
  <2>3. PICK p : job' = [job EXCEPT ![u] = {p}]
    BY <1>7 DEF DeliverWebhook
  <2>4. JobsAreOfOneFetch'
    BY <1>1, <1>7, <2>3 DEF DeliverWebhook, JobsAreOfOneFetch
  <2>5. QED
    BY <1>2, <2>2, <2>4
<1>8. CASE FindRow(u)
  <2>1. PICK p \in job[u] :
          /\ job' = [job EXCEPT ![u] = @ \ {p}]
          /\ current' = [current EXCEPT ![u] = [payload |-> p, found |-> row[p.run].status]]
    BY <1>8 DEF FindRow
  <2>2. /\ pc' = [pc EXCEPT ![u] = "write"] /\ pc[u] = "find" /\ UNCHANGED row
        /\ current'[u].payload = p
    BY <1>1, <1>8, <2>1 DEF FindRow
  <2>3. JobsAreOfOneFetch'
    BY <1>1, <2>1, <2>2 DEF JobsAreOfOneFetch
  <2>4. PollerAlone' => PayloadsAgree'
    BY <1>1, <1>3, <2>1, <2>2 DEF PayloadsAgree, Conclusive
  <2>5. QED
    BY <1>2, <2>3, <2>4
<1>9. CASE UpsertRow(u)
  <2> DEFINE p == current[u].payload
  <2>1. /\ pc[u] = "write" /\ pc' = [pc EXCEPT ![u] = "find"] /\ UNCHANGED job
        /\ current' = [current EXCEPT ![u] = NoPayload]
        /\ row' = row \/ row' = [row EXCEPT ![p.run] = Record(p.status)]
    BY <1>9 DEF UpsertRow, AfterUpsert, Written
  <2>2. JobsAreOfOneFetch'
    BY <1>1, <2>1 DEF JobsAreOfOneFetch
  <2>3. ASSUME PollerAlone' PROVE PayloadsAgree'
    <3>1. PollerAlone /\ PayloadsAgree
      BY <1>3, <2>3
    <3>2. u \in Sync
      BY <2>1, <3>1 DEF PollerAlone, Upserter
    <3>3. \A v \in Sync \ {u} : pc[v] = "idle" /\ job[v] = {}
      BY <1>1, <2>1, <3>2 DEF IInv, OneSyncAtATime, JobsAreOfOneFetch
    <3>4. \A q \in job[u] : q.run # p.run
      BY <2>1 DEF JobsAreOfOneFetch
    <3>5. \A q \in job[u] : row'[q.run] = row[q.run]
      BY <2>1, <3>4, <1>1 DEF Payload
    <3>6. \A v \in Sync : pc'[v] # "write"
      BY <1>1, <2>1, <3>3
    <3>7. QED
      BY <1>1, <2>1, <3>1, <3>2, <3>3, <3>5, <3>6 DEF PayloadsAgree, Conclusive
  <2>4. QED
    BY <1>2, <2>2, <2>3
<1>10. CASE UpsertFails(u)
  <2>1. /\ pc' = [pc EXCEPT ![u] = "find"] /\ pc[u] = "write" /\ UNCHANGED <<job, row>>
        /\ current' = [current EXCEPT ![u] = NoPayload]
    BY <1>10 DEF UpsertFails, AfterUpsert
  <2>2. QED
    BY <1>1, <1>2, <1>3, <2>1 DEF JobsAreOfOneFetch, PayloadsAgree, Conclusive
<1>11. CASE Finish(u)
  BY <1>1, <1>2, <1>3, <1>11 DEF Finish, JobsAreOfOneFetch, PayloadsAgree, Conclusive
<1>12. QED
  BY <1>4, <1>5, <1>6, <1>7, <1>8, <1>9, <1>10, <1>11

LEMMA AloneStep ==
  ASSUME IInv, AloneInv, [Next]_vars
  PROVE  AloneInv'
<1>1. CASE UNCHANGED vars
  BY <1>1 DEF vars, github, upserting, AloneInv, ConclusionIsFinal, JobsAreOfOneFetch,
              PollerAlone, PayloadsAgree, Conclusive
<1>2. CASE Restart
  <2>1. /\ UNCHANGED <<gh, past, row>>
        /\ \A u \in Upserter : pc'[u] = (IF pc[u] = "new" THEN "new" ELSE "idle") /\ job'[u] = {}
    BY <1>2 DEF Restart, github
  <2>2. QED
    BY <2>1 DEF AloneInv, ConclusionIsFinal, JobsAreOfOneFetch, PayloadsAgree, Upserter
<1>3. CASE Next
  BY <1>2, <1>3, AloneGitHub, AloneUpserter DEF Next, Proceed
<1>4. QED
  BY <1>1, <1>3

\* github-sync.service.ts:28-73: as long as no webhook is served, a recorded conclusion
\* stands, for every number of runs and firings and whatever fails.
THEOREM ConclusionTheorem == Spec => ConclusionsStand
<1> DEFINE Stands == (\A u \in Hook : pc[u] = "new") =>
                       (\A r \in Run : Conclusive(r) => row'[r] = row[r])
<1>1. ASSUME IInv, AloneInv, [Next]_vars, PollerAlone, NEW r \in Run, Conclusive(r)
      PROVE  row'[r] = row[r]
  <2>1. CASE UNCHANGED row
    BY <2>1
  <2>2. ASSUME NEW u \in Upserter, UpsertRow(u) PROVE row'[r] = row[r]
    <3> DEFINE p == current[u].payload
    <3>1. pc[u] = "write" /\ (row' = row \/ row' = [row EXCEPT ![p.run] = Record(p.status)])
      BY <2>2 DEF UpsertRow, Written
    <3>2. u \in Sync
      BY <1>1, <3>1 DEF PollerAlone, Upserter
    <3>3. p.run = r => Record(p.status) = row[r]
      BY <1>1, <3>1, <3>2, ConclusiveRows DEF AloneInv, PayloadsAgree
    <3>4. row \in [Run -> Row \union {NoRow}]
      BY <1>1 DEF IInv, TypeOK
    <3>5. QED
      BY <3>1, <3>3, <3>4
  <2>3. UNCHANGED row \/ \E u \in Upserter : UpsertRow(u)
    BY <1>1 DEF Next, vars, GitHub, StartSync, Proceed, FetchRecentRuns, FindRow, Finish,
                DeliverWebhook, FetchFails, UpsertFails, Restart
  <2>4. QED
    BY <2>1, <2>2, <2>3
<1>2. IInv /\ AloneInv /\ [Next]_vars => [Stands]_vars
  BY <1>1 DEF PollerAlone
<1>3. IInv /\ AloneInv /\ [Next]_vars => IInv' /\ AloneInv'
  BY StepInv, AloneStep
<1>4. QED
  BY <1>2, <1>3, InitInv, AloneInit, PTL DEF Spec, ConclusionsStand
=============================================================================
