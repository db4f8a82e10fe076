------------------------------ MODULE XraySync ------------------------------
(***************************************************************************)
(* Pushing a test run to Xray (xray.service.ts, syncTestRun), asked for by *)
(* a person or started, and not awaited, by the completion of the run.     *)
(* The XraySync row is found or created, marked SYNCING, and after the     *)
(* import marked SYNCED with the key of the execution, or FAILED.          *)
(*                                                                         *)
(* Xray creates an execution for an import without a key and updates the   *)
(* one it is given.  Abstracted: the payload, the token, the text of       *)
(* errors.  An import whose answer is lost may be retried by               *)
(* withResilience; one that is refused is not, or is refused again.        *)
(***************************************************************************)
EXTENDS TestRunControl, FiniteSets, Sequences

CONSTANTS
  Sync,       \* syncs of the run
  LostBound,  \* bound: imports whose answer is lost
  BrokenBound \* bound: failed database writes and crashes

NoExecution == 0

ASSUME XrayAssumption == LostBound \in Nat /\ BrokenBound \in Nat /\ IsFiniteSet(Sync)

VARIABLES
  rows,       \* XraySync rows of the run, in order of creation
  executions, \* executions Xray has created for the run
  progress,         \* where each sync is
  record,     \* the row it found or made, or 0
  keySent,    \* the execution the row named when it was found, then the one of the answer
  lost, broken,
  unnamed,    \* history: syncs that were answered without the key of an execution
  crossed     \* history: two syncs were in flight at once

syncing == <<progress, record, keySent, unnamed, crossed>>
xrayVars == <<controlVars, rows, executions, syncing, lost, broken>>

Key == 0..(Cardinality(Sync) + LostBound)
Active == {s \in Sync : progress[s] \notin {"idle", "over"}}

XrayTypeOK ==
  /\ ControlTypeOK
  /\ rows \in Seq([status : {"SYNCING", "SYNCED", "FAILED"}, execution : Key])
  /\ executions \in Key
  /\ progress \in [Sync -> {"idle", "read", "find", "mark", "import", "store", "fail", "over"}]
  /\ record \in [Sync -> 0..Cardinality(Sync)]
  /\ keySent \in [Sync -> Key]
  /\ lost \in 0..LostBound /\ broken \in 0..BrokenBound
  /\ unnamed \in SUBSET Sync /\ crossed \in BOOLEAN

XrayInit ==
  /\ ControlInit
  /\ rows = <<>> /\ executions = 0
  /\ progress = [s \in Sync |-> "idle"]
  /\ record = [s \in Sync |-> 0]
  /\ keySent = [s \in Sync |-> NoExecution]
  /\ lost = 0 /\ broken = 0
  /\ unnamed = {} /\ crossed = FALSE

Goes(s, to) == progress' = [progress EXCEPT ![s] = to]
Begins(s) ==
  /\ progress[s] = "idle" /\ Goes(s, "read")
  /\ crossed' = (crossed \/ Active # {})
  /\ UNCHANGED <<record, keySent, unnamed>>
Proceeds(s, from, to) == progress[s] = from /\ Goes(s, to) /\ UNCHANGED crossed
-----------------------------------------------------------------------------
\* POST /xray/sync/:testRunId
SyncByHand(s) ==
  /\ Begins(s)
  /\ UNCHANGED <<controlVars, rows, executions, lost, broken>>

\* Auto-sync may be on or off at any time (PATCH /xray/config)
CompleteAndSync(c, status) ==
  /\ completeTestRun(c, status)
  /\ \/ UNCHANGED syncing
     \/ run # "deleted" /\ \E s \in Sync : Begins(s)
  /\ UNCHANGED <<rows, executions, lost, broken>>

\* Deleting the run deletes its rows by cascade
DeleteWithRows(c) ==
  /\ deleteTestRun(c)
  /\ rows' = <<>>
  /\ UNCHANGED <<executions, syncing, lost, broken>>

ReadTestRun(s) ==
  /\ IF run = "deleted" THEN Proceeds(s, "read", "over") ELSE Proceeds(s, "read", "find")
  /\ UNCHANGED <<controlVars, rows, executions, record, keySent, unnamed, lost, broken>>

\* The newest row of the run; 0 when there is none
FindRecord(s) ==
  /\ Proceeds(s, "find", "mark")
  /\ record' = [record EXCEPT ![s] = Len(rows)]
  /\ keySent' = [keySent EXCEPT ![s] = IF rows = <<>> THEN NoExecution ELSE rows[Len(rows)].execution]
  /\ UNCHANGED <<controlVars, rows, executions, unnamed, lost, broken>>

\* The update or the insert; both throw when the run is gone
MarkSyncing(s) ==
  /\ IF run = "deleted"
     THEN Proceeds(s, "mark", "over") /\ UNCHANGED <<rows, record>>
     ELSE /\ Proceeds(s, "mark", "import")
          /\ IF record[s] = 0
             THEN /\ rows' = Append(rows, [status |-> "SYNCING", execution |-> NoExecution])
                  /\ record' = [record EXCEPT ![s] = Len(rows')]
             ELSE /\ rows' = [rows EXCEPT ![record[s]].status = "SYNCING"]
                  /\ UNCHANGED record
  /\ UNCHANGED <<controlVars, executions, keySent, unnamed, lost, broken>>

\* Xray answers with the key of the execution, or with none
ImportHappens(s) ==
  \E named \in BOOLEAN :
    /\ executions' = IF keySent[s] = NoExecution THEN executions + 1 ELSE executions
    /\ keySent' = [keySent EXCEPT ![s] = IF ~named THEN NoExecution
                                         ELSE IF @ = NoExecution THEN executions' ELSE @]
    /\ unnamed' = IF named THEN unnamed ELSE unnamed \cup {s}

Import(s) ==
  /\ Proceeds(s, "import", "store")
  /\ ImportHappens(s)
  /\ UNCHANGED <<controlVars, rows, record, lost, broken>>

\* Xray did it and the answer is lost: the call is made again as it was, or
\* fails for good
ImportUnheard(s) ==
  /\ lost < LostBound /\ lost' = lost + 1
  /\ Proceeds(s, "import", "import") \/ Proceeds(s, "import", "fail")
  /\ executions' = IF keySent[s] = NoExecution THEN executions + 1 ELSE executions
  /\ UNCHANGED <<controlVars, rows, record, keySent, unnamed, broken>>

\* Refused, timed out unsent, breaker open, or no token
ImportRefused(s) ==
  /\ Proceeds(s, "import", "fail")
  /\ UNCHANGED <<controlVars, rows, executions, record, keySent, unnamed, lost, broken>>

\* The key of the answer, or null, whatever the row has named before
StoreSynced(s) ==
  /\ IF run = "deleted"
     THEN Proceeds(s, "store", "fail") /\ UNCHANGED rows
     ELSE /\ Proceeds(s, "store", "over")
          /\ rows' = [rows EXCEPT ![record[s]] = [status |-> "SYNCED", execution |-> keySent[s]]]
  /\ UNCHANGED <<controlVars, executions, record, keySent, unnamed, lost, broken>>

MarkFailed(s) ==
  /\ Proceeds(s, "fail", "over")
  /\ rows' = IF run = "deleted" THEN rows ELSE [rows EXCEPT ![record[s]].status = "FAILED"]
  /\ UNCHANGED <<controlVars, executions, record, keySent, unnamed, lost, broken>>

\* A write of the row fails: the first goes to the caller, the second to the
\* catch, the third is logged
WriteFails(s) ==
  /\ broken < BrokenBound /\ broken' = broken + 1
  /\ Proceeds(s, "mark", "over") \/ Proceeds(s, "store", "fail") \/ Proceeds(s, "fail", "over")
  /\ UNCHANGED <<controlVars, rows, executions, record, keySent, unnamed, lost>>

XrayCrash ==
  /\ broken < BrokenBound /\ broken' = broken + 1
  /\ Active # {}
  /\ progress' = [s \in Sync |-> IF s \in Active THEN "over" ELSE progress[s]]
  /\ UNCHANGED <<controlVars, rows, executions, record, keySent, unnamed, lost, crossed>>

syncTestRun(s) ==
  \/ ReadTestRun(s) \/ FindRecord(s) \/ MarkSyncing(s)
  \/ Import(s) \/ ImportUnheard(s) \/ ImportRefused(s)
  \/ StoreSynced(s) \/ MarkFailed(s)

ControlStep(c) ==
  \/ /\ \/ \E operation \in Operation : ReadRun(c, operation)
        \/ cancelTestRun(c) \/ retryTestRun(c)
     /\ UNCHANGED <<rows, executions, syncing, lost, broken>>
  \/ \E status \in VALID_COMPLETION_STATUSES : CompleteAndSync(c, status)
  \/ DeleteWithRows(c)

XrayNext ==
  \/ \E c \in Call : ControlStep(c)
  \/ \E s \in Sync : SyncByHand(s) \/ syncTestRun(s) \/ WriteFails(s)
  \/ XrayCrash

\* The event loop runs what a sync awaits; every call out has a timeout
XrayProgress == \E s \in Sync : syncTestRun(s)

XraySpec == XrayInit /\ [][XrayNext]_xrayVars /\ WF_xrayVars(XrayProgress)
-----------------------------------------------------------------------------
\* A row that says SYNCED names an execution that Xray has, or none because a sync of
\* that row was answered without a key (xray.service.ts:478).
SyncedNamesExecution ==
  \A i \in DOMAIN rows : rows[i].status = "SYNCED" =>
    \/ rows[i].execution \in 1..executions
    \/ rows[i].execution = NoExecution /\ \E s \in unnamed : record[s] = i

\* xray.service.ts:409, "idempotent": syncs one after the other share one row,
\* whatever fails in between.
SerialSyncsShareTheRow == ~crossed => Len(rows) <= 1

\* ... and, when no answer, key or write was lost, one execution.
SerialSyncsShareTheExecution ==
  (~crossed /\ lost = 0 /\ broken = 0 /\ unnamed = {}) => executions <= 1

\* A row forgets the execution it knew only to a sync that was answered without a key:
\* not to one that fails, stops or is overtaken.
ExecutionIsNotForgotten ==
  [][\A i \in DOMAIN rows \intersect DOMAIN rows' :
       rows[i].execution # NoExecution =>
         rows'[i].execution # NoExecution
           \/ \E s \in unnamed : record[s] = i /\ progress[s] = "store"]_xrayVars

\* Whatever overlaps, when nobody syncs no row says SYNCING, unless a write
\* failed or the process stopped.
NoRowIsLeftSyncing ==
  (Active = {} /\ broken = 0) => \A i \in DOMAIN rows : rows[i].status # "SYNCING"

XrayInv ==
  /\ XrayTypeOK
  /\ SyncedNamesExecution /\ SerialSyncsShareTheRow /\ SerialSyncsShareTheExecution
  /\ NoRowIsLeftSyncing

\* No sync is under way.
NothingSyncs == Active = {}
=============================================================================
