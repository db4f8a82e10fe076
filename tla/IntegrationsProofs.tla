------------------------- MODULE IntegrationsProofs -------------------------
(***************************************************************************)
(* The parts that talk to other systems, for every value of the constants: *)
(* the syncs of a run with Xray, the watch of a Jenkins build,             *)
(* publications in Confluence, and the clients of seven systems; and what  *)
(* the model of the copilot is asked and told: the part of a conversation  *)
(* that fits its window, the persona of a question, the prompts a          *)
(* conversation starts with, and the suggestions after a tool; and what    *)
(* the program tells of its own history: the dashboards, and the server of *)
(* tools for other agents.  Each has an inductive invariant of its own;    *)
(* ServicesProofs puts them together.                                      *)
(* What the code computes along a sequence (a history cut from its newest  *)
(* message, a list filled from a catalog) is a recursive function on the   *)
(* lengths of its beginnings, and is proved by induction on them.          *)
(***************************************************************************)
EXTENDS XraySync, JenkinsMonitor, ConfluencePublish, OutsideCalls, ContextBudget, CopilotAdvice,
        Analytics, McpServer, Integers, FiniteSetTheorems, SequenceTheorems, WellFoundedInduction,
        TLAPS

-----------------------------------------------------------------------------
\* A test run and its syncs with Xray

\* Who may still decide a run that is decided had found it undecided before it was.
ControlKnown ==
  run \in Finished => \A c \in Call : wanted[c] \in {"cancel", "complete"} => c \in overtaken

Imported == {s \in Sync : progress[s] \in {"store", "fail", "over"}}
Marked == {s \in Sync : progress[s] \in {"import", "store", "fail", "over"}}

XrayRow == [status : {"SYNCING", "SYNCED", "FAILED"}, execution : Nat]

\* The bounds of the types come from how often a sync marks and imports.
XrayTypes ==
  /\ ControlTypeOK
  /\ rows \in Seq(XrayRow)
  /\ executions \in Nat
  /\ progress \in [Sync -> {"idle", "read", "find", "mark", "import", "store", "fail", "over"}]
  /\ record \in [Sync -> 0..Cardinality(Sync)]
  /\ keySent \in [Sync -> Nat]
  /\ lost \in 0..LostBound /\ broken \in 0..BrokenBound
  /\ unnamed \in SUBSET Sync /\ crossed \in BOOLEAN

SyncsAreCounted ==
  /\ Len(rows) <= Cardinality(Marked)
  /\ executions <= lost + Cardinality(Imported)

\* What a sync knows of the row it works on and of the execution it names.
RecordKnown ==
  \A s \in Sync :
    /\ keySent[s] <= executions
    /\ progress[s] = "store" => keySent[s] # NoExecution \/ s \in unnamed
    /\ s \in unnamed => progress[s] \in {"store", "fail", "over"}
    /\ (progress[s] = "mark" /\ run # "deleted") => record[s] \in 0..Len(rows)
    /\ (progress[s] \in {"import", "store", "fail"} /\ run # "deleted")
         => record[s] \in 1..Len(rows)

\* What a row says of Xray, and who will say it of a row that says SYNCING.
RowsKnown ==
  /\ run = "deleted" => rows = <<>>
  /\ \A i \in 1..Len(rows) :
       /\ rows[i].execution <= executions
       /\ rows[i].status = "SYNCED" =>
            rows[i].execution # NoExecution \/ \E s \in unnamed : record[s] = i
       /\ (rows[i].status = "SYNCING" /\ broken = 0)
            => \E s \in Sync : record[s] = i /\ progress[s] \in {"import", "store", "fail"}

\* As long as syncs follow one another.
SerialKnown ==
  ~crossed =>
    /\ \A s \in Active : Active = {s}
    /\ Len(rows) <= 1
    /\ \A s \in Sync : (progress[s] = "mark" /\ run # "deleted") => record[s] = Len(rows)

\* ... and no answer, key or write is lost.
CleanKnown ==
  (~crossed /\ lost = 0 /\ broken = 0 /\ unnamed = {}) =>
    /\ executions <= 1
    /\ \A s \in Sync :
         (progress[s] = "mark" /\ run # "deleted") \/ progress[s] \in {"import", "store"}
           => keySent[s] = executions
    /\ (run # "deleted" /\ \A s \in Sync : progress[s] # "store") =>
         executions = (IF rows = <<>> THEN 0 ELSE rows[1].execution)

XrayIInv ==
  /\ XrayTypes /\ ControlKnown /\ SyncsAreCounted
  /\ RecordKnown /\ RowsKnown /\ SerialKnown /\ CleanKnown

LEMMA SubsetCounts ==
  ASSUME NEW T \in SUBSET Sync, NEW S \in SUBSET T
  PROVE  /\ Cardinality(S) \in Nat /\ Cardinality(T) \in Nat
         /\ Cardinality(S) <= Cardinality(T) /\ Cardinality(T) <= Cardinality(Sync)
         /\ T # S => Cardinality(S) + 1 <= Cardinality(T)
<1>1. IsFiniteSet(T) /\ IsFiniteSet(S) /\ IsFiniteSet(Sync)
  BY XrayAssumption, FS_Subset
<1>2. /\ Cardinality(S) \in Nat /\ Cardinality(T) \in Nat
      /\ Cardinality(S) <= Cardinality(T) /\ Cardinality(T) <= Cardinality(Sync)
  BY <1>1, FS_Subset, FS_CardinalityType
<1>3. ASSUME T # S PROVE Cardinality(S) < Cardinality(T)
  BY <1>1, <1>3, FS_Subset, <1>2
<1>4. QED
  BY <1>2, <1>3

\* A row is written in place.
LEMMA RowIsWritten ==
  ASSUME NEW r \in Seq(XrayRow), NEW i \in 1..Len(r), NEW e \in XrayRow, NEW q,
    q = [r EXCEPT ![i] = e]
  PROVE  /\ q \in Seq(XrayRow) /\ Len(q) = Len(r)
         /\ q[i] = e /\ \A j \in 1..Len(r) : j # i => q[j] = r[j]
<1>1. /\ r \in [1..Len(r) -> XrayRow] /\ Len(r) \in Nat
  OBVIOUS
<1>2. q \in [1..Len(r) -> XrayRow]
  BY <1>1
<1>3. QED
  BY <1>1, <1>2

LEMMA XrayInvInit == XrayInit => XrayIInv
<1> SUFFICES ASSUME XrayInit PROVE XrayIInv
  OBVIOUS
<1> USE DEF XrayInit, ControlInit
<1>1. XrayTypes
  <2>1. Cardinality(Sync) \in Nat
    BY XrayAssumption, FS_CardinalityType
  <2>2. ControlTypeOK
    BY DEF ControlTypeOK
  <2>3. rows \in Seq(XrayRow)
    OBVIOUS
  <2>4. /\ record \in [Sync -> 0..Cardinality(Sync)] /\ keySent \in [Sync -> Nat]
        /\ lost \in 0..LostBound /\ broken \in 0..BrokenBound
    BY <2>1, XrayAssumption DEF NoExecution
  <2>5. QED
    BY <2>2, <2>3, <2>4 DEF XrayTypes
<1>2. ControlKnown
  BY DEF ControlKnown, Operation
<1>3. SyncsAreCounted
  <2>1. Cardinality(Marked) \in Nat /\ Cardinality(Imported) \in Nat
    BY SubsetCounts DEF Marked, Imported
  <2>2. QED
    BY <2>1 DEF SyncsAreCounted
<1>4. RecordKnown /\ RowsKnown /\ SerialKnown /\ CleanKnown
  BY DEF RecordKnown, RowsKnown, SerialKnown, CleanKnown, Active, NoExecution, Live, Finished,
     VALID_COMPLETION_STATUSES
<1>5. QED
  BY <1>1, <1>2, <1>3, <1>4 DEF XrayIInv

LEMMA ControlSteps ==
  ASSUME ControlTypeOK, ControlKnown, NEW c \in Call,
         \/ \E operation \in Operation : ReadRun(c, operation)
         \/ cancelTestRun(c) \/ retryTestRun(c) \/ deleteTestRun(c)
         \/ \E status \in VALID_COMPLETION_STATUSES : completeTestRun(c, status)
  PROVE  /\ ControlTypeOK' /\ ControlKnown'
         /\ run = "deleted" => run' = "deleted"
         /\ ~deleteTestRun(c) /\ run # "deleted" => run' # "deleted"
         /\ run \in Finished => run' \in Finished \union {"deleted"}
         /\ (run \in Finished /\ run' # run) =>
              \/ run' = "deleted"
              \/ \E d \in overtaken : wanted[d] \in {"cancel", "complete"} /\ wanted'[d] = "over"
<1> USE DEF ControlTypeOK, ControlKnown, Operation, Finished, VALID_COMPLETION_STATUSES, Live
<1>1. CASE \E operation \in Operation : ReadRun(c, operation)
  BY <1>1 DEF ReadRun, Permits, Retryable, deleteTestRun
<1>2. CASE cancelTestRun(c)
  BY <1>2 DEF cancelTestRun, Decides, Over
<1>3. CASE retryTestRun(c)
  BY <1>3 DEF retryTestRun, Over
<1>4. CASE deleteTestRun(c)
  BY <1>4 DEF deleteTestRun, Over
<1>5. CASE \E status \in VALID_COMPLETION_STATUSES : completeTestRun(c, status)
  <2>1. PICK status \in VALID_COMPLETION_STATUSES : completeTestRun(c, status)
    BY <1>5
  <2>2. /\ run' = IF run = "deleted" THEN run ELSE status
        /\ wanted[c] = "complete" /\ wanted' = [wanted EXCEPT ![c] = "over"]
        /\ overtaken' = IF run \in Live THEN {d \in Call \ {c} : wanted[d] \in {"cancel", "complete"}}
                        ELSE overtaken
        /\ reruns' = reruns
    BY <2>1 DEF completeTestRun, Decides, Over
  <2>3. ControlTypeOK'
    BY <2>2
  <2>4. ControlKnown'
    BY <2>2
  <2>5. run \in Finished /\ run' # run => c \in overtaken /\ wanted'[c] = "over"
    BY <2>2
  <2>6. QED
    BY <2>2, <2>3, <2>4, <2>5
<1>6. QED
  BY <1>1, <1>2, <1>3, <1>4, <1>5

\* A step of the run that touches no row, and may begin a sync.
LEMMA BeginsKeepsInv ==
  ASSUME XrayIInv, ControlTypeOK', ControlKnown', run' = "deleted" <=> run = "deleted",
         UNCHANGED <<rows, executions, lost, broken>>,
         UNCHANGED syncing \/ \E s \in Sync : Begins(s)
  PROVE  XrayIInv'
<1>1. CASE UNCHANGED syncing
  BY <1>1
  DEF syncing, XrayIInv, XrayTypes, SyncsAreCounted, RecordKnown, RowsKnown, SerialKnown,
    CleanKnown, Active, Imported, Marked
<1>2. CASE \E s \in Sync : Begins(s)
  <2>1. PICK s \in Sync : Begins(s)
    BY <1>2
  <2> USE <2>1 DEF Begins, Goes, XrayIInv, XrayTypes
  <2>2. XrayTypes'
    BY DEF Active
  <2>3. Imported' = Imported /\ Marked' = Marked
    BY DEF Imported, Marked
  <2>4. SyncsAreCounted'
    BY <2>3 DEF SyncsAreCounted
  <2>5. RecordKnown'
    BY DEF RecordKnown
  <2>6. RowsKnown'
    BY DEF RowsKnown
  <2>7. SerialKnown'
    BY DEF SerialKnown, Active
  <2>8. CleanKnown'
    BY DEF CleanKnown, Active
  <2>9. QED
    BY <2>2, <2>4, <2>5, <2>6, <2>7, <2>8
<1>3. QED
  BY <1>1, <1>2

LEMMA DeleteKeepsInv ==
  ASSUME XrayIInv, NEW c \in Call, DeleteWithRows(c)
  PROVE  XrayIInv'
<1> USE DEF XrayIInv, XrayTypes, DeleteWithRows, syncing
<1>1. ControlTypeOK' /\ ControlKnown' /\ run' = "deleted"
  BY ControlSteps DEF deleteTestRun
<1>2. XrayTypes'
  BY <1>1
<1>3. SyncsAreCounted'
  <2>1. Cardinality(Marked') \in Nat /\ Imported' = Imported
    BY SubsetCounts DEF Marked, Imported
  <2>2. QED
    BY <2>1 DEF SyncsAreCounted
<1>4. RecordKnown' /\ RowsKnown' /\ SerialKnown' /\ CleanKnown'
  BY <1>1 DEF RecordKnown, RowsKnown, SerialKnown, CleanKnown, Active
<1>5. QED
  BY <1>1, <1>2, <1>3, <1>4

LEMMA ControlStepKeepsInv ==
  ASSUME XrayIInv, NEW c \in Call, ControlStep(c)
  PROVE  XrayIInv'
<1>1. CASE DeleteWithRows(c)
  BY <1>1, DeleteKeepsInv
<1>2. CASE /\ (\E operation \in Operation : ReadRun(c, operation)) \/ cancelTestRun(c) \/ retryTestRun(c)
           /\ UNCHANGED <<rows, executions, syncing, lost, broken>>
  <2>1. ControlTypeOK' /\ ControlKnown' /\ (run' = "deleted" <=> run = "deleted")
    <3>1. ControlTypeOK' /\ ControlKnown'
      BY <1>2, ControlSteps DEF XrayIInv, XrayTypes
    <3>2. run' = "deleted" <=> run = "deleted"
      BY <1>2 DEF ReadRun, cancelTestRun, retryTestRun, Decides
    <3>3. QED
      BY <3>1, <3>2
  <2>2. QED
    BY <1>2, <2>1, BeginsKeepsInv
<1>3. CASE \E status \in VALID_COMPLETION_STATUSES : CompleteAndSync(c, status)
  <2>1. PICK status \in VALID_COMPLETION_STATUSES : CompleteAndSync(c, status)
    BY <1>3
  <2>2. ControlTypeOK' /\ ControlKnown'
    BY <2>1, ControlSteps DEF CompleteAndSync, XrayIInv, XrayTypes
  <2>3. run' = "deleted" <=> run = "deleted"
    BY <2>1 DEF CompleteAndSync, completeTestRun, Decides, VALID_COMPLETION_STATUSES
  <2>4. QED
    BY <2>1, <2>2, <2>3, BeginsKeepsInv DEF CompleteAndSync
<1>4. QED
  BY <1>1, <1>2, <1>3 DEF ControlStep

\* What every step of a sync leaves as it is.
LEMMA ControlUnchanged ==
  ASSUME ControlTypeOK, ControlKnown, UNCHANGED controlVars
  PROVE  ControlTypeOK' /\ ControlKnown'
BY DEF controlVars, ControlTypeOK, ControlKnown

\* The counts after a step: who marks may add a row, who imports an execution.
LEMMA CountsGrow ==
  ASSUME XrayTypes, XrayTypes', SyncsAreCounted, Imported \subseteq Imported',
    Marked \subseteq Marked',
         Len(rows') <= Len(rows) \/ (Len(rows') = Len(rows) + 1 /\ Marked' # Marked),
         \/ executions' = executions /\ lost' >= lost
         \/ executions' = executions + 1 /\ lost' = lost + 1
         \/ executions' = executions + 1 /\ lost' = lost /\ Imported' # Imported
  PROVE  SyncsAreCounted'
<1>1. Imported' \in SUBSET Sync /\ Marked' \in SUBSET Sync
  BY DEF Imported, Marked
<1>2. /\ Cardinality(Imported) \in Nat /\ Cardinality(Imported') \in Nat
      /\ Cardinality(Imported) <= Cardinality(Imported')
      /\ Imported' # Imported => Cardinality(Imported) + 1 <= Cardinality(Imported')
  BY <1>1, SubsetCounts
<1>3. /\ Cardinality(Marked) \in Nat /\ Cardinality(Marked') \in Nat
      /\ Cardinality(Marked) <= Cardinality(Marked')
      /\ Marked' # Marked => Cardinality(Marked) + 1 <= Cardinality(Marked')
  BY <1>1, SubsetCounts
<1>4. Len(rows) \in Nat /\ Len(rows') \in Nat /\ executions \in Nat /\ lost \in Nat
      /\ lost' \in Nat
  BY DEF XrayTypes
<1>5. QED
  BY <1>2, <1>3, <1>4 DEF SyncsAreCounted

\* The steps that only read: the run, the newest row.
LEMMA ReadingKeepsInv ==
  ASSUME XrayIInv, NEW s \in Sync, ReadTestRun(s) \/ FindRecord(s)
  PROVE  XrayIInv'
<1> USE DEF XrayIInv, XrayTypes, Proceeds, Goes
<1>1. UNCHANGED <<controlVars, rows, executions, lost, broken, unnamed, crossed>>
  BY DEF ReadTestRun, FindRecord
<1>2. run' = run /\ ControlTypeOK' /\ ControlKnown'
  BY <1>1, ControlUnchanged DEF controlVars
<1>3. Len(rows) \in 0..Cardinality(Sync)
  BY SubsetCounts DEF Marked, SyncsAreCounted
<1>4. CASE ReadTestRun(s)
  <2> USE <1>4 DEF ReadTestRun
  <2>1. XrayTypes'
    BY <1>1, <1>2
  <2>2. Imported \subseteq Imported' /\ Marked \subseteq Marked'
    BY DEF Imported, Marked
  <2>3. SyncsAreCounted'
    BY <1>1, <2>1, <2>2, CountsGrow
  <2>4. RecordKnown'
    BY <1>1, <1>2 DEF RecordKnown
  <2>5. RowsKnown'
    BY <1>1, <1>2 DEF RowsKnown
  <2>6. SerialKnown' /\ CleanKnown'
    BY <1>1, <1>2 DEF SerialKnown, CleanKnown, Active
  <2>7. QED
    BY <1>2, <2>1, <2>3, <2>4, <2>5, <2>6
<1>5. CASE FindRecord(s)
  <2> USE <1>5 DEF FindRecord
  <2> DEFINE named == IF rows = <<>> THEN NoExecution ELSE rows[Len(rows)].execution
  <2>1. named \in Nat
        /\ (rows # <<>> => named = rows[Len(rows)].execution /\ Len(rows) \in 1..Len(rows))
    <3>1. CASE rows = <<>>
      BY <3>1 DEF NoExecution
    <3>2. CASE rows # <<>>
      <4>1. Len(rows) \in 1..Len(rows)
        BY <3>2
      <4>2. rows[Len(rows)] \in XrayRow
        BY <4>1
      <4>3. QED
        BY <3>2, <4>1, <4>2 DEF XrayRow
    <3>3. QED
      BY <3>1, <3>2
  <2>2. XrayTypes'
    BY <1>1, <1>2, <1>3, <2>1
  <2>3. Imported \subseteq Imported' /\ Marked \subseteq Marked'
    BY DEF Imported, Marked
  <2>4. SyncsAreCounted'
    BY <1>1, <2>2, <2>3, CountsGrow
  <2>5. RecordKnown'
    BY <1>1, <1>2, <1>3 DEF RecordKnown, RowsKnown, NoExecution
  <2>6. RowsKnown'
    <3>1. \A t \in Sync : t # s => record'[t] = record[t] /\ progress'[t] = progress[t]
      OBVIOUS
    <3>2. progress[s] = "find" /\ s \notin unnamed /\ progress'[s] = "mark"
      BY DEF RecordKnown
    <3>3. QED
      BY <1>1, <1>2, <3>1, <3>2 DEF RowsKnown
  <2>7. SerialKnown'
    BY <1>1, <1>2 DEF SerialKnown, Active
  <2>8. CleanKnown'
    <3> SUFFICES ASSUME ~crossed, lost = 0, broken = 0, unnamed = {} PROVE CleanKnown'
      BY <1>1 DEF CleanKnown
    <3>1. Len(rows) <= 1 /\ \A t \in Sync : t # s => progress[t] \in {"idle", "over"}
      BY DEF SerialKnown, Active
    <3>2. /\ progress' = [progress EXCEPT ![s] = "mark"] /\ progress[s] = "find"
          /\ keySent' = [keySent EXCEPT ![s] = named]
      OBVIOUS
    <3>3. run # "deleted" => executions = named
      <4>1. run # "deleted" => executions = (IF rows = <<>> THEN 0 ELSE rows[1].execution)
        BY <3>1, <3>2 DEF CleanKnown
      <4>2. rows # <<>> => Len(rows) = 1
        BY <3>1
      <4>3. QED
        BY <4>1, <4>2 DEF NoExecution
    <3>4. executions <= 1 /\ \A t \in Sync : progress'[t] # "store" /\ progress[t] # "store"
      BY <3>1, <3>2 DEF CleanKnown
    <3>5. \A t \in Sync :
          ((progress'[t] = "mark" /\ run # "deleted") \/ progress'[t] \in {"import", "store"})
            => keySent'[t] = executions
      BY <3>1, <3>2, <3>3
    <3>6. run # "deleted" => executions = (IF rows = <<>> THEN 0 ELSE rows[1].execution)
      BY <3>4 DEF CleanKnown
    <3>7. QED
      BY <1>1, <1>2, <3>4, <3>5, <3>6 DEF CleanKnown
  <2>9. QED
    BY <1>2, <2>2, <2>4, <2>5, <2>6, <2>7, <2>8
<1>6. QED
  BY <1>4, <1>5

LEMMA RowTypesKnown ==
  ASSUME NEW r \in Seq(XrayRow), NEW i \in 1..Len(r)
  PROVE  r[i] \in XrayRow /\ r[i].execution \in Nat /\ DOMAIN r = 1..Len(r)
<1>1. r[i] \in XrayRow /\ DOMAIN r = 1..Len(r)
  OBVIOUS
<1>2. QED
  BY <1>1 DEF XrayRow

\* A sequence with an element is not empty; in one of at most one, the element is the first.
LEMMA OneRow ==
  /\ \A r \in Seq(XrayRow) : Len(r) = 1 => r # <<>>
  /\ \A n \in Nat : \A j \in 1..n : n <= 1 => n = 1 /\ j = 1
<1>1. \A r \in Seq(XrayRow) : Len(r) = 1 => r # <<>>
  <2> SUFFICES ASSUME Len(<<>>) = 1 PROVE FALSE
    OBVIOUS
  <2>1. Len(<<>>) = 0
    OBVIOUS
  <2>2. QED
    BY <2>1
<1>2. \A n \in Nat : \A j \in 1..n : n <= 1 => n = 1 /\ j = 1
  OBVIOUS
<1>3. QED
  BY <1>1, <1>2

\* A row written or added.
LEMMA MarkingKeepsInv ==
  ASSUME XrayIInv, NEW s \in Sync, MarkSyncing(s)
  PROVE  XrayIInv'
<1> USE DEF XrayIInv, XrayTypes, Proceeds, Goes
<1>1. UNCHANGED <<controlVars, executions, keySent, lost, broken, unnamed, crossed>>
  BY DEF MarkSyncing
<1>2. run' = run /\ ControlTypeOK' /\ ControlKnown'
  BY <1>1, ControlUnchanged DEF controlVars
<1>3. progress[s] = "mark"
  BY DEF MarkSyncing
<1>4. CASE run = "deleted"
  <2>1. progress' = [progress EXCEPT ![s] = "over"] /\ UNCHANGED <<rows, record>>
    BY <1>4 DEF MarkSyncing
  <2>2. XrayTypes'
    BY <1>1, <1>2, <2>1
  <2>3. Imported \subseteq Imported' /\ Marked \subseteq Marked'
    BY <1>3, <2>1 DEF Imported, Marked
  <2>4. SyncsAreCounted'
    BY <1>1, <2>1, <2>2, <2>3, CountsGrow
  <2>5. RecordKnown' /\ RowsKnown' /\ SerialKnown' /\ CleanKnown'
    BY <1>1, <1>2, <1>3, <1>4, <2>1 DEF RecordKnown, RowsKnown, SerialKnown, CleanKnown, Active
  <2>6. QED
    BY <1>2, <2>2, <2>4, <2>5
<1>5. CASE run # "deleted" /\ record[s] = 0
  <2> DEFINE new == [status |-> "SYNCING", execution |-> NoExecution]
  <2>1. /\ progress' = [progress EXCEPT ![s] = "import"]
        /\ rows' = Append(rows, new) /\ record' = [record EXCEPT ![s] = Len(rows')]
    BY <1>5 DEF MarkSyncing
  <2>2. /\ rows' \in Seq(XrayRow) /\ Len(rows) \in Nat /\ Len(rows') = Len(rows) + 1
        /\ rows'[Len(rows')] = new /\ \A j \in 1..Len(rows) : rows'[j] = rows[j]
    BY <2>1 DEF XrayRow, NoExecution
  <2>3. Imported \subseteq Imported' /\ Marked \subseteq Marked' /\ Marked' # Marked
    BY <1>3, <2>1 DEF Imported, Marked
  <2>4. Len(rows') \in 0..Cardinality(Sync)
    <3>1. /\ Marked' \in SUBSET Sync
      BY DEF Marked
    <3>2. /\ Cardinality(Marked) \in Nat /\ Cardinality(Marked') \in Nat
          /\ Cardinality(Marked) + 1 <= Cardinality(Marked')
          /\ Cardinality(Marked') <= Cardinality(Sync)
          /\ Cardinality(Sync) \in Nat
      BY <2>3, <3>1, SubsetCounts
    <3>3. QED
      BY <2>2, <3>2 DEF SyncsAreCounted
  <2>5. XrayTypes'
    BY <1>1, <1>2, <2>1, <2>2, <2>4
  <2>6. SyncsAreCounted'
    BY <1>1, <2>2, <2>3, <2>5, CountsGrow
  <2>7. RecordKnown'
    BY <1>1, <1>2, <1>3, <1>5, <2>1, <2>2 DEF RecordKnown
  <2>8. RowsKnown'
    BY <1>1, <1>2, <1>3, <1>5, <2>1, <2>2 DEF RowsKnown, RecordKnown, NoExecution
  <2>9. SerialKnown'
    BY <1>1, <1>2, <1>3, <1>5, <2>1, <2>2 DEF SerialKnown, Active
  <2>10. CleanKnown'
    <3> SUFFICES ASSUME ~crossed, lost = 0, broken = 0, unnamed = {} PROVE CleanKnown'
      BY <1>1 DEF CleanKnown
    <3>1. Len(rows) = 0 /\ \A t \in Sync : t # s => progress[t] \in {"idle", "over"}
      BY <1>3, <1>5 DEF SerialKnown, Active
    <3>2. executions = 0 /\ keySent[s] = 0
      BY <1>3, <1>5, <3>1 DEF CleanKnown
    <3>3. rows' # <<>> /\ rows'[1].execution = 0
      <4>1. Len(rows') = 1 /\ rows'[1] = new /\ rows' \in Seq(XrayRow)
        BY <2>2, <3>1
      <4>2. rows' # <<>>
        BY <4>1, OneRow
      <4>3. QED
        BY <4>1, <4>2 DEF NoExecution
    <3>4. QED
      BY <1>1, <2>1, <3>1, <3>2, <3>3 DEF CleanKnown
  <2>11. QED
    BY <1>2, <2>5, <2>6, <2>7, <2>8, <2>9, <2>10
<1>6. CASE run # "deleted" /\ record[s] # 0
  <2> DEFINE i == record[s]
             e == [rows[i] EXCEPT !.status = "SYNCING"]
  <2>1. /\ progress' = [progress EXCEPT ![s] = "import"] /\ record' = record
        /\ rows' = [rows EXCEPT ![i] = e]
    BY <1>6 DEF MarkSyncing
  <2>2. i \in 1..Len(rows) /\ rows[i] \in XrayRow
    BY <1>3, <1>6 DEF RecordKnown
  <2>3. e \in XrayRow /\ e.status = "SYNCING" /\ e.execution = rows[i].execution
    BY <2>2 DEF XrayRow
  <2>4. /\ rows' \in Seq(XrayRow) /\ Len(rows') = Len(rows)
        /\ rows'[i] = e /\ \A j \in 1..Len(rows) : j # i => rows'[j] = rows[j]
    BY <2>1, <2>2, <2>3, RowIsWritten
  <2>5. Imported \subseteq Imported' /\ Marked \subseteq Marked'
    BY <1>3, <2>1 DEF Imported, Marked
  <2>6. XrayTypes'
    BY <1>1, <1>2, <2>1, <2>4
  <2>7. SyncsAreCounted'
    BY <1>1, <2>4, <2>5, <2>6, CountsGrow
  <2>8. RecordKnown'
    BY <1>1, <1>2, <1>3, <1>6, <2>1, <2>2, <2>4 DEF RecordKnown
  <2>9. RowsKnown'
    BY <1>1, <1>2, <1>3, <1>6, <2>1, <2>2, <2>3, <2>4 DEF RowsKnown
  <2>10. SerialKnown'
    BY <1>1, <1>2, <1>3, <1>6, <2>1, <2>2, <2>4 DEF SerialKnown, Active
  <2>11. CleanKnown'
    <3> SUFFICES ASSUME ~crossed, lost = 0, broken = 0, unnamed = {} PROVE CleanKnown'
      BY <1>1 DEF CleanKnown
    <3>1. Len(rows) = 1 /\ i = 1 /\ \A t \in Sync : t # s => progress[t] \in {"idle", "over"}
      <4>1. Len(rows) \in Nat /\ Len(rows) <= 1
        BY DEF SerialKnown
      <4>2. Len(rows) = 1 /\ i = 1
        BY <2>2, <4>1, OneRow
      <4>3. QED
        BY <1>3, <4>2 DEF SerialKnown, Active
    <3>2. executions = rows[1].execution /\ keySent[s] = executions /\ executions <= 1
      BY <1>3, <1>6, <3>1 DEF CleanKnown
    <3>3. rows' # <<>> /\ rows'[1].execution = executions
      <4>1. Len(rows') = 1 /\ rows'[1] = e /\ rows' \in Seq(XrayRow)
        BY <2>4, <3>1
      <4>2. rows' # <<>>
        BY <4>1, OneRow
      <4>3. QED
        BY <2>3, <3>1, <3>2, <4>1, <4>2
    <3>4. QED
      BY <1>1, <2>1, <3>1, <3>2, <3>3 DEF CleanKnown
  <2>12. QED
    BY <1>2, <2>6, <2>7, <2>8, <2>9, <2>10, <2>11
<1>7. QED
  BY <1>4, <1>5, <1>6

\* The call to Xray: heard, unheard or refused.
LEMMA ImportKeepsInv ==
  ASSUME XrayIInv, NEW s \in Sync, Import(s) \/ ImportUnheard(s) \/ ImportRefused(s)
  PROVE  XrayIInv'
<1> USE DEF XrayIInv, XrayTypes, Proceeds, Goes
<1>1. /\ UNCHANGED <<controlVars, rows, record, broken, crossed>> /\ progress[s] = "import"
      /\ \E to \in {"import", "store", "fail"} : progress' = [progress EXCEPT ![s] = to]
  BY DEF Import, ImportUnheard, ImportRefused
<1>2. run' = run /\ ControlTypeOK' /\ ControlKnown'
  BY <1>1, ControlUnchanged DEF controlVars
<1>3. Imported \subseteq Imported' /\ Marked \subseteq Marked'
  BY <1>1 DEF Imported, Marked
<1>4. keySent[s] \in Nat /\ executions \in Nat /\ (keySent[s] = 0 \/ executions # 0)
  BY DEF RecordKnown
<1>5. CASE Import(s)
  <2>1. PICK named \in BOOLEAN :
          /\ lost' = lost /\ progress' = [progress EXCEPT ![s] = "store"]
          /\ executions' = IF keySent[s] = 0 THEN executions + 1 ELSE executions
          /\ keySent' = [keySent EXCEPT ![s] = IF ~named THEN 0
                                               ELSE IF keySent[s] = 0 THEN executions' ELSE keySent[s]]
          /\ unnamed' = IF named THEN unnamed ELSE unnamed \cup {s}
    BY <1>5 DEF Import, ImportHappens, NoExecution
  <2>2. XrayTypes'
    BY <1>1, <1>2, <2>1
  <2>3. Imported' # Imported
    BY <1>1, <2>1 DEF Imported
  <2>4. SyncsAreCounted'
    BY <1>1, <1>3, <2>1, <2>2, <2>3, CountsGrow
  <2>5. RecordKnown'
    BY <1>1, <1>2, <1>4, <2>1 DEF RecordKnown, NoExecution
  <2>6. RowsKnown'
    BY <1>1, <1>2, <1>4, <2>1, RowTypesKnown DEF RowsKnown
  <2>7. SerialKnown'
    BY <1>1, <1>2, <2>1 DEF SerialKnown, Active
  <2>8. CleanKnown'
    <3> SUFFICES ASSUME ~crossed, lost = 0, broken = 0, unnamed = {}, named PROVE CleanKnown'
      BY <1>1, <2>1 DEF CleanKnown
    <3>1. \A t \in Sync : t # s => progress[t] \in {"idle", "over"}
      BY <1>1 DEF SerialKnown, Active
    <3>2. keySent[s] = executions /\ executions <= 1
      BY <1>1 DEF CleanKnown
    <3>3. keySent'[s] = executions' /\ executions' <= 1
      BY <1>4, <2>1, <3>2
    <3>4. QED
      BY <1>1, <1>2, <2>1, <3>1, <3>3 DEF CleanKnown
  <2>9. QED
    BY <1>2, <2>2, <2>4, <2>5, <2>6, <2>7, <2>8
<1>6. CASE ImportUnheard(s)
  <2>1. /\ lost' = lost + 1 /\ lost < LostBound /\ UNCHANGED <<keySent, unnamed>>
        /\ executions' = IF keySent[s] = 0 THEN executions + 1 ELSE executions
        /\ \E to \in {"import", "fail"} : progress' = [progress EXCEPT ![s] = to]
    BY <1>6 DEF ImportUnheard, NoExecution
  <2>2. XrayTypes'
    BY <1>1, <1>2, <2>1, XrayAssumption
  <2>3. SyncsAreCounted'
    BY <1>1, <1>3, <2>1, <2>2, CountsGrow
  <2>4. RecordKnown'
    BY <1>1, <1>2, <1>4, <2>1 DEF RecordKnown, NoExecution
  <2>5. RowsKnown'
    BY <1>1, <1>2, <1>4, <2>1, RowTypesKnown DEF RowsKnown
  <2>6. SerialKnown'
    BY <1>1, <1>2, <2>1 DEF SerialKnown, Active
  <2>7. CleanKnown'
    BY <2>1 DEF CleanKnown
  <2>8. QED
    BY <1>2, <2>2, <2>3, <2>4, <2>5, <2>6, <2>7
<1>7. CASE ImportRefused(s)
  <2>1. UNCHANGED <<executions, keySent, lost, unnamed>> /\ progress' = [progress EXCEPT ![s] = "fail"]
    BY <1>7 DEF ImportRefused
  <2>2. XrayTypes'
    BY <1>1, <1>2, <2>1
  <2>3. SyncsAreCounted'
    BY <1>1, <1>3, <2>1, <2>2, CountsGrow
  <2>4. RecordKnown' /\ RowsKnown'
    BY <1>1, <1>2, <2>1 DEF RecordKnown, RowsKnown
  <2>5. SerialKnown'
    BY <1>1, <1>2, <2>1 DEF SerialKnown, Active
  <2>6. CleanKnown'
    <3> SUFFICES ASSUME ~crossed, lost = 0, broken = 0, unnamed = {} PROVE CleanKnown'
      BY <1>1, <2>1 DEF CleanKnown
    <3>1. \A t \in Sync : t # s => progress[t] \in {"idle", "over"}
      BY <1>1 DEF SerialKnown, Active
    <3>2. QED
      BY <1>1, <1>2, <2>1, <3>1 DEF CleanKnown
  <2>7. QED
    BY <1>2, <2>2, <2>3, <2>4, <2>5, <2>6
<1>8. QED
  BY <1>5, <1>6, <1>7

\* A failed write, or the row of a run that is gone: nothing is written.
LEMMA UnwrittenKeepsInv ==
  ASSUME XrayIInv, NEW s \in Sync, NEW to \in {"fail", "over"},
         \/ progress[s] \in {"mark", "store", "fail"} /\ broken' = broken + 1
            /\ broken < BrokenBound
         \/ progress[s] \in {"store", "fail"} /\ broken' = broken /\ run = "deleted",
         progress[s] = "mark" => to = "over",
         Goes(s, to),
         UNCHANGED <<controlVars, rows, executions, record, keySent, lost, unnamed, crossed>>
  PROVE  XrayIInv'
<1> USE DEF XrayIInv, XrayTypes, Goes
<1>1. run' = run /\ ControlTypeOK' /\ ControlKnown'
  BY ControlUnchanged DEF controlVars
<1>2. XrayTypes'
  BY <1>1, XrayAssumption
<1>3. Imported \subseteq Imported' /\ Marked \subseteq Marked'
  BY DEF Imported, Marked
<1>4. SyncsAreCounted'
  BY <1>2, <1>3, CountsGrow
<1>5. RecordKnown'
  BY <1>1 DEF RecordKnown
<1>6. RowsKnown'
  BY <1>1 DEF RowsKnown
<1>7. SerialKnown'
  BY <1>1 DEF SerialKnown, Active
<1>8. CleanKnown'
  <2>1. CASE broken' = broken + 1
    BY <2>1 DEF CleanKnown
  <2>2. CASE broken' = broken
    BY <1>1, <2>2 DEF CleanKnown
  <2>3. QED
    BY <2>1, <2>2
<1>9. QED
  BY <1>1, <1>2, <1>4, <1>5, <1>6, <1>7, <1>8

\* The verdict of the sync is written into its row.
LEMMA StoringKeepsInv ==
  ASSUME XrayIInv, NEW s \in Sync, StoreSynced(s) \/ MarkFailed(s)
  PROVE  XrayIInv'
<1> USE DEF XrayIInv, XrayTypes, Proceeds
<1>1. UNCHANGED <<controlVars, executions, record, keySent, lost, broken, unnamed, crossed>>
  BY DEF StoreSynced, MarkFailed
<1>2. run' = run /\ ControlTypeOK' /\ ControlKnown'
  BY <1>1, ControlUnchanged DEF controlVars
<1>3. CASE run = "deleted"
  BY <1>1, <1>3, UnwrittenKeepsInv DEF StoreSynced, MarkFailed
<1>4. CASE run # "deleted"
  <2> DEFINE i == record[s]
             e == IF progress[s] = "store" THEN [status |-> "SYNCED", execution |-> keySent[s]]
                  ELSE [rows[i] EXCEPT !.status = "FAILED"]
  <2>1. /\ progress' = [progress EXCEPT ![s] = "over"] /\ progress[s] \in {"store", "fail"}
        /\ rows' = [rows EXCEPT ![i] = e]
    BY <1>4 DEF StoreSynced, MarkFailed, Goes
  <2>2. i \in 1..Len(rows) /\ rows[i] \in XrayRow /\ Len(rows) \in Nat
    BY <1>4, <2>1 DEF RecordKnown
  <2>3. /\ e \in XrayRow /\ e.status \in {"SYNCED", "FAILED"}
        /\ e.execution = IF progress[s] = "store" THEN keySent[s] ELSE rows[i].execution
        /\ e.status = "SYNCED" => progress[s] = "store"
    BY <2>2 DEF XrayRow
  <2>4. /\ rows' \in Seq(XrayRow) /\ Len(rows') = Len(rows)
        /\ rows'[i] = e /\ \A j \in 1..Len(rows) : j # i => rows'[j] = rows[j]
    <3> HIDE DEF e
    <3>1. QED
      BY <2>1, <2>2, <2>3, RowIsWritten
  <2>5. Imported \subseteq Imported' /\ Marked \subseteq Marked'
    BY <2>1 DEF Imported, Marked
  <2>6. XrayTypes'
    BY <1>1, <1>2, <2>1, <2>4
  <2>7. SyncsAreCounted'
    BY <1>1, <2>4, <2>5, <2>6, CountsGrow
  <2>8. RecordKnown'
    BY <1>1, <1>2, <2>1, <2>4 DEF RecordKnown
  <2>9. RowsKnown'
    BY <1>1, <1>2, <1>4, <2>1, <2>2, <2>3, <2>4 DEF RowsKnown, RecordKnown
  <2>10. SerialKnown'
    BY <1>1, <1>2, <2>1, <2>4 DEF SerialKnown, Active
  <2>11. CleanKnown'
    <3> SUFFICES ASSUME ~crossed, lost = 0, broken = 0, unnamed = {} PROVE CleanKnown'
      BY <1>1 DEF CleanKnown
    <3>1. \A t \in Sync : t # s => progress[t] \in {"idle", "over"}
      BY <2>1 DEF SerialKnown, Active
    <3>2. Len(rows) = 1 /\ i = 1 /\ Len(rows') = 1
      <4>1. Len(rows) <= 1
        BY DEF SerialKnown
      <4>2. QED
        BY <2>2, <2>4, <4>1, OneRow
    <3>3. rows # <<>> /\ rows' # <<>>
      BY <2>4, <3>2, OneRow
    <3>4. /\ executions <= 1
          /\ progress[s] = "store" => keySent[s] = executions
          /\ progress[s] = "fail" => rows[1].execution = executions
      BY <1>4, <2>1, <3>1, <3>3 DEF CleanKnown
    <3>5. rows'[1].execution = executions
      BY <2>1, <2>3, <2>4, <3>2, <3>4
    <3>6. \A t \in Sync : progress'[t] \in {"idle", "over"}
      BY <2>1, <3>1
    <3>7. QED
      BY <1>1, <1>2, <3>3, <3>4, <3>5, <3>6 DEF CleanKnown
  <2>12. QED
    BY <1>2, <2>6, <2>7, <2>8, <2>9, <2>10, <2>11
<1>5. QED
  BY <1>3, <1>4

LEMMA CrashKeepsInv ==
  ASSUME XrayIInv, XrayCrash
  PROVE  XrayIInv'
<1> USE DEF XrayIInv, XrayTypes, XrayCrash
<1>1. run' = run /\ ControlTypeOK' /\ ControlKnown'
  BY ControlUnchanged DEF controlVars
<1>2. XrayTypes'
  BY <1>1, XrayAssumption
<1>3. Imported \subseteq Imported' /\ Marked \subseteq Marked'
  BY DEF Imported, Marked, Active
<1>4. SyncsAreCounted'
  BY <1>2, <1>3, CountsGrow
<1>5. RecordKnown' /\ RowsKnown'
  BY <1>1 DEF RecordKnown, RowsKnown, Active
<1>6. SerialKnown' /\ CleanKnown'
  BY <1>1 DEF SerialKnown, CleanKnown, Active
<1>7. QED
  BY <1>1, <1>2, <1>4, <1>5, <1>6

LEMMA XrayInvStep == XrayIInv /\ [XrayNext]_xrayVars => XrayIInv'
<1> SUFFICES ASSUME XrayIInv, [XrayNext]_xrayVars PROVE XrayIInv'
  OBVIOUS
<1>1. ASSUME NEW c \in Call, ControlStep(c) PROVE XrayIInv'
  BY <1>1, ControlStepKeepsInv
<1>2. ASSUME NEW s \in Sync, SyncByHand(s) PROVE XrayIInv'
  <2>1. ControlTypeOK' /\ ControlKnown' /\ run' = run
    BY <1>2, ControlUnchanged DEF SyncByHand, XrayIInv, XrayTypes, controlVars
  <2>2. QED
    BY <1>2, <2>1, BeginsKeepsInv DEF SyncByHand
<1>3. ASSUME NEW s \in Sync, syncTestRun(s) PROVE XrayIInv'
  BY <1>3, ReadingKeepsInv, MarkingKeepsInv, ImportKeepsInv, StoringKeepsInv DEF syncTestRun
<1>4. ASSUME NEW s \in Sync, WriteFails(s) PROVE XrayIInv'
  BY <1>4, UnwrittenKeepsInv DEF WriteFails, Proceeds
<1>5. ASSUME XrayCrash PROVE XrayIInv'
  BY <1>5, CrashKeepsInv
<1>6. CASE UNCHANGED xrayVars
  <2>1. ControlTypeOK' /\ ControlKnown' /\ run' = run
    BY <1>6, ControlUnchanged DEF xrayVars, XrayIInv, XrayTypes, controlVars
  <2>2. QED
    BY <1>6, <2>1, BeginsKeepsInv DEF xrayVars
<1>7. QED
  BY <1>1, <1>2, <1>3, <1>4, <1>5, <1>6 DEF XrayNext

LEMMA XrayInvImplies == XrayIInv => XrayInv
<1> SUFFICES ASSUME XrayIInv PROVE XrayInv
  OBVIOUS
<1> USE DEF XrayIInv, XrayTypes
<1>1. /\ Cardinality(Marked) \in Nat /\ Cardinality(Imported) \in Nat /\ Cardinality(Sync) \in Nat
      /\ Cardinality(Imported) <= Cardinality(Sync)
  <2>1. Imported \in SUBSET Sync /\ Marked \in SUBSET Sync
    BY DEF Imported, Marked
  <2>2. IsFiniteSet(Sync)
    BY XrayAssumption
  <2>3. QED
    BY <2>1, <2>2, SubsetCounts, FS_CardinalityType
<1>2. executions \in Key /\ \A n \in Nat : n <= executions => n \in Key
  BY <1>1, XrayAssumption DEF SyncsAreCounted, Key
<1>3. \A i \in 1..Len(rows) : rows[i].execution \in Key /\ rows[i] \in XrayRow
  BY <1>2, RowTypesKnown DEF RowsKnown
<1>4. rows \in Seq([status : {"SYNCING", "SYNCED", "FAILED"}, execution : Key])
  <2>1. \A i \in 1..Len(rows) : rows[i] \in [status : {"SYNCING", "SYNCED", "FAILED"},
        execution : Key]
    BY <1>3 DEF XrayRow
  <2>2. \A T : (\A i \in 1..Len(rows) : rows[i] \in T) => rows \in Seq(T)
    <3>1. rows \in [1..Len(rows) -> XrayRow] /\ Len(rows) \in Nat
      OBVIOUS
    <3>2. QED
      BY <3>1
  <2>3. QED
    BY <2>1, <2>2
<1>5. keySent \in [Sync -> Key]
  BY <1>2 DEF RecordKnown
<1>6. XrayTypeOK
  BY <1>2, <1>4, <1>5 DEF XrayTypeOK
<1>7. SyncedNamesExecution
  BY RowTypesKnown DEF SyncedNamesExecution, RowsKnown, NoExecution
<1>8. SerialSyncsShareTheRow /\ SerialSyncsShareTheExecution
  BY DEF SerialSyncsShareTheRow, SerialSyncsShareTheExecution, SerialKnown, CleanKnown
<1>9. NoRowIsLeftSyncing
  <2> SUFFICES ASSUME Active = {}, broken = 0, NEW i \in DOMAIN rows, rows[i].status = "SYNCING"
               PROVE  FALSE
    BY DEF NoRowIsLeftSyncing
  <2>1. PICK s \in Sync : progress[s] \in {"import", "store", "fail"}
    BY DEF RowsKnown
  <2>2. QED
    BY <2>1 DEF Active
<1>10. QED
  BY <1>6, <1>7, <1>8, <1>9 DEF XrayInv

\* One run and its syncs (xray.service.ts, testRun.service.ts), for any number of syncs and
\* calls, any number of lost answers and failed writes: at most as many executions as syncs
\* and lost answers, one if syncs follow one another, nothing fails and every answer names the
\* execution; a row that says SYNCED names one that Xray has, or none only because a sync of
\* that row was answered without a key; and none says SYNCING when nobody syncs.
THEOREM XrayTheorem == XraySpec => []XrayInv
<1>1. XraySpec => []XrayIInv
  BY XrayInvInit, XrayInvStep, PTL DEF XraySpec
<1>2. QED
  BY <1>1, XrayInvImplies, PTL
-----------------------------------------------------------------------------
\* The watch of a build

\* Ticks that have counted their time, or never will.
TicksDone == {i \in Tick : tick[i] \in {"expiring", "over", "failing", "lost"}}

JenkinsTypes ==
  /\ build \in {"building", "success", "failure"}
  /\ testRun \in {"RUNNING", "PASSED", "FAILED"}
  /\ interval \in BOOLEAN
  /\ tick \in [Tick -> {"none", "asking", "storing", "counting", "expiring", "failing", "over",
     "lost"}]
  /\ elapsed \in Nat
  /\ trouble \in 0..TroubleBound
  /\ jostled \in BOOLEAN

\* Time is counted once per tick.
TimeKnown == elapsed <= Cardinality(TicksDone)

\* What brought a tick where it is.
TicksKnown ==
  \A i \in Tick :
    /\ tick[i] = "storing" => build # "building" /\ ~interval
    /\ tick[i] = "expiring" => elapsed >= Hour
    /\ tick[i] = "failing" => trouble > 0 /\ ~interval

\* Ticks that follow one another: the one that stored the verdict was the last.
LastKnown ==
  ~jostled =>
    /\ \A i, j \in InFlight : i = j
    /\ testRun = "PASSED" =>
         ~interval /\ \A i \in InFlight : tick[i] = "counting" \/ elapsed >= Hour

\* When the hour was counted, a run that is not FAILED has a tick that will see to it.
HourIsUp ==
  elapsed >= Hour /\ testRun # "FAILED" =>
    \E i \in Tick : tick[i] \in {"expiring", "failing", "lost", "counting"}

JenkinsIInv ==
  JenkinsTypes /\ TimeKnown /\ TicksKnown /\ LastKnown /\ HourIsUp /\ VerdictIsTrue

LEMMA TicksCounted ==
  /\ Cardinality(TicksDone) \in Nat /\ Cardinality(TicksDone) <= TickBound
  /\ Cardinality(TicksDone') \in Nat
  /\ TicksDone \subseteq TicksDone' => Cardinality(TicksDone) <= Cardinality(TicksDone')
  /\ TicksDone \subseteq TicksDone' /\ TicksDone # TicksDone' => Cardinality(TicksDone) + 1 <= Cardinality(TicksDone')
  /\ TicksDone # Tick => Cardinality(TicksDone) < TickBound
<1>1. IsFiniteSet(Tick) /\ Cardinality(Tick) = TickBound
  BY JenkinsAssumption, FS_Interval DEF Tick
<1>2. TicksDone \subseteq Tick /\ TicksDone' \subseteq Tick
  BY DEF TicksDone
<1>3. IsFiniteSet(TicksDone) /\ IsFiniteSet(TicksDone')
  BY <1>1, <1>2, FS_Subset
<1>4. /\ Cardinality(TicksDone) \in Nat /\ Cardinality(TicksDone') \in Nat
      /\ Cardinality(TicksDone) <= TickBound
      /\ TicksDone # Tick => Cardinality(TicksDone) < TickBound
  BY <1>1, <1>2, <1>3, FS_Subset, FS_CardinalityType
<1>5. TicksDone \subseteq TicksDone' =>
        /\ Cardinality(TicksDone) <= Cardinality(TicksDone')
        /\ TicksDone # TicksDone' => Cardinality(TicksDone) < Cardinality(TicksDone')
  BY <1>3, <1>4, FS_Subset
<1>6. QED
  BY <1>4, <1>5

\* A step of a tick, or of the build, that keeps the time.
LEMMA TimeStands ==
  ASSUME JenkinsIInv, UNCHANGED elapsed, TicksDone \subseteq TicksDone'
  PROVE  TimeKnown'
BY TicksCounted DEF JenkinsIInv, JenkinsTypes, TimeKnown

LEMMA JenkinsInvInit == JenkinsInit => JenkinsIInv
<1> SUFFICES ASSUME JenkinsInit PROVE JenkinsIInv
  OBVIOUS
<1>1. TimeKnown
  BY TicksCounted DEF JenkinsInit, TimeKnown
<1>2. JenkinsTypes
  <2>1. tick \in [Tick -> {"none", "asking", "storing", "counting", "expiring", "failing",
        "over", "lost"}]
    BY DEF JenkinsInit
  <2>2. elapsed \in Nat /\ trouble \in 0..TroubleBound
    BY JenkinsAssumption DEF JenkinsInit
  <2>3. QED
    BY <2>1, <2>2 DEF JenkinsInit, JenkinsTypes
<1>3. TicksKnown /\ LastKnown /\ HourIsUp /\ VerdictIsTrue
  BY JenkinsAssumption DEF JenkinsInit, TicksKnown, LastKnown, InFlight, HourIsUp, VerdictIsTrue
<1>4. QED
  BY <1>1, <1>2, <1>3 DEF JenkinsIInv

LEMMA JenkinsInvStep == JenkinsIInv /\ [JenkinsNext]_jenkinsVars => JenkinsIInv'
<1> SUFFICES ASSUME JenkinsIInv, [JenkinsNext]_jenkinsVars PROVE JenkinsIInv'
  OBVIOUS
<1> USE JenkinsAssumption DEF JenkinsIInv, JenkinsTypes, TicksKnown, LastKnown, InFlight,
    HourIsUp, VerdictIsTrue, TickMoves, Troubled
<1>1. CASE UNCHANGED jenkinsVars
  BY <1>1 DEF jenkinsVars, TimeKnown, TicksDone
<1>2. CASE BuildEnds
  <2>1. TimeKnown'
    BY <1>2, TimeStands DEF BuildEnds, TicksDone
  <2>2. QED
    BY <1>2, <2>1 DEF BuildEnds
<1>3. ASSUME NEW i \in Tick, TickStarts(i) PROVE JenkinsIInv'
  <2>1. TimeKnown'
    BY <1>3, TimeStands DEF TickStarts, TicksDone
  <2>2. QED
    BY <1>3, <2>1 DEF TickStarts
<1>4. ASSUME NEW i \in Tick, BuildAnswered(i) PROVE JenkinsIInv'
  <2>1. TimeKnown'
    BY <1>4, TimeStands DEF BuildAnswered, TicksDone
  <2>2. QED
    BY <1>4, <2>1 DEF BuildAnswered
<1>5. ASSUME NEW i \in Tick, processBuildCompletion(i) PROVE JenkinsIInv'
  <2>1. TimeKnown'
    BY <1>5, TimeStands DEF processBuildCompletion, TicksDone
  <2>2. QED
    BY <1>5, <2>1 DEF processBuildCompletion
<1>6. ASSUME NEW i \in Tick, CountTime(i) PROVE JenkinsIInv'
  <2>1. /\ tick[i] = "counting" /\ elapsed' = elapsed + 1
        /\ tick' = [tick EXCEPT ![i] = IF elapsed' >= Hour THEN "expiring" ELSE "over"]
        /\ interval' = IF elapsed' >= Hour THEN FALSE ELSE interval
        /\ UNCHANGED <<build, testRun, trouble, jostled>>
    BY <1>6 DEF CountTime
  <2>2. TicksDone \subseteq TicksDone' /\ TicksDone # TicksDone' /\ TicksDone # Tick
    BY <2>1 DEF TicksDone
  <2>3. HourIsUp'
    BY <2>1
  <2>4. TimeKnown'
    BY <2>1, <2>2, TicksCounted DEF TimeKnown
  <2>5. JenkinsTypes'
    <3>1. tick' \in [Tick -> {"none", "asking", "storing", "counting", "expiring", "failing",
          "over", "lost"}]
      BY <2>1
    <3>2. elapsed' \in Nat
      BY <2>1
    <3>3. interval' \in BOOLEAN
      <4>1. CASE elapsed' >= Hour
        BY <2>1, <4>1
      <4>2. CASE ~(elapsed' >= Hour)
        BY <2>1, <4>2
      <4>3. QED
        BY <4>1, <4>2
    <3>4. QED
      BY <2>1, <3>1, <3>3, <3>2
  <2>6. TicksKnown'
    BY <2>1
  <2>7. LastKnown'
    BY <2>1
  <2>8. VerdictIsTrue'
    BY <2>1
  <2>9. QED
    BY <2>3, <2>4, <2>5, <2>6, <2>7, <2>8
<1>7. ASSUME NEW i \in Tick, Expire(i) PROVE JenkinsIInv'
  <2>1. TimeKnown'
    BY <1>7, TimeStands DEF Expire, TicksDone
  <2>2. QED
    BY <1>7, <2>1 DEF Expire
<1>8. ASSUME NEW i \in Tick, MarkTickFailed(i) PROVE JenkinsIInv'
  <2>1. TimeKnown'
    BY <1>8, TimeStands DEF MarkTickFailed, TicksDone
  <2>2. QED
    BY <1>8, <2>1 DEF MarkTickFailed
<1>9. ASSUME NEW i \in Tick, TickFails(i) PROVE JenkinsIInv'
  <2>1. TimeKnown'
    BY <1>9, TimeStands DEF TickFails, TicksDone
  <2>2. /\ trouble' = trouble + 1 /\ trouble < TroubleBound /\ interval' = FALSE
        /\ tick[i] \in {"asking", "storing", "expiring"} /\ tick' = [tick EXCEPT ![i] = "failing"]
        /\ UNCHANGED <<build, testRun, elapsed, jostled>>
    BY <1>9 DEF TickFails
  <2>3. trouble' \in 0..TroubleBound /\ trouble' > 0
    BY <2>2
  <2>4. JenkinsTypes'
    BY <2>2, <2>3
  <2>5. TicksKnown'
    BY <2>2, <2>3
  <2>6. VerdictIsTrue'
    BY <2>2, <2>3
  <2>7. LastKnown'
    <3> SUFFICES ASSUME ~jostled' PROVE LastKnown'
      OBVIOUS
    <3>1. ~jostled
      BY <2>2
    <3>2. i \in InFlight /\ InFlight' = InFlight
      BY <2>2
    <3>3. testRun = "PASSED" => elapsed >= Hour
      BY <2>2, <3>1, <3>2
    <3>4. QED
      BY <2>2, <3>1, <3>2, <3>3
  <2>8. HourIsUp'
    BY <2>2
  <2>9. QED
    BY <2>1, <2>6, <2>4, <2>5, <2>7, <2>8
<1>10. ASSUME NEW i \in Tick, TickLost(i) PROVE JenkinsIInv'
  <2>1. TimeKnown'
    BY <1>10, TimeStands DEF TickLost, TicksDone
  <2>2. QED
    BY <1>10, <2>1 DEF TickLost
<1>11. QED
  BY <1>1, <1>2, <1>3, <1>4, <1>5, <1>6, <1>7, <1>8, <1>9, <1>10 DEF JenkinsNext, TickProceeds

LEMMA JenkinsInvImplies == JenkinsIInv => JenkinsInv
<1> SUFFICES ASSUME JenkinsIInv PROVE JenkinsInv
  OBVIOUS
<1>1. JenkinsTypeOK
  BY TicksCounted, JenkinsAssumption DEF JenkinsIInv, JenkinsTypes, TimeKnown, JenkinsTypeOK
<1>2. TheHourDecides
  BY DEF JenkinsIInv, HourIsUp, InFlight, TheHourDecides
<1>3. QED
  BY <1>1, <1>2 DEF JenkinsIInv, JenkinsInv

\* The watch of a build (jenkins.service.ts), for any limit of time and any number of ticks
\* beyond it: PASSED says what the build was, FAILED that the build failed, the time was up or
\* a call failed; and when the hour was counted and no tick is left in flight the run says
\* FAILED, whichever tick stored its verdict late, unless the write of a catch failed.
THEOREM JenkinsTheorem == JenkinsSpec => []JenkinsInv
<1>1. JenkinsSpec => []JenkinsIInv
  BY JenkinsInvInit, JenkinsInvStep, PTL DEF JenkinsSpec
<1>2. QED
  BY <1>1, JenkinsInvImplies, PTL

LEMMA VerdictStep ==
  ASSUME JenkinsIInv, [JenkinsNext]_jenkinsVars, testRun = "PASSED",
    trouble' = 0 \/ ~jostled', elapsed' < Hour
  PROVE  testRun' = "PASSED"
<1> USE JenkinsAssumption DEF JenkinsIInv, JenkinsTypes, TicksKnown, LastKnown, InFlight,
    VerdictIsTrue, TickMoves
<1>1. elapsed' >= elapsed
  BY DEF JenkinsNext, jenkinsVars, BuildEnds, TickStarts, TickProceeds, BuildAnswered,
     processBuildCompletion, CountTime, Expire, MarkTickFailed, TickFails, TickLost
<1>2. (~jostled' => ~jostled) /\ (trouble' = 0 => trouble = 0)
  BY DEF JenkinsNext, jenkinsVars, BuildEnds, TickStarts, TickProceeds, BuildAnswered,
     processBuildCompletion, CountTime, Expire, MarkTickFailed, TickFails, TickLost, Troubled
<1>3. ASSUME NEW i \in Tick, Expire(i) \/ MarkTickFailed(i)
      PROVE  FALSE
  BY <1>1, <1>2, <1>3 DEF Expire, MarkTickFailed
<1>4. ASSUME NEW i \in Tick, processBuildCompletion(i)
      PROVE  testRun' = "PASSED"
  BY <1>4 DEF processBuildCompletion
<1>5. QED
  BY <1>3, <1>4 DEF JenkinsNext, jenkinsVars, BuildEnds, TickStarts, TickProceeds, BuildAnswered,
     CountTime, TickFails, TickLost
-----------------------------------------------------------------------------
\* Publications

\* A publisher that has written its page knows it is there.
PublishIInv ==
  /\ PublishTypeOK
  /\ PagesAreMapped
  /\ \A p \in Publisher : publishing[p] \in {"labelling", "mapping"} => page[document[p]] > 0

LEMMA PublishInvInit == PublishInit => PublishIInv
BY PublishAssumption
DEF PublishInit, PublishIInv, PublishTypeOK, PagesAreMapped, Document, Ended

LEMMA PublishInvStep == PublishIInv /\ [PublishNext]_publishVars => PublishIInv'
<1> SUFFICES ASSUME PublishIInv, [PublishNext]_publishVars PROVE PublishIInv'
  OBVIOUS
<1> USE PublishAssumption DEF PublishIInv, PublishTypeOK, PagesAreMapped, Turns, Mishap, Ended
<1>1. CASE UNCHANGED publishVars
  BY <1>1 DEF publishVars
<1>2. ASSUME NEW p \in Publisher, Publish(p) PROVE PublishIInv'
  <2>1. CASE BeginPublish(p)
    BY <2>1 DEF BeginPublish
  <2>2. CASE findPageByTitle(p)
    BY <2>2 DEF findPageByTitle
  <2>3. CASE FindFails(p)
    BY <2>3 DEF FindFails
  <2>4. CASE WritePage(p)
    BY <2>4 DEF WritePage, WriteIt
  <2>5. CASE WriteRefused(p)
    BY <2>5 DEF WriteRefused
  <2>6. CASE PageWriteFails(p)
    BY <2>6 DEF PageWriteFails, WriteIt
  <2>7. CASE addLabels(p)
    BY <2>7 DEF addLabels
  <2>8. CASE MapPage(p)
    BY <2>8 DEF MapPage
  <2>9. CASE MapFails(p)
    BY <2>9 DEF MapFails
  <2>10. QED
    BY <1>2, <2>1, <2>2, <2>3, <2>4, <2>5, <2>6, <2>7, <2>8, <2>9 DEF Publish
<1>3. ASSUME NEW d \in Document, EditElsewhere(d) PROVE PublishIInv'
  BY <1>3 DEF EditElsewhere
<1>4. QED
  BY <1>1, <1>2, <1>3 DEF PublishNext

\* Publications of analyses (confluence-publisher.ts), for any publishers, however they
\* overlap and whatever fails: what the mapping names is a page that exists.
THEOREM PublishTheorem == PublishSpec => []PublishInv
<1>1. PublishIInv => PublishInv
  BY DEF PublishIInv, PublishInv
<1>2. QED
  BY <1>1, PublishInvInit, PublishInvStep, PTL DEF PublishSpec

LEMMA PublicationStep ==
  ASSUME PublishIInv, [PublishNext]_publishVars, NEW p \in Publisher,
         publishing[p] = "writing", publishing'[p] # "writing", page' # page
  PROVE  page[document[p]] = found[p]
<1> USE DEF PublishIInv, PublishTypeOK, Turns, Mishap
<1>1. ASSUME NEW q \in Publisher, Publish(q) PROVE page[document[p]] = found[p]
  <2>1. q = p
    BY <1>1 DEF Publish, BeginPublish, findPageByTitle, FindFails, WritePage, WriteRefused,
       PageWriteFails, addLabels, MapPage, MapFails
  <2>2. QED
    BY <1>1, <2>1 DEF Publish, BeginPublish, findPageByTitle, FindFails, WritePage, WriteRefused,
       PageWriteFails, addLabels, MapPage, MapFails
<1>2. QED
  BY <1>1 DEF PublishNext, publishVars, EditElsewhere
-----------------------------------------------------------------------------
\* Requests to other systems

Doings == {"ask", "make", "put", "find", "store", "note", "judge"}
Licences == {"skip", "fail", "stop", "hang"}
StepRecord == [does : Doings, tries : 1..3, may : SUBSET Licences]
StepSeq == Seq(StepRecord)

LEMMA DeedTyped == ASSUME NEW d \in Doings, NEW t \in 1..3 PROVE Deed(d, t) \in StepRecord
BY DEF StepRecord, Deed

LEMMA Deeds ==
  /\ Ask(1) \in StepRecord /\ Ask(2) \in StepRecord /\ Ask(3) \in StepRecord
  /\ Make(1) \in StepRecord /\ Make(2) \in StepRecord /\ Make(3) \in StepRecord
  /\ Put(1) \in StepRecord /\ Put(3) \in StepRecord
  /\ Find \in StepRecord /\ Store \in StepRecord /\ Note \in StepRecord /\ AnyDone \in StepRecord
<1>1. \A t \in 1..3 : Ask(t) \in StepRecord /\ Make(t) \in StepRecord /\ Put(t) \in StepRecord
  BY DeedTyped DEF Ask, Make, Put, Doings
<1>2. Find \in StepRecord /\ Store \in StepRecord /\ Note \in StepRecord /\ AnyDone \in StepRecord
  BY DeedTyped DEF Find, Store, Note, AnyDone, Doings
<1>3. 1 \in 1..3 /\ 2 \in 1..3 /\ 3 \in 1..3  OBVIOUS
<1>4. QED BY <1>1, <1>2, <1>3

LEMMA Allowances ==
  ASSUME NEW s \in StepRecord
  PROVE  /\ Perhaps(s) \in StepRecord /\ Tolerant(s) \in StepRecord /\ Sufficient(s) \in StepRecord
         /\ Untimed(s) \in StepRecord /\ Monday(s) \in StepRecord
<1>1. \A w \in Licences : Allow(w, s) \in StepRecord
  BY DEF Allow, StepRecord
<1>2. Perhaps(s) \in StepRecord BY <1>1 DEF Perhaps, Licences
<1>3. Tolerant(s) \in StepRecord BY <1>1 DEF Tolerant, Licences
<1>4. Sufficient(s) \in StepRecord BY <1>1 DEF Sufficient, Licences
<1>5. Untimed(s) \in StepRecord BY <1>1 DEF Untimed, Licences
<1>6. QED BY <1>2, <1>3, <1>4, <1>5 DEF Monday

LEMMA Rounds == ASSUME NEW s \in StepRecord, NEW n \in Int PROVE UpTo(n, s) \in StepSeq
<1>1. Perhaps(s) \in StepRecord
  BY Allowances
<1>2. CASE n \in Nat
  BY <1>1, <1>2 DEF UpTo, StepSeq
<1>3. CASE n \notin Nat
  <2>1. 1..n = 1..0
    BY <1>3
  <2>2. UpTo(n, s) = [i \in 1..0 |-> Perhaps(s)]
    BY <2>1 DEF UpTo
  <2>3. QED BY <1>1, <2>2 DEF StepSeq
<1>4. QED BY <1>2, <1>3

LEMMA OneStep == ASSUME NEW a \in StepRecord PROVE <<a>> \in StepSeq
BY DEF StepSeq

LEMMA TwoSteps == ASSUME NEW a \in StepRecord, NEW b \in StepRecord PROVE <<a, b>> \in StepSeq
BY DEF StepSeq

LEMMA ThreeSteps == ASSUME NEW a \in StepRecord, NEW b \in StepRecord, NEW c \in StepRecord
  PROVE <<a, b, c>> \in StepSeq
BY DEF StepSeq

LEMMA FourSteps == ASSUME NEW a \in StepRecord, NEW b \in StepRecord, NEW c \in StepRecord,
  NEW d \in StepRecord PROVE <<a, b, c, d>> \in StepSeq
BY DEF StepSeq

LEMMA FiveSteps == ASSUME NEW a \in StepRecord, NEW b \in StepRecord, NEW c \in StepRecord,
  NEW d \in StepRecord, NEW e \in StepRecord
              PROVE  <<a, b, c, d, e>> \in StepSeq
BY DEF StepSeq

ServiceTyped(service) == \A method \in DOMAIN service : service[method] \in StepSeq

LEMMA StepsJoined == ASSUME NEW p \in StepSeq, NEW q \in StepSeq PROVE p \o q \in StepSeq
BY DEF StepSeq

LEMMA JiraTyped ==
  /\ ServiceTyped(jiraIssues)
  /\ ServiceTyped(jiraOperations)
  /\ linkTestRun \in StepSeq
  /\ searchSimilarIssues \in StepSeq
<1> USE Deeds, Allowances
<1>1. ServiceTyped(jiraIssues)  BY OneStep, TwoSteps, FourSteps DEF ServiceTyped, jiraIssues
<1>2. ServiceTyped(jiraOperations)  BY OneStep, TwoSteps DEF ServiceTyped, jiraOperations
<1>3. linkTestRun \in StepSeq  BY ThreeSteps DEF linkTestRun
<1>4. searchSimilarIssues \in StepSeq  BY OneStep DEF searchSimilarIssues
<1>5. QED  BY <1>1, <1>2, <1>3, <1>4

LEMMA TestRailTyped ==
  /\ ServiceTyped(testRailReads)
  /\ ServiceTyped(testRailWrites)
<1> USE Deeds, Allowances
<1>1. ServiceTyped(testRailReads)  BY OneStep DEF ServiceTyped, testRailReads
<1>2. ServiceTyped(testRailWrites)  BY OneStep, TwoSteps DEF ServiceTyped, testRailWrites
<1>3. QED  BY <1>1, <1>2

LEMMA MondayTyped ==
  /\ ServiceTyped(mondayReads)
  /\ ServiceTyped(mondayItems)
  /\ ServiceTyped(mondayUpdates)
  /\ ServiceTyped(mondaySearch)
<1> USE Deeds, Allowances
<1>1. ServiceTyped(mondayReads)  BY OneStep DEF ServiceTyped, mondayReads
<1>2. ServiceTyped(mondayItems)  BY OneStep DEF ServiceTyped, mondayItems
<1>3. ServiceTyped(mondayUpdates)  BY OneStep, TwoSteps DEF ServiceTyped, mondayUpdates
<1>4. ServiceTyped(mondaySearch)  BY OneStep DEF ServiceTyped, mondaySearch
<1>5. QED  BY <1>1, <1>2, <1>3, <1>4

LEMMA AzureTyped ==
  /\ ServiceTyped(azurePipelines)
  /\ ServiceTyped(azureBuilds)
  /\ ServiceTyped(azureWorkItems)
  /\ ServiceTyped(azureWorkItemWrites)
  /\ ServiceTyped(azureWiki)
  /\ ServiceTyped(azureRepositories)
  /\ ServiceTyped(azureTestRuns)
  /\ ServiceTyped(azureTeams)
<1> USE Deeds, Allowances
<1>1. ServiceTyped(azurePipelines)  BY OneStep DEF ServiceTyped, azurePipelines
<1>2. ServiceTyped(azureBuilds)  BY OneStep DEF ServiceTyped, azureBuilds
<1>3. ServiceTyped(azureWorkItems)  BY OneStep DEF ServiceTyped, azureWorkItems
<1>4. ServiceTyped(azureWorkItemWrites)  BY OneStep, TwoSteps DEF ServiceTyped,
      azureWorkItemWrites
<1>5. ServiceTyped(azureWiki)  BY OneStep DEF ServiceTyped, azureWiki
<1>6. ServiceTyped(azureRepositories)  BY OneStep DEF ServiceTyped, azureRepositories
<1>7. ServiceTyped(azureTestRuns)  BY OneStep DEF ServiceTyped, azureTestRuns
<1>8. ServiceTyped(azureTeams)  BY OneStep DEF ServiceTyped, azureTeams
<1>9. QED  BY <1>1, <1>2, <1>3, <1>4, <1>5, <1>6, <1>7, <1>8

LEMMA GitHubTyped ==
  /\ ServiceTyped(githubReads)
  /\ ServiceTyped(githubWrites)
  /\ ServiceTyped(githubChanges)
<1> USE Deeds, Allowances
<1>1. ServiceTyped(githubReads)  BY OneStep DEF ServiceTyped, githubReads
<1>2. ServiceTyped(githubWrites)  BY OneStep, TwoSteps DEF ServiceTyped, githubWrites
<1>3. ServiceTyped(githubChanges)  BY OneStep, TwoSteps DEF ServiceTyped, githubChanges
<1>4. QED  BY <1>1, <1>2, <1>3

LEMMA ReadsTyped ==
  /\ ServiceTyped(confluenceSpaces)
  /\ ServiceTyped(confluenceReads)
  /\ ServiceTyped(xrayRecords)
  /\ ServiceTyped(pipelines)
  /\ ServiceTyped(pipelineRuns)
<1> USE Deeds, Allowances
<1>1. ServiceTyped(confluenceSpaces)  BY OneStep DEF ServiceTyped, confluenceSpaces
<1>2. ServiceTyped(confluenceReads)  BY OneStep DEF ServiceTyped, confluenceReads
<1>3. ServiceTyped(xrayRecords)  BY OneStep DEF ServiceTyped, xrayRecords
<1>4. ServiceTyped(pipelines)  BY OneStep, TwoSteps, ThreeSteps DEF ServiceTyped, pipelines
<1>5. ServiceTyped(pipelineRuns)  BY OneStep, TwoSteps DEF ServiceTyped, pipelineRuns
<1>6. QED  BY <1>1, <1>2, <1>3, <1>4, <1>5

LEMMA LoopsTyped ==
  /\ ServiceTyped(jenkinsPipelines)
  /\ jira_link_issues \in StepSeq
<1> USE Deeds, Allowances
<1> USE OutsideAssumption, Rounds, StepsJoined
<1>1. UpTo(ItemBound, Ask(1)) \in StepSeq  OBVIOUS
<1>2. <<Store, Make(2)>> \in StepSeq /\ <<Ask(1),
      Note>> \in StepSeq /\ <<Ask(2)>> \in StepSeq  BY OneStep, TwoSteps
<1>3. <<Store, Make(2)>> \o UpTo(ItemBound, Ask(1)) \o <<Ask(1), Note>> \in StepSeq  BY <1>1, <1>2
<1> DEFINE start == <<Store, Make(2)>> \o UpTo(ItemBound, Ask(1)) \o <<Ask(1), Note>>
<1>4. ServiceTyped(jenkinsPipelines)
  <2>1. jenkinsPipelines = [validateConnection |-> <<Ask(2)>>, startPipeline |-> start]
    BY DEF jenkinsPipelines
  <2>2. start \in StepSeq
    BY <1>3
  <2> HIDE DEF start
  <2>3. QED BY <1>2, <2>1, <2>2 DEF ServiceTyped
<1>5. Tolerant(Put(3)) \in StepRecord /\ ItemBound - 1 \in Int  OBVIOUS
<1>6. UpTo(ItemBound - 1, Tolerant(Put(3))) \in StepSeq  BY <1>5
<1>7. <<Tolerant(Put(3))>> \in StepSeq /\ <<AnyDone>> \in StepSeq  BY <1>5, OneStep
<1>8. jira_link_issues \in StepSeq  BY <1>6, <1>7, OneStep DEF jira_link_issues
<1>9. QED  BY <1>4, <1>8

LEMMA RoutesTyped ==
  /\ ServiceTyped(testRailRuns)
  /\ ServiceTyped(jiraRoutes)
  /\ ServiceTyped(mondayRoutes)
  /\ ServiceTyped(azurePipelineRoutes)
  /\ ServiceTyped(azureWorkItemRoutes)
  /\ ServiceTyped(azureContentRoutes)
  /\ ServiceTyped(xrayReads)
  /\ ServiceTyped(xrayPlans)
  /\ ServiceTyped(xrayRoutes)
<1> USE Deeds, Allowances
<1>1. <<Find, Find>> \in StepSeq /\ <<Ask(1)>> \in StepSeq  BY OneStep, TwoSteps
<1>2. testRailWrites.addTestResults \in StepSeq  BY TestRailTyped DEF ServiceTyped, testRailWrites
<1>3. <<Find, Find>> \o testRailWrites.addTestResults \in StepSeq  BY <1>1, <1>2, StepsJoined
<1>4. authenticate \o <<Ask(3)>> \in StepSeq  BY OneStep, StepsJoined DEF authenticate
<1> DEFINE sync == <<Find, Find>> \o testRailWrites.addTestResults
           plan == authenticate \o <<Ask(3)>>
<1>5. testRailRuns = [getTestRun |-> <<Ask(1)>>, getTestRuns |-> <<Ask(1)>>,
      syncTestRunResults |-> sync]
  BY DEF testRailRuns
<1>6. xrayPlans = [getTestPlan |-> plan, getTestCaseHistory |-> plan]
  BY DEF xrayPlans
<1>7. xrayReads = [validateConnection |-> <<Perhaps(Tolerant(Ask(3)))>>, getTestCases |-> plan,
      getTestPlans |-> plan]
  BY DEF xrayReads
<1>8. sync \in StepSeq /\ plan \in StepSeq
  BY <1>3, <1>4
<1> HIDE DEF sync, plan
<1>9. ServiceTyped(testRailRuns)  BY <1>1, <1>5, <1>8 DEF ServiceTyped
<1>10. ServiceTyped(jiraRoutes)  BY OneStep, TwoSteps, ThreeSteps, FourSteps DEF ServiceTyped,
       jiraRoutes, jiraIssues, linkTestRun
<1>11. ServiceTyped(mondayRoutes)  BY OneStep, TwoSteps DEF ServiceTyped, mondayRoutes,
       mondayReads, mondayItems, mondayUpdates, mondaySearch
<1>12. ServiceTyped(azurePipelineRoutes)  BY OneStep DEF ServiceTyped, azurePipelineRoutes,
       azurePipelines, azureBuilds, azureTestRuns
<1>13. ServiceTyped(azureWorkItemRoutes)  BY OneStep, TwoSteps DEF ServiceTyped,
       azureWorkItemRoutes, azureWorkItems, azureWorkItemWrites
<1>14. ServiceTyped(azureContentRoutes)  BY OneStep DEF ServiceTyped, azureContentRoutes,
       azureWiki, azureRepositories, azureTestRuns, azureTeams
<1>15. ServiceTyped(xrayReads)  BY <1>7, <1>8, OneStep DEF ServiceTyped
<1>16. ServiceTyped(xrayPlans)  BY <1>6, <1>8 DEF ServiceTyped
<1>17. ServiceTyped(xrayRoutes)  BY <1>6, <1>7, <1>8, OneStep DEF ServiceTyped, xrayRoutes
<1>18. QED  BY <1>9, <1>10, <1>11, <1>12, <1>13, <1>14, <1>15, <1>16, <1>17

LEMMA ToolsTyped ==
  /\ jira_search \in StepSeq
  /\ jira_get \in StepSeq
  /\ jira_create_issue \in StepSeq
  /\ jira_transition_issue \in StepSeq
  /\ jira_comment \in StepSeq
  /\ jira_add_label \in StepSeq
  /\ azdo_get_pipeline \in StepSeq
  /\ azdo_create_work_item \in StepSeq
  /\ azdo_update_work_item \in StepSeq
  /\ azdo_trigger_pipeline \in StepSeq
  /\ azdo_create_wiki_page \in StepSeq
  /\ azdo_search_work_items \in StepSeq
  /\ azdo_get_work_item \in StepSeq
  /\ azdo_get_pull_request \in StepSeq
  /\ azdo_list_wikis \in StepSeq
  /\ azdo_get_wiki_page \in StepSeq
  /\ azdo_get_test_results \in StepSeq
  /\ azdo_get_build \in StepSeq
<1> USE Deeds, Allowances
<1>1. jira_search \in StepSeq  BY OneStep DEF jira_search, searchSimilarIssues
<1>2. jira_get \in StepSeq  BY OneStep, TwoSteps, FourSteps DEF jira_get, jiraIssues
<1>3. jira_create_issue \in StepSeq  BY OneStep, TwoSteps, FourSteps DEF jira_create_issue,
      jiraIssues
<1>4. jira_transition_issue \in StepSeq  BY OneStep, TwoSteps DEF jira_transition_issue,
      jiraOperations
<1>5. jira_comment \in StepSeq  BY OneStep, TwoSteps DEF jira_comment, jiraOperations
<1>6. jira_add_label \in StepSeq  BY OneStep, TwoSteps DEF jira_add_label, jiraOperations
<1>7. azdo_get_pipeline \in StepSeq  BY TwoSteps DEF azdo_get_pipeline
<1>8. azdo_create_work_item \in StepSeq  BY OneStep, TwoSteps DEF azdo_create_work_item,
      azureWorkItemWrites
<1>9. azdo_update_work_item \in StepSeq  BY OneStep, TwoSteps DEF azdo_update_work_item,
      azureWorkItemWrites
<1>10. azdo_trigger_pipeline \in StepSeq  BY OneStep DEF azdo_trigger_pipeline, azurePipelines
<1>11. azdo_create_wiki_page \in StepSeq  BY OneStep DEF azdo_create_wiki_page, azureWiki
<1>12. azdo_search_work_items \in StepSeq  BY OneStep, TwoSteps DEF azdo_search_work_items,
       azureWorkItemWrites
<1>13. azdo_get_work_item \in StepSeq  BY OneStep DEF azdo_get_work_item, azureWorkItems
<1>14. azdo_get_pull_request \in StepSeq  BY ThreeSteps DEF azdo_get_pull_request
<1>15. azdo_list_wikis \in StepSeq  BY TwoSteps DEF azdo_list_wikis
<1>16. azdo_get_wiki_page \in StepSeq  BY OneStep DEF azdo_get_wiki_page, azureWiki
<1>17. azdo_get_test_results \in StepSeq  BY OneStep DEF azdo_get_test_results, azureTestRuns
<1>18. azdo_get_build \in StepSeq  BY StepsJoined, OneStep DEF azdo_get_build, azureBuilds
<1>19. QED  BY <1>1, <1>2, <1>3, <1>4, <1>5, <1>6, <1>7, <1>8, <1>9, <1>10, <1>11, <1>12, <1>13,
       <1>14, <1>15, <1>16, <1>17, <1>18

LEMMA OtherToolsTyped ==
  /\ github_get_commit \in StepSeq
  /\ github_get_pr \in StepSeq
  /\ github_create_pr \in StepSeq
  /\ github_create_branch \in StepSeq
  /\ github_update_file \in StepSeq
  /\ github_merge_pr \in StepSeq
  /\ github_rerun_workflow \in StepSeq
  /\ jenkins_trigger_build \in StepSeq
  /\ jenkins_get_status \in StepSeq
  /\ confluence_search \in StepSeq
  /\ xray_search \in StepSeq
  /\ dashboard_metrics \in StepSeq
  /\ failure_predictions \in StepSeq
  /\ smart_test_select \in StepSeq
  /\ giphy_search \in StepSeq
  /\ sendTestNotification \in StepSeq
  /\ createShare \in StepSeq
  /\ getShareByToken \in StepSeq
<1> USE Deeds, Allowances
<1>1. github_get_commit \in StepSeq  BY OneStep DEF github_get_commit, githubReads
<1>2. github_get_pr \in StepSeq  BY TwoSteps DEF github_get_pr
<1>3. github_create_pr \in StepSeq  BY OneStep, TwoSteps DEF github_create_pr, githubWrites
<1>4. github_create_branch \in StepSeq  BY OneStep, TwoSteps DEF github_create_branch,
      githubWrites
<1>5. github_update_file \in StepSeq  BY OneStep, TwoSteps DEF github_update_file, githubChanges
<1>6. github_merge_pr \in StepSeq  BY OneStep, TwoSteps DEF github_merge_pr, githubChanges
<1>7. github_rerun_workflow \in StepSeq  BY OneStep, TwoSteps DEF github_rerun_workflow,
      githubChanges
<1>8. jenkins_trigger_build \in StepSeq  BY TwoSteps DEF jenkins_trigger_build
<1>9. jenkins_get_status \in StepSeq  BY TwoSteps DEF jenkins_get_status
<1>10. confluence_search \in StepSeq  BY OneStep DEF confluence_search, confluenceReads
<1>11. xray_search \in StepSeq  BY StepsJoined, OneStep DEF xray_search, xrayReads, authenticate
<1>12. dashboard_metrics \in StepSeq  BY OneStep DEF dashboard_metrics
<1>13. failure_predictions \in StepSeq  BY OneStep DEF failure_predictions
<1>14. smart_test_select \in StepSeq  BY OneStep DEF smart_test_select
<1>15. giphy_search \in StepSeq  BY OneStep DEF giphy_search
<1>16. sendTestNotification \in StepSeq  BY ThreeSteps DEF sendTestNotification, channelMessage
<1>17. createShare \in StepSeq  BY OneStep DEF createShare
<1>18. getShareByToken \in StepSeq  BY TwoSteps DEF getShareByToken
<1>19. QED  BY <1>1, <1>2, <1>3, <1>4, <1>5, <1>6, <1>7, <1>8, <1>9, <1>10, <1>11, <1>12, <1>13,
       <1>14, <1>15, <1>16, <1>17, <1>18

LEMMA BroadcastTyped == sendBroadcast \in StepSeq
<1>1. channelMessage \in StepRecord
  BY Deeds, Allowances DEF channelMessage
<1>2. QED BY <1>1, Deeds, Allowances, FiveSteps DEF sendBroadcast

LEMMA ProgramsTyped == Programs \subseteq StepSeq
<1>1. \A service : ServiceTyped(service) => Ran(service) \subseteq StepSeq
  BY DEF ServiceTyped, Ran
<1>2. QED
  BY <1>1, JiraTyped, TestRailTyped, MondayTyped, AzureTyped, GitHubTyped, ReadsTyped, LoopsTyped,
     RoutesTyped, ToolsTyped, OtherToolsTyped, BroadcastTyped DEF Programs
\* What the steps of the operations say, where what they announce or store depends on it
LEMMA StepsSay ==
  /\ Make(1).does = "make" /\ Make(1).may = {} /\ Make(1).tries = 1
  /\ Make(2).does = "make" /\ Make(2).may = {} /\ Make(2).tries = 2
  /\ Make(3).does = "make" /\ Make(3).may = {} /\ Make(3).tries = 3
  /\ Put(1).does = "put" /\ Put(1).may = {} /\ Put(1).tries = 1
  /\ Put(3).does = "put" /\ Put(3).may = {} /\ Put(3).tries = 3
  /\ Ask(1).does = "ask" /\ Ask(1).may = {} /\ Ask(1).tries = 1
  /\ Ask(3).does = "ask" /\ Ask(3).may = {} /\ Ask(3).tries = 3
  /\ Find.does = "find" /\ Find.may = {} /\ Find.tries = 1
  /\ Store.does = "store" /\ Store.may = {} /\ Store.tries = 1
  /\ Note.does = "note" /\ Note.may = {} /\ Note.tries = 1
  /\ AnyDone.does = "judge" /\ AnyDone.may = {} /\ AnyDone.tries = 1
BY DEF Make, Put, Ask, Find, Store, Note, AnyDone, Deed

LEMMA LicencesSay ==
  ASSUME NEW s \in StepRecord
  PROVE  /\ Perhaps(s).does = s.does /\ Perhaps(s).tries = s.tries
         /\ Perhaps(s).may = s.may \union {"skip"}
         /\ Tolerant(s).does = s.does /\ Tolerant(s).tries = s.tries
         /\ Tolerant(s).may = s.may \union {"fail"}
         /\ Untimed(s).does = s.does /\ Untimed(s).tries = s.tries
         /\ Untimed(s).may = s.may \union {"hang"}
<1>1. \A w \in Licences : /\ Allow(w, s).does = s.does /\ Allow(w, s).tries = s.tries
                          /\ Allow(w, s).may = s.may \union {w}
  BY DEF Allow, StepRecord
<1>2. "skip" \in Licences /\ "fail" \in Licences /\ "hang" \in Licences
  BY DEF Licences
<1>3. QED
  BY <1>1, <1>2 DEF Perhaps, Tolerant, Untimed

\* Step i does something elsewhere, and the program neither passes it over nor ends before it.
DoesIt(p, i) ==
  /\ p[i].does \in {"make", "put"}
  /\ "skip" \notin p[i].may /\ "fail" \notin p[i].may /\ "stop" \notin p[i].may
  /\ \A j \in DOMAIN p : j < i => "stop" \notin p[j].may
BringsAbout(p) == \E i \in DOMAIN p : DoesIt(p, i)

LEMMA AboutFirst ==
  ASSUME NEW p \in Seq(StepRecord), Len(p) >= 1, p[1].does \in {"make", "put"},
         "skip" \notin p[1].may /\ "fail" \notin p[1].may /\ "stop" \notin p[1].may
  PROVE  BringsAbout(p)
BY DEF BringsAbout, DoesIt

LEMMA AboutSecond ==
  ASSUME NEW p \in Seq(StepRecord), Len(p) >= 2, p[2].does \in {"make", "put"},
         "skip" \notin p[2].may /\ "fail" \notin p[2].may /\ "stop" \notin p[2].may,
         "stop" \notin p[1].may
  PROVE  BringsAbout(p)
BY DEF BringsAbout, DoesIt

LEMMA ShapesKeep ==
  ASSUME NEW a \in StepRecord, a.does \in {"make", "put"}, a.may = {}
  PROVE  /\ BringsAbout(<<a>>)
         /\ \A b \in StepRecord : BringsAbout(<<a, b>>) /\ ("stop" \notin b.may => BringsAbout(<<b, a>>))
         /\ \A b, c, d \in StepRecord : BringsAbout(<<a, b, c, d>>)
         /\ \A b, c \in StepRecord : b.may = {} /\ c.may = {} => BringsAbout(<<b, c, a>>)
<1>1. BringsAbout(<<a>>)
  <2> DEFINE p == <<a>>
  <2>1. p \in Seq(StepRecord) /\ Len(p) = 1 /\ p[1] = a
    OBVIOUS
  <2> HIDE DEF p
  <2>2. BringsAbout(p)
    BY <2>1, AboutFirst
  <2>3. QED
    BY <2>2 DEF p
<1>2. ASSUME NEW b \in StepRecord
      PROVE  BringsAbout(<<a, b>>) /\ ("stop" \notin b.may => BringsAbout(<<b, a>>))
  <2> DEFINE p == <<a, b>>
             q == <<b, a>>
  <2>1. /\ p \in Seq(StepRecord) /\ Len(p) = 2 /\ p[1] = a
        /\ q \in Seq(StepRecord) /\ Len(q) = 2 /\ q[1] = b /\ q[2] = a
    OBVIOUS
  <2> HIDE DEF p, q
  <2>2. BringsAbout(p) /\ ("stop" \notin b.may => BringsAbout(q))
    BY <2>1, AboutFirst, AboutSecond
  <2>3. QED
    BY <2>2 DEF p, q
<1>3. ASSUME NEW b \in StepRecord, NEW c \in StepRecord, NEW d \in StepRecord
      PROVE  BringsAbout(<<a, b, c, d>>)
  <2> DEFINE p == <<a, b, c, d>>
  <2>1. p \in Seq(StepRecord) /\ Len(p) = 4 /\ p[1] = a
    OBVIOUS
  <2> HIDE DEF p
  <2>2. BringsAbout(p)
    BY <2>1, AboutFirst
  <2>3. QED
    BY <2>2 DEF p
<1>4. ASSUME NEW b \in StepRecord, NEW c \in StepRecord, b.may = {}, c.may = {}
      PROVE  BringsAbout(<<b, c, a>>)
  <2> DEFINE p == <<b, c, a>>
  <2>1. p \in Seq(StepRecord) /\ Len(p) = 3 /\ p[1] = b /\ p[2] = c /\ p[3] = a
    OBVIOUS
  <2> HIDE DEF p
  <2>2. BringsAbout(p)
    BY <1>4, <2>1 DEF BringsAbout, DoesIt
  <2>3. QED
    BY <2>2 DEF p
<1>5. QED
  BY <1>1, <1>2, <1>3, <1>4

LEMMA JiraKeeps ==
  /\ \A p \in Ran(jiraIssues) \ {jiraIssues.getIssue} : BringsAbout(p)
  /\ \A p \in Ran(jiraOperations) : BringsAbout(p)
  /\ BringsAbout(linkTestRun)
<1> USE StepsSay, Deeds, ShapesKeep
<1>1. BringsAbout(jiraIssues.createIssue)
  BY DEF jiraIssues
<1>2. BringsAbout(jiraIssues.updateIssue)
  <2>1. Perhaps(Ask(3)) \in StepRecord /\ Perhaps(Put(3)) \in StepRecord
    BY Allowances
  <2>2. QED
    BY <2>1 DEF jiraIssues
<1>3. \A p \in Ran(jiraIssues) \ {jiraIssues.getIssue} : BringsAbout(p)
  <2>1. Ran(jiraIssues) = {jiraIssues.createIssue, jiraIssues.updateIssue, jiraIssues.getIssue}
    BY DEF Ran, jiraIssues
  <2>2. QED
    BY <1>1, <1>2, <2>1
<1>4. \A p \in Ran(jiraOperations) : BringsAbout(p)
  <2>1. /\ BringsAbout(jiraOperations.transitionIssue) /\ BringsAbout(jiraOperations.addComment)
        /\ BringsAbout(jiraOperations.linkIssues) /\ BringsAbout(jiraOperations.addLabels)
    BY DEF jiraOperations
  <2>2. Ran(jiraOperations) = {jiraOperations.transitionIssue, jiraOperations.addComment,
                               jiraOperations.linkIssues, jiraOperations.addLabels}
    BY DEF Ran, jiraOperations
  <2>3. QED
    BY <2>1, <2>2
<1>5. BringsAbout(linkTestRun)
  BY DEF linkTestRun
<1>6. QED
  BY <1>3, <1>4, <1>5

LEMMA OtherClientsKeep ==
  /\ \A p \in Ran(testRailWrites) : BringsAbout(p)
  /\ BringsAbout(mondayItems.createItem) /\ BringsAbout(mondayItems.updateItem)
  /\ \A p \in Ran(mondayUpdates) : BringsAbout(p)
  /\ BringsAbout(azdo_create_work_item) /\ BringsAbout(azdo_update_work_item)
  /\ BringsAbout(azdo_trigger_pipeline) /\ BringsAbout(azdo_create_wiki_page)
  /\ BringsAbout(github_update_file) /\ BringsAbout(github_rerun_workflow) /\ BringsAbout(github_merge_pr)
  /\ BringsAbout(github_create_pr) /\ BringsAbout(github_create_branch)
<1> USE StepsSay, Deeds
<1>1. \A p \in Ran(testRailWrites) : BringsAbout(p)
  <2>1. Perhaps(Store) \in StepRecord
    BY Allowances
  <2>2. /\ BringsAbout(testRailWrites.createTestRun) /\ BringsAbout(testRailWrites.addTestResults)
        /\ BringsAbout(testRailWrites.addTestResult) /\ BringsAbout(testRailWrites.closeTestRun)
    BY <2>1, ShapesKeep DEF testRailWrites
  <2>3. Ran(testRailWrites) = {testRailWrites.createTestRun, testRailWrites.addTestResults,
                               testRailWrites.addTestResult, testRailWrites.closeTestRun}
    BY DEF Ran, testRailWrites
  <2>4. QED
    BY <2>2, <2>3
<1>2. ASSUME NEW a \in StepRecord, a.does \in {"make", "put"}, a.may = {}
      PROVE  BringsAbout(<<Monday(a)>>) /\ BringsAbout(<<Monday(a), Monday(a)>>)
  <2> DEFINE m == Monday(a)
  <2>1. m \in StepRecord /\ m.does = a.does /\ m.may = {"hang"}
    BY <1>2, Allowances, LicencesSay DEF Monday
  <2> HIDE DEF m
  <2> DEFINE p == <<m>>
             q == <<m, m>>
  <2>2. /\ p \in Seq(StepRecord) /\ Len(p) = 1 /\ p[1] = m
        /\ q \in Seq(StepRecord) /\ Len(q) = 2 /\ q[1] = m
    BY <2>1
  <2> HIDE DEF p, q
  <2>3. BringsAbout(p) /\ BringsAbout(q)
    BY <1>2, <2>1, <2>2, AboutFirst
  <2>4. QED
    BY <2>3 DEF p, q, m
<1>3. BringsAbout(mondayItems.createItem) /\ BringsAbout(mondayItems.updateItem)
  BY <1>2 DEF mondayItems
<1>4. \A p \in Ran(mondayUpdates) : BringsAbout(p)
  BY <1>2 DEF Ran, mondayUpdates
<1>5. /\ BringsAbout(azdo_create_work_item) /\ BringsAbout(azdo_update_work_item)
      /\ BringsAbout(azdo_trigger_pipeline) /\ BringsAbout(azdo_create_wiki_page)
  BY ShapesKeep DEF azdo_create_work_item, azdo_update_work_item, azdo_trigger_pipeline,
     azdo_create_wiki_page, azureWorkItemWrites, azurePipelines, azureWiki
<1>6. BringsAbout(github_update_file)
  <2> DEFINE u == Untimed(Ask(1))
             b == Tolerant(u)
  <2>1. u \in StepRecord /\ u.may = {"hang"}
    BY Allowances, LicencesSay
  <2> HIDE DEF u
  <2>2. b \in StepRecord /\ b.may = {"hang", "fail"}
    BY <2>1, Allowances, LicencesSay
  <2> HIDE DEF b
  <2>3. BringsAbout(<<b, Put(3)>>)
    BY <2>2, ShapesKeep
  <2>4. QED
    BY <2>3 DEF b, u, github_update_file, githubChanges
<1>7. /\ BringsAbout(github_rerun_workflow) /\ BringsAbout(github_merge_pr)
      /\ BringsAbout(github_create_pr) /\ BringsAbout(github_create_branch)
  BY ShapesKeep DEF github_rerun_workflow, github_merge_pr, github_create_pr,
     github_create_branch, githubChanges, githubWrites
<1>8. QED
  BY <1>1, <1>3, <1>4, <1>5, <1>6, <1>7

LEMMA Joined ==
  ASSUME NEW p \in Seq(StepRecord), NEW q \in Seq(StepRecord)
  PROVE  /\ p \o q \in Seq(StepRecord) /\ Len(p \o q) = Len(p) + Len(q)
         /\ \A i \in 1..Len(p) : (p \o q)[i] = p[i]
         /\ \A i \in 1..Len(q) : (p \o q)[Len(p) + i] = q[i]
         /\ Len(p) \in Nat /\ Len(q) \in Nat
OBVIOUS

LEMMA PipelineKeeps == BringsAbout(jenkinsPipelines.startPipeline)
<1> DEFINE head == <<Store, Make(2)>>
           rounds == UpTo(ItemBound, Ask(1))
           tail == <<Ask(1), Note>>
<1>1. /\ head \in Seq(StepRecord) /\ Len(head) = 2 /\ head[1] = Store /\ head[2] = Make(2)
      /\ tail \in Seq(StepRecord)
  BY Deeds
<1>2. rounds \in Seq(StepRecord)
  BY OutsideAssumption, Deeds, Rounds DEF StepSeq
<1> HIDE DEF head, rounds, tail
<1> DEFINE most == head \o rounds
<1>4. most \in Seq(StepRecord) /\ Len(most) = 2 + Len(rounds) /\ Len(rounds) \in Nat
      /\ \A i \in 1..2 : most[i] = head[i]
  <2>1. /\ head \o rounds \in Seq(StepRecord) /\ Len(head \o rounds) = Len(head) + Len(rounds)
        /\ \A i \in 1..Len(head) : (head \o rounds)[i] = head[i]
        /\ Len(rounds) \in Nat
    BY <1>1, <1>2, Joined
  <2>2. QED
    BY <1>1, <2>1
<1> HIDE DEF most
<1> DEFINE p == most \o tail
<1>5. p \in Seq(StepRecord) /\ Len(p) = Len(most) + Len(tail) /\ Len(tail) \in Nat
      /\ \A i \in 1..Len(most) : p[i] = most[i]
  BY <1>1, <1>4, Joined
<1> HIDE DEF p
<1>6. Len(p) >= 2 /\ p[1] = Store /\ p[2] = Make(2)
  BY <1>1, <1>4, <1>5
<1>7. BringsAbout(p)
  BY <1>5, <1>6, AboutSecond, StepsSay
<1>8. QED
  BY <1>7 DEF p, most, head, rounds, tail, jenkinsPipelines

\* Targets, then the question whether any of them was linked
Targets(p) ==
  /\ p \in Seq(StepRecord) /\ Len(p) > 1
  /\ p[Len(p)].does = "judge" /\ p[Len(p)].may = {}
  /\ \A i \in 1..(Len(p) - 1) : p[i].does = "put" /\ "stop" \notin p[i].may

LEMMA LinksAreTargets == Targets(jira_link_issues)
<1> DEFINE link == Tolerant(Put(3))
           first == <<link>>
           rounds == UpTo(ItemBound - 1, link)
           judge == <<AnyDone>>
<1>1. link \in StepRecord /\ link.does = "put" /\ link.may = {"fail"}
  BY Deeds, StepsSay, Allowances, LicencesSay
<1> HIDE DEF link
<1>2. Perhaps(link) \in StepRecord /\ Perhaps(link).does = "put"
      /\ Perhaps(link).may = {"fail", "skip"}
  BY <1>1, Allowances, LicencesSay
<1>3. first \in Seq(StepRecord) /\ Len(first) = 1 /\ first[1] = link
  BY <1>1
<1>4. judge \in Seq(StepRecord) /\ Len(judge) = 1 /\ judge[1] = AnyDone
  BY Deeds
<1>5. rounds \in Seq(StepRecord)
  BY <1>1, OutsideAssumption, Rounds DEF StepSeq
<1>6. Len(rounds) \in Nat /\ \A i \in 1..Len(rounds) : rounds[i] = Perhaps(link)
  <2> HIDE DEF rounds
  <2>1. Len(rounds) \in Nat /\ DOMAIN rounds = 1..Len(rounds)
    BY <1>5
  <2>2. rounds = [i \in 1..(ItemBound - 1) |-> Perhaps(link)]
    BY DEF rounds, UpTo
  <2>3. QED
    BY <2>1, <2>2
<1> HIDE DEF first, rounds, judge
<1> DEFINE most == first \o rounds
<1>7. /\ most \in Seq(StepRecord) /\ Len(most) = 1 + Len(rounds)
      /\ \A i \in 1..1 : most[i] = first[i]
      /\ \A i \in 1..Len(rounds) : most[1 + i] = rounds[i]
  <2>1. /\ first \o rounds \in Seq(StepRecord) /\ Len(first \o rounds) = Len(first) + Len(rounds)
        /\ \A i \in 1..Len(first) : (first \o rounds)[i] = first[i]
        /\ \A i \in 1..Len(rounds) : (first \o rounds)[Len(first) + i] = rounds[i]
    BY <1>3, <1>5, Joined
  <2>2. QED
    BY <1>3, <2>1
<1> HIDE DEF most
<1>8. \A i \in 1..Len(most) : most[i].does = "put" /\ "stop" \notin most[i].may
  <2> SUFFICES ASSUME NEW i \in 1..Len(most) PROVE most[i] \in {link, Perhaps(link)}
    BY <1>1, <1>2
  <2>1. CASE i = 1
    BY <1>3, <1>7, <2>1
  <2>2. CASE i # 1
    <3>1. i - 1 \in 1..Len(rounds) /\ 1 + (i - 1) = i
      BY <1>6, <1>7, <2>2
    <3>2. QED
      BY <1>6, <1>7, <3>1
  <2>3. QED
    BY <2>1, <2>2
<1> DEFINE p == most \o judge
<1>9. /\ p \in Seq(StepRecord) /\ Len(p) = Len(most) + 1
      /\ \A i \in 1..Len(most) : p[i] = most[i]
      /\ \A i \in 1..1 : p[Len(most) + i] = judge[i]
  <2>1. /\ most \o judge \in Seq(StepRecord) /\ Len(most \o judge) = Len(most) + Len(judge)
        /\ \A i \in 1..Len(most) : (most \o judge)[i] = most[i]
        /\ \A i \in 1..Len(judge) : (most \o judge)[Len(most) + i] = judge[i]
    BY <1>4, <1>7, Joined
  <2>2. QED
    BY <1>4, <2>1
<1> HIDE DEF p
<1>10. Len(most) \in Nat /\ Len(most) >= 1
  BY <1>6, <1>7
<1>11. p[Len(p)] = AnyDone /\ \A i \in 1..(Len(p) - 1) : p[i] = most[i]
  BY <1>4, <1>9, <1>10
<1>12. Targets(p)
  BY <1>8, <1>9, <1>10, <1>11, StepsSay DEF Targets
<1>13. QED
  BY <1>12 DEF p, most, first, rounds, judge, link, jira_link_issues

\* Who announces something does it, or asks whether it was done.
LEMMA AnnouncersKeep == \A p \in Announcers : BringsAbout(p) \/ Targets(p)
BY JiraKeeps, OtherClientsKeep, PipelineKeeps, LinksAreTargets DEF Announcers

\* Who keeps a row of it has done it first.
DoesFirst(p) == Len(p) >= 1 /\ p[1].does \in {"make", "put"} /\ p[1].may = {}

LEMMA RecordersDoFirst == \A p \in Recorders : DoesFirst(p)
<1>1. DoesFirst(jiraIssues.createIssue)
  BY StepsSay DEF jiraIssues, DoesFirst
<1>2. DoesFirst(jiraIssues.updateIssue)
  BY StepsSay DEF jiraIssues, DoesFirst
<1>3. DoesFirst(testRailWrites.createTestRun)
  BY StepsSay DEF testRailWrites, DoesFirst
<1>4. QED
  BY <1>1, <1>2, <1>3 DEF Recorders

\* One try for each step
OneTry(p) == \A i \in DOMAIN p : p[i].tries = 1

LEMMA OnceIsOneTry == \A p \in OnceOnly : OneTry(p)
<1> USE StepsSay, Deeds
<1>1. Perhaps(Store).tries = 1
  BY LicencesSay
<1>2. \A p \in Ran(testRailWrites) : OneTry(p)
  BY <1>1 DEF Ran, testRailWrites, OneTry
<1>3. Monday(Make(1)).tries = 1 /\ Monday(Put(1)).tries = 1 /\ Monday(Ask(1)).tries = 1
  BY LicencesSay DEF Monday
<1>4. \A p \in Ran(mondayItems) \union Ran(mondayUpdates) : OneTry(p)
  BY <1>3 DEF Ran, mondayItems, mondayUpdates, OneTry
<1>5. channelMessage.tries = 1
  <2>1. Untimed(Make(1)) \in StepRecord /\ Untimed(Make(1)).tries = 1
    BY LicencesSay, Allowances
  <2>2. Tolerant(Untimed(Make(1))) \in StepRecord /\ Tolerant(Untimed(Make(1))).tries = 1
    BY <2>1, LicencesSay, Allowances
  <2>3. QED
    BY <2>2, LicencesSay DEF channelMessage
<1>6. OneTry(sendTestNotification)
  BY <1>5 DEF sendTestNotification, OneTry
<1>7. QED
  BY <1>2, <1>4, <1>6 DEF OnceOnly

\* Whoever stores, stores last.
StoresLast(p) == \A i \in DOMAIN p : p[i].does = "store" => i = Len(p)

LEMMA StoresAreLast == \A p \in StoreLast : StoresLast(p)
<1> USE StepsSay, Deeds
<1>1. StoresLast(jiraIssues.createIssue)
  BY DEF jiraIssues, StoresLast
<1>2. StoresLast(testRailWrites.createTestRun)
  BY DEF testRailWrites, StoresLast
<1>3. StoresLast(jenkins_trigger_build)
  BY DEF jenkins_trigger_build, StoresLast
<1>4. StoresLast(pipelines.create)
  <2>1. Perhaps(Ask(3)).does = "ask"
    BY LicencesSay
  <2>2. QED
    BY <2>1 DEF pipelines, StoresLast
<1>5. StoresLast(sendTestNotification)
  <2>1. channelMessage.does = "make"
    <3>1. Untimed(Make(1)) \in StepRecord /\ Untimed(Make(1)).does = "make"
      BY LicencesSay, Allowances
    <3>2. Tolerant(Untimed(Make(1))) \in StepRecord /\ Tolerant(Untimed(Make(1))).does = "make"
      BY <3>1, LicencesSay, Allowances
    <3>3. QED
      BY <3>2, LicencesSay DEF channelMessage
  <2>2. QED
    BY <2>1 DEF sendTestNotification, StoresLast
<1>6. StoresLast(createShare)
  BY DEF createShare, StoresLast
<1>7. QED
  BY <1>1, <1>2, <1>3, <1>4, <1>5, <1>6 DEF StoreLast
-----------------------------------------------------------------------------
OutsideTypes ==
  /\ program \in Programs /\ program \in StepSeq
  /\ at \in 1..(Len(program) + 1)
  /\ tried \in 1..3
  /\ carried \in [Steps -> Nat] /\ unheard \in [Steps -> Nat]
  /\ pending \subseteq Steps /\ left \subseteq Steps
  /\ outcome \in {"open", "done", "failed", "lost"}

\* What lies ahead has not been touched
AheadUntouched ==
  \A i \in Steps : i > at => carried[i] = 0 /\ unheard[i] = 0 /\ i \notin pending

\* The step that is being tried took effect at most in tries whose answers were lost
TriesAccountedFor ==
  Running =>
    /\ tried <= Now.tries
    /\ carried[at] = unheard[at] /\ unheard[at] < tried /\ at \notin pending

\* Every effect, and every one that may yet come, is that of a try of its own
EffectsAreTries ==
  \A i \in Steps :
    /\ unheard[i] <= program[i].tries
    /\ carried[i] <= program[i].tries /\ carried[i] <= unheard[i] + 1
    /\ i \in pending => carried[i] < program[i].tries /\ carried[i] <= unheard[i]

BehindIsDone == \A i \in Steps : i < at => carried[i] > 0 \/ i \in left

OutsideIInv ==
  OutsideTypes /\ AheadUntouched /\ TriesAccountedFor /\ EffectsAreTries /\ BehindIsDone

LEMMA StepAt == ASSUME OutsideTypes, NEW i \in Steps
  PROVE /\ program[i].tries \in 1..3 /\ i \in 1..Len(program) /\ Len(program) \in Nat
        /\ at \in Nat
<1>1. program \in Seq(StepRecord) BY DEF OutsideTypes, StepSeq
<1>2. program[i] \in StepRecord /\ i \in 1..Len(program) /\ Len(program) \in Nat BY <1>1 DEF Steps
<1>3. QED BY <1>2 DEF OutsideTypes, StepRecord

LEMMA OutsideInvInit == OutsideInit => OutsideIInv
<1> SUFFICES ASSUME OutsideInit PROVE OutsideIInv
  OBVIOUS
<1>1. program \in Seq(StepRecord) /\ Len(program) \in Nat /\ Steps = 1..Len(program)
  BY ProgramsTyped DEF OutsideInit, StepSeq, Steps
<1>2. \A i \in Steps : program[i].tries \in 1..3
  <2>1. \A i \in Steps : program[i] \in StepRecord
    BY <1>1
  <2>2. QED BY <2>1 DEF StepRecord
<1>3. OutsideTypes
  BY <1>1, ProgramsTyped DEF OutsideTypes, OutsideInit
<1>4. QED
  BY <1>1, <1>2, <1>3 DEF OutsideInit, OutsideIInv, AheadUntouched, TriesAccountedFor,
     EffectsAreTries, BehindIsDone, Now, Running

\* OneStep step at `at`: what becomes of the counts, and where the request goes on
LEMMA MovesOn ==
  ASSUME OutsideIInv, Running, program' = program,
         \/ carried' = carried /\ unheard' = unheard
         \/ carried' = [carried EXCEPT ![at] = @ + 1] /\ unheard' = unheard /\ at \notin pending'
         \/ carried' = [carried EXCEPT ![at] = @ + 1]
            /\ unheard' = [unheard EXCEPT ![at] = @ + 1] /\ at \notin pending',
         pending' \subseteq pending \union {at}, pending \subseteq pending',
         \/ /\ at' = at + 1 /\ tried' = 1 /\ left' \subseteq left \union {at}
            /\ outcome' \in {"open", "done"}
            /\ at \in left' \/ carried'[at] > 0
         \/ at' = at /\ tried' = tried /\ left' = left /\ outcome' \in {"done", "failed", "lost"}
         \/ /\ at' = at /\ tried' = tried + 1 /\ left' = left /\ outcome' = outcome
            /\ tried < Now.tries /\ carried'[at] = unheard'[at] /\ pending' = pending,
         left \subseteq left'
  PROVE  OutsideIInv'
<1> USE DEF Running, Steps, Now
<1>1. /\ at \in Steps /\ at \in 1..Len(program) /\ Len(program) \in Nat /\ tried \in 1..3
      /\ carried \in [Steps -> Nat] /\ unheard \in [Steps -> Nat] /\ Now.tries \in 1..3
      /\ Steps = 1..Len(program) /\ Steps' = Steps
  BY StepAt DEF OutsideIInv, OutsideTypes, StepSeq
<1>2. \A i \in Steps : program[i].tries \in 1..3
  BY StepAt DEF OutsideIInv
<1>3. OutsideTypes'
  <2>1. carried' \in [Steps -> Nat] /\ unheard' \in [Steps -> Nat]
    BY <1>1
  <2>2. tried' \in 1..3 /\ at' \in 1..(Len(program) + 1)
    BY <1>1
  <2>3. QED BY <1>1, <2>1, <2>2 DEF OutsideIInv, OutsideTypes
<1>4. AheadUntouched'
  BY <1>1 DEF OutsideIInv, AheadUntouched
<1>5. EffectsAreTries'
  BY <1>1, <1>2 DEF OutsideIInv, EffectsAreTries, TriesAccountedFor
<1>6. BehindIsDone'
  <2>1. \A i \in Steps : carried'[i] \in Nat /\ carried'[i] >= carried[i]
    BY <1>1
  <2>2. \A i \in Steps : i < at => carried'[i] > 0 \/ i \in left'
    BY <1>1, <2>1 DEF OutsideIInv, BehindIsDone
  <2>3. at' = at \/ (at' = at + 1 /\ (at \in left' \/ carried'[at] > 0))
    OBVIOUS
  <2>4. QED BY <1>1, <2>2, <2>3 DEF BehindIsDone
<1>7. TriesAccountedFor'
  BY <1>1, <1>2 DEF OutsideIInv, TriesAccountedFor, AheadUntouched
<1>8. QED BY <1>3, <1>4, <1>5, <1>6, <1>7 DEF OutsideIInv

LEMMA OutsideInvStep == OutsideIInv /\ [OutsideNext]_outsideVars => OutsideIInv'
<1> SUFFICES ASSUME OutsideIInv, [OutsideNext]_outsideVars PROVE OutsideIInv'
  OBVIOUS
<1>1. CASE TurnedAway
  BY <1>1, MovesOn DEF TurnedAway, Fail
<1>2. CASE Answered
  <2>1. Running => carried \in [Steps -> Nat] /\ at \in Steps /\ at \notin pending
    BY DEF OutsideIInv, OutsideTypes, TriesAccountedFor, Running
  <2>2. QED BY <1>2, <2>1, MovesOn DEF Answered, CarryOut, Advance
<1>3. CASE Pass
  BY <1>3, MovesOn DEF Pass, Skip, Advance
<1>4. CASE Refused
  <2>1. Running => carried[at] = unheard[at]
    BY DEF OutsideIInv, TriesAccountedFor
  <2>2. QED BY <1>4, <2>1, MovesOn DEF Refused, FailsOrTriesAgain, StepFails, Skip, Fail, Advance
<1>5. CASE AnswerLost
  <2>1. Running => /\ carried \in [Steps -> Nat] /\ unheard \in [Steps -> Nat] /\ at \in Steps
                   /\ at \notin pending /\ carried[at] = unheard[at]
    BY DEF OutsideIInv, OutsideTypes, TriesAccountedFor, Running
  <2>2. QED BY <1>5, <2>1, MovesOn DEF AnswerLost, CarryOut, FailsOrTriesAgain, StepFails, Skip,
        Fail, Advance
<1>6. CASE TimesOut
  BY <1>6, MovesOn DEF TimesOut, StepFails, Skip, Fail, Advance
<1>7. CASE Judge
  <2>1. Running => carried \in [Steps -> Nat] /\ at \in Steps /\ at \notin pending
    BY DEF OutsideIInv, OutsideTypes, TriesAccountedFor, Running
  <2>2. QED BY <1>7, <2>1, MovesOn DEF Judge, CarryOut, Advance, Fail
<1>8. CASE Stop
  BY <1>8, MovesOn DEF Stop
<1>9. ASSUME NEW i \in Steps, LateEffect(i) PROVE OutsideIInv'
  <2>1. /\ Steps' = Steps /\ carried' = [carried EXCEPT ![i] = @ + 1]
        /\ carried \in [Steps -> Nat]
        /\ unheard \in [Steps -> Nat] /\ at \in Nat /\ i \in Nat /\ Steps \subseteq Nat
        /\ i \in pending
    BY <1>9, StepAt DEF LateEffect, CarryOut, Steps, OutsideIInv, OutsideTypes
  <2>2. \A j \in Steps : program[j].tries \in 1..3
    BY StepAt DEF OutsideIInv
  <2>3. OutsideTypes'
    BY <1>9, <2>1 DEF LateEffect, OutsideIInv, OutsideTypes
  <2>4. AheadUntouched' /\ BehindIsDone'
    BY <1>9, <2>1 DEF LateEffect, OutsideIInv, AheadUntouched, BehindIsDone
  <2>5. EffectsAreTries'
    BY <1>9, <2>1, <2>2 DEF LateEffect, OutsideIInv, EffectsAreTries
  <2>6. TriesAccountedFor'
    BY <1>9, <2>1 DEF LateEffect, OutsideIInv, TriesAccountedFor, Running, Now
  <2>7. QED BY <2>3, <2>4, <2>5, <2>6 DEF OutsideIInv
<1>10. CASE UNCHANGED outsideVars
  BY <1>10 DEF OutsideIInv, OutsideTypes, AheadUntouched, TriesAccountedFor, EffectsAreTries,
     BehindIsDone, outsideVars, Running, Now, Steps
<1>11. QED
  BY <1>1, <1>2, <1>3, <1>4, <1>5, <1>6, <1>7, <1>8, <1>9, <1>10 DEF OutsideNext

\* How a request ends, and which steps were passed over
OutsideEnds ==
  /\ \A i \in left : "skip" \in program[i].may \/ "fail" \in program[i].may
  /\ \A i \in pending : Elsewhere(i)
  /\ \A i \in Steps : ~Elsewhere(i) => unheard[i] = 0
  /\ outcome = "done" => at = Len(program) + 1 \/ (at \in Steps /\ "stop" \in program[at].may)
  /\ outcome = "failed" => at \in Steps /\ (~Elsewhere(at) => carried[at] = 0)
  /\ \A j \in Steps : (program[j].does = "judge" /\ carried[j] > 0) =>
       \E i \in 1..(j - 1) : i \notin left

LEMMA EndsInit == OutsideInit => OutsideEnds
BY DEF OutsideInit, OutsideEnds

\* A step of the request at `at` that asks for nothing twice: what is passed over is `at`, and
\* a judge that is content has found an earlier step that was not.
LEMMA EndsKept ==
  ASSUME OutsideIInv, OutsideEnds, Running, program' = program,
         left' = left \/ (left' = left \union {at} /\ ("skip" \in Now.may \/ "fail" \in Now.may)),
         pending' = pending \/ (pending' = pending \union {at} /\ Elsewhere(at)),
         unheard' = unheard \/ (unheard' = [unheard EXCEPT ![at] = @ + 1] /\ Elsewhere(at)),
         \/ carried' = carried
         \/ /\ carried' = [carried EXCEPT ![at] = @ + 1]
            /\ Now.does = "judge" => \E i \in 1..(at - 1) : i \notin left,
         outcome' = "done" => at' = Len(program) + 1 \/ (at' = at /\ "stop" \in Now.may),
         outcome' = "failed" => at' = at /\ (carried' = carried \/ Elsewhere(at))
  PROVE  OutsideEnds'
<1>1. /\ at \in Steps /\ Steps = 1..Len(program) /\ Len(program) \in Nat /\ at \in Nat
      /\ carried \in [Steps -> Nat] /\ unheard \in [Steps -> Nat] /\ Steps' = Steps
      /\ carried[at] = unheard[at]
      /\ \A i \in Steps : i > at => carried[i] = 0
  BY StepAt DEF OutsideIInv, OutsideTypes, StepSeq, Running, Steps, TriesAccountedFor,
     AheadUntouched
<1>2. \A i \in Steps : Elsewhere(i)' <=> Elsewhere(i)
  BY DEF Elsewhere
<1>3. /\ \A i \in left' : "skip" \in program'[i].may \/ "fail" \in program'[i].may
      /\ \A i \in pending' : Elsewhere(i)'
  BY <1>1, <1>2 DEF OutsideEnds, Now, OutsideIInv, OutsideTypes, Elsewhere
<1>4. \A i \in Steps' : ~Elsewhere(i)' => unheard'[i] = 0
  BY <1>1, <1>2 DEF OutsideEnds
<1>5. outcome' = "done" =>
        at' = Len(program') + 1 \/ (at' \in Steps' /\ "stop" \in program'[at'].may)
  BY <1>1 DEF OutsideEnds, Now
<1>6. outcome' = "failed" => at' \in Steps' /\ (~Elsewhere(at)' => carried'[at'] = 0)
  BY <1>1, <1>2 DEF OutsideEnds
<1>7. \A j \in Steps' : (program'[j].does = "judge" /\ carried'[j] > 0) =>
        \E i \in 1..(j - 1) : i \notin left'
  <2> SUFFICES ASSUME NEW j \in Steps, program[j].does = "judge", carried'[j] > 0
               PROVE  \E i \in 1..(j - 1) : i \notin left'
    BY <1>1
  <2>1. j <= at
    BY <1>1
  <2>2. \E i \in 1..(j - 1) : i \notin left
    BY <1>1 DEF OutsideEnds, Now
  <2>3. QED
    BY <1>1, <2>1, <2>2
<1>8. QED
  BY <1>3, <1>4, <1>5, <1>6, <1>7 DEF OutsideEnds, Elsewhere

LEMMA EndsStep == OutsideIInv /\ OutsideEnds /\ [OutsideNext]_outsideVars => OutsideEnds'
<1> SUFFICES ASSUME OutsideIInv, OutsideEnds, [OutsideNext]_outsideVars PROVE OutsideEnds'
  OBVIOUS
<1> USE DEF Skip, Advance, Fail, May
<1>1. CASE TurnedAway
  BY <1>1, EndsKept DEF TurnedAway
<1>2. CASE Answered
  BY <1>2, EndsKept DEF Answered, CarryOut, Running
<1>3. CASE Pass
  BY <1>3, EndsKept DEF Pass, Running
<1>4. CASE Refused
  BY <1>4, EndsKept DEF Refused, FailsOrTriesAgain, StepFails, Running
<1>5. CASE AnswerLost
  BY <1>5, EndsKept DEF AnswerLost, CarryOut, FailsOrTriesAgain, StepFails, Running, Elsewhere, Now
<1>6. CASE TimesOut
  BY <1>6, EndsKept DEF TimesOut, StepFails, Running
<1>7. CASE Judge
  BY <1>7, EndsKept DEF Judge, CarryOut, Running
<1>8. CASE Stop
  BY <1>8, EndsKept DEF Stop
<1>9. ASSUME NEW i \in Steps, LateEffect(i) PROVE OutsideEnds'
  <2>1. /\ Steps' = Steps /\ carried' = [carried EXCEPT ![i] = @ + 1] /\ i \in pending
        /\ carried \in [Steps -> Nat] /\ pending' = pending \ {i}
        /\ UNCHANGED <<program, at, unheard, left, outcome>>
    BY <1>9 DEF LateEffect, CarryOut, Steps, OutsideIInv, OutsideTypes
  <2>2. Elsewhere(i) /\ \A j \in Steps : Elsewhere(j)' <=> Elsewhere(j)
    BY <2>1 DEF OutsideEnds, Elsewhere
  <2>3. program[i].does # "judge" /\ \A j \in Steps : ~Elsewhere(j) => carried'[j] = carried[j]
    BY <2>1, <2>2 DEF Elsewhere
  <2>4. QED
    BY <2>1, <2>2, <2>3 DEF OutsideEnds, Elsewhere
<1>10. CASE UNCHANGED outsideVars
  BY <1>10 DEF outsideVars, OutsideEnds, Elsewhere, Steps
<1>11. QED
  BY <1>1, <1>2, <1>3, <1>4, <1>5, <1>6, <1>7, <1>8, <1>9, <1>10 DEF OutsideNext

LEMMA OutsideInvImplies == OutsideIInv /\ OutsideEnds => ClientsAreTrue
<1> SUFFICES ASSUME OutsideIInv, OutsideEnds PROVE ClientsAreTrue
  OBVIOUS
<1>1. /\ Steps \subseteq Nat /\ at \in Nat /\ carried \in [Steps -> Nat]
      /\ unheard \in [Steps -> Nat] /\ left \subseteq Steps
      /\ Steps = 1..Len(program) /\ Len(program) \in Nat /\ at <= Len(program) + 1
  BY DEF OutsideIInv, OutsideTypes, StepSeq, Steps
<1>2. \A j \in Steps : program[j].tries \in 1..3
  BY StepAt DEF OutsideIInv
<1>3. OutsideTypeOK
  <2>1. ASSUME NEW i \in Steps PROVE carried[i] \in 0..3 /\ unheard[i] \in 0..3
    <3>1. carried[i] \in Nat /\ unheard[i] \in Nat /\ program[i].tries \in 1..3
      BY <1>1, <1>2
    <3>2. carried[i] <= program[i].tries /\ unheard[i] <= program[i].tries
      BY DEF OutsideIInv, EffectsAreTries
    <3>3. QED BY <3>1, <3>2
  <2>2. carried \in [Steps -> 0..3] /\ unheard \in [Steps -> 0..3]
    BY <1>1, <2>1
  <2>3. QED BY <2>2 DEF OutsideIInv, OutsideTypes, OutsideTypeOK
<1>4. \A i \in Steps : i < at /\ i \notin left => carried[i] > 0
  BY DEF OutsideIInv, BehindIsDone
<1>5. RowsFollowDeeds
  <2> SUFFICES ASSUME program \in Recorders, NEW row \in Steps,
                      program[row].does \in {"store", "note"}, carried[row] > 0
               PROVE  \E deed \in Steps : /\ deed < row /\ program[deed].does \in {"make", "put"}
                                          /\ carried[deed] > 0
    BY DEF RowsFollowDeeds
  <2>1. 1 \in Steps /\ program[1].does \in {"make", "put"} /\ program[1].may = {}
    BY <1>1, RecordersDoFirst DEF DoesFirst
  <2>2. 1 < row /\ row <= at
    BY <1>1, <2>1 DEF OutsideIInv, AheadUntouched
  <2>3. 1 \notin left
    BY <2>1 DEF OutsideEnds
  <2>4. QED
    BY <1>1, <1>4, <2>1, <2>2, <2>3
<1>6. AnnouncedIsDone
  <2> SUFFICES ASSUME outcome = "done", program \in Announcers
               PROVE  \E deed \in Steps : program[deed].does \in {"make", "put"} /\ carried[deed] > 0
    BY DEF AnnouncedIsDone
  <2>1. at = Len(program) + 1 \/ (at \in Steps /\ "stop" \in program[at].may)
    BY DEF OutsideEnds
  <2>2. CASE BringsAbout(program)
    <3>1. PICK i \in Steps : DoesIt(program, i)
      BY <2>2 DEF BringsAbout, Steps
    <3>2. i < at /\ i \notin left
      BY <1>1, <2>1, <3>1 DEF DoesIt, Steps, OutsideEnds
    <3>3. QED
      BY <1>4, <3>1, <3>2 DEF DoesIt
  <2>3. CASE Targets(program)
    <3> DEFINE n == Len(program)
    <3>1. /\ n \in Steps /\ n > 1 /\ program[n].does = "judge" /\ program[n].may = {}
          /\ \A i \in 1..(n - 1) : program[i].does = "put" /\ "stop" \notin program[i].may
      BY <1>1, <2>3 DEF Targets
    <3>2. at = n + 1
      BY <1>1, <2>1, <3>1
    <3>3. carried[n] > 0
      BY <1>1, <1>4, <3>1, <3>2 DEF OutsideEnds
    <3>4. PICK i \in 1..(n - 1) : i \notin left
      BY <3>1, <3>3 DEF OutsideEnds
    <3>5. i \in Steps /\ i < at
      BY <1>1, <3>2, <3>4
    <3>6. QED
      BY <1>4, <3>1, <3>4, <3>5
  <2>4. QED
    BY <2>2, <2>3, AnnouncersKeep
<1>7. NothingIsMadeTwice
  <2>1. \A i \in Steps : carried[i] <= 1 + unheard[i]
    BY <1>1 DEF OutsideIInv, EffectsAreTries
  <2>2. ASSUME program \in OnceOnly, NEW i \in Steps PROVE carried[i] <= 1
    <3>1. program[i].tries = 1
      BY <2>2, OnceIsOneTry DEF OneTry, Steps
    <3>2. QED
      BY <3>1 DEF OutsideIInv, EffectsAreTries
  <2>3. QED
    BY <2>1, <2>2 DEF NothingIsMadeTwice
<1>8. FailureLeavesNoRow
  <2> SUFFICES ASSUME outcome = "failed", program \in StoreLast, NEW row \in Steps,
                      program[row].does = "store"
               PROVE  carried[row] = 0
    BY DEF FailureLeavesNoRow
  <2>1. row = Len(program) /\ at \in Steps /\ ~Elsewhere(row)
    BY StoresAreLast DEF StoresLast, Steps, OutsideEnds, Elsewhere
  <2>2. CASE at = row
    BY <2>1, <2>2 DEF OutsideEnds
  <2>3. CASE at # row
    BY <1>1, <2>1, <2>3 DEF OutsideIInv, AheadUntouched
  <2>4. QED
    BY <2>2, <2>3
<1>9. QED BY <1>3, <1>5, <1>6, <1>7, <1>8 DEF ClientsAreTrue

\* Every operation of the clients of other systems (jira, testrail, monday, azure devops,
\* github, jenkins, confluence), with any number of rounds, lost, late or refused calls and
\* stops: no row of ours speaks of what the other system was never given; an operation that
\* says it made or changed something there has; a client without retries makes nothing twice,
\* and the others only when an answer was lost; and an operation that is answered as failed
\* has left no row for a second one to stand beside, where the row is written last.
THEOREM OutsideTheorem == OutsideSpec => []ClientsAreTrue
<1>1. OutsideSpec => [](OutsideIInv /\ OutsideEnds)
  BY OutsideInvInit, OutsideInvStep, EndsInit, EndsStep, PTL DEF OutsideSpec
<1>2. QED
  BY <1>1, OutsideInvImplies, PTL
-----------------------------------------------------------------------------
\* Induction and recursion along the naturals, with a set for the claim, as in TestsProofs

\* A set of naturals with 0, and with n + 1 whenever with n, has them all.
LEMMA NatSetInduction ==
  ASSUME NEW S, 0 \in S, \A n \in Nat : n \in S => n + 1 \in S
  PROVE  Nat \subseteq S
<1> SUFFICES ASSUME Nat \ S # {} PROVE FALSE
  OBVIOUS
<1>1. PICK x \in Nat \ S : \A y \in Nat \ S : ~(<<y, x>> \in OpToRel(<, Nat))
  <2>1. IsWellFoundedOn(OpToRel(<, Nat), Nat)
    BY NatLessThanWellFounded
  <2> HIDE DEF OpToRel, IsWellFoundedOn
  <2>2. QED
    BY <2>1, WFMin
<1>2. x # 0 /\ x - 1 \in Nat /\ x - 1 < x
  OBVIOUS
<1>3. x - 1 \in Nat \ S
  BY <1>2
<1>4. <<x - 1, x>> \in OpToRel(<, Nat)
  BY <1>2 DEF OpToRel
<1>5. QED
  BY <1>1, <1>3, <1>4

\* The same up to a bound.
LEMMA SegmentInduction ==
  ASSUME NEW n \in Nat, NEW S, 0 \in S, \A i \in 0..(n - 1) : i \in S => i + 1 \in S
  PROVE  \A i \in 0..n : i \in S
<1> DEFINE P == {i \in Nat : i <= n => i \in S}
<1>1. 0 \in P
  OBVIOUS
<1>2. \A i \in Nat : i \in P => i + 1 \in P
  OBVIOUS
<1>3. Nat \subseteq P
  <2> HIDE DEF P
  <2> QED BY <1>1, <1>2, NatSetInduction
<1>4. QED
  BY <1>3

\* h begins at base and takes one step after the other.
IsWalk(h, n, base, step) == h[0] = base /\ \A i \in 1..n : h[i] = step[i][h[i - 1]]

\* Whatever the steps are, some function takes them: a recursive function on 0..n has a value.
LEMMA SegmentRecursion ==
  ASSUME NEW n \in Nat, NEW T, NEW base \in T, NEW step \in [1..n -> [T -> T]]
  PROVE  \E h \in [0..n -> T] : IsWalk(h, n, base, step)
<1> USE DEF IsWalk
<1> DEFINE Sol(m) == {h \in [0..m -> T] : h[0] = base /\ \A i \in 1..m : h[i] = step[i][h[i - 1]]}
<1> DEFINE P == {m \in 0..n : Sol(m) # {}}
<1>1. 0 \in P
  <2>1. [i \in 0..0 |-> base] \in Sol(0)
    OBVIOUS
  <2>2. QED
    BY <2>1
<1>2. ASSUME NEW m \in 0..(n - 1), m \in P PROVE m + 1 \in P
  <2>1. PICK h : h \in Sol(m)
    BY <1>2
  <2>2. h \in [0..m -> T] /\ h[0] = base /\ \A i \in 1..m : h[i] = step[i][h[i - 1]]
    BY <2>1
  <2> DEFINE k == [i \in 0..(m + 1) |-> IF i = m + 1 THEN step[m + 1][h[m]] ELSE h[i]]
  <2>3. h[m] \in T /\ m + 1 \in 1..n
    BY <2>2
  <2>4. step[m + 1][h[m]] \in T
    BY <2>3
  <2>5. k \in [0..(m + 1) -> T]
    BY <2>2, <2>4
  <2>6. k[0] = base
    BY <2>2
  <2>7. \A i \in 1..(m + 1) : k[i] = step[i][k[i - 1]]
    <3> TAKE i \in 1..(m + 1)
    <3>1. i - 1 \in 0..m /\ i - 1 # m + 1
      OBVIOUS
    <3>2. k[i - 1] = h[i - 1]
      BY <3>1
    <3>3. CASE i = m + 1
      BY <3>2, <3>3
    <3>4. CASE i # m + 1
      <4>1. i \in 1..m
        BY <3>4
      <4>2. k[i] = h[i]
        BY <4>1
      <4>3. QED
        BY <2>2, <3>2, <4>1, <4>2
    <3>5. QED
      BY <3>3, <3>4
  <2>8. k \in Sol(m + 1)
    BY <2>5, <2>6, <2>7
  <2>9. QED
    BY <2>8
<1>3. n \in P
  <2> HIDE DEF P
  <2>1. \A i \in 0..n : i \in P
    BY <1>1, <1>2, SegmentInduction
  <2>2. QED
    BY <2>1
<1>4. QED
  BY <1>3

\* A set of naturals that is not empty has a least.
LEMMA LeastOf ==
  ASSUME NEW M \in SUBSET Nat, M # {}
  PROVE  \E i \in M : \A j \in M : i <= j
<1>1. PICK x \in M : \A y \in M : ~(<<y, x>> \in OpToRel(<, Nat))
  <2>1. IsWellFoundedOn(OpToRel(<, Nat), Nat)
    BY NatLessThanWellFounded
  <2> HIDE DEF OpToRel, IsWellFoundedOn
  <2>2. QED
    BY <2>1, WFMin
<1>2. \A y \in M : ~(y < x)
  BY <1>1 DEF OpToRel
<1>3. QED
  BY <1>2
-----------------------------------------------------------------------------
\* What a request sends to the model

\* The sizes of a conversation, added from its first message on
LEMMA TotalDefined ==
  ASSUME NEW s \in Seq(Nat)
  PROVE  \E g \in [0..Len(s) -> Nat] :
           /\ g[0] = 0 /\ \A i \in 1..Len(s) : g[i] = g[i - 1] + s[i]
           /\ Total(s) = g[Len(s)]
<1> DEFINE n == Len(s)
           step == [i \in 1..n |-> [t \in Nat |-> t + s[i]]]
           upTo[i \in 0..Len(s)] == IF i = 0 THEN 0 ELSE upTo[i - 1] + s[i]
<1>1. n \in Nat /\ \A i \in 1..n : s[i] \in Nat
  OBVIOUS
<1>2. step \in [1..n -> [Nat -> Nat]]
  BY <1>1
<1>3. PICK h \in [0..n -> Nat] : IsWalk(h, n, 0, step)
  <2> HIDE DEF step, n
  <2> QED
    BY <1>1, <1>2, SegmentRecursion
<1>4. h[0] = 0 /\ \A i \in 1..n : h[i] = h[i - 1] + s[i]
  <2>1. h[0] = 0 /\ \A i \in 1..n : h[i] = step[i][h[i - 1]]
    <3> HIDE DEF step, n
    <3> QED
      BY <1>3 DEF IsWalk
  <2>2. ASSUME NEW i \in 1..n PROVE h[i] = h[i - 1] + s[i]
    <3>1. h[i - 1] \in Nat
      <4> HIDE DEF step
      <4> QED
        BY <1>1
    <3>2. QED
      BY <2>1, <3>1
  <2>3. QED
    BY <2>1, <2>2
<1>5. h = [i \in 0..Len(s) |-> IF i = 0 THEN 0 ELSE h[i - 1] + s[i]]
  <2> HIDE DEF step
  <2> QED
    BY <1>1, <1>4
<1>6. upTo = [i \in 0..Len(s) |-> IF i = 0 THEN 0 ELSE upTo[i - 1] + s[i]]
  BY <1>5
<1>7. Total(s) = upTo[n]
  BY DEF Total
<1> HIDE DEF upTo, step
<1>8. upTo[0] = 0 /\ \A i \in 1..n : upTo[i] = upTo[i - 1] + s[i]
  BY <1>1, <1>6
<1>9. \A i \in 0..n : upTo[i] \in Nat
  <2> DEFINE S == {i \in 0..n : upTo[i] \in Nat}
  <2>1. 0 \in S
    BY <1>1, <1>8
  <2>2. ASSUME NEW i \in 0..(n - 1), i \in S PROVE i + 1 \in S
    <3>1. i + 1 \in 1..n /\ (i + 1) - 1 = i
      BY <1>1
    <3>2. upTo[i + 1] = upTo[i] + s[i + 1]
      BY <1>8, <3>1
    <3>3. QED
      BY <1>1, <2>2, <3>1, <3>2
  <2>3. \A i \in 0..n : i \in S
    <3> HIDE DEF S, n
    <3> QED
      BY <1>1, <2>1, <2>2, SegmentInduction
  <2>4. QED
    BY <2>3
<1>10. upTo \in [0..n -> Nat]
  BY <1>6, <1>9
<1>11. QED
  BY <1>7, <1>8, <1>10

LEMMA TotalTyped == ASSUME NEW s \in Seq(Nat) PROVE Total(s) \in Nat
<1>1. PICK g \in [0..Len(s) -> Nat] : Total(s) = g[Len(s)]
  BY TotalDefined
<1>2. Len(s) \in 0..Len(s)
  OBVIOUS
<1>3. QED
  BY <1>1, <1>2

LEMMA TotalOfNone == Total(<<>>) = 0
<1>1. <<>> \in Seq(Nat) /\ Len(<<>>) = 0
  OBVIOUS
<1>2. QED
  BY <1>1, TotalDefined

LEMMA TotalHead ==
  ASSUME NEW s \in Seq(Nat), s # <<>>
  PROVE  Total(s) = s[1] + Total(Tail(s))
<1>1. Tail(s) \in Seq(Nat) /\ Len(s) \in Nat \ {0} /\ Len(Tail(s)) = Len(s) - 1
  OBVIOUS
<1>2. \A i \in 1..(Len(s) - 1) : Tail(s)[i] = s[i + 1]
  OBVIOUS
<1>3. PICK g \in [0..Len(s) -> Nat] :
        g[0] = 0 /\ (\A i \in 1..Len(s) : g[i] = g[i - 1] + s[i]) /\ Total(s) = g[Len(s)]
  BY TotalDefined
<1>4. PICK h \in [0..Len(Tail(s)) -> Nat] :
        /\ h[0] = 0 /\ (\A i \in 1..Len(Tail(s)) : h[i] = h[i - 1] + Tail(s)[i])
        /\ Total(Tail(s)) = h[Len(Tail(s))]
  BY <1>1, TotalDefined
<1>5. PICK n \in Nat : n = Len(s) - 1
  <2>1. Len(s) - 1 \in Nat
    BY <1>1
  <2>2. QED
    BY <2>1
<1>6. \A i \in 1..(n + 1) : s[i] \in Nat
  BY <1>5
<1>7. \A i \in 0..(n + 1) : g[i] \in Nat
  BY <1>5
<1>8. \A i \in 0..n : h[i] \in Nat
  BY <1>1, <1>5
<1> DEFINE S == {i \in 0..n : g[i + 1] = s[1] + h[i]}
<1>9. 0 \in S
  <2>1. g[1] = g[0] + s[1]
    BY <1>1, <1>3
  <2>2. QED
    BY <1>3, <1>4, <1>6, <2>1
<1>10. ASSUME NEW i \in 0..(n - 1), i \in S PROVE i + 1 \in S
  <2>1. g[i + 2] = g[i + 1] + s[i + 2]
    <3>1. i + 2 \in 1..Len(s) /\ (i + 2) - 1 = i + 1
      BY <1>1, <1>5
    <3>2. QED
      BY <1>3, <3>1
  <2>2. h[i + 1] = h[i] + s[i + 2]
    <3>1. i + 1 \in 1..Len(Tail(s)) /\ (i + 1) - 1 = i /\ (i + 1) + 1 = i + 2
      BY <1>1, <1>5
    <3>2. h[i + 1] = h[i] + Tail(s)[i + 1]
      BY <1>4, <3>1
    <3>3. Tail(s)[i + 1] = s[i + 2]
      BY <1>1, <1>2, <3>1
    <3>4. QED
      BY <3>2, <3>3
  <2>3. g[i + 1] = s[1] + h[i]
    BY <1>10
  <2>4. s[1] \in Nat /\ s[i + 2] \in Nat /\ h[i] \in Nat
    BY <1>6, <1>8
  <2>5. (i + 1) + 1 = i + 2 /\ i + 1 \in 0..n
    OBVIOUS
  <2>6. QED
    BY <2>1, <2>2, <2>3, <2>4, <2>5
<1>11. n \in S
  <2> HIDE DEF S
  <2>1. \A i \in 0..n : i \in S
    BY <1>9, <1>10, SegmentInduction
  <2>2. QED
    BY <2>1
<1>12. g[Len(s)] = s[1] + h[Len(Tail(s))]
  BY <1>1, <1>5, <1>11
<1>13. QED
  BY <1>3, <1>4, <1>12

\* One message more at the front of what is left
LEMMA TotalSuffix ==
  ASSUME NEW rest \in Seq(Nat), NEW i \in 1..Len(rest)
  PROVE  Total(Suffix(rest, i)) = rest[i] + Total(Suffix(rest, i + 1))
<1>1. Len(rest) \in i..Len(rest)
  OBVIOUS
<1>2. Head(Suffix(rest, i)) = rest[i] /\ Tail(Suffix(rest, i)) = Suffix(rest, i + 1)
  BY <1>1, HeadTailOfSubSeq DEF Suffix
<1>3. Suffix(rest, i) \in Seq(Nat) /\ Len(Suffix(rest, i)) = Len(rest) - i + 1
  <2>1. \A j \in i..Len(rest) : rest[j] \in Nat
    OBVIOUS
  <2>2. QED
    BY <2>1, SubSeqProperties DEF Suffix
<1>4. Suffix(rest, i) # <<>>
  BY <1>3
<1>5. Head(Suffix(rest, i)) = Suffix(rest, i)[1]
  BY <1>3, <1>4
<1>6. QED
  BY <1>2, <1>3, <1>4, <1>5, TotalHead

\* The n newest messages, their size, and the room that they leave
Newest(rest, n) == Total(Suffix(rest, Len(rest) + 1 - n))

LEMMA NewestGrow ==
  ASSUME NEW rest \in Seq(Nat)
  PROVE  /\ Newest(rest, 0) = 0
         /\ \A n \in 0..Len(rest) : Newest(rest, n) \in Nat
         /\ \A n \in 0..(Len(rest) - 1) :
              Newest(rest, n + 1) = rest[Len(rest) - n] + Newest(rest, n)
<1>0. Len(rest) \in Nat
  OBVIOUS
<1>1. Newest(rest, 0) = 0
  <2>1. Suffix(rest, Len(rest) + 1 - 0) = <<>>
    BY <1>0, SubSeqEmpty DEF Suffix
  <2>2. QED
    BY <2>1, TotalOfNone DEF Newest
<1>2. ASSUME NEW n \in 0..Len(rest) PROVE Newest(rest, n) \in Nat
  <2>1. \A j \in (Len(rest) + 1 - n)..Len(rest) : rest[j] \in Nat
    OBVIOUS
  <2>2. Suffix(rest, Len(rest) + 1 - n) \in Seq(Nat)
    BY <2>1, SubSeqProperties DEF Suffix
  <2>3. QED
    BY <2>2, TotalTyped DEF Newest
<1>3. ASSUME NEW n \in 0..(Len(rest) - 1)
      PROVE  Newest(rest, n + 1) = rest[Len(rest) - n] + Newest(rest, n)
  <2>1. /\ Len(rest) - n \in 1..Len(rest) /\ (Len(rest) - n) + 1 = Len(rest) + 1 - n
        /\ Len(rest) + 1 - (n + 1) = Len(rest) - n
    BY <1>0
  <2>2. QED
    BY <2>1, TotalSuffix DEF Newest
<1>4. QED
  BY <1>1, <1>2, <1>3

\* A longer part is at least as large.
LEMMA NewestMonotone ==
  ASSUME NEW rest \in Seq(Nat), NEW m \in 0..Len(rest), NEW n \in m..Len(rest)
  PROVE  Newest(rest, m) <= Newest(rest, n)
<1>1. PICK d \in Nat : d = Len(rest) - m
  <2>1. Len(rest) - m \in Nat
    OBVIOUS
  <2>2. QED
    BY <2>1
<1> DEFINE S == {i \in 0..d : Newest(rest, m) <= Newest(rest, m + i)}
<1>2. 0 \in S
  BY NewestGrow
<1>3. ASSUME NEW i \in 0..(d - 1), i \in S PROVE i + 1 \in S
  <2>1. m + i \in 0..(Len(rest) - 1) /\ m \in 0..Len(rest) /\ (m + i) + 1 = m + (i + 1)
    BY <1>1
  <2>2. Newest(rest, (m + i) + 1) = rest[Len(rest) - (m + i)] + Newest(rest, m + i)
    BY <2>1, NewestGrow
  <2>3. rest[Len(rest) - (m + i)] \in Nat
    BY <2>1
  <2>4. Newest(rest, m) \in Nat /\ Newest(rest, m + i) \in Nat
    BY <2>1, NewestGrow
  <2>5. QED
    BY <1>3, <2>1, <2>2, <2>3, <2>4
<1>4. \A i \in 0..d : i \in S
  <2> HIDE DEF S
  <2> QED
    BY <1>2, <1>3, SegmentInduction
<1>5. n - m \in 0..d /\ m + (n - m) = n
  BY <1>1
<1>6. QED
  BY <1>4, <1>5

\* What the walk back knows after n messages: it has kept at least one, and stopped only where
\* the next would not have fitted.
Looked(b, rest, limit, n) ==
  /\ b.kept \in 0..n /\ (n > 0 => b.kept > 0)
  /\ b.room = Less(limit, Newest(rest, b.kept))
  /\ b.kept < n => Newest(rest, b.kept + 1) > limit
  /\ b.kept > 1 => Newest(rest, b.kept) <= limit

LEMMA LookOn ==
  ASSUME NEW rest \in Seq(Nat \ {0}), NEW limit \in Nat, NEW n \in 0..(Len(rest) - 1),
         NEW b \in [kept : Nat, room : Nat], Looked(b, rest, limit, n)
  PROVE  /\ Looked(Look(b, n + 1, rest[Len(rest) - n]), rest, limit, n + 1)
         /\ Look(b, n + 1, rest[Len(rest) - n]) \in [kept : Nat, room : Nat]
<1> DEFINE size == rest[Len(rest) - n]
           next == Look(b, n + 1, size)
<1>0. rest \in Seq(Nat) /\ Len(rest) \in Nat
  <2>1. \A i \in 1..Len(rest) : rest[i] \in Nat
    OBVIOUS
  <2>2. QED
    BY <2>1
<1>1. size \in Nat \ {0}
  <2>1. Len(rest) - n \in 1..Len(rest)
    BY <1>0
  <2>2. QED
    BY <2>1
<1>2. b.kept \in 0..n /\ b.kept \in Nat /\ b.room \in Nat
  BY DEF Looked
<1>3. Newest(rest, n + 1) = size + Newest(rest, n) /\ Newest(rest, n) \in Nat
  <2>1. n \in 0..Len(rest)
    BY <1>0
  <2>2. QED
    BY <1>0, <2>1, NewestGrow
<1>4. Newest(rest, 0) = 0
  BY <1>0, NewestGrow
<1> HIDE DEF size
<1> DEFINE Goal == Looked(next, rest, limit, n + 1) /\ next \in [kept : Nat, room : Nat]
<1>5. ASSUME b.kept < n PROVE Goal
  <2>1. next = b
    BY <1>2, <1>5 DEF Look
  <2>2. n > 0
    BY <1>2, <1>5
  <2>3. Looked(b, rest, limit, n + 1)
    BY <1>2, <1>5, <2>2 DEF Looked
  <2> HIDE DEF next
  <2>4. QED
    BY <2>1, <2>3
<1>6. ASSUME b.kept = n, n > 0, size > b.room PROVE Goal
  <2>1. next = b
    BY <1>2, <1>6 DEF Look
  <2>2. b.room = Less(limit, Newest(rest, n))
    BY <1>6 DEF Looked
  <2>3. Newest(rest, n + 1) > limit
    BY <1>1, <1>3, <1>6, <2>2 DEF Less
  <2>4. Looked(b, rest, limit, n + 1)
    BY <1>2, <1>6, <2>3 DEF Looked
  <2> HIDE DEF next
  <2>5. QED
    BY <2>1, <2>4
<1>7. ASSUME b.kept = n, ~(n > 0 /\ size > b.room) PROVE Goal
  <2>1. ~(b.kept < (n + 1) - 1 \/ (n + 1 > 1 /\ size > b.room))
    BY <1>7
  <2>2. next = [kept |-> n + 1, room |-> Less(b.room, size)]
    BY <2>1 DEF Look
  <2>3. b.room = Less(limit, Newest(rest, n))
    BY <1>7 DEF Looked
  <2>4. Less(b.room, size) = Less(limit, Newest(rest, n + 1)) /\ Less(b.room, size) \in Nat
    BY <1>1, <1>2, <1>3, <2>3 DEF Less
  <2>5. n + 1 > 1 => Newest(rest, n + 1) <= limit
    BY <1>1, <1>2, <1>3, <1>7, <2>3 DEF Less
  <2>6. next.kept = n + 1 /\ next.room = Less(limit, Newest(rest, n + 1))
    BY <2>2, <2>4
  <2>7. Looked(next, rest, limit, n + 1)
    BY <2>5, <2>6 DEF Looked
  <2>8. next \in [kept : Nat, room : Nat]
    BY <2>2, <2>4
  <2>9. QED
    BY <2>7, <2>8
<1>8. Goal
  <2> HIDE DEF Goal
  <2>1. b.kept < n \/ b.kept = n
    BY <1>2
  <2>2. QED
    BY <2>1, <1>5, <1>6, <1>7
<1>9. QED
  BY <1>8 DEF size

\* What the walk keeps is the newest part, at least one message, and the longest that fits.
KeptIs(rest, limit, k) ==
  /\ k \in 0..Len(rest) /\ (Len(rest) > 0 => k > 0)
  /\ k < Len(rest) => Newest(rest, k + 1) > limit
  /\ k > 1 => Newest(rest, k) <= limit

LEMMA KeepNewestIs ==
  ASSUME NEW rest \in Seq(Nat \ {0}), NEW limit \in Nat
  PROVE  \E k \in 0..Len(rest) : /\ KeepNewest(rest, limit) = Suffix(rest, Len(rest) + 1 - k)
                                 /\ KeptIs(rest, limit, k)
<1> DEFINE T == [kept : Nat, room : Nat]
           n == Len(rest)
           base == [kept |-> 0, room |-> limit]
           step == [i \in 1..n |-> [t \in T |-> Look(t, i, rest[Len(rest) + 1 - i])]]
           back[i \in 0..Len(rest)] ==
             IF i = 0 THEN [kept |-> 0, room |-> limit]
             ELSE Look(back[i - 1], i, rest[Len(rest) + 1 - i])
<1>1. n \in Nat /\ \A i \in 1..n : rest[n + 1 - i] \in Nat
  <2>1. n \in Nat
    OBVIOUS
  <2>2. ASSUME NEW i \in 1..n PROVE n + 1 - i \in 1..n
    BY <2>1
  <2>3. QED
    BY <2>1, <2>2
<1>2. step \in [1..n -> [T -> T]]
  <2>1. ASSUME NEW i \in 1..n, NEW t \in T PROVE Look(t, i, rest[n + 1 - i]) \in T
    <3>1. PICK size \in Nat : size = rest[n + 1 - i]
      BY <1>1
    <3>2. i \in Nat
      BY <1>1
    <3> HIDE DEF n
    <3>3. Look(t, i, size) \in T
      BY <3>2 DEF Look, Less
    <3>4. QED
      BY <3>1, <3>3
  <2> HIDE DEF T
  <2>2. QED
    BY <2>1
<1>3. base \in T
  OBVIOUS
<1>4. PICK h \in [0..n -> T] : IsWalk(h, n, base, step)
  <2> HIDE DEF step, n, base, T
  <2> QED
    BY <1>1, <1>2, <1>3, SegmentRecursion
<1>5. h[0] = base /\ \A i \in 1..n : h[i] = Look(h[i - 1], i, rest[Len(rest) + 1 - i])
  <2>1. h[0] = base /\ \A i \in 1..n : h[i] = step[i][h[i - 1]]
    <3> HIDE DEF step, n, base, T
    <3> QED
      BY <1>4 DEF IsWalk
  <2>2. ASSUME NEW i \in 1..n PROVE h[i] = Look(h[i - 1], i, rest[Len(rest) + 1 - i])
    <3>1. h[i - 1] \in T
      <4>1. i - 1 \in 0..n
        BY <1>1
      <4> HIDE DEF step, T, n, base
      <4>2. QED
        BY <1>4, <4>1
    <3> HIDE DEF T
    <3>2. QED
      BY <2>1, <3>1
  <2>3. QED
    BY <2>1, <2>2
<1>6. h = [i \in 0..Len(rest) |-> IF i = 0 THEN [kept |-> 0, room |-> limit]
                                ELSE Look(h[i - 1], i, rest[Len(rest) + 1 - i])]
  <2> HIDE DEF step, T
  <2> QED
    BY <1>1, <1>5
<1>7. back = [i \in 0..Len(rest) |-> IF i = 0 THEN [kept |-> 0, room |-> limit]
                                   ELSE Look(back[i - 1], i, rest[Len(rest) + 1 - i])]
  BY <1>6
<1>8. KeepNewest(rest, limit) = Suffix(rest, n + 1 - back[n].kept)
  BY DEF KeepNewest
<1> HIDE DEF back, step
<1>9. back[0] = base /\ \A i \in 1..n : back[i] = Look(back[i - 1], i, rest[n + 1 - i])
  BY <1>1, <1>7
<1> DEFINE S == {i \in 0..n : back[i] \in T /\ Looked(back[i], rest, limit, i)}
<1>10. 0 \in S
  <2>1. rest \in Seq(Nat)
    <3>1. \A i \in 1..Len(rest) : rest[i] \in Nat
      OBVIOUS
    <3>2. QED
      BY <3>1
  <2>2. base.kept = 0 /\ base.room = Less(limit, Newest(rest, 0)) /\ Less(limit, 0) = limit
    BY <2>1, NewestGrow DEF Less
  <2>3. Looked(base, rest, limit, 0)
    BY <2>2 DEF Looked
  <2> HIDE DEF base, T
  <2>4. QED
    BY <1>1, <1>3, <1>9, <2>3
<1>11. ASSUME NEW i \in 0..(n - 1), i \in S PROVE i + 1 \in S
  <2>1. i + 1 \in 1..n /\ (i + 1) - 1 = i /\ n + 1 - (i + 1) = n - i
    BY <1>1
  <2>2. back[i + 1] = Look(back[i], i + 1, rest[n - i])
    BY <1>9, <2>1
  <2>3. back[i] \in T /\ Looked(back[i], rest, limit, i)
    BY <1>11
  <2>4. back[i + 1] \in T /\ Looked(back[i + 1], rest, limit, i + 1)
    BY <2>2, <2>3, LookOn
  <2>5. QED
    BY <1>1, <2>1, <2>4
<1>12. n \in S
  <2>1. \A i \in 0..n : i \in S
    <3> HIDE DEF S, n
    <3> QED
      BY <1>1, <1>10, <1>11, SegmentInduction
  <2>2. QED
    BY <1>1, <2>1
<1>13. Looked(back[n], rest, limit, n)
  BY <1>12
<1>14. back[n].kept \in 0..n /\ KeptIs(rest, limit, back[n].kept)
  BY <1>13 DEF Looked, KeptIs
<1>15. QED
  BY <1>8, <1>14

LEMMA LongestIs ==
  ASSUME NEW rest \in Seq(Nat), NEW limit \in Nat, NEW k \in 0..Len(rest), KeptIs(rest, limit, k)
  PROVE  k = Max({n \in 1..Len(rest) : Newest(rest, n) <= limit} \union {Smaller(1, Len(rest))})
<1> DEFINE long == {n \in 1..Len(rest) : Newest(rest, n) <= limit} \union {Smaller(1, Len(rest))}
<1>1. Len(rest) \in Nat
  OBVIOUS
<1>2. k \in long
  <2>1. CASE Len(rest) = 0
    BY <1>1, <2>1 DEF Smaller
  <2>2. CASE Len(rest) > 0 /\ k = 1
    BY <1>1, <2>2 DEF Smaller
  <2>3. CASE Len(rest) > 0 /\ k > 1
    BY <1>1, <2>3 DEF KeptIs
  <2>4. QED
    BY <1>1, <2>1, <2>2, <2>3 DEF KeptIs
<1>3. ASSUME NEW n \in long PROVE n \in Nat /\ n <= k
  <2>1. CASE n = Smaller(1, Len(rest))
    BY <1>1, <2>1 DEF Smaller, KeptIs
  <2>2. CASE n \in 1..Len(rest) /\ Newest(rest, n) <= limit
    <3>1. SUFFICES ASSUME n > k PROVE FALSE
      BY <1>1, <2>2
    <3>2. /\ k < Len(rest) /\ k + 1 \in 0..Len(rest) /\ n \in (k + 1)..Len(rest)
          /\ n \in 0..Len(rest)
      BY <1>1, <2>2, <3>1
    <3>3. Newest(rest, k + 1) <= Newest(rest, n)
      BY <3>2, NewestMonotone
    <3>4. Newest(rest, k + 1) \in Nat /\ Newest(rest, n) \in Nat
      BY <3>2, NewestGrow
    <3>5. QED
      BY <2>2, <3>2, <3>3, <3>4 DEF KeptIs
  <2>3. QED
    BY <2>1, <2>2
<1> HIDE DEF long
<1>4. \A x \in long : (\A y \in long : x >= y) => x = k
  BY <1>2, <1>3
<1>5. \A y \in long : k >= y
  BY <1>3
<1>6. Max(long) = k
  BY <1>2, <1>4, <1>5 DEF Max
<1>7. QED
  BY <1>6 DEF long

LEMMA SuffixIs ==
  ASSUME NEW S, NEW rest \in Seq(S), NEW k \in 0..Len(rest)
  PROVE  /\ Suffix(rest, Len(rest) + 1 - k) \in Seq(S)
         /\ Len(Suffix(rest, Len(rest) + 1 - k)) = k
<1>1. Len(rest) \in Nat
  OBVIOUS
<1>2. \A j \in (Len(rest) + 1 - k)..Len(rest) : rest[j] \in S
  <2>1. \A j \in 1..Len(rest) : rest[j] \in S
    OBVIOUS
  <2>2. QED
    BY <1>1, <2>1
<1>3. QED
  BY <1>1, <1>2, SubSeqProperties DEF Suffix

LEMMA WholeSuffix ==
  ASSUME NEW S, NEW rest \in Seq(S)
  PROVE  Suffix(rest, Len(rest) + 1 - Len(rest)) = rest
<1>1. Len(rest) \in Nat /\ Len(rest) + 1 - Len(rest) = 1
  OBVIOUS
<1>2. SubSeq(rest, 1, Len(rest)) = rest
  BY SubSeqFull
<1>3. QED
  BY <1>1, <1>2 DEF Suffix

Without(all, pinned) == IF pinned THEN Tail(all) ELSE all
Beside(all, pinned, limit) == Less(limit, IF pinned THEN all[1] ELSE 0)

\* A history that fits stays whole
LEMMA WholeIsKept ==
  ASSUME NEW all \in Seq(Nat), NEW pinned \in BOOLEAN, pinned => all # <<>>, NEW limit \in Nat,
         all = <<>> \/ Conversation + Total(all) <= limit
  PROVE  KeptIs(Without(all, pinned), Beside(all, pinned, limit), Len(Without(all, pinned)))
<1> DEFINE rest == Without(all, pinned)
           room == Beside(all, pinned, limit)
<1>1. rest \in Seq(Nat) /\ Len(rest) \in Nat
  BY DEF Without
<1>2. Newest(rest, Len(rest)) = Total(rest) /\ Total(rest) \in Nat
  BY <1>1, WholeSuffix, TotalTyped DEF Newest
<1>3. ASSUME Len(rest) > 1 PROVE Newest(rest, Len(rest)) <= room
  <2>1. all # <<>> /\ Total(all) \in Nat /\ Total(all) < limit
    <3>1. Total(all) \in Nat
      BY TotalTyped
    <3>2. all # <<>>
      BY <1>3 DEF Without
    <3>3. QED
      BY <3>1, <3>2 DEF Conversation
  <2>2. CASE pinned
    <3>1. Total(all) = all[1] + Total(rest)
      BY <2>1, <2>2, TotalHead DEF Without
    <3>2. all[1] \in Nat
      BY <2>1
    <3>3. room = Less(limit, all[1])
      BY <2>2 DEF Beside
    <3> HIDE DEF rest, room
    <3>4. QED
      BY <1>2, <2>1, <3>1, <3>2, <3>3 DEF Less
  <2>3. CASE ~pinned
    <3>1. room = Less(limit, 0) /\ rest = all
      BY <2>3 DEF Beside, Without
    <3> HIDE DEF rest, room
    <3>2. QED
      BY <1>2, <2>1, <3>1 DEF Less
  <2>4. QED
    BY <2>2, <2>3
<1> HIDE DEF rest, room
<1>4. KeptIs(rest, room, Len(rest))
  BY <1>1, <1>3 DEF KeptIs
<1>5. QED
  BY <1>4 DEF rest, room

\* What is kept of a history: the message at its head, and the longest newest part that fits
IsPruned(kept, all, pinned, limit) ==
  LET rest == Without(all, pinned) IN
  /\ pinned => kept # <<>> /\ kept[1] = all[1]
  /\ \E k \in 0..Len(rest) :
       /\ KeptIs(rest, Beside(all, pinned, limit), k)
       /\ Without(kept, pinned) = Suffix(rest, Len(rest) + 1 - k)
       /\ Len(Without(kept, pinned)) = k

LEMMA PrunedIs ==
  ASSUME NEW S \in SUBSET (Nat \ {0}), NEW all \in Seq(S), NEW pinned \in BOOLEAN,
         pinned => all # <<>>, NEW limit \in Nat
  PROVE  /\ pruneHistory(all, pinned, limit) \in Seq(S)
         /\ IsPruned(pruneHistory(all, pinned, limit), all, pinned, limit)
<1> DEFINE kept == pruneHistory(all, pinned, limit)
           rest == Without(all, pinned)
           room == Beside(all, pinned, limit)
<1>0. all \in Seq(Nat) /\ rest \in Seq(S) /\ rest \in Seq(Nat \ {0}) /\ rest \in Seq(Nat)
  <2>1. rest \in Seq(S)
    BY DEF Without
  <2>2. \A q : q \in Seq(S) => q \in Seq(Nat \ {0}) /\ q \in Seq(Nat)
    <3>1. TAKE q
    <3>2. SUFFICES ASSUME q \in Seq(S) PROVE q \in Seq(Nat \ {0}) /\ q \in Seq(Nat)
      OBVIOUS
    <3>3. \A i \in 1..Len(q) : q[i] \in S
      BY <3>2
    <3>4. \A i \in 1..Len(q) : q[i] \in Nat \ {0} /\ q[i] \in Nat
      BY <3>3
    <3>5. QED
      BY <3>2, <3>4
  <2>3. QED
    BY <2>1, <2>2
<1>1. Len(rest) \in Nat
  BY <1>0
<1>2. CASE all = <<>> \/ Conversation + Total(all) <= limit
  <2>1. kept = all
    BY <1>2 DEF pruneHistory
  <2>2. KeptIs(rest, room, Len(rest))
    BY <1>0, <1>2, WholeIsKept
  <2>3. Without(kept, pinned) = rest /\ Suffix(rest, Len(rest) + 1 - Len(rest)) = rest
    BY <1>0, <2>1, WholeSuffix
  <2> HIDE DEF kept, rest, room, IsPruned
  <2>4. QED
    BY <1>1, <2>1, <2>2, <2>3 DEF kept, rest, room, IsPruned
<1>3. CASE ~(all = <<>> \/ Conversation + Total(all) <= limit) /\ pinned
  <2>1. all[1] \in S /\ all[1] \in Nat /\ room = Less(limit, all[1]) /\ rest = Tail(all)
    <3>1. all[1] \in S
      BY <1>3
    <3>2. room = Less(limit, all[1]) /\ rest = Tail(all)
      BY <1>3 DEF Without, Beside
    <3>3. QED
      BY <3>1, <3>2
  <2>2. room \in Nat
    BY <2>1 DEF Less
  <2>3. kept = <<all[1]>> \o KeepNewest(rest, room)
    BY <1>3, <2>1 DEF pruneHistory
  <2>4. PICK k \in 0..Len(rest) : /\ KeepNewest(rest, room) = Suffix(rest, Len(rest) + 1 - k)
                                  /\ KeptIs(rest, room, k)
    <3> HIDE DEF rest, room
    <3> QED
      BY <1>0, <2>2, KeepNewestIs
  <2>5. PICK new : new = KeepNewest(rest, room)
    OBVIOUS
  <2>6. new \in Seq(S) /\ Len(new) = k
    <3> HIDE DEF rest, room
    <3> QED
      BY <1>0, <2>4, <2>5, SuffixIs
  <2>7. <<all[1]>> \o new \in Seq(S) /\ (<<all[1]>> \o new)[1] = all[1]
        /\ Tail(<<all[1]>> \o new) = new /\ <<all[1]>> \o new # <<>>
    BY <2>1, <2>6
  <2>8. kept = <<all[1]>> \o new
    BY <2>3, <2>5
  <2>9. kept \in Seq(S) /\ kept # <<>> /\ kept[1] = all[1] /\ Without(kept, pinned) = new
    <3> HIDE DEF kept
    <3> QED
      BY <1>3, <2>7, <2>8 DEF Without
  <2> HIDE DEF kept, rest, room, IsPruned
  <2>10. QED
    BY <2>4, <2>5, <2>6, <2>9 DEF kept, rest, room, IsPruned
<1>4. CASE ~(all = <<>> \/ Conversation + Total(all) <= limit) /\ ~pinned
  <2>1. rest = all /\ room = limit
    BY <1>4 DEF Without, Beside, Less
  <2>2. kept = KeepNewest(rest, room)
    BY <1>4, <2>1 DEF pruneHistory
  <2>3. PICK k \in 0..Len(rest) : /\ KeepNewest(rest, room) = Suffix(rest, Len(rest) + 1 - k)
                                  /\ KeptIs(rest, room, k)
    <3> HIDE DEF rest
    <3> QED
      BY <1>0, <2>1, KeepNewestIs
  <2>4. Suffix(rest, Len(rest) + 1 - k) \in Seq(S) /\ Len(Suffix(rest, Len(rest) + 1 - k)) = k
    <3> HIDE DEF rest
    <3> QED
      BY <1>0, SuffixIs
  <2>5. Without(kept, pinned) = kept
    BY <1>4 DEF Without
  <2> HIDE DEF kept, rest, room, IsPruned
  <2>6. QED
    BY <1>4, <2>2, <2>3, <2>4, <2>5 DEF kept, rest, room, IsPruned
<1>5. QED
  BY <1>2, <1>3, <1>4

\* The shapes of the records; what is recorded of the tools is the text of their results
BudgetShapes ==
  /\ budget \in [input : Nat, system : Nat, history : Nat, tool : Nat, tools : Nat, user : Nat]
  /\ asked \in [system : Size, history : Seq(Size), pinned : BOOLEAN, user : Size]
  /\ asked.pinned => asked.history # <<>>
  /\ prompt \in [system : Nat, history : Seq(Size), user : Nat, loop : Nat]
  /\ recorded \in [system : Nat, history : Nat, tools : Nat, user : Nat]
  /\ results \in [number : Nat, text : Nat]
  /\ recorded.tools = results.text
  /\ pushes = 0 => results.text = 0 /\ results.number = 0

BudgetIInv ==
  /\ BudgetTypeOK
  /\ BudgetShapes
  /\ HistoryIsRecent
  /\ TrackerFollows
  /\ ResultsAreBounded

LEMMA SizesArePositive == Size \in SUBSET (Nat \ {0})
BY DEF Size

LEMMA SizesAdd == ASSUME NEW h \in Seq(Size) PROVE h \in Seq(Nat) /\ Total(h) \in Nat
<1>1. \A x \in Size : x \in Nat
  BY DEF Size
<1>2. \A i \in 1..Len(h) : h[i] \in Size
  <2> HIDE DEF Size
  <2> QED
    OBVIOUS
<1>3. h \in Seq(Nat)
  BY <1>1, <1>2
<1>4. QED
  BY <1>3, TotalTyped

LEMMA HistoriesAreSequences == History \subseteq Seq(Size)
<1>1. SUFFICES ASSUME NEW h \in History PROVE h \in Seq(Size)
  OBVIOUS
<1>2. PICK n \in 0..LengthBound : h \in [1..n -> Size]
  BY <1>1 DEF History
<1>3. n \in Nat
  BY <1>2, BudgetAssumption
<1> HIDE DEF Size
<1>4. QED
  BY <1>2, <1>3

LEMMA BudgetInvInit == BudgetInit => BudgetIInv
<1>1. SUFFICES ASSUME BudgetInit PROVE BudgetIInv
  OBVIOUS
<1>2. /\ budget \in [input : Nat, system : Nat, history : Nat, tool : Nat, tools : Nat, user : Nat]
      /\ budget \in Budget
  BY <1>1, BudgetAssumption DEF BudgetInit
<1>3. /\ asked \in [system : Size, history : History, pinned : BOOLEAN, user : Size]
      /\ asked.pinned => asked.history # <<>>
      /\ asked \in [system : Size, history : Seq(Size), pinned : BOOLEAN, user : Size]
  <2>1. /\ asked \in [system : Size, history : History, pinned : BOOLEAN, user : Size]
        /\ asked.pinned => asked.history # <<>>
    BY <1>1 DEF BudgetInit
  <2> HIDE DEF Size, History
  <2>2. QED
    BY <2>1, HistoriesAreSequences
<1>4. /\ prompt = [system |-> 0, history |-> <<>>, user |-> 0, loop |-> 0]
      /\ recorded = [system |-> 0, history |-> 0, tools |-> 0, user |-> 0]
      /\ results = [number |-> 0, text |-> 0]
      /\ structured = FALSE /\ pushes = 0
  BY <1>1 DEF BudgetInit
<1>5. prompt.history \in Seq(Size)
  BY <1>4
<1>6. BudgetTypeOK
  <2>1. /\ {prompt.system, prompt.user, prompt.loop} \subseteq Nat
        /\ recorded \in [system : Nat, history : Nat, tools : Nat, user : Nat]
        /\ results \in [number : Nat, text : Nat] /\ structured \in BOOLEAN
    <3>1. {prompt.system, prompt.user, prompt.loop} \subseteq Nat /\ structured \in BOOLEAN
      <4>1. prompt.system = 0 /\ prompt.user = 0 /\ prompt.loop = 0
        BY <1>4
      <4>2. {prompt.system, prompt.user, prompt.loop} \subseteq Nat
        BY <4>1
      <4>3. QED
        BY <1>4, <4>2
    <3>2. recorded \in [system : Nat, history : Nat, tools : Nat, user : Nat]
      BY <1>4
    <3>3. results \in [number : Nat, text : Nat]
      BY <1>4
    <3>4. QED
      BY <3>1, <3>2, <3>3
  <2>2. pushes \in 0..PushBound + 1
    BY <1>4, BudgetAssumption
  <2>3. QED
    BY <1>2, <1>3, <1>5, <2>1, <2>2 DEF BudgetTypeOK
<1>7. BudgetShapes
  BY <1>2, <1>3, <1>4, <1>5 DEF BudgetShapes
<1>8. ~Prepared
  BY <1>4 DEF Prepared
<1>9. ResultsAreBounded
  BY <1>2, <1>4 DEF ResultsAreBounded, Marker
<1>10. QED
  BY <1>6, <1>7, <1>8, <1>9 DEF BudgetIInv, HistoryIsRecent, TrackerFollows

LEMMA HistoryLimitIs == BudgetShapes => HistoryLimit \in Nat
<1>1. SUFFICES ASSUME BudgetShapes PROVE HistoryLimit \in Nat
  OBVIOUS
<1>2. budget.history \in Nat /\ budget.input \in Nat /\ budget.system \in Nat /\ budget.user \in Nat
  BY <1>1 DEF BudgetShapes
<1>3. asked.system \in Nat /\ asked.user \in Nat
  BY <1>1 DEF BudgetShapes, Size
<1>4. QED
  BY <1>2, <1>3 DEF HistoryLimit, Smaller, Less

\* The history that is sent, however it was pruned
LEMMA PreparedHistory ==
  ASSUME BudgetShapes, prepareMessages
  PROVE  prompt'.history \in Seq(Size) /\ HistoryIsRecent'
<1> DEFINE kept == pruneHistory(asked.history, asked.pinned, HistoryLimit)
           rest == Without(asked.history, asked.pinned)
           room == Beside(asked.history, asked.pinned, HistoryLimit)
<1>1. HistoryLimit \in Nat
  BY HistoryLimitIs
<1>2. asked.history \in Seq(Size) /\ asked.pinned \in BOOLEAN /\ (asked.pinned => asked.history # <<>>)
  BY DEF BudgetShapes
<1>3. kept \in Seq(Size) /\ IsPruned(kept, asked.history, asked.pinned, HistoryLimit)
  <2> HIDE DEF Size
  <2> QED
    BY <1>1, <1>2, SizesArePositive, PrunedIs
<1>4. PICK k \in 0..Len(rest) :
           /\ KeptIs(rest, room, k)
           /\ Without(kept, asked.pinned) = Suffix(rest, Len(rest) + 1 - k)
           /\ Len(Without(kept, asked.pinned)) = k
  BY <1>3 DEF IsPruned
<1>5. rest \in Seq(Nat) /\ room \in Nat
  <2>2. asked.history \in Seq(Nat)
    BY <1>2, SizesAdd
  <2>3. rest \in Seq(Nat)
    BY <1>2, <2>2 DEF Without
  <2>4. asked.pinned => asked.history[1] \in Nat
    BY <1>2, <2>2
  <2>5. room \in Nat
    BY <1>1, <2>4 DEF Beside, Less
  <2>6. QED
    BY <2>3, <2>5
<1>6. k = Max({n \in 1..Len(rest) : Newest(rest, n) <= room} \union {Smaller(1, Len(rest))})
  <2> HIDE DEF rest, room
  <2> QED
    BY <1>4, <1>5, LongestIs
<1>7. prompt'.history = kept /\ asked' = asked /\ budget' = budget
  BY DEF prepareMessages
<1>8. HistoryLimit' = HistoryLimit
  BY <1>7 DEF HistoryLimit
<1>9. Rest(asked.history)' = rest /\ Rest(prompt.history)' = Without(kept, asked.pinned)
  BY <1>7 DEF Rest, Without
<1>10. Less(HistoryLimit, IF asked.pinned THEN asked.history[1] ELSE 0)' = room
  BY <1>7, <1>8 DEF Beside
<1> HIDE DEF kept, rest, room
<1>11. HistoryIsRecent'
  <2>1. asked.pinned => kept[1] = asked.history[1]
    BY <1>3 DEF IsPruned
  <2>2. QED
    BY <1>4, <1>6, <1>7, <1>9, <1>10, <2>1 DEF HistoryIsRecent, Newest
<1>12. QED
  BY <1>3, <1>7, <1>11

LEMMA CutIs ==
  ASSUME NEW size \in Nat, NEW limit \in Nat
  PROVE  /\ Cut(size, limit) \in Nat /\ Smaller(size, limit) \in Nat
         /\ Cut(size, limit) >= Smaller(size, limit)
         /\ Cut(size, limit) <= Smaller(size, limit) + 1
BY DEF Cut, Smaller, Overhead

LEMMA BudgetPrepared == BudgetIInv /\ prepareMessages => BudgetIInv'
<1>1. SUFFICES ASSUME BudgetIInv, prepareMessages PROVE BudgetIInv'
  OBVIOUS
<1>2. BudgetShapes /\ BudgetTypeOK
  BY <1>1 DEF BudgetIInv
<1> DEFINE kept == pruneHistory(asked.history, asked.pinned, HistoryLimit)
<1>3. kept \in Seq(Size) /\ HistoryIsRecent'
  <2>1. prompt'.history = kept
    BY <1>1 DEF prepareMessages
  <2>2. QED
    BY <1>1, <1>2, <2>1, PreparedHistory
<1>4. Total(kept) \in Nat
  <2> HIDE DEF kept
  <2> QED
    BY <1>3, SizesAdd
<1>5. /\ prompt' = [system |-> Cut(asked.system, budget.system), history |-> kept,
                    user |-> Cut(asked.user, budget.user), loop |-> 0]
      /\ recorded' = [system |-> Smaller(asked.system, budget.system),
                      history |-> Conversation + Total(kept),
                      tools |-> 0, user |-> Smaller(asked.user, budget.user)]
      /\ budget' = budget /\ asked' = asked /\ results' = results /\ structured' = structured
      /\ pushes = 0 /\ pushes' = 1
  BY <1>1 DEF prepareMessages
<1> HIDE DEF kept
<1>6. asked.system \in Nat /\ asked.user \in Nat /\ budget.system \in Nat /\ budget.user \in Nat
  BY <1>2 DEF BudgetShapes, Size
<1> DEFINE s == Smaller(asked.system, budget.system)
           u == Smaller(asked.user, budget.user)
           cs == Cut(asked.system, budget.system)
           cu == Cut(asked.user, budget.user)
<1>7. /\ s \in Nat /\ u \in Nat /\ cs \in Nat /\ cu \in Nat
      /\ cs >= s /\ cs <= s + 1 /\ cu >= u /\ cu <= u + 1
  BY <1>6, CutIs
<1> HIDE DEF s, u, cs, cu
<1>8. /\ prompt' = [system |-> cs, history |-> kept, user |-> cu, loop |-> 0]
      /\ recorded' = [system |-> s, history |-> 1 + Total(kept), tools |-> 0, user |-> u]
  BY <1>5 DEF s, u, cs, cu, Conversation
<1>9. results \in [number : Nat, text : Nat] /\ results.text = 0 /\ results.number = 0
  BY <1>2, <1>5 DEF BudgetShapes
<1>10. /\ prompt' \in [system : Nat, history : Seq(Size), user : Nat, loop : Nat]
       /\ recorded' \in [system : Nat, history : Nat, tools : Nat, user : Nat]
  <2> HIDE DEF Size
  <2> QED
    BY <1>3, <1>4, <1>7, <1>8
<1>11. BudgetShapes'
  BY <1>2, <1>5, <1>8, <1>9, <1>10 DEF BudgetShapes
<1>12. BudgetTypeOK'
  <2>1. pushes' \in 0..PushBound + 1
    BY <1>5, BudgetAssumption
  <2>2. {prompt'.system, prompt'.user, prompt'.loop} \subseteq Nat /\ prompt'.history \in Seq(Size)
    BY <1>3, <1>7, <1>8
  <2>3. QED
    BY <1>2, <1>5, <1>9, <1>10, <2>1, <2>2 DEF BudgetTypeOK
<1>13. TrackerFollows'
  <2>1. totalUsed' = s + (1 + Total(kept)) + 0 + u
    BY <1>8 DEF totalUsed
  <2>2. Actual' = cs + Total(kept) + cu + 0
    BY <1>8 DEF Actual
  <2>3. Overhead * (results.number + 2)' = 2
    BY <1>5, <1>9 DEF Overhead
  <2>4. totalUsed' - Conversation = s + Total(kept) + u
    BY <1>4, <1>7, <2>1 DEF Conversation
  <2>5. Actual' \in (s + Total(kept) + u)..(s + Total(kept) + u) + 2
    BY <1>4, <1>7, <2>2
  <2>6. QED
    BY <2>3, <2>4, <2>5 DEF TrackerFollows
<1>14. ResultsAreBounded'
  BY <1>1, <1>5 DEF BudgetIInv, ResultsAreBounded
<1>15. QED
  BY <1>3, <1>11, <1>12, <1>13, <1>14 DEF BudgetIInv

\* What the loop adds leaves the history as it is.
LEMMA HistoryStays ==
  ASSUME HistoryIsRecent, pushes \in 1..PushBound, prompt'.history = prompt.history,
         asked' = asked, budget' = budget
  PROVE  HistoryIsRecent'
<1>1. Prepared
  BY BudgetAssumption DEF Prepared
<1>2. HistoryLimit' = HistoryLimit
  BY DEF HistoryLimit
<1>3. Rest(asked.history)' = Rest(asked.history) /\ Rest(prompt.history)' = Rest(prompt.history)
  BY DEF Rest
<1>4. QED
  BY <1>1, <1>2, <1>3 DEF HistoryIsRecent

LEMMA PushedTypes ==
  ASSUME BudgetTypeOK, BudgetShapes', pushes \in 1..PushBound, pushes' = pushes + 1,
         asked' = asked, budget' = budget, structured' \in BOOLEAN
  PROVE  BudgetTypeOK'
<1>1. /\ prompt'.history \in Seq(Size) /\ prompt'.system \in Nat /\ prompt'.user \in Nat
      /\ prompt'.loop \in Nat
  BY DEF BudgetShapes
<1>2. pushes' \in 0..PushBound + 1
  BY BudgetAssumption
<1>3. QED
  BY <1>1, <1>2 DEF BudgetTypeOK, BudgetShapes

LEMMA BudgetOverhead ==
  ASSUME BudgetIInv, NEW size \in Size, recordLoopOverhead(size)
  PROVE  BudgetIInv'
<1>1. BudgetShapes /\ BudgetTypeOK /\ HistoryIsRecent /\ TrackerFollows /\ ResultsAreBounded
  BY DEF BudgetIInv
<1>2. /\ prompt' = [prompt EXCEPT !.loop = @ + size]
      /\ recorded' = [recorded EXCEPT !.history = @ + size]
      /\ budget' = budget /\ asked' = asked /\ results' = results /\ structured' = structured
      /\ pushes \in 1..PushBound /\ pushes' = pushes + 1
  BY DEF recordLoopOverhead, Push
<1>3. /\ prompt \in [system : Nat, history : Seq(Size), user : Nat, loop : Nat]
      /\ recorded \in [system : Nat, history : Nat, tools : Nat, user : Nat]
  BY <1>1 DEF BudgetShapes
<1>4. size \in Nat
  BY DEF Size
<1>5. /\ prompt' \in [system : Nat, history : Seq(Size), user : Nat, loop : Nat]
      /\ prompt'.system = prompt.system /\ prompt'.history = prompt.history
      /\ prompt'.user = prompt.user /\ prompt'.loop = prompt.loop + size
  <2> HIDE DEF Size
  <2> QED
    BY <1>2, <1>3, <1>4
<1>6. /\ recorded' \in [system : Nat, history : Nat, tools : Nat, user : Nat]
      /\ recorded'.system = recorded.system /\ recorded'.history = recorded.history + size
      /\ recorded'.tools = recorded.tools /\ recorded'.user = recorded.user
  BY <1>2, <1>3, <1>4
<1>7. BudgetShapes'
  <2>1. pushes' # 0
    BY <1>2, BudgetAssumption
  <2>2. QED
    BY <1>1, <1>2, <1>5, <1>6, <2>1 DEF BudgetShapes
<1>8. BudgetTypeOK'
  <2>1. structured' \in BOOLEAN
    BY <1>1, <1>2 DEF BudgetTypeOK
  <2>2. QED
    BY <1>1, <1>2, <1>7, <2>1, PushedTypes
<1>9. HistoryIsRecent'
  BY <1>1, <1>2, <1>5, HistoryStays
<1>10. TrackerFollows'
  <2>1. Total(prompt.history) \in Nat
    BY <1>3, SizesAdd
  <2>2. Actual' = Actual + size /\ totalUsed' = totalUsed + size /\ Actual \in Nat /\ totalUsed \in Nat
    <3>1. Total(prompt.history)' = Total(prompt.history)
      BY <1>5
    <3>2. Actual' = Actual + size /\ Actual \in Nat
      BY <1>3, <1>4, <1>5, <2>1, <3>1 DEF Actual
    <3>3. totalUsed' = totalUsed + size /\ totalUsed \in Nat
      BY <1>3, <1>4, <1>6 DEF totalUsed
    <3>4. QED
      BY <3>2, <3>3
  <2>3. Prepared
    BY <1>2, BudgetAssumption DEF Prepared
  <2>4. results.number \in Nat
    BY <1>1 DEF BudgetShapes
  <2>5. Actual \in totalUsed - 1..totalUsed - 1 + 1 * (results.number + 2)
    BY <1>1, <2>3 DEF TrackerFollows, Overhead, Conversation
  <2>6. Actual' \in totalUsed' - 1..totalUsed' - 1 + 1 * (results'.number + 2)
    BY <1>2, <1>4, <2>2, <2>4, <2>5
  <2>7. QED
    BY <2>6 DEF TrackerFollows, Overhead, Conversation
<1>11. ResultsAreBounded'
  BY <1>1, <1>2 DEF ResultsAreBounded
<1>12. QED
  BY <1>7, <1>8, <1>9, <1>10, <1>11 DEF BudgetIInv

\* What a result takes is within what is left for it, or a marker, unless it is a structure.
LEMMA CutResultIs ==
  ASSUME NEW size \in Size, NEW json \in BOOLEAN, NEW now \in CutResult(size, json),
         budget.tool \in Nat, budget.tools \in Nat, recorded.tools \in Nat,
         budget.input \in Nat, totalUsed \in Nat
  PROVE  /\ now \in Nat
         /\ ~json => now <= Less(budget.tools, recorded.tools) \/ now = Marker
<1> DEFINE limit == availableForNextToolResult
<1>1. limit \in Nat /\ limit <= Less(budget.tools, recorded.tools)
  BY DEF availableForNextToolResult, remaining, Smaller, Less
<1>2. size \in Nat
  BY DEF Size
<1> HIDE DEF limit
<1>3. CASE limit = 0
  <2>1. now = Marker
    BY <1>3 DEF CutResult, limit
  <2>2. QED
    BY <2>1 DEF Marker
<1>4. CASE limit # 0 /\ size <= limit
  <2>1. now = size
    BY <1>4 DEF CutResult, limit
  <2>2. Less(budget.tools, recorded.tools) \in Nat
    BY DEF Less
  <2>3. QED
    BY <1>1, <1>2, <1>4, <2>1, <2>2
<1>5. CASE limit # 0 /\ ~(size <= limit) /\ json
  <2>1. now \in 0..size
    BY <1>5 DEF CutResult, limit
  <2>2. QED
    BY <1>2, <1>5, <2>1
<1>6. CASE limit # 0 /\ ~(size <= limit) /\ ~json
  <2>1. now = Larger(limit, Marker)
    BY <1>6 DEF CutResult, limit
  <2>2. QED
    BY <1>1, <2>1 DEF Larger, Marker
<1>7. QED
  BY <1>3, <1>4, <1>5, <1>6

LEMMA BudgetAnswers ==
  ASSUME BudgetIInv, NEW size \in Size, NEW json \in BOOLEAN, ToolAnswers(size, json)
  PROVE  BudgetIInv'
<1>1. BudgetShapes /\ BudgetTypeOK /\ HistoryIsRecent /\ TrackerFollows /\ ResultsAreBounded
  BY DEF BudgetIInv
<1>2. PICK now \in CutResult(size, json) :
        /\ prompt' = [prompt EXCEPT !.loop = @ + now + Overhead]
        /\ recorded' = [recorded EXCEPT !.tools = @ + now]
        /\ results' = [number |-> results.number + 1, text |-> results.text + now]
  BY DEF ToolAnswers
<1>3. /\ budget' = budget /\ asked' = asked /\ structured' = (structured \/ json)
      /\ pushes \in 1..PushBound /\ pushes' = pushes + 1
  BY DEF ToolAnswers, Push
<1>4. /\ prompt \in [system : Nat, history : Seq(Size), user : Nat, loop : Nat]
      /\ recorded \in [system : Nat, history : Nat, tools : Nat, user : Nat]
      /\ results \in [number : Nat, text : Nat]
      /\ budget \in [input : Nat, system : Nat, history : Nat, tool : Nat, tools : Nat, user : Nat]
      /\ recorded.tools = results.text
  BY <1>1 DEF BudgetShapes
<1>5. budget.tool \in Nat /\ budget.tools \in Nat /\ recorded.tools \in Nat /\ budget.input \in Nat
      /\ totalUsed \in Nat
  BY <1>4 DEF totalUsed
<1>6. now \in Nat /\ (~json => now <= Less(budget.tools, recorded.tools) \/ now = Marker)
  BY <1>5, CutResultIs
<1>7. /\ prompt' \in [system : Nat, history : Seq(Size), user : Nat, loop : Nat]
      /\ prompt'.system = prompt.system /\ prompt'.history = prompt.history
      /\ prompt'.user = prompt.user /\ prompt'.loop = prompt.loop + now + 1
  <2> HIDE DEF Size
  <2>1. prompt.loop + now + 1 \in Nat
    BY <1>4, <1>6
  <2>2. prompt' = [prompt EXCEPT !.loop = prompt.loop + now + 1]
    BY <1>2, <1>4 DEF Overhead
  <2>3. QED
    BY <1>4, <2>1, <2>2
<1>8. /\ recorded' \in [system : Nat, history : Nat, tools : Nat, user : Nat]
      /\ recorded'.system = recorded.system /\ recorded'.history = recorded.history
      /\ recorded'.tools = recorded.tools + now /\ recorded'.user = recorded.user
  <2>1. recorded.tools + now \in Nat
    BY <1>4, <1>6
  <2>2. recorded' = [recorded EXCEPT !.tools = recorded.tools + now]
    BY <1>2, <1>4
  <2>3. QED
    BY <1>4, <2>1, <2>2
<1>9. /\ results' \in [number : Nat, text : Nat]
      /\ results'.number = results.number + 1 /\ results'.text = results.text + now
  <2>1. results.number + 1 \in Nat /\ results.text + now \in Nat
    BY <1>4, <1>6
  <2>2. QED
    BY <1>2, <2>1
<1>10. BudgetShapes'
  <2>1. pushes' # 0
    BY <1>3, BudgetAssumption
  <2>2. recorded'.tools = results'.text
    BY <1>4, <1>8, <1>9
  <2>3. QED
    BY <1>1, <1>3, <1>7, <1>8, <1>9, <2>1, <2>2 DEF BudgetShapes
<1>11. BudgetTypeOK'
  <2>1. structured' \in BOOLEAN
    BY <1>1, <1>3 DEF BudgetTypeOK
  <2>2. QED
    BY <1>1, <1>3, <1>10, <2>1, PushedTypes
<1>12. HistoryIsRecent'
  BY <1>1, <1>3, <1>7, HistoryStays
<1>13. TrackerFollows'
  <2>1. Total(prompt.history) \in Nat
    BY <1>4, SizesAdd
  <2>2. Total(prompt.history)' = Total(prompt.history)
    BY <1>7
  <2>3. Actual' = Actual + now + 1 /\ Actual \in Nat
    <3>1. /\ Actual = prompt.system + Total(prompt.history) + prompt.user + prompt.loop
          /\ Actual' = prompt.system + Total(prompt.history) + prompt.user + (prompt.loop + now + 1)
      BY <1>7, <2>2 DEF Actual
    <3>2. prompt.system \in Nat /\ prompt.user \in Nat /\ prompt.loop \in Nat
      BY <1>4
    <3>3. QED
      BY <1>6, <2>1, <3>1, <3>2
  <2>4. totalUsed' = totalUsed + now
    BY <1>4, <1>6, <1>8 DEF totalUsed
  <2>5. Prepared
    BY <1>3, BudgetAssumption DEF Prepared
  <2>6. results.number \in Nat
    BY <1>4
  <2>7. Actual \in totalUsed - 1..totalUsed - 1 + 1 * (results.number + 2)
    BY <1>1, <2>5 DEF TrackerFollows, Overhead, Conversation
  <2>8. Actual' \in totalUsed' - 1..totalUsed' - 1 + 1 * (results'.number + 2)
    BY <1>5, <1>6, <1>9, <2>3, <2>4, <2>6, <2>7
  <2>9. QED
    BY <2>8 DEF TrackerFollows, Overhead, Conversation
<1>14. ResultsAreBounded'
  <2>1. SUFFICES ASSUME ~structured' PROVE results'.text <= budget.tools + Marker * results'.number
    BY <1>3 DEF ResultsAreBounded
  <2>2. ~structured /\ ~json
    BY <1>3, <2>1
  <2>3. results.text <= budget.tools + 2 * results.number
    BY <1>1, <2>2 DEF ResultsAreBounded, Marker
  <2>4. results.text \in Nat /\ results.number \in Nat
    BY <1>4
  <2>5. now <= Less(budget.tools, results.text) \/ now = 2
    BY <1>4, <1>6, <2>2 DEF Marker
  <2>6. results'.text <= budget.tools + 2 * results'.number
    BY <1>5, <1>6, <1>9, <2>3, <2>4, <2>5 DEF Less
  <2>7. QED
    BY <2>6 DEF Marker
<1>15. QED
  BY <1>10, <1>11, <1>12, <1>13, <1>14 DEF BudgetIInv

LEMMA BudgetInvStep == BudgetIInv /\ [BudgetNext]_budgetVars => BudgetIInv'
<1>1. SUFFICES ASSUME BudgetIInv, [BudgetNext]_budgetVars PROVE BudgetIInv'
  OBVIOUS
<1>2. CASE prepareMessages
  BY <1>1, <1>2, BudgetPrepared
<1>3. ASSUME NEW size \in Size, recordLoopOverhead(size) PROVE BudgetIInv'
  BY <1>1, <1>3, BudgetOverhead
<1>4. ASSUME NEW size \in Size, NEW json \in BOOLEAN, ToolAnswers(size, json) PROVE BudgetIInv'
  BY <1>1, <1>4, BudgetAnswers
<1>5. CASE UNCHANGED budgetVars
  <2>1. /\ budget' = budget /\ asked' = asked /\ prompt' = prompt /\ recorded' = recorded
        /\ results' = results /\ structured' = structured /\ pushes' = pushes
    BY <1>5 DEF budgetVars
  <2>2. HistoryLimit' = HistoryLimit /\ totalUsed' = totalUsed /\ Actual' = Actual
    BY <2>1 DEF HistoryLimit, totalUsed, Actual
  <2>3. BudgetTypeOK' /\ BudgetShapes'
    BY <1>1, <2>1 DEF BudgetIInv, BudgetTypeOK, BudgetShapes
  <2>4. Rest(asked.history)' = Rest(asked.history) /\ Rest(prompt.history)' = Rest(prompt.history)
    BY <2>1 DEF Rest
  <2>5. HistoryIsRecent'
    BY <1>1, <2>1, <2>2, <2>4 DEF BudgetIInv, HistoryIsRecent, Prepared
  <2>6. TrackerFollows' /\ ResultsAreBounded'
    BY <1>1, <2>1, <2>2 DEF BudgetIInv, TrackerFollows, ResultsAreBounded, Prepared
  <2>7. QED
    BY <2>3, <2>5, <2>6 DEF BudgetIInv
<1>6. QED
  BY <1>1, <1>2, <1>3, <1>4, <1>5 DEF BudgetNext

LEMMA BudgetInvImplies == BudgetIInv => BudgetInv
BY DEF BudgetIInv, BudgetInv
-----------------------------------------------------------------------------
\* The routes of questions

\* The parts of the invariant speak of the questions qs, of the cache's entries and of the time
\* now.
AnsweredIn(qs) == {q \in Question : qs[q].at = "answered"}

\* Every entry of the cache is what some question was answered.
EntriesKnown(entries, qs) ==
  /\ IsFiniteSet(DOMAIN entries)
  /\ \A s \in DOMAIN entries :
       /\ entries[s] = [persona |-> entries[s].persona, age |-> entries[s].age]
       /\ entries[s].age \in Nat
       /\ \E r \in AnsweredIn(qs) : /\ qs[r].fresh /\ qs[r].message.start = s
                                    /\ qs[r].persona = entries[s].persona

\* Above the limit and one, the ages are close to one another.
EntriesAreClose(entries) ==
  Cardinality(DOMAIN entries) > CacheLimit + 1 =>
    \A s, t \in DOMAIN entries : entries[s].age - entries[t].age <= CACHE_TTL

\* An answer that was decided anew is remembered as long as it counts.
AnswersRemembered(entries, qs, now) ==
  \A q \in AnsweredIn(qs) :
    qs[q].fresh =>
      \/ now - qs[q].answered > CACHE_TTL
      \/ /\ qs[q].message.start \in DOMAIN entries
         /\ entries[qs[q].message.start].age <= now - qs[q].answered

\* What is asked and answered, and what was answered before it
QuestionsKnown(qs, now) ==
  /\ DOMAIN qs = Question
  /\ \A q \in Question : qs[q].at \in {"new", "asking", "answered"}
  /\ \A q \in Question : qs[q].at # "new" =>
       /\ qs[q].message \in Message /\ qs[q].earlier \subseteq AnsweredIn(qs)
       /\ qs[q].asked \in Nat /\ qs[q].asked <= now
  /\ \A q \in AnsweredIn(qs) : /\ qs[q].answered \in Nat /\ qs[q].answered <= now
                               /\ qs[q].fresh \in BOOLEAN

\* None of the earlier answers to what begins alike counts any more.
NoneCounts(a, qs) ==
  \A r \in a.earlier : (qs[r].fresh /\ qs[r].message.start = a.message.start) =>
                         a.asked - qs[r].answered > CACHE_TTL

\* When the model is asked, the cache and the rules had no answer.
AskedForAReason(qs) ==
  \A q \in Question : qs[q].at = "asking" => qs[q].message.matches = {} /\ NoneCounts(qs[q], qs)

\* How a question was answered, from what was answered before
AnswerIs(a, qs) ==
  /\ a.fresh => NoneCounts(a, qs)
  /\ ~a.fresh => \E r \in a.earlier : /\ qs[r].message.start = a.message.start
                                      /\ qs[r].fresh /\ qs[r].persona = a.persona
  /\ (a.message.matches # {} /\ \A r \in a.earlier : qs[r].message.start # a.message.start) =>
       a.persona \in a.message.matches /\ a.asked = a.answered

AnswersKnown(qs) == \A q \in AnsweredIn(qs) : AnswerIs(qs[q], qs)

QuestionsIInv(qs, now) == QuestionsKnown(qs, now) /\ AskedForAReason(qs) /\ AnswersKnown(qs)
EntriesIInv(entries, qs, now) ==
  EntriesKnown(entries, qs) /\ EntriesAreClose(entries) /\ AnswersRemembered(entries, qs, now)

RoutesIInv ==
  /\ minutes \in Nat
  /\ QuestionsIInv(questions, minutes)
  /\ EntriesIInv(routings, questions, minutes)

LEMMA RoutesFollow == RoutesIInv => RoutesHold
<1>1. SUFFICES ASSUME RoutesIInv PROVE RoutesHold
  OBVIOUS
<1>2. \A p : getPersonaInstruction(p) \in getAvailablePersonas
  BY DEF getPersonaInstruction, getAvailablePersonas
<1>3. AnswersKnown(questions) /\ EntriesAreClose(routings) /\ QuestionsKnown(questions, minutes)
  BY <1>1 DEF RoutesIInv, QuestionsIInv, EntriesIInv
<1>4. Decided = AnsweredIn(questions)
  BY DEF Decided, AnsweredIn
<1>5. ASSUME NEW q \in Decided
      PROVE  LET a == questions[q]
                 alike == {r \in a.earlier : questions[r].message.start = a.message.start}
                 decided == {r \in alike : questions[r].fresh}
             IN /\ a.fresh => \A r \in decided : a.asked - questions[r].answered > CACHE_TTL
                /\ ~a.fresh => \E r \in decided : questions[r].persona = a.persona
                /\ (alike = {} /\ a.message.matches # {}) =>
                     a.persona \in a.message.matches /\ a.asked = a.answered
  <2>1. AnswerIs(questions[q], questions)
    BY <1>3, <1>4 DEF AnswersKnown
  <2>2. QED
    BY <2>1 DEF AnswerIs, NoneCounts
<1>6. QED
  BY <1>2, <1>3, <1>5 DEF RoutesHold, EntriesAreClose

\* A rule that matches decides
LEMMA FirstRuleDecides ==
  ASSUME NEW m \in Message
  PROVE  /\ matchKeywordRules(m) # {} => PERSONA_RULES[Min(matchKeywordRules(m))] \in m.matches
         /\ matchKeywordRules(m) = {} => m.matches = {}
<1>1. m.matches \subseteq Ruled
  BY AdviceAssumption
<1>2. ASSUME matchKeywordRules(m) = {} PROVE m.matches = {}
  BY <1>1, <1>2 DEF matchKeywordRules, Ruled
<1>3. ASSUME matchKeywordRules(m) # {}
      PROVE  PERSONA_RULES[Min(matchKeywordRules(m))] \in m.matches
  <2> DEFINE M == matchKeywordRules(m)
  <2>1. M \subseteq Nat /\ \A i \in M : PERSONA_RULES[i] \in m.matches
    <3>1. Len(PERSONA_RULES) \in Nat
      BY DEF PERSONA_RULES
    <3>2. QED
      BY <3>1 DEF matchKeywordRules
  <2> HIDE DEF M
  <2>2. M # {}
    BY <1>3 DEF M
  <2>3. \E i \in M : \A j \in M : i <= j
    BY <2>1, <2>2, LeastOf
  <2>4. Min(M) \in M
    BY <2>3 DEF Min
  <2>5. QED
    BY <2>1, <2>4 DEF M
<1>4. QED
  BY <1>2, <1>3

\* What is stored in the cache, and what is removed for it
IsStored(new, entries, start, p) ==
  /\ IsFiniteSet(DOMAIN new)
  /\ DOMAIN new \subseteq DOMAIN entries \union {start} /\ start \in DOMAIN new
  /\ new[start] = [persona |-> p, age |-> 0]
  /\ \A s \in DOMAIN new : s # start => new[s] = entries[s]
  /\ \A s \in DOMAIN entries : s \notin DOMAIN new => entries[s].age > CACHE_TTL
  /\ EntriesAreClose(new)

LEMMA StoredIs ==
  ASSUME NEW entries, NEW qs, EntriesKnown(entries, qs), NEW start, NEW p
  PROVE  IsStored(setCachedResult(entries, start, p), entries, start, p)
<1> DEFINE kept == IF Cardinality(DOMAIN entries) > CacheLimit
                   THEN {s \in DOMAIN entries : ~Stale(entries[s])} ELSE DOMAIN entries
           new == setCachedResult(entries, start, p)
<1>1. IsFiniteSet(DOMAIN entries) /\ \A s \in DOMAIN entries : entries[s].age \in Nat
  BY DEF EntriesKnown
<1>2. kept \subseteq DOMAIN entries
  OBVIOUS
<1>3. \A s \in DOMAIN entries : s \notin kept => entries[s].age > CACHE_TTL
  BY DEF Stale
<1>4. Cardinality(DOMAIN entries) > CacheLimit => \A s \in kept : entries[s].age <= CACHE_TTL
  BY <1>1, AdviceAssumption DEF Stale
<1>5. new = [s \in kept \union {start} |-> IF s = start THEN [persona |-> p, age |-> 0] ELSE entries[s]]
  BY DEF setCachedResult
<1> HIDE DEF kept, new
<1>6. DOMAIN new = kept \union {start} /\ new[start] = [persona |-> p, age |-> 0]
      /\ \A s \in DOMAIN new : s # start => new[s] = entries[s]
  BY <1>5
<1>7. IsFiniteSet(kept) /\ Cardinality(kept) <= Cardinality(DOMAIN entries)
      /\ IsFiniteSet(kept \union {start}) /\ Cardinality(kept \union {start}) <= Cardinality(kept) + 1
      /\ Cardinality(kept) \in Nat /\ Cardinality(DOMAIN entries) \in Nat
      /\ Cardinality(kept \union {start}) \in Nat
  <2>1. IsFiniteSet(kept) /\ Cardinality(kept) <= Cardinality(DOMAIN entries)
    BY <1>1, <1>2, FS_Subset
  <2>2. IsFiniteSet(kept \union {start})
        /\ Cardinality(kept \union {start}) = IF start \in kept THEN Cardinality(kept)
                                              ELSE Cardinality(kept) + 1
    BY <2>1, FS_AddElement
  <2>3. Cardinality(kept) \in Nat /\ Cardinality(DOMAIN entries) \in Nat
        /\ Cardinality(kept \union {start}) \in Nat
    BY <1>1, <2>1, <2>2, FS_CardinalityType
  <2>4. Cardinality(kept \union {start}) <= Cardinality(kept) + 1
    BY <2>2, <2>3
  <2>5. QED
    BY <2>1, <2>2, <2>3, <2>4
<1>8. EntriesAreClose(new)
  <2>1. SUFFICES ASSUME Cardinality(DOMAIN new) > CacheLimit + 1
                 PROVE  \A s, t \in DOMAIN new : new[s].age - new[t].age <= CACHE_TTL
    BY DEF EntriesAreClose
  <2>2. Cardinality(DOMAIN entries) > CacheLimit
    BY <1>6, <1>7, <2>1, AdviceAssumption
  <2>3. \A s \in DOMAIN new : new[s].age \in Nat /\ new[s].age <= CACHE_TTL
    BY <1>1, <1>2, <1>4, <1>6, <2>2, AdviceAssumption
  <2>4. QED
    BY <2>3, AdviceAssumption
<1>9. QED
  BY <1>2, <1>3, <1>6, <1>7, <1>8 DEF IsStored, new

\* Entries stay known when questions that were answered stay as they are.
LEMMA EntriesKept ==
  ASSUME NEW entries, NEW qs, NEW now \in Nat, EntriesIInv(entries, qs, now), NEW later,
         \A r \in AnsweredIn(qs) : r \in AnsweredIn(later) /\ later[r] = qs[r],
         \A r \in AnsweredIn(later) : r \in AnsweredIn(qs) \/ ~later[r].fresh
  PROVE  EntriesIInv(entries, later, now)
<1>1. EntriesKnown(entries, later)
  BY DEF EntriesIInv, EntriesKnown
<1>2. AnswersRemembered(entries, later, now)
  BY DEF EntriesIInv, AnswersRemembered
<1>3. QED
  BY <1>1, <1>2 DEF EntriesIInv

\* A question that is decided anew is stored.
LEMMA EntriesStored ==
  ASSUME NEW entries, NEW qs, NEW now \in Nat, EntriesIInv(entries, qs, now),
         QuestionsKnown(qs, now), NEW later, NEW q \in Question, NEW start, NEW p,
         AnsweredIn(later) = AnsweredIn(qs) \union {q},
         \A r \in AnsweredIn(qs) : later[r] = qs[r],
         later[q].fresh, later[q].message.start = start, later[q].persona = p,
         later[q].answered = now
  PROVE  EntriesIInv(setCachedResult(entries, start, p), later, now)
<1>1. PICK new : new = setCachedResult(entries, start, p)
  OBVIOUS
<1>2. EntriesKnown(entries, qs) /\ AnswersRemembered(entries, qs, now)
  BY DEF EntriesIInv
<1>3. IsStored(new, entries, start, p)
  BY <1>1, <1>2, StoredIs
<1>4. EntriesKnown(new, later)
  <2>1. IsFiniteSet(DOMAIN new)
    BY <1>3 DEF IsStored
  <2>2. ASSUME NEW s \in DOMAIN new
        PROVE  /\ new[s] = [persona |-> new[s].persona, age |-> new[s].age]
               /\ new[s].age \in Nat
               /\ \E r \in AnsweredIn(later) : /\ later[r].fresh /\ later[r].message.start = s
                                               /\ later[r].persona = new[s].persona
    <3>1. CASE s = start
      <4>1. new[s] = [persona |-> p, age |-> 0]
        BY <1>3, <3>1 DEF IsStored
      <4>2. q \in AnsweredIn(later)
        OBVIOUS
      <4>3. QED
        BY <3>1, <4>1, <4>2
    <3>2. CASE s # start
      <4>1. s \in DOMAIN entries /\ new[s] = entries[s]
        BY <1>3, <3>2 DEF IsStored
      <4>2. QED
        BY <1>2, <4>1 DEF EntriesKnown
    <3>3. QED
      BY <3>1, <3>2
  <2>3. QED
    BY <2>1, <2>2 DEF EntriesKnown
<1>5. AnswersRemembered(new, later, now)
  <2>1. ASSUME NEW r \in AnsweredIn(later), later[r].fresh
        PROVE  \/ now - later[r].answered > CACHE_TTL
               \/ /\ later[r].message.start \in DOMAIN new
                  /\ new[later[r].message.start].age <= now - later[r].answered
    <3> DEFINE s == later[r].message.start
    <3>1. later[r].answered \in Nat /\ later[r].answered <= now
      <4>1. CASE r = q
        BY <4>1
      <4>2. CASE r \in AnsweredIn(qs)
        BY <4>2 DEF QuestionsKnown
      <4>3. QED
        BY <4>1, <4>2
    <3>2. CASE s = start
      <4>1. s \in DOMAIN new /\ new[s].age = 0
        BY <1>3, <3>2 DEF IsStored
      <4>2. QED
        BY <3>1, <4>1
    <3>3. CASE s # start
      <4>1. r \in AnsweredIn(qs) /\ later[r] = qs[r]
        BY <3>3
      <4>2. \/ now - qs[r].answered > CACHE_TTL
            \/ s \in DOMAIN entries /\ entries[s].age <= now - qs[r].answered
        BY <1>2, <2>1, <4>1 DEF AnswersRemembered
      <4>3. CASE s \in DOMAIN new
        <5>1. new[s] = entries[s] /\ s \in DOMAIN entries
          BY <1>3, <3>3, <4>3 DEF IsStored
        <5>2. QED
          BY <4>1, <4>2, <4>3, <5>1
      <4>4. CASE s \in DOMAIN entries /\ s \notin DOMAIN new
        <5>1. entries[s].age > CACHE_TTL /\ entries[s].age \in Nat
          BY <1>2, <1>3, <4>4 DEF IsStored, EntriesKnown
        <5>2. QED
          BY <3>1, <4>1, <4>2, <5>1, AdviceAssumption
      <4>5. QED
        BY <4>1, <4>2, <4>3, <4>4
    <3>4. QED
      BY <3>2, <3>3
  <2>2. QED
    BY <2>1 DEF AnswersRemembered
<1>6. QED
  BY <1>1, <1>3, <1>4, <1>5 DEF EntriesIInv, IsStored

\* An entry that no longer counts is deleted.
LEMMA EntryDeleted ==
  ASSUME NEW entries, NEW qs, NEW now \in Nat, EntriesIInv(entries, qs, now),
         QuestionsKnown(qs, now), NEW start,
         start \in DOMAIN entries => entries[start].age > CACHE_TTL
  PROVE  EntriesIInv([s \in DOMAIN entries \ {start} |-> entries[s]], qs, now)
<1>1. PICK current : current = [s \in DOMAIN entries \ {start} |-> entries[s]]
  OBVIOUS
<1>2. EntriesKnown(entries, qs) /\ EntriesAreClose(entries) /\ AnswersRemembered(entries, qs, now)
  BY DEF EntriesIInv
<1>3. DOMAIN current = DOMAIN entries \ {start} /\ \A s \in DOMAIN current : current[s] = entries[s]
  BY <1>1
<1>4. IsFiniteSet(DOMAIN entries)
  BY <1>2 DEF EntriesKnown
<1>5. /\ IsFiniteSet(DOMAIN current) /\ Cardinality(DOMAIN current) <= Cardinality(DOMAIN entries)
      /\ Cardinality(DOMAIN current) \in Nat /\ Cardinality(DOMAIN entries) \in Nat
  <2>1. DOMAIN current \subseteq DOMAIN entries
    BY <1>3
  <2>2. IsFiniteSet(DOMAIN current) /\ Cardinality(DOMAIN current) <= Cardinality(DOMAIN entries)
    BY <1>4, <2>1, FS_Subset
  <2>3. QED
    BY <1>4, <2>2, FS_CardinalityType
<1>6. EntriesKnown(current, qs)
  BY <1>2, <1>3, <1>5 DEF EntriesKnown
<1>7. EntriesAreClose(current)
  BY <1>2, <1>3, <1>5, AdviceAssumption DEF EntriesAreClose
<1>8. AnswersRemembered(current, qs, now)
  <2>1. ASSUME NEW r \in AnsweredIn(qs), qs[r].fresh
        PROVE  \/ now - qs[r].answered > CACHE_TTL
               \/ /\ qs[r].message.start \in DOMAIN current
                  /\ current[qs[r].message.start].age <= now - qs[r].answered
    <3> DEFINE s == qs[r].message.start
    <3>1. \/ now - qs[r].answered > CACHE_TTL
          \/ s \in DOMAIN entries /\ entries[s].age <= now - qs[r].answered
      BY <1>2, <2>1 DEF AnswersRemembered
    <3>2. CASE s \in DOMAIN entries /\ s # start
      BY <1>3, <3>1, <3>2
    <3>3. CASE s \in DOMAIN entries /\ s = start
      <4>1. entries[s].age > CACHE_TTL /\ entries[s].age \in Nat /\ qs[r].answered \in Nat
        BY <1>2, <3>3 DEF EntriesKnown, QuestionsKnown
      <4>2. QED
        BY <3>1, <4>1, AdviceAssumption
    <3>4. QED
      BY <3>1, <3>2, <3>3
  <2>2. QED
    BY <2>1 DEF AnswersRemembered
<1>9. QED
  BY <1>1, <1>6, <1>7, <1>8 DEF EntriesIInv

\* What the cache has no answer for, no earlier answer counts for.
LEMMA NothingCounts ==
  ASSUME NEW entries, NEW qs, NEW now \in Nat, EntriesIInv(entries, qs, now),
         QuestionsKnown(qs, now), NEW a, a.earlier = AnsweredIn(qs), a.asked = now,
         a.message.start \in DOMAIN entries => entries[a.message.start].age > CACHE_TTL
  PROVE  NoneCounts(a, qs)
<1>1. ASSUME NEW r \in AnsweredIn(qs), qs[r].fresh, qs[r].message.start = a.message.start
      PROVE  now - qs[r].answered > CACHE_TTL
  <2>1. \/ now - qs[r].answered > CACHE_TTL
        \/ /\ a.message.start \in DOMAIN entries
           /\ entries[a.message.start].age <= now - qs[r].answered
    BY <1>1 DEF EntriesIInv, AnswersRemembered
  <2>2. qs[r].answered \in Nat
    BY DEF QuestionsKnown
  <2>3. a.message.start \in DOMAIN entries => entries[a.message.start].age \in Nat
    BY DEF EntriesIInv, EntriesKnown
  <2>4. QED
    BY <2>1, <2>2, <2>3, AdviceAssumption
<1>2. QED
  BY <1>1 DEF NoneCounts

\* What a question is answered
IsAnswer(a, qs, now) ==
  /\ a.at = "answered" /\ a.message \in Message /\ a.earlier \subseteq AnsweredIn(qs)
  /\ a.asked \in Nat /\ a.asked <= now /\ a.answered = now
  /\ a.fresh \in BOOLEAN /\ AnswerIs(a, qs)
IsAnswered(later, qs, q, a, now) ==
  /\ QuestionsIInv(later, now)
  /\ AnsweredIn(later) = AnsweredIn(qs) \union {q}
  /\ later[q] = a /\ \A r \in AnsweredIn(qs) : later[r] = qs[r]

LEMMA QuestionAnswered ==
  ASSUME NEW qs, NEW now \in Nat, QuestionsIInv(qs, now), NEW q \in Question,
         qs[q].at # "answered", NEW a, IsAnswer(a, qs, now)
  PROVE  IsAnswered([qs EXCEPT ![q] = a], qs, q, a, now)
<1> DEFINE later == [qs EXCEPT ![q] = a]
<1>0. /\ a.at = "answered" /\ a.message \in Message /\ a.earlier \subseteq AnsweredIn(qs)
      /\ a.asked \in Nat /\ a.asked <= now /\ a.answered = now
      /\ a.fresh \in BOOLEAN /\ AnswerIs(a, qs)
  BY DEF IsAnswer
<1>1. QuestionsKnown(qs, now) /\ AskedForAReason(qs) /\ AnswersKnown(qs)
  BY DEF QuestionsIInv
<1>2. DOMAIN qs = Question
  BY <1>1 DEF QuestionsKnown
<1>3. DOMAIN later = Question /\ later[q] = a /\ \A r \in Question : r # q => later[r] = qs[r]
  BY <1>2
<1> HIDE DEF later
<1>4. AnsweredIn(later) = AnsweredIn(qs) \union {q} /\ q \notin AnsweredIn(qs)
  BY <1>0, <1>3 DEF AnsweredIn
<1>5. \A r \in AnsweredIn(qs) : r \in Question /\ later[r] = qs[r]
  BY <1>3, <1>4 DEF AnsweredIn
<1>6. \A b : b.earlier \subseteq AnsweredIn(qs) =>
             (NoneCounts(b, qs) <=> NoneCounts(b, later)) /\ (AnswerIs(b, qs) <=> AnswerIs(b, later))
  <2>1. ASSUME NEW b, b.earlier \subseteq AnsweredIn(qs)
        PROVE  NoneCounts(b, qs) <=> NoneCounts(b, later)
    BY <1>5, <2>1 DEF NoneCounts
  <2>2. ASSUME NEW b, b.earlier \subseteq AnsweredIn(qs)
        PROVE  AnswerIs(b, qs) <=> AnswerIs(b, later)
    <3>1. \A r \in b.earlier : later[r] = qs[r]
      BY <1>5, <2>2
    <3>2. NoneCounts(b, qs) <=> NoneCounts(b, later)
      BY <2>1, <2>2
    <3>3. QED
      BY <3>1, <3>2 DEF AnswerIs
  <2>3. QED
    BY <2>1, <2>2
<1>7. QuestionsKnown(later, now)
  <2>1. \A r \in Question : later[r].at \in {"new", "asking", "answered"}
    BY <1>0, <1>1, <1>3 DEF QuestionsKnown
  <2>2. ASSUME NEW r \in Question, later[r].at # "new"
        PROVE  /\ later[r].message \in Message /\ later[r].earlier \subseteq AnsweredIn(later)
               /\ later[r].asked \in Nat /\ later[r].asked <= now
    <3>1. CASE r = q
      BY <1>0, <1>3, <1>4, <3>1
    <3>2. CASE r # q
      <4>1. later[r] = qs[r]
        BY <1>3, <3>2
      <4>2. QED
        BY <1>1, <1>4, <2>2, <4>1 DEF QuestionsKnown
    <3>3. QED
      BY <3>1, <3>2
  <2>3. \A r \in AnsweredIn(later) : /\ later[r].answered \in Nat /\ later[r].answered <= now
                                     /\ later[r].fresh \in BOOLEAN
    <3>1. a.answered \in Nat /\ a.answered <= now
      BY <1>0
    <3>2. QED
      BY <1>0, <1>1, <1>3, <1>4, <1>5, <3>1 DEF QuestionsKnown
  <2>4. QED
    BY <1>3, <2>1, <2>2, <2>3 DEF QuestionsKnown
<1>8. AskedForAReason(later)
  <2>1. ASSUME NEW r \in Question, later[r].at = "asking"
        PROVE  later[r].message.matches = {} /\ NoneCounts(later[r], later)
    <3>1. later[r] = qs[r]
      BY <1>0, <1>3, <2>1
    <3>2. qs[r].earlier \subseteq AnsweredIn(qs)
      BY <1>1, <2>1, <3>1 DEF QuestionsKnown
    <3>3. QED
      BY <1>1, <1>6, <2>1, <3>1, <3>2 DEF AskedForAReason
  <2>2. QED
    BY <2>1 DEF AskedForAReason
<1>9. AnswersKnown(later)
  <2>1. ASSUME NEW r \in AnsweredIn(qs) PROVE AnswerIs(later[r], later)
    <3>1. later[r] = qs[r] /\ r \in Question /\ qs[r].at = "answered"
      BY <1>5 DEF AnsweredIn
    <3>2. qs[r].earlier \subseteq AnsweredIn(qs)
      BY <1>1, <3>1 DEF QuestionsKnown
    <3>3. QED
      BY <1>1, <1>6, <3>1, <3>2 DEF AnswersKnown
  <2>2. AnswerIs(later[q], later)
    BY <1>0, <1>3, <1>6
  <2>3. QED
    BY <1>4, <2>1, <2>2 DEF AnswersKnown
<1>10. QED
  BY <1>3, <1>4, <1>5, <1>7, <1>8, <1>9 DEF QuestionsIInv, IsAnswered, later

\* What is put to the model
IsAsked(a, qs, now) ==
  /\ a.at = "asking" /\ a.message \in Message /\ a.earlier \subseteq AnsweredIn(qs)
  /\ a.asked = now /\ a.message.matches = {} /\ NoneCounts(a, qs)
IsPending(later, qs, now) ==
  /\ QuestionsIInv(later, now)
  /\ AnsweredIn(later) = AnsweredIn(qs)
  /\ \A r \in AnsweredIn(qs) : later[r] = qs[r]

LEMMA QuestionAsked ==
  ASSUME NEW qs, NEW now \in Nat, QuestionsIInv(qs, now), NEW q \in Question,
         qs[q].at = "new", NEW a, IsAsked(a, qs, now)
  PROVE  IsPending([qs EXCEPT ![q] = a], qs, now)
<1> DEFINE later == [qs EXCEPT ![q] = a]
<1>0. /\ a.at = "asking" /\ a.message \in Message /\ a.earlier \subseteq AnsweredIn(qs)
      /\ a.asked = now /\ a.message.matches = {} /\ NoneCounts(a, qs)
  BY DEF IsAsked
<1>1. QuestionsKnown(qs, now) /\ AskedForAReason(qs) /\ AnswersKnown(qs)
  BY DEF QuestionsIInv
<1>2. DOMAIN qs = Question
  BY <1>1 DEF QuestionsKnown
<1>3. DOMAIN later = Question /\ later[q] = a /\ \A r \in Question : r # q => later[r] = qs[r]
  BY <1>2
<1> HIDE DEF later
<1>4. AnsweredIn(later) = AnsweredIn(qs) /\ q \notin AnsweredIn(qs)
  BY <1>0, <1>3 DEF AnsweredIn
<1>5. \A r \in AnsweredIn(qs) : r \in Question /\ later[r] = qs[r]
  BY <1>3, <1>4 DEF AnsweredIn
<1>6. ASSUME NEW b, b.earlier \subseteq AnsweredIn(qs)
      PROVE  /\ NoneCounts(b, qs) <=> NoneCounts(b, later)
             /\ AnswerIs(b, qs) <=> AnswerIs(b, later)
  <2>1. NoneCounts(b, qs) <=> NoneCounts(b, later)
    BY <1>5, <1>6 DEF NoneCounts
  <2>2. \A r \in b.earlier : later[r] = qs[r]
    BY <1>5, <1>6
  <2>3. QED
    BY <2>1, <2>2 DEF AnswerIs
<1>7. QuestionsKnown(later, now)
  <2>1. \A r \in Question : later[r].at \in {"new", "asking", "answered"}
    BY <1>0, <1>1, <1>3 DEF QuestionsKnown
  <2>2. ASSUME NEW r \in Question, later[r].at # "new"
        PROVE  /\ later[r].message \in Message /\ later[r].earlier \subseteq AnsweredIn(later)
               /\ later[r].asked \in Nat /\ later[r].asked <= now
    <3>1. CASE r = q
      BY <1>0, <1>3, <1>4, <3>1
    <3>2. CASE r # q
      <4>1. later[r] = qs[r]
        BY <1>3, <3>2
      <4>2. QED
        BY <1>1, <1>4, <2>2, <4>1 DEF QuestionsKnown
    <3>3. QED
      BY <3>1, <3>2
  <2>3. QED
    BY <1>1, <1>3, <1>4, <1>5, <2>1, <2>2 DEF QuestionsKnown
<1>8. AskedForAReason(later)
  <2>1. ASSUME NEW r \in Question, r # q, later[r].at = "asking"
        PROVE  later[r].message.matches = {} /\ NoneCounts(later[r], later)
    <3>1. later[r] = qs[r]
      BY <1>3, <2>1
    <3>2. qs[r].earlier \subseteq AnsweredIn(qs)
      BY <1>1, <2>1, <3>1 DEF QuestionsKnown
    <3>3. QED
      BY <1>1, <1>6, <2>1, <3>1, <3>2 DEF AskedForAReason
  <2>2. NoneCounts(later[q], later)
    BY <1>0, <1>3, <1>6
  <2>3. QED
    BY <1>0, <1>3, <2>1, <2>2 DEF AskedForAReason
<1>9. AnswersKnown(later)
  <2>1. ASSUME NEW r \in AnsweredIn(qs) PROVE AnswerIs(later[r], later)
    <3>1. later[r] = qs[r] /\ r \in Question /\ qs[r].at = "answered"
      BY <1>5 DEF AnsweredIn
    <3>2. qs[r].earlier \subseteq AnsweredIn(qs)
      BY <1>1, <3>1 DEF QuestionsKnown
    <3>3. QED
      BY <1>1, <1>6, <3>1, <3>2 DEF AnswersKnown
  <2>2. QED
    BY <1>4, <2>1 DEF AnswersKnown
<1>10. QED
  BY <1>4, <1>5, <1>7, <1>8, <1>9 DEF QuestionsIInv, IsPending, later

LEMMA RoutedStep ==
  ASSUME RoutesIInv, NEW q \in Question, NEW m \in Message, routeToPersona(q, m)
  PROVE  RoutesIInv'
<1> DEFINE cached == getCachedResult(m.start)
           current == [s \in DOMAIN routings \ {r \in {m.start} : cached = {}} |-> routings[s]]
           matching == matchKeywordRules(m)
           first == PERSONA_RULES[Min(matching)]
           A(p, fresh) == [at |-> "answered", message |-> m, persona |-> p, fresh |-> fresh,
                           earlier |-> Decided, asked |-> minutes, answered |-> minutes]
           asking == [at |-> "asking", message |-> m, earlier |-> Decided, asked |-> minutes]
<1>1. /\ minutes \in Nat /\ QuestionsIInv(questions, minutes)
      /\ EntriesIInv(routings, questions, minutes) /\ QuestionsKnown(questions, minutes)
  BY DEF RoutesIInv, QuestionsIInv
<1>2. questions[q].at = "new" /\ minutes' = minutes
  BY DEF routeToPersona
<1>3. Decided = AnsweredIn(questions)
  BY DEF Decided, AnsweredIn
<1>4. CASE cached # {}
  <2>1. /\ m.start \in DOMAIN routings /\ cached = {routings[m.start].persona}
    BY <1>4 DEF getCachedResult
  <2>2. (\A p \in cached : Answer(q, m, p, FALSE, Decided, minutes)) /\ routings' = routings
    BY <1>4 DEF routeToPersona
  <2>3. PICK p : p = routings[m.start].persona
    OBVIOUS
  <2>4. Answer(q, m, p, FALSE, Decided, minutes)
    BY <2>1, <2>2, <2>3
  <2>5. questions' = [questions EXCEPT ![q] = A(p, FALSE)]
    BY <2>4 DEF Answer
  <2>6. AnswerIs(A(p, FALSE), questions)
    <3>1. PICK r \in AnsweredIn(questions) : /\ questions[r].fresh
                                             /\ questions[r].message.start = m.start
                                             /\ questions[r].persona = p
      BY <1>1, <2>1, <2>3 DEF EntriesIInv, EntriesKnown
    <3>2. /\ A(p, FALSE).earlier = AnsweredIn(questions) /\ A(p, FALSE).message = m
          /\ A(p, FALSE).persona = p /\ A(p, FALSE).fresh = FALSE
      BY <1>3
    <3> HIDE DEF A
    <3>3. QED
      BY <3>1, <3>2 DEF AnswerIs
  <2>7. /\ A(p, FALSE).at = "answered" /\ A(p, FALSE).message \in Message
        /\ A(p, FALSE).earlier \subseteq AnsweredIn(questions)
        /\ A(p, FALSE).asked \in Nat /\ A(p, FALSE).asked <= minutes
        /\ A(p, FALSE).answered = minutes /\ A(p, FALSE).fresh = FALSE
    BY <1>1, <1>3
  <2>8. PICK a : a = A(p, FALSE)
    OBVIOUS
  <2> HIDE DEF A, cached
  <2>9. /\ QuestionsIInv(questions', minutes)
        /\ AnsweredIn(questions') = AnsweredIn(questions) \union {q}
        /\ questions'[q] = a /\ \A r \in AnsweredIn(questions) : questions'[r] = questions[r]
    <3>1. IsAnswer(a, questions, minutes)
      BY <2>6, <2>7, <2>8 DEF IsAnswer
    <3>2. IsAnswered([questions EXCEPT ![q] = a], questions, q, a, minutes)
      BY <1>1, <1>2, <3>1, QuestionAnswered
    <3>3. questions' = [questions EXCEPT ![q] = a]
      BY <2>5, <2>8
    <3>4. QED
      BY <3>2, <3>3 DEF IsAnswered
  <2>10. EntriesIInv(routings, questions', minutes)
    <3>1. ~questions'[q].fresh
      BY <2>7, <2>8, <2>9
    <3>2. QED
      BY <1>1, <2>9, <3>1, EntriesKept
  <2>11. QED
    BY <1>1, <1>2, <2>2, <2>9, <2>10 DEF RoutesIInv
<1>5. ASSUME cached = {}
      PROVE  /\ current = [s \in DOMAIN routings \ {m.start} |-> routings[s]]
             /\ m.start \in DOMAIN routings => routings[m.start].age > CACHE_TTL
             /\ EntriesIInv(current, questions, minutes)
  <2>1. m.start \in DOMAIN routings => routings[m.start].age > CACHE_TTL
    BY <1>5 DEF getCachedResult, Stale
  <2>2. current = [s \in DOMAIN routings \ {m.start} |-> routings[s]]
    <3>1. {r \in {m.start} : cached = {}} = {m.start}
      BY <1>5
    <3> HIDE DEF cached
    <3>2. QED
      BY <3>1
  <2>3. EntriesIInv([s \in DOMAIN routings \ {m.start} |-> routings[s]], questions, minutes)
    BY <1>1, <2>1, EntryDeleted
  <2>4. QED
    BY <2>1, <2>2, <2>3
<1>6. CASE cached = {} /\ matching # {}
  <2>1. Answer(q, m, first, TRUE, Decided, minutes)
        /\ routings' = setCachedResult(current, m.start, first)
    BY <1>6 DEF routeToPersona
  <2>2. first \in m.matches
    BY <1>6, FirstRuleDecides
  <2>3. questions' = [questions EXCEPT ![q] = A(first, TRUE)]
    BY <2>1 DEF Answer
  <2>4. PICK a : a = A(first, TRUE)
    OBVIOUS
  <2>5. PICK p : p = first
    OBVIOUS
  <2>6. /\ a.at = "answered" /\ a.message = m /\ a.persona = p /\ a.fresh = TRUE
        /\ a.earlier = AnsweredIn(questions) /\ a.asked = minutes /\ a.answered = minutes
    BY <1>3, <2>4, <2>5
  <2> HIDE DEF first, A, current, cached, matching
  <2>7. NoneCounts(a, questions)
    BY <1>1, <1>5, <1>6, <2>6, NothingCounts
  <2>8. AnswerIs(a, questions)
    BY <2>2, <2>5, <2>6, <2>7 DEF AnswerIs
  <2>9. /\ QuestionsIInv(questions', minutes)
        /\ AnsweredIn(questions') = AnsweredIn(questions) \union {q}
        /\ questions'[q] = a /\ \A r \in AnsweredIn(questions) : questions'[r] = questions[r]
    <3>1. IsAnswer(a, questions, minutes)
      <4>1. a.fresh \in BOOLEAN
        BY <2>6
      <4>2. a.asked \in Nat /\ a.asked <= minutes
        BY <1>1, <2>6
      <4>3. QED
        BY <2>6, <2>8, <4>1, <4>2 DEF IsAnswer
    <3>2. IsAnswered([questions EXCEPT ![q] = a], questions, q, a, minutes)
      BY <1>1, <1>2, <3>1, QuestionAnswered
    <3>3. questions' = [questions EXCEPT ![q] = a]
      BY <2>3, <2>4
    <3>4. QED
      BY <3>2, <3>3 DEF IsAnswered
  <2>10. EntriesIInv(setCachedResult(current, m.start, p), questions', minutes)
    <3>1. EntriesIInv(current, questions, minutes)
      BY <1>5, <1>6
    <3>2. questions'[q].fresh /\ questions'[q].message.start = m.start
          /\ questions'[q].persona = p /\ questions'[q].answered = minutes
      BY <2>6, <2>9
    <3>3. QED
      BY <1>1, <2>9, <3>1, <3>2, EntriesStored
  <2>11. QED
    BY <1>1, <1>2, <2>1, <2>5, <2>9, <2>10 DEF RoutesIInv
<1>7. CASE cached = {} /\ matching = {}
  <2>1. questions' = [questions EXCEPT ![q] = asking] /\ routings' = current
    BY <1>7 DEF routeToPersona
  <2>2. m.matches = {}
    BY <1>7, FirstRuleDecides
  <2>3. PICK a : a = asking
    OBVIOUS
  <2>4. /\ a.at = "asking" /\ a.message = m /\ a.earlier = AnsweredIn(questions) /\ a.asked = minutes
    BY <1>3, <2>3
  <2> HIDE DEF asking, A, current, cached, matching
  <2>5. NoneCounts(a, questions)
    BY <1>1, <1>5, <1>7, <2>4, NothingCounts
  <2>6. /\ QuestionsIInv(questions', minutes)
        /\ AnsweredIn(questions') = AnsweredIn(questions)
        /\ \A r \in AnsweredIn(questions) : questions'[r] = questions[r]
    <3>1. IsAsked(a, questions, minutes)
      BY <2>2, <2>4, <2>5 DEF IsAsked
    <3>2. IsPending([questions EXCEPT ![q] = a], questions, minutes)
      BY <1>1, <1>2, <3>1, QuestionAsked
    <3>3. questions' = [questions EXCEPT ![q] = a]
      BY <2>1, <2>3
    <3>4. QED
      BY <3>2, <3>3 DEF IsPending
  <2>7. EntriesIInv(current, questions', minutes)
    <3>1. EntriesIInv(current, questions, minutes)
      BY <1>5, <1>7
    <3>2. QED
      BY <1>1, <2>6, <3>1, EntriesKept
  <2>8. QED
    BY <1>1, <1>2, <2>1, <2>6, <2>7 DEF RoutesIInv
<1>8. QED
  BY <1>4, <1>6, <1>7

LEMMA ModelAnswersStep ==
  ASSUME RoutesIInv, NEW q \in Question, ModelAnswers(q)
  PROVE  RoutesIInv'
<1>1. /\ minutes \in Nat /\ QuestionsIInv(questions, minutes)
      /\ EntriesIInv(routings, questions, minutes) /\ QuestionsKnown(questions, minutes)
      /\ AskedForAReason(questions)
  BY DEF RoutesIInv, QuestionsIInv
<1>2. questions[q].at = "asking" /\ minutes' = minutes
  BY DEF ModelAnswers
<1> DEFINE asking == questions[q]
<1>3. PICK p \in classifyWithLLM :
        /\ Answer(q, asking.message, p, TRUE, asking.earlier, asking.asked)
        /\ routings' = setCachedResult(routings, asking.message.start, p)
  BY DEF ModelAnswers
<1>4. PICK a : a = [at |-> "answered", message |-> asking.message, persona |-> p, fresh |-> TRUE,
                    earlier |-> asking.earlier, asked |-> asking.asked, answered |-> minutes]
  OBVIOUS
<1>5. questions' = [questions EXCEPT ![q] = a]
  BY <1>3, <1>4 DEF Answer
<1>6. /\ a.at = "answered" /\ a.message = asking.message /\ a.persona = p /\ a.fresh = TRUE
      /\ a.earlier = asking.earlier /\ a.asked = asking.asked /\ a.answered = minutes
  BY <1>4
<1>7. /\ asking.message \in Message /\ asking.earlier \subseteq AnsweredIn(questions)
      /\ asking.asked \in Nat /\ asking.asked <= minutes /\ asking.message.matches = {}
      /\ NoneCounts(asking, questions)
  BY <1>1, <1>2 DEF QuestionsKnown, AskedForAReason
<1> HIDE DEF asking
<1>8. AnswerIs(a, questions)
  BY <1>6, <1>7 DEF AnswerIs, NoneCounts
<1>9. /\ QuestionsIInv(questions', minutes)
      /\ AnsweredIn(questions') = AnsweredIn(questions) \union {q}
      /\ questions'[q] = a /\ \A r \in AnsweredIn(questions) : questions'[r] = questions[r]
  <2>1. IsAnswer(a, questions, minutes)
    BY <1>6, <1>7, <1>8 DEF IsAnswer
  <2>2. IsAnswered([questions EXCEPT ![q] = a], questions, q, a, minutes)
    BY <1>1, <1>2, <2>1, QuestionAnswered
  <2>3. QED
    BY <1>5, <2>2 DEF IsAnswered
<1>10. EntriesIInv(setCachedResult(routings, asking.message.start, p), questions', minutes)
  <2>1. questions'[q].fresh /\ questions'[q].message.start = asking.message.start
        /\ questions'[q].persona = p /\ questions'[q].answered = minutes
    BY <1>6, <1>9
  <2>2. QED
    BY <1>1, <1>9, <2>1, EntriesStored
<1>11. QED
  BY <1>1, <1>2, <1>3, <1>9, <1>10 DEF RoutesIInv

\* Time passes for the entries as it does for the answers.
LEMMA MinutesStep == ASSUME RoutesIInv, MinutePasses PROVE RoutesIInv'
<1>1. /\ minutes \in Nat /\ QuestionsKnown(questions, minutes) /\ AskedForAReason(questions)
      /\ AnswersKnown(questions) /\ EntriesKnown(routings, questions) /\ EntriesAreClose(routings)
      /\ AnswersRemembered(routings, questions, minutes)
  BY DEF RoutesIInv, QuestionsIInv, EntriesIInv
<1>2. /\ minutes' = minutes + 1 /\ questions' = questions
      /\ routings' = [s \in DOMAIN routings |-> [routings[s] EXCEPT !.age = @ + 1]]
  BY DEF MinutePasses
<1>3. /\ DOMAIN routings' = DOMAIN routings
      /\ \A s \in DOMAIN routings :
           /\ routings'[s] = [persona |-> routings[s].persona, age |-> routings[s].age + 1]
           /\ routings[s].age \in Nat
  <2>1. ASSUME NEW s \in DOMAIN routings
        PROVE  /\ routings'[s] = [persona |-> routings[s].persona, age |-> routings[s].age + 1]
               /\ routings[s].age \in Nat
    <3>1. /\ routings[s] = [persona |-> routings[s].persona, age |-> routings[s].age]
          /\ routings[s].age \in Nat
      BY <1>1 DEF EntriesKnown
    <3>2. routings'[s] = [routings[s] EXCEPT !.age = routings[s].age + 1]
      BY <1>2
    <3>3. QED
      BY <3>1, <3>2
  <2>2. QED
    BY <1>2, <2>1
<1>4. \A s \in DOMAIN routings : /\ routings'[s].persona = routings[s].persona
                                 /\ routings'[s].age = routings[s].age + 1
  BY <1>3
<1>5. EntriesKnown(routings', questions)
  <2>1. IsFiniteSet(DOMAIN routings')
    BY <1>1, <1>3 DEF EntriesKnown
  <2>2. QED
    BY <1>1, <1>3, <1>4, <2>1 DEF EntriesKnown
<1>6. EntriesAreClose(routings')
  <2>1. ASSUME NEW s \in DOMAIN routings, NEW t \in DOMAIN routings
        PROVE  routings'[s].age - routings'[t].age = routings[s].age - routings[t].age
    BY <1>3, <1>4
  <2>2. QED
    BY <1>1, <1>3, <2>1 DEF EntriesAreClose
<1>7. AnswersRemembered(routings', questions, minutes + 1)
  <2>1. \A r \in AnsweredIn(questions) : questions[r].answered \in Nat
    BY <1>1 DEF QuestionsKnown
  <2>2. QED
    BY <1>1, <1>3, <1>4, <2>1, AdviceAssumption DEF AnswersRemembered
<1>8. QuestionsKnown(questions, minutes + 1)
  BY <1>1 DEF QuestionsKnown
<1>9. QED
  BY <1>1, <1>2, <1>5, <1>6, <1>7, <1>8 DEF RoutesIInv, QuestionsIInv, EntriesIInv

LEMMA RoutesInvInit ==
  routings = <<>> /\ questions = [q \in Question |-> [at |-> "new"]] /\ minutes = 0 => RoutesIInv
<1>1. SUFFICES ASSUME routings = <<>>, questions = [q \in Question |-> [at |-> "new"]], minutes = 0
               PROVE  RoutesIInv
  OBVIOUS
<1>2. DOMAIN routings = {} /\ AnsweredIn(questions) = {}
  BY <1>1 DEF AnsweredIn
<1>3. IsFiniteSet(DOMAIN routings)
  BY <1>2, FS_EmptySet
<1>4. EntriesIInv(routings, questions, minutes)
  BY <1>2, <1>3 DEF EntriesIInv, EntriesKnown, EntriesAreClose, AnswersRemembered
<1>5. QuestionsIInv(questions, minutes)
  BY <1>1, <1>2 DEF QuestionsIInv, QuestionsKnown, AskedForAReason, AnswersKnown
<1>6. QED
  BY <1>1, <1>4, <1>5 DEF RoutesIInv
-----------------------------------------------------------------------------
\* The prompts of a conversation that begins

CatalogIds == {<<c, i>> : c \in DOMAIN Catalogs, i \in 1..6}
SignalIds == {<<"context", n>> : n \in Signals}
OwnIds == {<<"custom", n>> : n \in 1..MAX_PROMPTS}
PromptSource == {"pin", "context", "role"}
PromptEntry == [id : Pinnable \union CatalogIds \union SignalIds \union OwnIds, source : PromptSource]

SourceRank == [pin |-> 1, context |-> 2, role |-> 3]

\* None twice but what is pinned twice, and the sources in their order
WellOrdered(list) ==
  \A i, j \in DOMAIN list : i < j =>
    /\ SourceRank[list[i].source] <= SourceRank[list[j].source]
    /\ list[i].id = list[j].id => list[j].source = "pin" /\ getPromptById(list[j].id)

SourcesUpTo(list, source) == \A i \in DOMAIN list : SourceRank[list[i].source] <= SourceRank[source]

GoodList(list) == list \in Seq(PromptEntry) /\ Len(list) <= MAX_PROMPTS /\ WellOrdered(list)

IsPlaced(placed, id, list, source) ==
  /\ GoodList(placed) /\ SourcesUpTo(placed, source)
  /\ Len(placed) >= MAX_PROMPTS \/ IsIn(id, placed)
  /\ Len(list) >= MAX_PROMPTS => placed = list
  /\ \A other : IsIn(other, list) => IsIn(other, placed)

\* One prompt more, of a source that no earlier one in the list comes after
LEMMA PlaceIs ==
  ASSUME NEW list, GoodList(list), NEW source \in {"context", "role"}, SourcesUpTo(list, source),
         NEW id \in CatalogIds \union SignalIds
  PROVE  IsPlaced(Place(id, list, source), id, list, source)
<1> DEFINE placed == Place(id, list, source)
           more == [id |-> id, source |-> source]
<1>0. list \in Seq(PromptEntry) /\ Len(list) <= MAX_PROMPTS /\ WellOrdered(list) /\ Len(list) \in Nat
  BY DEF GoodList
<1>1. CASE Len(list) >= MAX_PROMPTS \/ IsIn(id, list)
  <2>1. placed = list
    BY <1>1 DEF Place
  <2> HIDE DEF placed
  <2>2. QED
    BY <1>1, <2>1 DEF placed, IsPlaced
<1>2. CASE ~(Len(list) >= MAX_PROMPTS \/ IsIn(id, list))
  <2>1. placed = Append(list, more)
    BY <1>2 DEF Place
  <2>2. more \in PromptEntry /\ more.id = id /\ more.source = source
    BY DEF PromptEntry, PromptSource
  <2>3. /\ placed \in Seq(PromptEntry) /\ Len(placed) = Len(list) + 1
        /\ DOMAIN placed = 1..Len(list) + 1 /\ DOMAIN list = 1..Len(list)
        /\ placed[Len(list) + 1] = more /\ \A i \in 1..Len(list) : placed[i] = list[i]
    <3> HIDE DEF placed, more
    <3> QED
      BY <1>0, <2>1, <2>2
  <2>4. Len(placed) <= MAX_PROMPTS
    BY <1>0, <1>2, <2>3 DEF MAX_PROMPTS
  <2>5. \A i \in 1..Len(list) : list[i].id # id
    BY <1>2, <2>3 DEF IsIn
  <2> HIDE DEF placed, more
  <2>6. WellOrdered(placed)
    <3>1. ASSUME NEW i \in DOMAIN placed, NEW j \in DOMAIN placed, i < j
          PROVE  /\ SourceRank[placed[i].source] <= SourceRank[placed[j].source]
                 /\ placed[i].id = placed[j].id =>
                      placed[j].source = "pin" /\ getPromptById(placed[j].id)
      <4>1. CASE j \in DOMAIN list
        <5>1. i \in DOMAIN list /\ placed[i] = list[i] /\ placed[j] = list[j]
          BY <1>0, <2>3, <3>1, <4>1
        <5>2. QED
          BY <1>0, <3>1, <4>1, <5>1 DEF WellOrdered
      <4>2. CASE j = Len(list) + 1
        <5>1. i \in DOMAIN list /\ placed[i] = list[i] /\ placed[j] = more
          BY <1>0, <2>3, <3>1, <4>2
        <5>2. SourceRank[placed[i].source] <= SourceRank[placed[j].source]
          BY <2>2, <5>1 DEF SourcesUpTo
        <5>3. placed[i].id # placed[j].id
          BY <2>2, <2>3, <2>5, <5>1
        <5>4. QED
          BY <5>2, <5>3
      <4>3. QED
        BY <1>0, <2>3, <4>1, <4>2
    <3>2. QED
      BY <3>1 DEF WellOrdered
  <2>7. SourcesUpTo(placed, source)
    <3>1. SourceRank[source] \in Nat
      BY DEF SourceRank
    <3>2. QED
      BY <1>0, <2>2, <2>3, <3>1 DEF SourcesUpTo
  <2>8. IsIn(id, placed) /\ \A other : IsIn(other, list) => IsIn(other, placed)
    BY <1>0, <2>2, <2>3 DEF IsIn
  <2>9. QED
    BY <1>2, <2>3, <2>4, <2>6, <2>7, <2>8 DEF GoodList, placed, IsPlaced
<1>3. QED
  BY <1>1, <1>2

\* A list that is filled from some prompts is full, or has them all.
LEMMA FromIs ==
  ASSUME NEW list, GoodList(list), NEW source \in {"context", "role"}, SourcesUpTo(list, source),
         NEW ids \in Seq(CatalogIds \union SignalIds)
  PROVE  /\ GoodList(From(ids, list, source)) /\ SourcesUpTo(From(ids, list, source), source)
         /\ Len(From(ids, list, source)) >= MAX_PROMPTS
              \/ \A i \in 1..Len(ids) : IsIn(ids[i], From(ids, list, source))
<1> DEFINE T == {l \in Seq(PromptEntry) : GoodList(l) /\ SourcesUpTo(l, source)}
           n == Len(ids)
           step == [i \in 1..n |-> [t \in T |-> Place(ids[i], t, source)]]
           filled[i \in 0..Len(ids)] ==
             IF i = 0 THEN list ELSE Place(ids[i], filled[i - 1], source)
<1>1. n \in Nat /\ \A i \in 1..n : ids[i] \in CatalogIds \union SignalIds
  OBVIOUS
<1>2. \A t \in T : GoodList(t) /\ SourcesUpTo(t, source)
  OBVIOUS
<1>3. list \in T
  BY DEF GoodList
<1>4. \A t : GoodList(t) /\ SourcesUpTo(t, source) => t \in T
  BY DEF GoodList
<1> HIDE DEF T
<1>5. ASSUME NEW i \in 1..n, NEW t \in T
      PROVE  Place(ids[i], t, source) \in T /\ IsPlaced(Place(ids[i], t, source), ids[i], t, source)
  <2>1. IsPlaced(Place(ids[i], t, source), ids[i], t, source)
    BY <1>1, <1>2, PlaceIs
  <2>2. QED
    BY <1>4, <2>1 DEF IsPlaced
<1>6. step \in [1..n -> [T -> T]]
  BY <1>5
<1>7. PICK h \in [0..n -> T] : IsWalk(h, n, list, step)
  <2> HIDE DEF step, n
  <2> QED
    BY <1>1, <1>3, <1>6, SegmentRecursion
<1>8. h[0] = list /\ \A i \in 1..n : h[i] = Place(ids[i], h[i - 1], source)
  <2>1. h[0] = list /\ \A i \in 1..n : h[i] = step[i][h[i - 1]]
    <3> HIDE DEF step, n
    <3> QED
      BY <1>7 DEF IsWalk
  <2>2. ASSUME NEW i \in 1..n PROVE h[i] = Place(ids[i], h[i - 1], source)
    <3>1. h[i - 1] \in T
      <4>1. i - 1 \in 0..n
        BY <1>1
      <4> HIDE DEF step, n
      <4>2. QED
        BY <1>7, <4>1
    <3>2. QED
      BY <2>1, <3>1
  <2>3. QED
    BY <2>1, <2>2
<1>9. h = [i \in 0..Len(ids) |-> IF i = 0 THEN list ELSE Place(ids[i], h[i - 1], source)]
  <2> HIDE DEF step
  <2> QED
    BY <1>1, <1>7, <1>8
<1>10. filled = [i \in 0..Len(ids) |-> IF i = 0 THEN list ELSE Place(ids[i], filled[i - 1], source)]
  BY <1>9
<1>11. From(ids, list, source) = filled[n]
  BY DEF From
<1> HIDE DEF filled, step
<1>12. filled[0] = list /\ \A i \in 1..n : filled[i] = Place(ids[i], filled[i - 1], source)
  BY <1>1, <1>10
<1> DEFINE S == {i \in 0..n : filled[i] \in T /\ (Len(filled[i]) >= MAX_PROMPTS
                                \/ \A k \in 1..i : IsIn(ids[k], filled[i]))}
<1>13. 0 \in S
  BY <1>1, <1>3, <1>12
<1>14. ASSUME NEW i \in 0..(n - 1), i \in S PROVE i + 1 \in S
  <2>1. i + 1 \in 1..n /\ (i + 1) - 1 = i
    BY <1>1
  <2>2. filled[i + 1] = Place(ids[i + 1], filled[i], source)
    BY <1>12, <2>1
  <2>3. filled[i] \in T
    BY <1>14
  <2>4. filled[i + 1] \in T /\ IsPlaced(filled[i + 1], ids[i + 1], filled[i], source)
    BY <1>5, <2>1, <2>2, <2>3
  <2>5. Len(filled[i + 1]) >= MAX_PROMPTS \/ \A k \in 1..(i + 1) : IsIn(ids[k], filled[i + 1])
    <3>1. CASE Len(filled[i]) >= MAX_PROMPTS
      BY <2>4, <3>1 DEF IsPlaced
    <3>2. CASE \A k \in 1..i : IsIn(ids[k], filled[i])
      BY <2>1, <2>4, <3>2 DEF IsPlaced
    <3>3. QED
      BY <1>14, <3>1, <3>2
  <2>6. QED
    BY <1>1, <2>1, <2>4, <2>5
<1>15. n \in S
  <2>1. \A i \in 0..n : i \in S
    <3> HIDE DEF S, n
    <3> QED
      BY <1>1, <1>13, <1>14, SegmentInduction
  <2>2. QED
    BY <1>1, <2>1
<1>16. /\ filled[n] \in T
       /\ Len(filled[n]) >= MAX_PROMPTS \/ \A k \in 1..n : IsIn(ids[k], filled[n])
  BY <1>15
<1>17. QED
  BY <1>2, <1>11, <1>16

\* Four different prompts take four places.
LEMMA FourPlaces ==
  ASSUME NEW list \in Seq(PromptEntry), NEW c,
         \A i \in 1..4 : IsIn(<<c, i>>, list)
  PROVE  Len(list) >= 4
<1>1. Len(list) \in Nat /\ DOMAIN list = 1..Len(list)
  OBVIOUS
<1>2. PICK a \in 1..Len(list) : list[a].id = <<c, 1>>
  BY <1>1 DEF IsIn
<1>3. PICK b \in 1..Len(list) : list[b].id = <<c, 2>>
  BY <1>1 DEF IsIn
<1>4. PICK d \in 1..Len(list) : list[d].id = <<c, 3>>
  BY <1>1 DEF IsIn
<1>5. PICK e \in 1..Len(list) : list[e].id = <<c, 4>>
  BY <1>1 DEF IsIn
<1>6. a # b /\ a # d /\ a # e /\ b # d /\ b # e /\ d # e
  <2>1. \A i, j \in 1..4 : i # j => <<c, i>> # <<c, j>>
    OBVIOUS
  <2>2. QED
    BY <1>2, <1>3, <1>4, <1>5, <2>1
<1>7. QED
  BY <1>1, <1>6

\* The prompts of the role fill a list.
LEMMA RoleFills ==
  ASSUME NEW list, GoodList(list), NEW userRole
  PROVE  LET full == From(getCatalogForRole(userRole), list, "role")
         IN GoodList(full) /\ Len(full) = MAX_PROMPTS
<1> DEFINE c == IF userRole = "ADMIN" THEN "LEAD" ELSE "GENERIC"
           ids == getCatalogForRole(userRole)
           full == From(ids, list, "role")
<1>1. c \in {"LEAD", "GENERIC"}
  OBVIOUS
<1>2. PICK m \in 4..6 : m = Catalogs[c]
  <2>1. Catalogs[c] \in 4..6
    BY DEF Catalogs
  <2>2. QED
    BY <2>1
<1>3. ids = [i \in 1..m |-> <<c, i>>]
  BY <1>2 DEF getCatalogForRole
<1>4. \A i \in 1..m : <<c, i>> \in CatalogIds
  <2>1. c \in DOMAIN Catalogs
    BY DEF Catalogs
  <2> HIDE DEF c
  <2>2. QED
    BY <2>1 DEF CatalogIds
<1> HIDE DEF c, ids
<1>5. ids \in Seq(CatalogIds \union SignalIds) /\ Len(ids) = m
  BY <1>3, <1>4
<1>6. SourcesUpTo(list, "role")
  <2>1. \A i \in DOMAIN list : list[i] \in PromptEntry
    BY DEF GoodList
  <2>2. \A i \in DOMAIN list : list[i].source \in PromptSource
    BY <2>1 DEF PromptEntry
  <2>3. \A s \in PromptSource : SourceRank[s] <= SourceRank["role"]
    BY DEF PromptSource, SourceRank
  <2>4. QED
    BY <2>2, <2>3 DEF SourcesUpTo
<1>7. GoodList(full) /\ (Len(full) >= MAX_PROMPTS \/ \A i \in 1..Len(ids) : IsIn(ids[i], full))
  BY <1>5, <1>6, FromIs
<1>8. full \in Seq(PromptEntry)
  BY <1>7 DEF GoodList
<1> HIDE DEF full
<1>9. PICK n \in Nat : n = Len(full)
  BY <1>8
<1>10. Len(full) = MAX_PROMPTS
  <2>1. n <= 4
    BY <1>7, <1>9 DEF GoodList, MAX_PROMPTS
  <2>2. n >= 4
    <3>1. CASE Len(full) >= MAX_PROMPTS
      BY <1>9, <3>1 DEF MAX_PROMPTS
    <3>2. CASE \A i \in 1..Len(ids) : IsIn(ids[i], full)
      <4>1. ASSUME NEW i \in 1..4 PROVE IsIn(<<c, i>>, full)
        <5>1. i \in 1..m
          OBVIOUS
        <5>2. QED
          BY <1>3, <1>5, <3>2, <5>1
      <4>2. QED
        BY <1>8, <1>9, <4>1, FourPlaces
    <3>3. QED
      BY <1>7, <3>1, <3>2
  <2>3. QED
    BY <1>9, <2>1, <2>2 DEF MAX_PROMPTS
<1>11. QED
  BY <1>7, <1>10 DEF full, ids

PromptsIInv ==
  /\ pins = <<>> \/ (pins \in PinnedLists /\ Len(pins) <= MAX_PROMPTS)
  /\ prompts.at \in {"none", "signals", "done"}
  /\ prompts.at # "none" =>
       /\ prompts = [at |-> prompts.at, userRole |-> prompts.userRole, signal |-> prompts.signal,
                     list |-> prompts.list]
       /\ GoodList(prompts.list)
  /\ prompts.at = "signals" => SourcesUpTo(prompts.list, "context") /\ prompts.signal \in Nat
  /\ prompts.at = "done" => Len(prompts.list) = MAX_PROMPTS

LEMMA PromptsFollow == PromptsIInv => PromptsHold
<1>1. SUFFICES ASSUME PromptsIInv, prompts.at = "done" PROVE PromptsHold
  BY DEF PromptsHold
<1>2. WellOrdered(prompts.list) /\ Len(prompts.list) = MAX_PROMPTS
  BY <1>1 DEF PromptsIInv, GoodList
<1>3. QED
  BY <1>2 DEF PromptsHold, WellOrdered, SourceRank

\* The pins as they are read: those in no catalog by their places
LEMMA PinsRead ==
  ASSUME pins = <<>> \/ (pins \in PinnedLists /\ Len(pins) <= MAX_PROMPTS),
         NEW list, NEW read \in BOOLEAN,
         list = IF read
                THEN [i \in 1..Len(pins) |-> [source |-> "pin",
                        id |-> IF getPromptById(pins[i]) THEN pins[i] ELSE <<"custom", i>>]]
                ELSE <<>>
  PROVE  GoodList(list) /\ SourcesUpTo(list, "context")
<1>1. CASE ~read \/ pins = <<>>
  <2>1. list = <<>>
    BY <1>1
  <2>2. list \in Seq(PromptEntry) /\ Len(list) = 0 /\ DOMAIN list = {}
    BY <2>1
  <2>3. QED
    BY <2>2 DEF GoodList, SourcesUpTo, WellOrdered, MAX_PROMPTS
<1>2. CASE read /\ pins \in PinnedLists /\ Len(pins) <= MAX_PROMPTS
  <2>1. pins \in Seq(Pinnable)
    BY <1>2, AdviceAssumption
  <2> DEFINE Name(i) == IF getPromptById(pins[i]) THEN pins[i] ELSE <<"custom", i>>
  <2>2. PICK n \in 0..4 : n = Len(pins)
    <3>1. PICK n \in Nat : n = Len(pins)
      BY <2>1
    <3>2. n \in 0..4
      BY <1>2, <3>1 DEF MAX_PROMPTS
    <3>3. QED
      BY <3>1, <3>2
  <2>3. list = [i \in 1..n |-> [source |-> "pin", id |-> Name(i)]]
    BY <1>2, <2>2
  <2>4. ASSUME NEW i \in 1..n PROVE Name(i) \in Pinnable \union OwnIds
    <3>1. pins[i] \in Pinnable
      BY <2>1, <2>2
    <3>2. <<"custom", i>> \in OwnIds
      BY <2>2 DEF OwnIds, MAX_PROMPTS
    <3>3. QED
      BY <3>1, <3>2
  <2>5. ASSUME NEW i \in 1..n, NEW j \in 1..n, i # j, Name(i) = Name(j)
        PROVE  getPromptById(Name(j))
    <3>1. \A k \in 1..n : ~getPromptById(<<"custom", k>>)
      BY DEF getPromptById, Catalogs
    <3>2. <<"custom", i>> # <<"custom", j>>
      BY <2>5
    <3>3. CASE getPromptById(pins[j])
      BY <3>3
    <3>4. CASE ~getPromptById(pins[j]) /\ getPromptById(pins[i])
      BY <2>5, <3>1, <3>4
    <3>5. CASE ~getPromptById(pins[j]) /\ ~getPromptById(pins[i])
      BY <2>5, <3>2, <3>5
    <3>6. QED
      BY <3>3, <3>4, <3>5
  <2> HIDE DEF Name
  <2>6. \A i \in 1..n : /\ [source |-> "pin", id |-> Name(i)] \in PromptEntry
                        /\ list[i].source = "pin" /\ list[i].id = Name(i)
    BY <2>3, <2>4 DEF PromptEntry, PromptSource
  <2>7. list \in Seq(PromptEntry) /\ Len(list) = n /\ DOMAIN list = 1..n
    <3>1. n \in Nat
      OBVIOUS
    <3>3. \A i \in 1..n : [source |-> "pin", id |-> Name(i)] \in PromptEntry
      BY <2>6
    <3>4. list \in [1..n -> PromptEntry]
      <4> HIDE DEF PromptEntry
      <4> QED
        BY <2>3, <3>3
    <3>5. QED
      BY <3>1, <3>4
  <2>8. WellOrdered(list)
    <3>1. SourceRank["pin"] <= SourceRank["pin"]
      BY DEF SourceRank
    <3>2. QED
      BY <2>5, <2>6, <2>7, <3>1 DEF WellOrdered
  <2>9. SourcesUpTo(list, "context")
    <3>1. SourceRank["pin"] <= SourceRank["context"]
      BY DEF SourceRank
    <3>2. QED
      BY <2>6, <2>7, <3>1 DEF SourcesUpTo
  <2>10. QED
    BY <2>2, <2>7, <2>8, <2>9 DEF GoodList, MAX_PROMPTS
<1>3. QED
  BY <1>1, <1>2

LEMMA PromptsStep ==
  ASSUME PromptsIInv, savePinnedPrompts \/ resolvePins \/ CheckSignal \/ FillWithRole
  PROVE  PromptsIInv'
<1>1. CASE savePinnedPrompts
  <2>1. PICK toPin \in PinnedLists : Len(toPin) <= MAX_PROMPTS /\ pins' = toPin
    BY <1>1 DEF savePinnedPrompts
  <2>2. prompts' = prompts
    BY <1>1 DEF savePinnedPrompts
  <2>3. QED
    BY <2>1, <2>2 DEF PromptsIInv
<1>2. CASE resolvePins
  <2>1. PICK userRole \in {"ADMIN", "EDITOR"}, read \in BOOLEAN :
       prompts' = [at |-> "signals", userRole |-> userRole, signal |-> 1, list |->
         IF read
         THEN [i \in 1..Len(pins) |-> [source |-> "pin",
                id |-> IF getPromptById(pins[i]) THEN pins[i] ELSE <<"custom", i>>]]
         ELSE <<>>]
    BY <1>2 DEF resolvePins
  <2>2. GoodList(prompts'.list) /\ SourcesUpTo(prompts'.list, "context")
    <3>1. pins = <<>> \/ (pins \in PinnedLists /\ Len(pins) <= MAX_PROMPTS)
      BY DEF PromptsIInv
    <3>2. QED
      BY <2>1, <3>1, PinsRead
  <2>3. /\ prompts'.at = "signals" /\ prompts'.signal = 1
        /\ prompts' = [at |-> prompts'.at, userRole |-> prompts'.userRole,
                       signal |-> prompts'.signal, list |-> prompts'.list]
    BY <2>1
  <2>4. pins' = pins
    BY <1>2 DEF resolvePins
  <2>5. QED
    BY <2>2, <2>3, <2>4 DEF PromptsIInv
<1>3. CASE CheckSignal
  <2>1. /\ prompts.at = "signals" /\ prompts.signal \in Signals /\ pins' = pins
        /\ \E holds \in BOOLEAN :
             prompts' = [prompts EXCEPT !.signal = @ + 1, !.list =
                     IF holds THEN Place(<<"context", prompts.signal>>, @, "context") ELSE @]
    BY <1>3 DEF CheckSignal
  <2>2. /\ prompts = [at |-> prompts.at, userRole |-> prompts.userRole, signal |-> prompts.signal,
                      list |-> prompts.list]
        /\ GoodList(prompts.list) /\ SourcesUpTo(prompts.list, "context") /\ prompts.signal \in Nat
    BY <2>1 DEF PromptsIInv
  <2>3. <<"context", prompts.signal>> \in CatalogIds \union SignalIds
    BY <2>1 DEF SignalIds
  <2> DEFINE placed == Place(<<"context", prompts.signal>>, prompts.list, "context")
  <2>4. GoodList(placed) /\ SourcesUpTo(placed, "context")
    <3>1. IsPlaced(placed, <<"context", prompts.signal>>, prompts.list, "context")
      BY <2>2, <2>3, PlaceIs
    <3>2. QED
      BY <3>1 DEF IsPlaced
  <2>5. PICK now : /\ now \in {placed, prompts.list}
                   /\ prompts' = [at |-> prompts.at, userRole |-> prompts.userRole,
                                  signal |-> prompts.signal + 1, list |-> now]
    <3> HIDE DEF placed
    <3> QED
      BY <2>1, <2>2 DEF placed
  <2> HIDE DEF placed
  <2>6. GoodList(now) /\ SourcesUpTo(now, "context")
    BY <2>2, <2>4, <2>5
  <2>7. /\ prompts'.at = "signals" /\ prompts'.signal \in Nat /\ prompts'.list = now
        /\ prompts' = [at |-> prompts'.at, userRole |-> prompts'.userRole,
                       signal |-> prompts'.signal, list |-> prompts'.list]
    <3>1. prompts'.at = prompts.at /\ prompts'.signal = prompts.signal + 1 /\ prompts'.list = now
          /\ prompts'.userRole = prompts.userRole
      BY <2>5
    <3>2. prompts.signal + 1 \in Nat
      BY <2>2
    <3>3. QED
      BY <2>1, <2>5, <3>1, <3>2
  <2>8. QED
    BY <2>1, <2>6, <2>7 DEF PromptsIInv
<1>4. CASE FillWithRole
  <2>1. /\ prompts.at = "signals" /\ pins' = pins
        /\ prompts' = [prompts EXCEPT !.at = "done",
                   !.list = From(getCatalogForRole(prompts.userRole), @, "role")]
    BY <1>4 DEF FillWithRole
  <2>2. /\ prompts = [at |-> prompts.at, userRole |-> prompts.userRole, signal |-> prompts.signal,
                      list |-> prompts.list]
        /\ GoodList(prompts.list)
    BY <2>1 DEF PromptsIInv
  <2> DEFINE full == From(getCatalogForRole(prompts.userRole), prompts.list, "role")
  <2>3. GoodList(full) /\ Len(full) = MAX_PROMPTS
    BY <2>2, RoleFills
  <2> HIDE DEF full
  <2>4. prompts' = [at |-> "done", userRole |-> prompts.userRole, signal |-> prompts.signal,
                    list |-> full]
    BY <2>1, <2>2 DEF full
  <2>5. /\ prompts'.at = "done" /\ prompts'.list = full
        /\ prompts' = [at |-> prompts'.at, userRole |-> prompts'.userRole,
                       signal |-> prompts'.signal, list |-> prompts'.list]
    BY <2>4
  <2>6. QED
    BY <2>1, <2>3, <2>5 DEF PromptsIInv
<1>5. QED
  BY <1>1, <1>2, <1>3, <1>4
-----------------------------------------------------------------------------
\* The suggestions

\* Every result is one that a tool fills in
LoopEntry ==
  [result : {ToolResult(tool, hits) : tool \in Tools, hits \in 0..2}, success : BOOLEAN,
   suggested : {NoSuggestion, Suggests("github_merge_pr"),
                [tool |-> "jira_create_issue", labels |-> {"ai-suggested"}]}]
ResultsKnown == loop \in Seq(LoopEntry)

IsResult(r, tool, hits) ==
         /\ r.tool = tool /\ r.hits = hits
         /\ r.data.issues = Absent /\ r.data.transient = Absent /\ r.data.status = ""
         /\ ~r.data.job
         /\ r.data.mergeable <=> (tool = "github_get_pr" /\ hits > 0)

LEMMA ResultIs ==
  ASSUME NEW tool \in Tools, NEW hits \in 0..2
  PROVE  IsResult(ToolResult(tool, hits), tool, hits)
BY DEF ToolResult, NoData, IsResult

\* What is suggested after a result, when no analysis has named a root cause
LEMMA SuggestionIs ==
  ASSUME NEW tool \in Tools, NEW hits \in 0..2, NEW success \in BOOLEAN, NEW previous,
         \A i \in DOMAIN previous :
           \E t \in Tools, h \in 0..2 : previous[i].result = ToolResult(t, h)
  PROVE  evaluateSuggestion(ToolResult(tool, hits), success, previous) =
           IF success /\ tool = "jira_search"
           THEN [tool |-> "jira_create_issue", labels |-> {"ai-suggested"}]
           ELSE IF success /\ tool = "github_get_pr" /\ hits > 0 THEN Suggests("github_merge_pr")
           ELSE NoSuggestion
<1> DEFINE r == ToolResult(tool, hits)
<1>1. /\ r.tool = tool /\ r.hits = hits
      /\ r.data.issues = Absent /\ r.data.transient = Absent /\ r.data.status = ""
      /\ r.data.mergeable <=> (tool = "github_get_pr" /\ hits > 0)
  <2>1. IsResult(r, tool, hits)
    BY ResultIs
  <2> HIDE DEF r
  <2>2. QED
    BY <2>1 DEF IsResult
<1>2. buildJiraIssueFromContext(previous) =
        [tool |-> "jira_create_issue", labels |-> {"ai-suggested"}]
  <2>1. ASSUME NEW i \in DOMAIN previous
        PROVE  previous[i].result.data.transient = Absent /\ ~previous[i].result.data.job
    <3>1. PICK t \in Tools, h \in 0..2 : previous[i].result = ToolResult(t, h)
      OBVIOUS
    <3>2. IsResult(previous[i].result, t, h)
      BY <3>1, ResultIs
    <3>3. QED
      BY <3>2 DEF IsResult
  <2> DEFINE gathered == {previous[i].result.data : i \in {j \in DOMAIN previous : previous[j].success}}
  <2>2. (~\E data \in gathered : data.transient # Absent) /\ (~\E data \in gathered : data.job)
    BY <2>1
  <2>3. buildJiraIssueFromContext(previous) =
          [tool |-> "jira_create_issue",
           labels |-> {"ai-suggested"}
             \union {l \in {"failure-analysis"} : \E data \in gathered : data.transient # Absent}
             \union {l \in {"pipeline-failure"} : \E data \in gathered : data.job}]
    BY DEF buildJiraIssueFromContext
  <2> HIDE DEF gathered
  <2>4. QED
    BY <2>2, <2>3
<1> HIDE DEF r
<1>3. /\ Absent \in {Absent, 0} /\ ~(Absent > 0) /\ ~(Absent >= 2) /\ "" # "failed"
  BY DEF Absent
<1>4. evaluateSuggestion(r, success, previous) =
           IF success /\ tool = "jira_search" THEN buildJiraIssueFromContext(previous)
           ELSE IF success /\ tool = "github_get_pr" /\ hits > 0 THEN Suggests("github_merge_pr")
           ELSE NoSuggestion
  BY <1>1, <1>3 DEF evaluateSuggestion
<1>5. QED
  BY <1>2, <1>4 DEF r

SuggestionsIInv == ResultsKnown /\ SuggestionsHold

LEMMA SuggestionsStep ==
  ASSUME SuggestionsIInv, ToolRan
  PROVE  SuggestionsIInv'
<1> DEFINE issue == [tool |-> "jira_create_issue", labels |-> {"ai-suggested"}]
<1>1. loop \in Seq(LoopEntry) /\ SuggestionsHold
  BY DEF SuggestionsIInv, ResultsKnown
<1>2. PICK tool \in Tools, hits \in 0..2, success \in BOOLEAN :
       LET ran == [result |-> ToolResult(tool, hits), success |-> success]
           chain == tool = "rca_identify" \/ \E i \in DOMAIN loop : loop[i].result.tool = "rca_identify"
       IN loop' = Append(loop, [result |-> ran.result, success |-> success, suggested |->
                    IF chain THEN NoSuggestion
                    ELSE evaluateSuggestion(ran.result, success, Append(loop, ran))])
  BY DEF ToolRan
<1> DEFINE ran == [result |-> ToolResult(tool, hits), success |-> success]
           chain == tool = "rca_identify" \/ \E i \in DOMAIN loop : loop[i].result.tool = "rca_identify"
           made == IF chain THEN NoSuggestion
                   ELSE IF success /\ tool = "jira_search" THEN issue
                   ELSE IF success /\ tool = "github_get_pr" /\ hits > 0 THEN Suggests("github_merge_pr")
                   ELSE NoSuggestion
           entry == [result |-> ToolResult(tool, hits), success |-> success, suggested |-> made]
<1>3. \A i \in DOMAIN Append(loop, ran) :
           \E t \in Tools, h \in 0..2 : Append(loop, ran)[i].result = ToolResult(t, h)
  <2>0. DOMAIN Append(loop, ran) = 1..Len(loop) + 1 /\ DOMAIN loop = 1..Len(loop) /\ Len(loop) \in Nat
    <3> HIDE DEF ran
    <3> QED
      BY <1>1
  <2>1. TAKE i \in DOMAIN Append(loop, ran)
  <2>2. CASE i = Len(loop) + 1
    <3>1. Append(loop, ran)[i] = ran
      <4> HIDE DEF ran
      <4> QED
        BY <1>1, <2>2
    <3>2. ran.result = ToolResult(tool, hits)
      OBVIOUS
    <3>3. QED
      BY <3>1, <3>2
  <2>3. CASE i \in DOMAIN loop
    <3>1. Append(loop, ran)[i] = loop[i] /\ loop[i] \in LoopEntry
      <4> HIDE DEF ran
      <4> QED
        BY <1>1, <2>0, <2>3
    <3>2. \E t \in Tools, h \in 0..2 : loop[i].result = ToolResult(t, h)
      BY <3>1 DEF LoopEntry
    <3>3. QED
      BY <3>1, <3>2
  <2>4. QED
    BY <2>0, <2>2, <2>3
<1>4. loop' = Append(loop, entry)
  <2>1. evaluateSuggestion(ToolResult(tool, hits), success, Append(loop, ran)) =
           IF success /\ tool = "jira_search" THEN issue
           ELSE IF success /\ tool = "github_get_pr" /\ hits > 0 THEN Suggests("github_merge_pr")
           ELSE NoSuggestion
    <3> HIDE DEF ran
    <3> QED
      BY <1>3, SuggestionIs
  <2>2. loop' = Append(loop, [result |-> ToolResult(tool, hits), success |-> success, suggested |->
                    IF chain THEN NoSuggestion
                    ELSE evaluateSuggestion(ToolResult(tool, hits), success, Append(loop, ran))])
    BY <1>2
  <2> HIDE DEF ran, chain, issue
  <2>3. QED
    BY <2>1, <2>2
<1>5. entry \in LoopEntry
  BY DEF LoopEntry
<1>6. loop' \in Seq(LoopEntry) /\ Len(loop') = Len(loop) + 1 /\ Len(loop) \in Nat
  <2> HIDE DEF entry
  <2> QED
    BY <1>1, <1>4, <1>5
<1>7. DOMAIN loop' = 1..Len(loop) + 1 /\ DOMAIN loop = 1..Len(loop)
  <2> QED
    BY <1>1, <1>6
<1>8. loop'[Len(loop) + 1] = entry /\ \A i \in DOMAIN loop : loop'[i] = loop[i]
  <2> HIDE DEF entry
  <2> QED
    BY <1>1, <1>4, <1>5
<1>9. chain <=> \E j \in 1..Len(loop) + 1 : loop'[j].result.tool = "rca_identify"
  <2>1. entry.result.tool = tool
    BY ResultIs DEF IsResult
  <2> HIDE DEF entry
  <2>2. QED
    BY <1>6, <1>7, <1>8, <2>1
<1> DEFINE Right(i) ==
    LET s == loop'[i].suggested
        r == loop'[i].result
        after == \E j \in 1..i : loop'[j].result.tool = "rca_identify"
    IN /\ s.tool = "jira_create_issue" <=> (~after /\ loop'[i].success /\ r.tool = "jira_search")
       /\ s.tool = "github_merge_pr" <=>
            (~after /\ loop'[i].success /\ r.tool = "github_get_pr" /\ r.hits > 0)
       /\ s.tool \in {"none", "jira_create_issue", "github_merge_pr"}
       /\ s.labels \subseteq {"ai-suggested"}
<1>10. Right(Len(loop) + 1)
  <2>1. /\ entry.suggested = made /\ entry.success = success /\ entry.result = ToolResult(tool, hits)
    OBVIOUS
  <2>2. ToolResult(tool, hits).tool = tool /\ ToolResult(tool, hits).hits = hits
    BY ResultIs DEF IsResult
  <2>3. /\ made.tool = "jira_create_issue" <=> (~chain /\ success /\ tool = "jira_search")
        /\ made.tool = "github_merge_pr" <=> (~chain /\ success /\ tool = "github_get_pr" /\ hits > 0)
        /\ made.tool \in {"none", "jira_create_issue", "github_merge_pr"}
        /\ made.labels \subseteq {"ai-suggested"}
    <3> HIDE DEF chain
    <3> QED
      BY DEF NoSuggestion, Suggests
  <2> HIDE DEF entry, made, chain
  <2>4. QED
    BY <1>8, <1>9, <2>1, <2>2, <2>3
<1>11. ASSUME NEW i \in DOMAIN loop PROVE Right(i)
  <2>1. loop'[i] = loop[i] /\ \A j \in 1..i : loop'[j] = loop[j]
    BY <1>6, <1>7, <1>8, <1>11
  <2>2. (\E j \in 1..i : loop'[j].result.tool = "rca_identify") <=>
        (\E j \in 1..i : loop[j].result.tool = "rca_identify")
    BY <2>1
  <2>3. QED
    BY <1>1, <1>11, <2>1, <2>2 DEF SuggestionsHold
<1>12. SuggestionsHold'
  <2>1. ASSUME NEW i \in DOMAIN loop' PROVE Right(i)
    <3>1. i \in DOMAIN loop \/ i = Len(loop) + 1
      BY <1>6, <1>7
    <3> HIDE DEF Right
    <3>2. QED
      BY <1>10, <1>11, <3>1
  <2>2. QED
    BY <2>1 DEF SuggestionsHold
<1>13. QED
  BY <1>6, <1>12 DEF SuggestionsIInv, ResultsKnown

\* The three together, which share no state
AdviceIInv == RoutesIInv /\ PromptsIInv /\ SuggestionsIInv

LEMMA AdviceInvImplies == AdviceIInv => AdviceInv
BY RoutesFollow, PromptsFollow DEF AdviceIInv, AdviceInv, SuggestionsIInv

LEMMA AdviceInvInit == AdviceInit => AdviceIInv
<1> SUFFICES ASSUME AdviceInit PROVE AdviceIInv
  OBVIOUS
<1>1. RoutesIInv
  BY RoutesInvInit DEF AdviceInit
<1>2. PromptsIInv
  BY DEF AdviceInit, PromptsIInv
<1>3. SuggestionsIInv
  <2>1. loop = <<>>
    BY DEF AdviceInit
  <2>2. loop \in Seq(LoopEntry) /\ DOMAIN loop = {}
    BY <2>1
  <2>3. QED
    BY <2>2 DEF SuggestionsIInv, ResultsKnown, SuggestionsHold
<1>4. QED
  BY <1>1, <1>2, <1>3 DEF AdviceIInv

LEMMA AdviceInvStep == AdviceIInv /\ [AdviceNext]_adviceVars => AdviceIInv'
<1> SUFFICES ASSUME AdviceIInv, [AdviceNext]_adviceVars PROVE AdviceIInv'
  OBVIOUS
<1>1. RoutesIInv /\ PromptsIInv /\ SuggestionsIInv
  BY DEF AdviceIInv
<1>2. ASSUME UNCHANGED <<routings, questions, minutes>> PROVE RoutesIInv'
  BY <1>1, <1>2 DEF RoutesIInv
<1>3. ASSUME UNCHANGED <<pins, prompts>> PROVE PromptsIInv'
  BY <1>1, <1>3 DEF PromptsIInv
<1>4. ASSUME UNCHANGED loop PROVE SuggestionsIInv'
  BY <1>1, <1>4 DEF SuggestionsIInv, ResultsKnown, SuggestionsHold
<1>5. ASSUME NEW q \in Question, ModelAnswers(q) PROVE AdviceIInv'
  BY <1>1, <1>3, <1>4, <1>5, ModelAnswersStep DEF ModelAnswers, AdviceIInv
<1>6. ASSUME NEW q \in Question, NEW m \in Message, routeToPersona(q, m) PROVE AdviceIInv'
  BY <1>1, <1>3, <1>4, <1>6, RoutedStep DEF routeToPersona, AdviceIInv
<1>7. CASE MinutePasses
  BY <1>1, <1>3, <1>4, <1>7, MinutesStep DEF MinutePasses, AdviceIInv
<1>8. CASE savePinnedPrompts \/ resolvePins \/ CheckSignal \/ FillWithRole
  <2>1. UNCHANGED <<routings, questions, minutes>> /\ UNCHANGED loop
    BY <1>8 DEF savePinnedPrompts, resolvePins, CheckSignal, FillWithRole
  <2>2. QED
    BY <1>1, <1>2, <1>4, <1>8, <2>1, PromptsStep DEF AdviceIInv
<1>9. CASE ToolRan
  BY <1>1, <1>2, <1>3, <1>9, SuggestionsStep DEF ToolRan, AdviceIInv
<1>10. CASE UNCHANGED adviceVars
  BY <1>2, <1>3, <1>4, <1>10 DEF adviceVars, AdviceIInv
<1>11. QED
  BY <1>5, <1>6, <1>7, <1>8, <1>9, <1>10 DEF AdviceNext
-----------------------------------------------------------------------------
\* What adds up over the parts of a whole

LEMMA AddedIsTotal == ASSUME NEW s PROVE Added(s) = Total(s)
BY DEF Added, Total

LEMMA SumUpIsTotal == ASSUME NEW s PROVE SumUp(s) = Total(s)
BY DEF SumUp, Total

\* What adds up over disjoint sets
IsMeasure(mu, I) ==
  /\ mu \in [SUBSET I -> Nat] /\ mu[{}] = 0
  /\ \A A, B \in SUBSET I : A \intersect B = {} => mu[A \union B] = mu[A] + mu[B]

\* ... adds up over the parts in a list
ArePartsOf(part, n, I) ==
  /\ part \in [1..n -> SUBSET I]
  /\ \A a, b \in 1..n : a # b => part[a] \intersect part[b] = {}
AddsUp(mu, part, n) ==
  Total([m \in 1..n |-> mu[part[m]]]) = mu[UNION {part[m] : m \in 1..n}]

LEMMA PartsAddUp ==
  ASSUME NEW I, NEW mu, IsMeasure(mu, I), NEW n \in Nat, NEW part, ArePartsOf(part, n, I)
  PROVE  AddsUp(mu, part, n)
<1> USE DEF ArePartsOf, AddsUp
<1> DEFINE s == [m \in 1..n |-> mu[part[m]]]
           upTo(i) == UNION {part[m] : m \in 1..i}
<1>1. mu \in [SUBSET I -> Nat] /\ mu[{}] = 0
  BY DEF IsMeasure
<1>2. s \in Seq(Nat) /\ Len(s) = n
  BY <1>1
<1>3. PICK g \in [0..n -> Nat] :
        g[0] = 0 /\ (\A i \in 1..n : g[i] = g[i - 1] + s[i]) /\ Total(s) = g[n]
  <2> HIDE DEF s
  <2> QED
    BY <1>2, TotalDefined
<1> DEFINE S == {i \in 0..n : g[i] = mu[upTo(i)]}
<1>4. 0 \in S
  <2>1. upTo(0) = {}
    OBVIOUS
  <2> HIDE DEF upTo
  <2>2. g[0] = mu[upTo(0)]
    BY <1>1, <1>3, <2>1
  <2>3. QED
    BY <2>2
<1>5. ASSUME NEW i \in 0..(n - 1), i \in S PROVE i + 1 \in S
  <2>1. i + 1 \in 1..n /\ (i + 1) - 1 = i
    OBVIOUS
  <2>2. g[i + 1] = g[i] + s[i + 1]
    BY <1>3, <2>1
  <2>3. s[i + 1] = mu[part[i + 1]]
    BY <2>1
  <2>4. upTo(i + 1) = upTo(i) \union part[i + 1]
    <3>1. 1..(i + 1) = (1..i) \union {i + 1}
      OBVIOUS
    <3>2. QED
      BY <3>1
  <2>5. upTo(i) \intersect part[i + 1] = {}
    <3>1. \A m \in 1..i : m \in 1..n /\ m # i + 1
      BY <2>1
    <3>2. QED
      BY <2>1, <3>1
  <2>6. upTo(i) \in SUBSET I /\ part[i + 1] \in SUBSET I
    <3>1. \A m \in 1..i : m \in 1..n
      BY <2>1
    <3>2. \A m \in 1..i : part[m] \in SUBSET I
      BY <3>1
    <3>3. QED
      BY <2>1, <3>2
  <2>7. mu[upTo(i) \union part[i + 1]] = mu[upTo(i)] + mu[part[i + 1]]
    <3> HIDE DEF upTo
    <3> QED
      BY <2>5, <2>6 DEF IsMeasure
  <2>8. g[i] = mu[upTo(i)]
    BY <1>5
  <2> HIDE DEF upTo, s
  <2>9. g[i + 1] = mu[upTo(i + 1)]
    BY <2>2, <2>3, <2>4, <2>7, <2>8
  <2>10. QED
    BY <2>1, <2>9
<1>6. \A i \in 0..n : i \in S
  <2> HIDE DEF S
  <2> QED
    BY <1>4, <1>5, SegmentInduction
<1>7. g[n] = mu[upTo(n)]
  <2>1. n \in 0..n
    OBVIOUS
  <2> HIDE DEF upTo
  <2>2. QED
    BY <1>6, <2>1
<1>8. QED
  BY <1>3, <1>7

\* The elements of a finite set, each once
LEMMA SetToSeqIs ==
  ASSUME NEW C, IsFiniteSet(C)
  PROVE  \E n \in Nat : /\ SetToSeq(C) \in [1..n -> C] /\ DOMAIN SetToSeq(C) = 1..n
                        /\ \A a, b \in 1..n : a # b => SetToSeq(C)[a] # SetToSeq(C)[b]
                        /\ \A r \in C : \E a \in 1..n : SetToSeq(C)[a] = r
<1> DEFINE n == Cardinality(C)
           Listed(f) == f \in [1..n -> C] /\ IsInjective(f)
<1>1. n \in Nat /\ ExistsBijection(1..n, C)
  BY FS_CardinalityType
<1>2. \E f \in [1..n -> C] : IsInjective(f)
  BY <1>1 DEF ExistsBijection, Bijection, Injection
<1>3. SetToSeq(C) \in [1..n -> C] /\ IsInjective(SetToSeq(C))
  BY <1>2 DEF SetToSeq
<1>4. SetToSeq(C) \in Surjection(1..n, C)
  <2>1. SetToSeq(C) \in Injection(1..n, C)
    BY <1>3 DEF Injection
  <2>2. Cardinality(1..n) = n
    BY <1>1, FS_Interval
  <2> HIDE DEF n
  <2>3. QED
    BY <2>1, <2>2, FS_Injection DEF n
<1>5. \A r \in C : \E a \in 1..n : SetToSeq(C)[a] = r
  BY <1>4 DEF Surjection
<1>6. \A a, b \in 1..n : a # b => SetToSeq(C)[a] # SetToSeq(C)[b]
  BY <1>3 DEF IsInjective
<1>7. QED
  BY <1>1, <1>3, <1>5, <1>6

\* ... and over a set of parts that makes up the whole
LEMMA SharesAddUp ==
  ASSUME NEW I, NEW mu, IsMeasure(mu, I), NEW C, IsFiniteSet(C), NEW part \in [C -> SUBSET I],
         \A r, t \in C : r # t => part[r] \intersect part[t] = {},
         \A i \in I : \E r \in C : i \in part[r]
  PROVE  Total([m \in DOMAIN SetToSeq(C) |-> mu[part[SetToSeq(C)[m]]]]) = mu[I]
<1> DEFINE e == SetToSeq(C)
<1>1. PICK n \in Nat : /\ e \in [1..n -> C] /\ DOMAIN e = 1..n
                       /\ \A a, b \in 1..n : a # b => e[a] # e[b]
                       /\ \A r \in C : \E a \in 1..n : e[a] = r
  BY SetToSeqIs
<1> HIDE DEF e
<1> DEFINE of == [m \in 1..n |-> part[e[m]]]
<1>2. of \in [1..n -> SUBSET I]
  BY <1>1
<1>3. \A a, b \in 1..n : a # b => of[a] \intersect of[b] = {}
  BY <1>1
<1>4. UNION {of[m] : m \in 1..n} = I
  <2>1. UNION {of[m] : m \in 1..n} \subseteq I
    BY <1>2
  <2>2. ASSUME NEW i \in I PROVE i \in UNION {of[m] : m \in 1..n}
    <3>1. PICK r \in C : i \in part[r]
      OBVIOUS
    <3>2. PICK a \in 1..n : e[a] = r
      BY <1>1
    <3>3. i \in of[a]
      BY <3>1, <3>2
    <3>4. QED
      BY <3>3
  <2>3. QED
    BY <2>1, <2>2
<1>5. Total([m \in 1..n |-> mu[of[m]]]) = mu[UNION {of[m] : m \in 1..n}]
  <2>1. ArePartsOf(of, n, I)
    BY <1>2, <1>3 DEF ArePartsOf
  <2> HIDE DEF of
  <2>2. AddsUp(mu, of, n)
    BY <2>1, PartsAddUp
  <2>3. QED
    BY <2>2 DEF AddsUp
<1>6. [m \in 1..n |-> mu[of[m]]] = [m \in DOMAIN e |-> mu[part[e[m]]]]
  BY <1>1
<1>7. QED
  BY <1>4, <1>5, <1>6 DEF e

\* Cardinality is a measure
LEMMA CardinalityAddsUp ==
  ASSUME NEW I, IsFiniteSet(I)
  PROVE  IsMeasure([A \in SUBSET I |-> Cardinality(A)], I)
<1>1. \A A \in SUBSET I : IsFiniteSet(A) /\ Cardinality(A) \in Nat
  BY FS_Subset, FS_CardinalityType
<1>2. \A A, B \in SUBSET I : A \intersect B = {} =>
        Cardinality(A \union B) = Cardinality(A) + Cardinality(B)
  <2>1. TAKE A \in SUBSET I, B \in SUBSET I
  <2>2. HAVE A \intersect B = {}
  <2>3. Cardinality(A \union B) = Cardinality(A) + Cardinality(B) - Cardinality(A \intersect B)
    BY <1>1, FS_Union
  <2>4. Cardinality(A \intersect B) = 0
    BY <2>2, FS_EmptySet
  <2>5. QED
    BY <1>1, <2>3, <2>4
<1>3. Cardinality({}) = 0
  BY FS_EmptySet
<1>4. QED
  BY <1>1, <1>2, <1>3 DEF IsMeasure
-----------------------------------------------------------------------------
\* The figures of the dashboards

\* Of a set of failures, each has one category
LEMMA CategoriesAddUp ==
  ASSUME NEW S, IsFiniteSet(S)
  PROVE  SumBy(SetToSeq(getFailureCategoriesBreakdown(S)), LAMBDA b : b.count) = Cardinality(S)
<1> DEFINE C == getFailureCategoriesBreakdown(S)
           mu == [A \in SUBSET S |-> Cardinality(A)]
           Alike(k) == {i \in S : archived[i].kind = k}
           part == [r \in C |-> Alike(r.category)]
           e == SetToSeq(C)
<1>1. IsMeasure(mu, S)
  BY CardinalityAddsUp
<1>2. IsFiniteSet(C)
  <2> DEFINE f == [i \in S |-> [category |-> archived[i].kind,
                               count |-> Cardinality(Alike(archived[i].kind))]]
  <2>1. C = {f[i] : i \in S}
    BY DEF getFailureCategoriesBreakdown
  <2> HIDE DEF C, f
  <2>2. f \in Surjection(S, C)
    <3>1. f \in [S -> C]
      BY <2>1 DEF f
    <3>2. \A r \in C : \E i \in S : f[i] = r
      BY <2>1
    <3>3. QED
      BY <3>1, <3>2 DEF Surjection
  <2>3. QED
    BY <2>2, FS_Surjection
<1>3. \A r \in C : \E i \in S : r = [category |-> archived[i].kind,
                                   count |-> Cardinality(Alike(archived[i].kind))]
  <2>1. C = {[category |-> k, count |-> Cardinality(Alike(k))] : k \in {archived[i].kind : i \in S}}
    BY DEF getFailureCategoriesBreakdown
  <2> HIDE DEF C, Alike
  <2>2. QED
    BY <2>1
<1>4. \A r \in C : r.count = Cardinality(Alike(r.category)) /\ r = [category |-> r.category, count |-> r.count]
  <2>1. TAKE r \in C
  <2>2. PICK i \in S : r = [category |-> archived[i].kind,
                           count |-> Cardinality(Alike(archived[i].kind))]
    BY <1>3
  <2> HIDE DEF C, Alike
  <2>3. r.category = archived[i].kind /\ r.count = Cardinality(Alike(archived[i].kind))
    BY <2>2
  <2>4. QED
    BY <2>2, <2>3
<1>5. part \in [C -> SUBSET S]
  <2> HIDE DEF C
  <2> QED
    OBVIOUS
<1>6. \A r, t \in C : r # t => part[r] \intersect part[t] = {}
  <2> HIDE DEF C, Alike
  <2>1. \A r, t \in C : r.category = t.category => r = t
    BY <1>4
  <2> USE DEF Alike
  <2>2. QED
    BY <2>1
<1>7. \A i \in S : \E r \in C : i \in part[r]
  <2>1. TAKE i \in S
  <2> DEFINE r == [category |-> archived[i].kind, count |-> Cardinality(Alike(archived[i].kind))]
  <2>2. r \in C
    BY DEF getFailureCategoriesBreakdown
  <2>3. i \in part[r]
    <3> HIDE DEF C
    <3> QED
      BY <2>2
  <2>4. QED
    BY <2>2, <2>3
<1>8. Total([m \in DOMAIN e |-> mu[part[e[m]]]]) = mu[S]
  <2> HIDE DEF C, mu, part
  <2> QED
    BY <1>1, <1>2, <1>5, <1>6, <1>7, SharesAddUp
<1>9. [m \in DOMAIN e |-> mu[part[e[m]]]] = [m \in DOMAIN e |-> e[m].count]
  <2>1. \A m \in DOMAIN e : e[m] \in C
    <3>1. PICK n \in Nat : e \in [1..n -> C] /\ DOMAIN e = 1..n
      <4> HIDE DEF C
      <4> QED
        BY <1>2, SetToSeqIs
    <3> HIDE DEF C, e
    <3>2. QED
      BY <3>1
  <2> HIDE DEF C, e
  <2>2. \A m \in DOMAIN e : mu[part[e[m]]] = e[m].count
    BY <1>4, <1>5, <2>1
  <2>3. QED
    BY <2>2
<1>10. mu[S] = Cardinality(S)
  OBVIOUS
<1>11. SumBy(e, LAMBDA b : b.count) = Total([m \in DOMAIN e |-> e[m].count])
  BY SumUpIsTotal DEF SumBy
<1>12. QED
  BY <1>8, <1>9, <1>10, <1>11
-----------------------------------------------------------------------------
FailureRow ==
  [kind : {f.kind : f \in Failures}, severity : {f.severity : f \in Failures},
   categorized : {f.categorized : f \in Failures}, documented : BOOLEAN, count : Nat \ {0},
   first : Nat, last : Nat]

ArchiveKnown ==
  archived \in Seq(FailureRow) /\ today \in Nat /\ \A i \in DOMAIN archived : archived[i].last <= today

\* Queries that count failures
Counts == {"failures", "categorized", "archived", "documented", "recurring"}

\* What a query brings of an archive a, of those that count and those that come last
StillThere(a, since) == {i \in DOMAIN a : a[i].last >= since}
Kinds(a, S) ==
  {[category |-> k, count |-> Cardinality({i \in S : a[i].kind = k})] : k \in {a[i].kind : i \in S}}
Counted(a, q, since) ==
  CASE q \in {"failures", "archived"} -> StillThere(a, since)
    [] q = "categorized" -> {i \in StillThere(a, since) : a[i].categorized}
    [] q = "documented" -> {i \in StillThere(a, since) : a[i].documented}
    [] OTHER -> {i \in StillThere(a, since) : a[i].count > 1}
Told(a, q, since) == IF q = "top" THEN Kinds(a, DOMAIN a) ELSE Kinds(a, StillThere(a, since))

\* What a request has been told of an archive a: a count holds, or more does by now, and
\* what it is told last is what holds
RequestKnown(a, b) ==
  LET asks == Requests[b.kind] IN
  /\ b.kind \in DOMAIN Requests /\ b.since \in Int
  /\ b.kind # "dashboard" => b.failing = {}
  /\ DOMAIN b.got \in {asks.first, asks.first \union asks.then}
  /\ \A q \in DOMAIN b.got \intersect Counts :
       b.got[q] # Waiting => \E v \in Nat : b.got[q] = {v} /\ v <= Cardinality(Counted(a, q, b.since))
  /\ \A q \in DOMAIN b.got \intersect asks.then :
       /\ \A p \in asks.first : b.got[p] # Waiting
       /\ b.got[q] # Waiting /\ b.failing = {} => b.got[q] = {Told(a, q, b.since)}

\* A request that has been told all is answered at once
NotTold(b) == \E q \in DOMAIN b.got : b.got[q] = Waiting
AnsweredAsAsked(b) ==
  /\ DOMAIN b.got = Requests[b.kind].first \union Requests[b.kind].then
  /\ \A q \in DOMAIN b.got : b.got[q] # Waiting

IsBoard(b) ==
  /\ b = [kind |-> b.kind, since |-> b.since, got |-> b.got, phase |-> b.phase, failing |-> b.failing]
  /\ b.phase \in {"closed", "open", "answered", "failed"}
  /\ b.got = [q \in DOMAIN b.got |-> b.got[q]]

BoardKnown(a, b) ==
  /\ IsBoard(b)
  /\ b.phase = "open" => RequestKnown(a, b) /\ NotTold(b)
  /\ b.phase = "answered" => RequestKnown(a, b) /\ AnsweredAsAsked(b)
  /\ b.phase = "failed" /\ b.kind = "dashboard" => "categorized" \in b.failing

FiguresIInv == ArchiveKnown /\ BoardKnown(archived, board)
-----------------------------------------------------------------------------
LEMMA AsksAre ==
  ASSUME NEW k \in DOMAIN Requests
  PROVE  /\ k \in {"dashboard", "metrics", "summary", "search"}
         /\ Requests[k].first \intersect Requests[k].then = {}
         /\ \A p, q \in Requests[k].then : p = q
         /\ Requests[k].then \subseteq {"top", "breakdown"}
         /\ k = "dashboard" => /\ Requests[k].first = {"failures", "categorized", "recent"}
                               /\ Requests[k].then = {"breakdown"}
         /\ k = "metrics" => /\ Requests[k].first = {"archived", "documented", "recurring"}
                             /\ Requests[k].then = {"top"}
<1>1. k \in {"dashboard", "metrics", "summary", "search"}
  BY DEF Requests
<1>2. /\ Requests["dashboard"] = [first |-> {"failures", "categorized", "recent"}, then |-> {"breakdown"}]
      /\ Requests["metrics"] = [first |-> {"archived", "documented", "recurring"}, then |-> {"top"}]
      /\ Requests["summary"] = [first |-> {"archived", "documented", "recurring", "top"}, then |-> {}]
      /\ Requests["search"] = [first |-> {"page", "archived"}, then |-> {}]
  BY DEF Requests, getMetrics, exportPrometheusMetrics, getMetricsSummary, getInsights, searchFailures
<1>3. CASE k = "dashboard"
  BY <1>2, <1>3
<1>4. CASE k = "metrics"
  BY <1>2, <1>4
<1>5. CASE k = "summary"
  BY <1>2, <1>5
<1>6. CASE k = "search"
  BY <1>2, <1>6
<1>7. QED
  BY <1>1, <1>3, <1>4, <1>5, <1>6

LEMMA BroughtIs ==
  ASSUME NEW since
  PROVE  /\ \A q \in Counts : Brought(q, since) = Cardinality(Counted(archived, q, since))
         /\ \A q \in {"top", "breakdown"} : Brought(q, since) = Told(archived, q, since)
<1>1. /\ Brought("failures", since) = Cardinality(StillThere(archived, since))
      /\ Brought("archived", since) = Cardinality(StillThere(archived, since))
      /\ Brought("categorized", since) = Cardinality({i \in StillThere(archived, since) : archived[i].categorized})
      /\ Brought("documented", since) = Cardinality({i \in StillThere(archived, since) : archived[i].documented})
      /\ Brought("recurring", since) = Cardinality({i \in StillThere(archived, since) : archived[i].count > 1})
  BY DEF Brought, StillThere
<1>2. /\ Brought("top", since) = Kinds(archived, DOMAIN archived)
      /\ Brought("breakdown", since) = Kinds(archived, StillThere(archived, since))
  BY DEF Brought, StillThere, Kinds, getFailureCategoriesBreakdown
<1>3. /\ Counted(archived, "failures", since) = StillThere(archived, since)
      /\ Counted(archived, "archived", since) = StillThere(archived, since)
      /\ Counted(archived, "categorized", since) = {i \in StillThere(archived, since) : archived[i].categorized}
      /\ Counted(archived, "documented", since) = {i \in StillThere(archived, since) : archived[i].documented}
      /\ Counted(archived, "recurring", since) = {i \in StillThere(archived, since) : archived[i].count > 1}
  BY DEF Counted
<1>4. \A q \in Counts : Brought(q, since) = Cardinality(Counted(archived, q, since))
  <2>1. TAKE q \in Counts
  <2>2. q = "failures" \/ q = "archived" \/ q = "categorized" \/ q = "documented" \/ q = "recurring"
    BY DEF Counts
  <2>3. QED
    BY <1>1, <1>3, <2>2
<1>5. QED
  BY <1>2, <1>4 DEF Told

LEMMA CountedIs ==
  ASSUME NEW a, DOMAIN a = 1..Len(a), Len(a) \in Nat, NEW q, NEW since
  PROVE  /\ Counted(a, q, since) \in SUBSET DOMAIN a
         /\ IsFiniteSet(Counted(a, q, since)) /\ Cardinality(Counted(a, q, since)) \in Nat
<1>1. Counted(a, q, since) \in SUBSET DOMAIN a
  BY DEF Counted, StillThere
<1>2. IsFiniteSet(DOMAIN a)
  BY FS_Interval
<1>3. QED
  BY <1>1, <1>2, FS_Subset, FS_CardinalityType

\* An archive that grows: nothing that was counted is left out
Outgrows(b, a) ==
  /\ DOMAIN a \subseteq DOMAIN b
  /\ \A i \in DOMAIN a : /\ b[i].last >= a[i].last /\ b[i].count >= a[i].count
                         /\ b[i].categorized = a[i].categorized
                         /\ a[i].documented => b[i].documented

LEMMA FiguresGrow ==
  ASSUME NEW a \in Seq(FailureRow), NEW b \in Seq(FailureRow), Outgrows(b, a),
         NEW q \in Counts, NEW since \in Int
  PROVE  Cardinality(Counted(a, q, since)) <= Cardinality(Counted(b, q, since))
<1>1. \A i \in DOMAIN a : /\ a[i].last \in Nat /\ b[i].last \in Nat /\ a[i].count \in Nat /\ b[i].count \in Nat
  <2>1. \A i \in DOMAIN a : a[i] \in FailureRow /\ b[i] \in FailureRow
    BY DEF Outgrows
  <2>2. QED
    BY <2>1 DEF FailureRow
<1>2. StillThere(a, since) \subseteq StillThere(b, since)
  BY <1>1 DEF StillThere, Outgrows
<1>3. Counted(a, q, since) \subseteq Counted(b, q, since)
  <2>1. \A i \in StillThere(a, since) : i \in DOMAIN a
    BY DEF StillThere
  <2>2. {i \in StillThere(a, since) : a[i].categorized} \subseteq {i \in StillThere(b, since) : b[i].categorized}
    BY <1>2, <2>1 DEF Outgrows
  <2>3. {i \in StillThere(a, since) : a[i].documented} \subseteq {i \in StillThere(b, since) : b[i].documented}
    BY <1>2, <2>1 DEF Outgrows
  <2>4. {i \in StillThere(a, since) : a[i].count > 1} \subseteq {i \in StillThere(b, since) : b[i].count > 1}
    BY <1>1, <1>2, <2>1 DEF Outgrows
  <2>5. QED
    BY <1>2, <2>2, <2>3, <2>4 DEF Counted
<1>4. IsFiniteSet(Counted(b, q, since))
  BY CountedIs
<1>5. QED
  BY <1>3, <1>4, FS_Subset

LEMMA RequestOutgrown ==
  ASSUME NEW a \in Seq(FailureRow), NEW b \in Seq(FailureRow), Outgrows(b, a), NEW r,
         RequestKnown(a, r), NotTold(r)
  PROVE  RequestKnown(b, r)
<1> DEFINE asks == Requests[r.kind]
<1>1. r.kind \in DOMAIN Requests /\ r.since \in Int
  BY DEF RequestKnown
<1>2. \A q \in DOMAIN r.got \intersect Counts :
        r.got[q] # Waiting => \E v \in Nat : r.got[q] = {v} /\ v <= Cardinality(Counted(b, q, r.since))
  <2>1. TAKE q \in DOMAIN r.got \intersect Counts
  <2>2. HAVE r.got[q] # Waiting
  <2>3. PICK v \in Nat : r.got[q] = {v} /\ v <= Cardinality(Counted(a, q, r.since))
    BY <2>2 DEF RequestKnown
  <2>4. Cardinality(Counted(a, q, r.since)) <= Cardinality(Counted(b, q, r.since))
    BY <1>1, FiguresGrow
  <2>5. Cardinality(Counted(a, q, r.since)) \in Nat /\ Cardinality(Counted(b, q, r.since)) \in Nat
    BY CountedIs
  <2>6. QED
    BY <2>3, <2>4, <2>5
<1>3. \A q \in DOMAIN r.got \intersect asks.then :
        /\ \A p \in asks.first : r.got[p] # Waiting
        /\ r.got[q] = Waiting
  <2>1. TAKE q \in DOMAIN r.got \intersect asks.then
  <2>2. \A p \in asks.first : r.got[p] # Waiting
    BY DEF RequestKnown
  <2>3. PICK p \in DOMAIN r.got : r.got[p] = Waiting
    BY DEF NotTold
  <2>4. p \in asks.first \union asks.then
    BY DEF RequestKnown
  <2>5. p = q
    BY <1>1, <2>2, <2>3, <2>4, AsksAre
  <2>6. QED
    BY <2>2, <2>3, <2>5
<1>4. QED
  BY <1>2, <1>3 DEF RequestKnown
-----------------------------------------------------------------------------
LEMMA FiguresInit == AnalyticsInit => FiguresIInv
<1> SUFFICES ASSUME AnalyticsInit PROVE FiguresIInv
  OBVIOUS
<1>1. ArchiveKnown
  BY DEF ArchiveKnown, AnalyticsInit
<1>2. board = [kind |-> "none", since |-> 0, got |-> <<>>, phase |-> "closed", failing |-> {}]
  BY DEF AnalyticsInit, Closed
<1>3. BoardKnown(archived, board)
  BY <1>2 DEF BoardKnown, IsBoard
<1>4. QED
  BY <1>1, <1>3 DEF FiguresIInv

LEMMA ArchiveRows ==
  ASSUME ArchiveKnown
  PROVE  \A i \in DOMAIN archived :
           archived[i] \in FailureRow /\ archived[i].last \in Nat /\ archived[i].count \in Nat
<1>1. \A i \in DOMAIN archived : archived[i] \in FailureRow
  BY DEF ArchiveKnown
<1>2. QED
  BY <1>1 DEF FailureRow

\* The archive and the request: reports and recurrences
LEMMA FiguresOnGrowth ==
  ASSUME FiguresIInv, archived' \in Seq(FailureRow), Outgrows(archived', archived),
         \A i \in DOMAIN archived' : archived'[i].last <= today, today' = today, board' = board,
         board.phase \in {"closed", "open"}
  PROVE  FiguresIInv'
<1>1. archived \in Seq(FailureRow) /\ ArchiveKnown'
  BY DEF FiguresIInv, ArchiveKnown
<1>2. BoardKnown(archived, board)
  BY DEF FiguresIInv
<1>3. BoardKnown(archived', board)
  <2>1. board.phase = "open" => RequestKnown(archived, board) /\ NotTold(board)
    BY <1>2 DEF BoardKnown
  <2>2. board.phase = "open" => RequestKnown(archived', board)
    BY <1>1, <2>1, RequestOutgrown
  <2>3. QED
    BY <1>2, <2>1, <2>2 DEF BoardKnown
<1>4. QED
  BY <1>1, <1>3 DEF FiguresIInv

LEMMA FiguresReport == ASSUME FiguresIInv, ReportFailure PROVE FiguresIInv'
<1>1. PICK f \in Failures : archived' = Append(archived,
         [kind |-> f.kind, severity |-> f.severity, categorized |-> f.categorized,
          documented |-> FALSE, count |-> 1, first |-> today, last |-> today])
  BY DEF ReportFailure
<1> DEFINE r == [kind |-> f.kind, severity |-> f.severity, categorized |-> f.categorized,
                 documented |-> FALSE, count |-> 1, first |-> today, last |-> today]
<1>2. archived \in Seq(FailureRow) /\ today \in Nat /\ \A i \in DOMAIN archived : archived[i].last <= today
  BY DEF FiguresIInv, ArchiveKnown
<1>3. r \in FailureRow /\ r.last = today
  BY <1>2 DEF FailureRow
<1> HIDE DEF r
<1>4. archived' = Append(archived, r)
  BY <1>1 DEF r
<1>5. archived' \in Seq(FailureRow) /\ \A i \in DOMAIN archived' : archived'[i].last <= today
  <2>1. archived' \in Seq(FailureRow)
    BY <1>2, <1>3, <1>4
  <2>2. \A i \in DOMAIN archived' : IF i \in DOMAIN archived THEN archived'[i] = archived[i] ELSE archived'[i] = r
    BY <1>2, <1>4
  <2>3. QED
    BY <1>2, <1>3, <2>1, <2>2
<1>6. Outgrows(archived', archived)
  <2>1. DOMAIN archived \subseteq DOMAIN archived' /\ \A i \in DOMAIN archived : archived'[i] = archived[i]
    BY <1>2, <1>4
  <2>2. \A i \in DOMAIN archived : archived[i].last \in Nat /\ archived[i].count \in Nat
    BY ArchiveRows DEF FiguresIInv
  <2>3. QED
    BY <2>1, <2>2 DEF Outgrows
<1>7. QED
  BY <1>5, <1>6, FiguresOnGrowth DEF ReportFailure, OnArchive

LEMMA FiguresRecur == ASSUME FiguresIInv, FailureRecurs PROVE FiguresIInv'
<1>1. PICK i \in DOMAIN archived : archived' = [archived EXCEPT ![i].count = @ + 1, ![i].last = today]
  BY DEF FailureRecurs
<1>2. archived \in Seq(FailureRow) /\ today \in Nat /\ \A k \in DOMAIN archived : archived[k].last <= today
  BY DEF FiguresIInv, ArchiveKnown
<1> DEFINE r == [archived[i] EXCEPT !.count = @ + 1, !.last = today]
<1>3. archived[i] \in FailureRow
  BY <1>2
<1>4. /\ r \in FailureRow /\ r.last = today /\ r.count = archived[i].count + 1
      /\ r.categorized = archived[i].categorized /\ r.documented = archived[i].documented
  <2> DEFINE t == archived[i]
  <2>1. t = [kind |-> t.kind, severity |-> t.severity, categorized |-> t.categorized,
             documented |-> t.documented, count |-> t.count, first |-> t.first, last |-> t.last]
    BY <1>3 DEF FailureRow
  <2>2. r = [kind |-> t.kind, severity |-> t.severity, categorized |-> t.categorized,
             documented |-> t.documented, count |-> t.count + 1, first |-> t.first, last |-> today]
    <3> HIDE DEF t
    <3>1. [t EXCEPT !.count = t.count + 1, !.last = today] =
            [kind |-> t.kind, severity |-> t.severity, categorized |-> t.categorized,
             documented |-> t.documented, count |-> t.count + 1, first |-> t.first, last |-> today]
      <4>1. PICK a, b, c, d, e, f, g :
              t = [kind |-> a, severity |-> b, categorized |-> c, documented |-> d, count |-> e,
                   first |-> f, last |-> g]
        BY <2>1
      <4> DEFINE once == [t EXCEPT !.count = t.count + 1]
      <4>2. once = [kind |-> a, severity |-> b, categorized |-> c, documented |-> d, count |-> e + 1,
                    first |-> f, last |-> g]
        BY <4>1
      <4>3. [t EXCEPT !.count = t.count + 1, !.last = today] = [once EXCEPT !.last = today]
        BY <4>1
      <4> HIDE DEF once
      <4>4. [once EXCEPT !.last = today] =
              [kind |-> a, severity |-> b, categorized |-> c, documented |-> d, count |-> e + 1,
               first |-> f, last |-> today]
        BY <4>2
      <4>5. QED
        BY <4>1, <4>3, <4>4
    <3>2. QED
      BY <3>1 DEF t
  <2>3. /\ t.kind \in {f.kind : f \in Failures} /\ t.severity \in {f.severity : f \in Failures}
        /\ t.categorized \in {f.categorized : f \in Failures} /\ t.documented \in BOOLEAN
        /\ t.count + 1 \in Nat \ {0} /\ t.first \in Nat
    BY <1>3 DEF FailureRow
  <2> HIDE DEF r, t
  <2>4. r \in FailureRow
    BY <1>2, <2>2, <2>3 DEF FailureRow
  <2>5. QED
    BY <2>2, <2>4 DEF t
<1>5. archived' = [archived EXCEPT ![i] = r]
  BY <1>1
<1> HIDE DEF r
<1>6. archived' \in Seq(FailureRow) /\ DOMAIN archived' = DOMAIN archived
  BY <1>2, <1>4, <1>5
<1>7. archived'[i] = r /\ \A k \in DOMAIN archived : k # i => archived'[k] = archived[k]
  BY <1>2, <1>5
<1>8. \A k \in DOMAIN archived' : archived'[k].last <= today
  <2>1. TAKE k \in DOMAIN archived'
  <2>2. CASE k = i
    BY <1>2, <1>4, <1>7, <2>2
  <2>3. CASE k # i
    BY <1>2, <1>6, <1>7, <2>3
  <2>4. QED
    BY <2>2, <2>3
<1>9. Outgrows(archived', archived)
  <2>1. \A k \in DOMAIN archived : archived[k].last \in Nat /\ archived[k].count \in Nat /\ archived[k].last <= today
    BY <1>2, ArchiveRows DEF FiguresIInv
  <2>2. ASSUME NEW k \in DOMAIN archived
        PROVE  /\ archived'[k].last >= archived[k].last /\ archived'[k].count >= archived[k].count
               /\ archived'[k].categorized = archived[k].categorized
               /\ archived[k].documented => archived'[k].documented
    <3>1. CASE k = i
      BY <1>2, <1>4, <1>7, <2>1, <3>1
    <3>2. CASE k # i
      BY <1>7, <2>1, <3>2
    <3>3. QED
      BY <3>1, <3>2
  <2>3. QED
    BY <1>6, <2>2 DEF Outgrows
<1>10. QED
  BY <1>6, <1>8, <1>9, FiguresOnGrowth DEF FailureRecurs, OnArchive

LEMMA FiguresStored == ASSUME FiguresIInv, AnalysisStored PROVE FiguresIInv'
<1>1. PICK i \in DOMAIN archived : archived' = [archived EXCEPT ![i].documented = TRUE]
  BY DEF AnalysisStored
<1>2. archived \in Seq(FailureRow) /\ today \in Nat /\ \A k \in DOMAIN archived : archived[k].last <= today
  BY DEF FiguresIInv, ArchiveKnown
<1> DEFINE r == [archived[i] EXCEPT !.documented = TRUE]
<1>3. archived[i] \in FailureRow
  BY <1>2
<1>4. /\ r \in FailureRow /\ r.last = archived[i].last /\ r.count = archived[i].count
      /\ r.categorized = archived[i].categorized /\ r.documented = TRUE
  BY <1>3 DEF FailureRow
<1>5. archived' = [archived EXCEPT ![i] = r]
  BY <1>1
<1> HIDE DEF r
<1>6. archived' \in Seq(FailureRow) /\ DOMAIN archived' = DOMAIN archived
  BY <1>2, <1>4, <1>5
<1>7. archived'[i] = r /\ \A k \in DOMAIN archived : k # i => archived'[k] = archived[k]
  BY <1>2, <1>5
<1>8. \A k \in DOMAIN archived : /\ archived'[k].last = archived[k].last
                                 /\ archived'[k].count = archived[k].count
                                 /\ archived'[k].categorized = archived[k].categorized
                                 /\ archived[k].documented => archived'[k].documented
  <2>1. TAKE k \in DOMAIN archived
  <2>2. CASE k = i
    BY <1>4, <1>7, <2>2
  <2>3. CASE k # i
    BY <1>7, <2>3
  <2>4. QED
    BY <2>2, <2>3
<1>9. \A k \in DOMAIN archived' : archived'[k].last <= today
  BY <1>2, <1>6, <1>8
<1>10. Outgrows(archived', archived)
  <2>1. \A k \in DOMAIN archived : archived[k].last \in Nat /\ archived[k].count \in Nat
    BY ArchiveRows DEF FiguresIInv
  <2>2. QED
    BY <1>6, <1>8, <2>1 DEF Outgrows
<1>11. QED
  BY <1>6, <1>9, <1>10, FiguresOnGrowth DEF AnalysisStored, OnArchive

LEMMA FiguresDay == ASSUME FiguresIInv, DayPasses PROVE FiguresIInv'
<1>1. archived' = archived /\ board' = board /\ today' = today + 1
  BY DEF DayPasses
<1>2. \A i \in DOMAIN archived : archived[i].last \in Nat
  BY ArchiveRows DEF FiguresIInv
<1>3. ArchiveKnown'
  BY <1>1, <1>2 DEF FiguresIInv, ArchiveKnown
<1>4. QED
  BY <1>1, <1>3 DEF FiguresIInv

LEMMA FiguresOpen ==
  ASSUME FiguresIInv, NEW kind \in DOMAIN Requests, NEW range, OpenFigures(kind, range)
  PROVE  FiguresIInv'
<1> DEFINE since == IF kind = "dashboard" THEN getStartDate(range) ELSE 0
           asks == Requests[kind]
           b == [kind |-> kind, since |-> since, got |-> [q \in asks.first |-> Waiting],
                 phase |-> "open", failing |-> {}]
<1>1. archived' = archived /\ today' = today /\ board' = b
  BY DEF OpenFigures
<1>2. since \in Int
  <2>1. today \in Nat
    BY DEF FiguresIInv, ArchiveKnown
  <2>2. QED
    BY <2>1 DEF getStartDate
<1>3. ArchiveKnown'
  BY <1>1 DEF FiguresIInv, ArchiveKnown
<1> HIDE DEF since
<1>4. /\ b.kind = kind /\ b.since = since /\ b.got = [q \in asks.first |-> Waiting] /\ b.phase = "open"
      /\ b.failing = {}
  OBVIOUS
<1>5. IsBoard(b)
  BY DEF IsBoard
<1>6. asks.first # {} /\ asks.first \intersect asks.then = {}
  <2>1. asks.first # {}
    BY DEF Requests, getMetrics, exportPrometheusMetrics, getMetricsSummary, getInsights, searchFailures
  <2>2. QED
    BY <2>1, AsksAre
<1> HIDE DEF b
<1>7. RequestKnown(archived, b)
  BY <1>2, <1>4, <1>6 DEF RequestKnown
<1>8. NotTold(b)
  BY <1>4, <1>6 DEF NotTold
<1>9. BoardKnown(archived, b)
  BY <1>4, <1>5, <1>7, <1>8 DEF BoardKnown
<1>10. QED
  BY <1>1, <1>3, <1>9 DEF FiguresIInv

\* A request goes on from what it has been told
LEMMA FiguresResume ==
  ASSUME ArchiveKnown, archived' = archived, today' = today, NEW next, IsBoard(next),
         next.phase = "open", RequestKnown(archived, next), Resumes(next)
  PROVE  FiguresIInv'
<1> DEFINE asks == Requests[next.kind]
           done == \A q \in DOMAIN next.got : next.got[q] # Waiting
<1>1. ArchiveKnown'
  BY DEF ArchiveKnown
<1>2. next.kind \in DOMAIN Requests
  BY DEF RequestKnown
<1>3. CASE ~done
  <2>1. board' = next
    BY <1>3 DEF Resumes
  <2>2. NotTold(next)
    BY <1>3 DEF NotTold
  <2>3. BoardKnown(archived, next)
    BY <2>2 DEF BoardKnown
  <2>4. QED
    BY <1>1, <2>1, <2>3 DEF FiguresIInv
<1>4. CASE done /\ DOMAIN next.got = asks.first \union asks.then
  <2> DEFINE b == [next EXCEPT !.phase = "answered"]
  <2>1. board' = b
    BY <1>4 DEF Resumes
  <2>2. /\ b.kind = next.kind /\ b.since = next.since /\ b.got = next.got /\ b.failing = next.failing
        /\ b.phase = "answered" /\ IsBoard(b)
    BY DEF IsBoard
  <2> HIDE DEF b
  <2>3. RequestKnown(archived, b)
    BY <2>2 DEF RequestKnown
  <2>4. AnsweredAsAsked(b)
    BY <1>4, <2>2 DEF AnsweredAsAsked
  <2>5. BoardKnown(archived, b)
    BY <2>2, <2>3, <2>4 DEF BoardKnown
  <2>6. QED
    BY <1>1, <2>1, <2>5 DEF FiguresIInv
<1>5. CASE done /\ DOMAIN next.got # asks.first \union asks.then
  <2> DEFINE got == [q \in asks.first \union asks.then |->
                       IF q \in DOMAIN next.got THEN next.got[q] ELSE Waiting]
             b == [next EXCEPT !.got = got]
  <2>1. board' = b
    BY <1>5 DEF Resumes
  <2>2. DOMAIN next.got = asks.first /\ asks.first \intersect asks.then = {}
    BY <1>2, <1>5, AsksAre DEF RequestKnown
  <2> HIDE DEF got
  <2>3. /\ b.kind = next.kind /\ b.since = next.since /\ b.got = got /\ b.failing = next.failing
        /\ b.phase = "open"
    BY DEF IsBoard
  <2>4. DOMAIN got = asks.first \union asks.then
    BY DEF got
  <2>5. \A q \in asks.first : got[q] = next.got[q] /\ got[q] # Waiting
    BY <1>5, <2>2 DEF got
  <2>6. \A q \in asks.then : got[q] = Waiting
    BY <2>2 DEF got
  <2>7. IsBoard(b)
    <3>1. got = [q \in DOMAIN got |-> got[q]]
      BY DEF got
    <3>2. QED
      BY <3>1 DEF IsBoard
  <2> HIDE DEF b
  <2>8. RequestKnown(archived, b)
    <3>1. asks.then \intersect Counts = {}
      BY <1>2, AsksAre DEF Counts
    <3>2. \A q \in DOMAIN got \intersect Counts : q \in DOMAIN next.got \intersect Counts /\ got[q] = next.got[q]
      BY <2>2, <2>4, <2>5, <3>1
    <3>3. \A q \in DOMAIN got \intersect Counts :
            got[q] # Waiting => \E v \in Nat : got[q] = {v} /\ v <= Cardinality(Counted(archived, q, next.since))
      BY <3>2 DEF RequestKnown
    <3>4. QED
      BY <2>3, <2>4, <2>5, <2>6, <3>3 DEF RequestKnown
  <2>9. NotTold(b)
    <3>1. asks.then # {}
      BY <1>5, <2>2
    <3>2. QED
      BY <2>3, <2>4, <2>6, <3>1 DEF NotTold
  <2>10. BoardKnown(archived, b)
    BY <2>3, <2>7, <2>8, <2>9 DEF BoardKnown
  <2>11. QED
    BY <1>1, <2>1, <2>10 DEF FiguresIInv
<1>6. QED
  BY <1>3, <1>4, <1>5

\* An answer to one of the queries
LEMMA ToldRequest ==
  ASSUME FiguresIInv, board.phase = "open", NEW q \in DOMAIN board.got, board.got[q] = Waiting,
         NEW x, x # Waiting, NEW failing, failing = board.failing \/ failing # {},
         board.kind # "dashboard" => failing = board.failing,
         q \in Counts => \E v \in Nat : x = {v} /\ v <= Cardinality(Counted(archived, q, board.since)),
         q \in Requests[board.kind].then /\ failing = {} => x = {Told(archived, q, board.since)}
  PROVE  LET next == [board EXCEPT !.got[q] = x, !.failing = failing] IN
         IsBoard(next) /\ next.phase = "open" /\ RequestKnown(archived, next)
<1> DEFINE got == [board.got EXCEPT ![q] = x]
           next == [board EXCEPT !.got[q] = x, !.failing = failing]
           asks == Requests[board.kind]
<1>1. BoardKnown(archived, board)
  BY DEF FiguresIInv
<1>2. IsBoard(board) /\ RequestKnown(archived, board)
  BY <1>1 DEF BoardKnown
<1>3. /\ next = [board EXCEPT !.got = got, !.failing = failing]
      /\ DOMAIN got = DOMAIN board.got /\ got[q] = x
      /\ \A p \in DOMAIN got : p # q => got[p] = board.got[p]
      /\ got = [p \in DOMAIN got |-> got[p]]
  BY <1>2 DEF IsBoard
<1> HIDE DEF got, next
<1>4. /\ next.kind = board.kind /\ next.since = board.since /\ next.got = got /\ next.phase = "open"
      /\ next.failing = failing
  BY <1>2, <1>3 DEF IsBoard
<1>5. IsBoard(next)
  BY <1>2, <1>3, <1>4 DEF IsBoard
<1>6. \A p \in DOMAIN got \intersect Counts :
        got[p] # Waiting => \E v \in Nat : got[p] = {v} /\ v <= Cardinality(Counted(archived, p, board.since))
  <2>1. TAKE p \in DOMAIN got \intersect Counts
  <2>2. CASE p = q
    BY <1>3, <2>2
  <2>3. CASE p # q
    BY <1>2, <1>3, <2>3 DEF RequestKnown
  <2>4. QED
    BY <2>2, <2>3
<1>7. \A t \in DOMAIN got \intersect asks.then :
        /\ \A p \in asks.first : got[p] # Waiting
        /\ got[t] # Waiting /\ failing = {} => got[t] = {Told(archived, t, board.since)}
  <2>1. TAKE t \in DOMAIN got \intersect asks.then
  <2>2. \A p \in asks.first : board.got[p] # Waiting
    BY <1>2, <1>3 DEF RequestKnown
  <2>3. board.kind \in DOMAIN Requests /\ asks.first \subseteq DOMAIN got
    BY <1>2, <1>3 DEF RequestKnown
  <2>4. \A p \in asks.first : got[p] # Waiting
    BY <1>3, <2>2, <2>3
  <2>5. t = q
    <3>1. q \in asks.first \union asks.then
      BY <1>2 DEF RequestKnown
    <3>2. q \notin asks.first
      BY <2>2
    <3>3. QED
      BY <2>3, <3>1, <3>2, AsksAre
  <2>6. QED
    BY <1>3, <2>4, <2>5
<1>8. next.kind # "dashboard" => next.failing = {}
  BY <1>2, <1>4 DEF RequestKnown
<1>9. RequestKnown(archived, next)
  BY <1>2, <1>3, <1>4, <1>6, <1>7, <1>8 DEF RequestKnown
<1>10. QED
  BY <1>4, <1>5, <1>9 DEF next
LEMMA FiguresTold == ASSUME FiguresIInv, NEW q, FiguresRead(q) PROVE FiguresIInv'
<1> DEFINE x == {Brought(q, board.since)}
           next == [board EXCEPT !.got[q] = x]
<1>1. /\ archived' = archived /\ today' = today /\ board.phase = "open" /\ q \in DOMAIN board.got
      /\ board.got[q] = Waiting /\ Resumes(next)
  BY DEF FiguresRead
<1>2. ArchiveKnown /\ IsBoard(board) /\ RequestKnown(archived, board)
  BY <1>1 DEF FiguresIInv, BoardKnown
<1>3. q \in Counts => \E v \in Nat : x = {v} /\ v <= Cardinality(Counted(archived, q, board.since))
  <2>1. HAVE q \in Counts
  <2>2. Brought(q, board.since) = Cardinality(Counted(archived, q, board.since))
    BY <2>1, BroughtIs
  <2>3. Cardinality(Counted(archived, q, board.since)) \in Nat
    <3>1. DOMAIN archived = 1..Len(archived) /\ Len(archived) \in Nat
      BY <1>2 DEF ArchiveKnown
    <3>2. QED
      BY <3>1, CountedIs
  <2>4. QED
    BY <2>2, <2>3
<1>4. q \in Requests[board.kind].then => x = {Told(archived, q, board.since)}
  <2>1. HAVE q \in Requests[board.kind].then
  <2>2. q \in {"top", "breakdown"}
    BY <1>2, <2>1, AsksAre DEF RequestKnown
  <2>3. QED
    BY <2>2, BroughtIs
<1>5. x # Waiting
  BY DEF Waiting
<1>6. next = [board EXCEPT !.got[q] = x, !.failing = board.failing]
  BY <1>2 DEF IsBoard
<1> HIDE DEF x
<1>7. LET told == [board EXCEPT !.got[q] = x, !.failing = board.failing] IN
      IsBoard(told) /\ told.phase = "open" /\ RequestKnown(archived, told)
  BY <1>1, <1>3, <1>4, <1>5, ToldRequest
<1> HIDE DEF next
<1>8. IsBoard(next) /\ next.phase = "open" /\ RequestKnown(archived, next)
  BY <1>6, <1>7
<1>9. QED
  BY <1>1, <1>2, <1>8, FiguresResume

LEMMA FiguresMissed == ASSUME FiguresIInv, NEW q, FiguresFail(q) PROVE FiguresIInv'
<1>1. /\ archived' = archived /\ today' = today /\ board.phase = "open" /\ q \in DOMAIN board.got
      /\ board.got[q] = Waiting
  BY DEF FiguresFail
<1>2. ArchiveKnown /\ IsBoard(board) /\ RequestKnown(archived, board)
  BY <1>1 DEF FiguresIInv, BoardKnown
<1>3. CASE board.kind = "dashboard" /\ q \in Caught
  <2> DEFINE x == {Instead(q)}
             failing == board.failing \union {q}
             next == [board EXCEPT !.got[q] = x, !.failing = failing]
  <2>1. Resumes(next)
    BY <1>3 DEF FiguresFail
  <2>2. q \in Counts => \E v \in Nat : x = {v} /\ v <= Cardinality(Counted(archived, q, board.since))
    <3>1. HAVE q \in Counts
    <3>2. q = "failures"
      BY <1>3, <3>1 DEF Caught, Counts
    <3>3. x = {0}
      BY <3>2 DEF Instead
    <3>4. Cardinality(Counted(archived, q, board.since)) \in Nat
      <4>1. DOMAIN archived = 1..Len(archived) /\ Len(archived) \in Nat
        BY <1>2 DEF ArchiveKnown
      <4>2. QED
        BY <4>1, CountedIs
    <3>5. QED
      BY <3>3, <3>4
  <2>3. x # Waiting /\ failing # {}
    BY DEF Waiting
  <2> HIDE DEF x, failing
  <2>4. LET told == [board EXCEPT !.got[q] = x, !.failing = failing] IN
        IsBoard(told) /\ told.phase = "open" /\ RequestKnown(archived, told)
    BY <1>1, <1>3, <2>2, <2>3, ToldRequest
  <2>5. IsBoard(next) /\ next.phase = "open" /\ RequestKnown(archived, next)
    BY <2>4
  <2> HIDE DEF next
  <2>6. QED
    BY <1>1, <1>2, <2>1, <2>5, FiguresResume
<1>4. CASE ~(board.kind = "dashboard" /\ q \in Caught)
  <2> DEFINE failing == board.failing \union {q}
             b == [board EXCEPT !.phase = "failed", !.failing = failing, !.got = <<>>]
  <2>1. board' = b
    BY <1>4 DEF FiguresFail
  <2>2. board.kind = "dashboard" => q = "categorized"
    <3>1. HAVE board.kind = "dashboard"
    <3>2. q \in {"failures", "categorized", "recent", "breakdown"}
      BY <1>1, <1>2, <3>1, AsksAre DEF RequestKnown
    <3>3. QED
      BY <1>4, <3>1, <3>2 DEF Caught
  <2>3. b = [kind |-> board.kind, since |-> board.since, got |-> <<>>, phase |-> "failed",
             failing |-> failing]
    <3> DEFINE b1 == [board EXCEPT !.phase = "failed"]
               b2 == [b1 EXCEPT !.failing = failing]
    <3>1. b1 = [kind |-> board.kind, since |-> board.since, got |-> board.got, phase |-> "failed",
                failing |-> board.failing]
      BY <1>2 DEF IsBoard
    <3>2. b = [b2 EXCEPT !.got = <<>>]
      BY <1>2 DEF IsBoard
    <3> HIDE DEF b1
    <3>3. b2 = [kind |-> board.kind, since |-> board.since, got |-> board.got, phase |-> "failed",
                failing |-> failing]
      BY <3>1
    <3> HIDE DEF b, b2, failing
    <3>4. [b2 EXCEPT !.got = <<>>] = [kind |-> board.kind, since |-> board.since, got |-> <<>>,
                                      phase |-> "failed", failing |-> failing]
      BY <3>3
    <3>5. QED
      BY <3>2, <3>4
  <2>4. /\ b.kind = board.kind /\ b.phase = "failed" /\ b.failing = failing
        /\ IsBoard(b)
    BY <2>3 DEF IsBoard
  <2>5. BoardKnown(archived, b)
    BY <2>2, <2>4 DEF BoardKnown
  <2>6. ArchiveKnown'
    BY <1>1, <1>2 DEF ArchiveKnown
  <2>7. QED
    BY <1>1, <2>1, <2>5, <2>6 DEF FiguresIInv
<1>5. QED
  BY <1>3, <1>4

LEMMA FiguresStep == ASSUME FiguresIInv, [AnalyticsNext]_analyticsVars PROVE FiguresIInv'
<1>1. CASE ReportFailure
  BY <1>1, FiguresReport
<1>2. CASE FailureRecurs
  BY <1>2, FiguresRecur
<1>3. CASE AnalysisStored
  BY <1>3, FiguresStored
<1>4. CASE DayPasses
  BY <1>4, FiguresDay
<1>5. CASE \E kind \in DOMAIN Requests : \E range \in {"1h", "30d"} : OpenFigures(kind, range)
  BY <1>5, FiguresOpen
<1>6. CASE \E q \in UNION {Requests[k].first \union Requests[k].then : k \in DOMAIN Requests} :
             FiguresRead(q) \/ FiguresFail(q)
  BY <1>6, FiguresTold, FiguresMissed
<1>7. CASE recordResponseTime
  BY <1>7 DEF recordResponseTime, FiguresIInv, ArchiveKnown
<1>8. CASE UNCHANGED analyticsVars
  BY <1>8 DEF analyticsVars, FiguresIInv, ArchiveKnown
<1>9. QED
  BY <1>1, <1>2, <1>3, <1>4, <1>5, <1>6, <1>7, <1>8 DEF AnalyticsNext
-----------------------------------------------------------------------------
\* What is shown of a request that was answered
LEMMA FigureIs ==
  ASSUME ArchiveKnown, RequestKnown(archived, board), AnsweredAsAsked(board), NEW q \in Counts,
         q \in DOMAIN board.got
  PROVE  Figure(q) \in Nat /\ Figure(q) <= Cardinality(Counted(archived, q, board.since))
<1>1. PICK v \in Nat : board.got[q] = {v} /\ v <= Cardinality(Counted(archived, q, board.since))
  BY DEF RequestKnown, AnsweredAsAsked
<1>2. Figure(q) = v
  BY <1>1 DEF Figure
<1>3. QED
  BY <1>1, <1>2

LEMMA LastFigureIs ==
  ASSUME RequestKnown(archived, board), AnsweredAsAsked(board), board.failing = {},
         NEW q \in Requests[board.kind].then
  PROVE  Figure(q) = Told(archived, q, board.since)
<1>1. board.got[q] = {Told(archived, q, board.since)}
  BY DEF RequestKnown, AnsweredAsAsked
<1>2. QED
  BY <1>1 DEF Figure

LEMMA KindsAddUp ==
  ASSUME NEW S, IsFiniteSet(S)
  PROVE  SumBy(SetToSeq(Kinds(archived, S)), LAMBDA b : b.count) = Cardinality(S)
<1>1. Kinds(archived, S) = getFailureCategoriesBreakdown(S)
  BY DEF Kinds, getFailureCategoriesBreakdown
<1>2. QED
  BY <1>1, CategoriesAddUp

LEMMA Division ==
  ASSUME NEW x \in Nat, NEW n \in Nat, n > 0
  PROVE  (x \div n) \in Nat /\ (x \div n) * n <= x
<1> DEFINE q == x \div n
           r == x % n
<1>1. x = n * q + r /\ q \in Int /\ r \in 0..(n - 1)
  OBVIOUS
<1> HIDE DEF q, r
<1>2. PICK p \in Int : p = n * q
  BY <1>1
<1>3. p <= x /\ p > 0 - n
  BY <1>1, <1>2
<1>4. q >= 0
  <2>1. \A k \in Int, m \in Nat : k < 0 => m * k <= 0 - m
    OBVIOUS
  <2>2. q < 0 => p <= 0 - n
    BY <1>1, <1>2, <2>1
  <2>3. QED
    BY <1>1, <1>2, <1>3, <2>2
<1>5. q * n = p
  BY <1>1, <1>2
<1>6. QED
  BY <1>1, <1>3, <1>4, <1>5 DEF q

LEMMA MetricsShown == ASSUME FiguresIInv PROVE MetricsHold
<1>1. ArchiveKnown /\ BoardKnown(archived, board)
  BY DEF FiguresIInv
<1>2. AnswerOf({"metrics", "summary", "search"}) => board.failing = {}
  <2>1. SUFFICES ASSUME AnswerOf({"metrics", "summary", "search"}) PROVE board.failing = {}
    OBVIOUS
  <2>2. RequestKnown(archived, board)
    BY <1>1, <2>1 DEF AnswerOf, BoardKnown
  <2>3. board.kind # "dashboard"
    BY <2>1 DEF AnswerOf
  <2>4. QED
    BY <2>2, <2>3 DEF RequestKnown
<1>3. ASSUME AnswerOf({"metrics"})
      PROVE  LET all == SumBy(SetToSeq(Figure("top")), LAMBDA b : b.count) IN
             Figure("archived") <= all /\ Figure("documented") <= all /\ Figure("recurring") <= all
  <2>1. /\ RequestKnown(archived, board) /\ AnsweredAsAsked(board) /\ board.kind = "metrics"
        /\ board.failing = {}
    BY <1>1, <1>2, <1>3 DEF AnswerOf, BoardKnown
  <2>2. /\ Requests[board.kind].then = {"top"}
        /\ Requests[board.kind].first = {"archived", "documented", "recurring"}
    BY <2>1, AsksAre DEF RequestKnown
  <2>3. Figure("top") = Told(archived, "top", board.since)
    BY <2>1, <2>2, LastFigureIs
  <2>4. Figure("top") = Kinds(archived, DOMAIN archived)
    BY <2>3 DEF Told
  <2>5. IsFiniteSet(DOMAIN archived) /\ DOMAIN archived = 1..Len(archived) /\ Len(archived) \in Nat
    <3>1. DOMAIN archived = 1..Len(archived) /\ Len(archived) \in Nat
      BY <1>1 DEF ArchiveKnown
    <3>2. QED
      BY <3>1, FS_Interval
  <2>6. SumBy(SetToSeq(Figure("top")), LAMBDA b : b.count) = Cardinality(DOMAIN archived)
    BY <2>4, <2>5, KindsAddUp
  <2>7. ASSUME NEW q \in {"archived", "documented", "recurring"}
        PROVE  Figure(q) <= Cardinality(DOMAIN archived)
    <3>1. q \in Counts /\ q \in DOMAIN board.got
      BY <2>1, <2>2 DEF Counts, AnsweredAsAsked
    <3>2. Figure(q) \in Nat /\ Figure(q) <= Cardinality(Counted(archived, q, board.since))
      BY <1>1, <2>1, <3>1, FigureIs
    <3>3. /\ Counted(archived, q, board.since) \subseteq DOMAIN archived
          /\ Cardinality(Counted(archived, q, board.since)) \in Nat
      BY <2>5, CountedIs
    <3>4. Cardinality(Counted(archived, q, board.since)) <= Cardinality(DOMAIN archived)
      BY <2>5, <3>3, FS_Subset
    <3>5. Cardinality(DOMAIN archived) \in Nat
      BY <2>5, FS_CardinalityType
    <3>6. QED
      BY <3>2, <3>3, <3>4, <3>5
  <2>8. QED
    BY <2>6, <2>7
<1>4. QED
  BY <1>2, <1>3 DEF MetricsHold

LEMMA DashboardShown == ASSUME FiguresIInv PROVE DashboardHolds
<1>1. ArchiveKnown /\ BoardKnown(archived, board)
  BY DEF FiguresIInv
<1>2. (board.kind = "dashboard" /\ board.phase = "failed") => "categorized" \in board.failing
  BY <1>1 DEF BoardKnown
<1> DEFINE all == SumBy(SetToSeq(Figure("breakdown")), LAMBDA b : b.count)
           known == {i \in DOMAIN archived : archived[i].last >= board.since /\ archived[i].categorized}
<1>3. ASSUME AnswerOf({"dashboard"}), board.failing = {}
      PROVE  /\ Figure("failures") <= all /\ Figure("categorized") <= all
             /\ Figure("failures") = all /\ all > 0 =>
                  categorizationAccuracy * all <= 1000 * Cardinality(known)
  <2>1. RequestKnown(archived, board) /\ AnsweredAsAsked(board) /\ board.kind = "dashboard"
    BY <1>1, <1>3 DEF AnswerOf, BoardKnown
  <2>2. /\ Requests[board.kind].then = {"breakdown"}
        /\ Requests[board.kind].first = {"failures", "categorized", "recent"}
    BY <2>1, AsksAre DEF RequestKnown
  <2>3. Figure("breakdown") = Told(archived, "breakdown", board.since)
    BY <1>3, <2>1, <2>2, LastFigureIs
  <2>4. Figure("breakdown") = Kinds(archived, StillThere(archived, board.since))
    BY <2>3 DEF Told
  <2>5. DOMAIN archived = 1..Len(archived) /\ Len(archived) \in Nat
    BY <1>1 DEF ArchiveKnown
  <2>6. /\ Counted(archived, "failures", board.since) = StillThere(archived, board.since)
        /\ Counted(archived, "categorized", board.since) = known
        /\ known \subseteq StillThere(archived, board.since)
    BY DEF Counted, StillThere
  <2>7. IsFiniteSet(StillThere(archived, board.since)) /\ Cardinality(StillThere(archived, board.since)) \in Nat
    BY <2>5, <2>6, CountedIs
  <2> HIDE DEF known
  <2>8. Cardinality(known) \in Nat /\ Cardinality(known) <= Cardinality(StillThere(archived, board.since))
    BY <2>5, <2>6, <2>7, CountedIs, FS_Subset
  <2>9. all = Cardinality(StillThere(archived, board.since))
    BY <2>4, <2>7, KindsAddUp
  <2> HIDE DEF all
  <2>10. /\ Figure("failures") \in Nat /\ Figure("failures") <= all
         /\ Figure("categorized") \in Nat /\ Figure("categorized") <= Cardinality(known)
    <3>1. "failures" \in Counts /\ "categorized" \in Counts
      BY DEF Counts
    <3>2. "failures" \in DOMAIN board.got /\ "categorized" \in DOMAIN board.got
      BY <2>1, <2>2 DEF AnsweredAsAsked
    <3>3. /\ Figure("failures") \in Nat
          /\ Figure("failures") <= Cardinality(Counted(archived, "failures", board.since))
      BY <1>1, <2>1, <3>1, <3>2, FigureIs
    <3>4. /\ Figure("categorized") \in Nat
          /\ Figure("categorized") <= Cardinality(Counted(archived, "categorized", board.since))
      BY <1>1, <2>1, <3>1, <3>2, FigureIs
    <3>5. QED
      BY <2>6, <2>9, <3>3, <3>4
  <2>11. ASSUME Figure("failures") = all, all > 0
         PROVE  categorizationAccuracy * all <= 1000 * Cardinality(known)
    <3> DEFINE c == Figure("categorized")
               rate == (1000 * c) \div all
    <3>1. all \in Nat /\ c \in Nat /\ 1000 * c \in Nat
      BY <2>7, <2>9, <2>10
    <3>2. categorizationAccuracy = IF rate < 968 THEN rate ELSE 968
      BY <2>11 DEF categorizationAccuracy
    <3> HIDE DEF c
    <3>3. rate \in Nat /\ rate * all <= 1000 * c
      BY <2>11, <3>1, Division
    <3> HIDE DEF rate
    <3>4. categorizationAccuracy \in Nat /\ categorizationAccuracy <= rate
      BY <3>2, <3>3
    <3>5. categorizationAccuracy * all <= rate * all
      <4>1. \A m, n, k \in Nat : m <= n => m * k <= n * k
        OBVIOUS
      <4>2. QED
        BY <3>1, <3>3, <3>4, <4>1
    <3>6. 1000 * c <= 1000 * Cardinality(known)
      BY <2>8, <2>10, <3>1 DEF c
    <3>7. categorizationAccuracy * all \in Nat /\ rate * all \in Nat
      BY <3>1, <3>3, <3>4
    <3>8. QED
      BY <2>8, <3>1, <3>3, <3>5, <3>6, <3>7
  <2>12. QED
    BY <2>7, <2>8, <2>9, <2>10, <2>11
<1>4. QED
  BY <1>2, <1>3 DEF DashboardHolds
-----------------------------------------------------------------------------
\* The scores of failures that may come again

\* A failure's row, of a severity that has a weight
Weighed(f) ==
  /\ f.severity \in DOMAIN SEVERITY_WEIGHTS /\ f.count \in Nat /\ f.first \in Nat /\ f.last \in Nat

LEMMA QuotientsGrow ==
  ASSUME NEW a \in Nat, NEW b \in Nat, a <= b, NEW n \in Nat, n > 0
  PROVE  a \div n <= b \div n
<1> DEFINE p == a \div n
           q == b \div n
           r == a % n
           t == b % n
<1>1. a = n * p + r /\ b = n * q + t /\ p \in Int /\ q \in Int /\ r \in 0..(n - 1) /\ t \in 0..(n - 1)
  OBVIOUS
<1> HIDE DEF p, q, r, t
<1>2. ASSUME q < p PROVE FALSE
  <2>1. \A i, j \in Int : i < j => n * i + n <= n * j
    OBVIOUS
  <2>2. n * q + n <= n * p
    BY <1>1, <1>2, <2>1
  <2>3. PICK x \in Int : x = n * p
    BY <1>1
  <2>4. PICK y \in Int : y = n * q
    BY <1>1
  <2>5. QED
    BY <1>1, <2>2, <2>3, <2>4
<1>3. p <= q
  BY <1>1, <1>2
<1>4. QED
  BY <1>3 DEF p, q

LEMMA DecayFalls ==
  \A d \in Nat : Decay(d) \in Nat /\ Decay(d) <= 993 /\ Decay(d + 1) <= Decay(d)
<1>1. TAKE d \in Nat
<1>2. /\ Decay(0) = 993 /\ Decay(1) = 931 /\ Decay(2) = 867 /\ Decay(3) = 807
      /\ Decay(4) = 751 /\ Decay(5) = 700 /\ Decay(6) = 651 /\ Decay(7) = 606
  BY DEF Decay
<1>3. \A e \in Nat : e >= 8 => Decay(e) = 606
  BY DEF Decay
<1>4. d = 0 \/ d = 1 \/ d = 2 \/ d = 3 \/ d = 4 \/ d = 5 \/ d = 6 \/ d = 7 \/ d >= 8
  OBVIOUS
<1>5. CASE d >= 8
  BY <1>3, <1>5
<1>6. CASE d = 7
  <2>1. d + 1 >= 8 /\ d + 1 \in Nat
    BY <1>6
  <2>2. Decay(d + 1) = 606
    BY <1>3, <2>1
  <2>3. QED
    BY <1>2, <1>6, <2>2
<1>7. CASE d = 0 \/ d = 1 \/ d = 2 \/ d = 3 \/ d = 4 \/ d = 5 \/ d = 6
  BY <1>2, <1>7
<1>8. QED
  BY <1>4, <1>5, <1>6, <1>7

\* How much a failure's occurrences weigh: the parts of its risk
Span(f) == IF f.last > f.first THEN f.last - f.first ELSE 1
Capped(n, most) == IF n < most THEN n ELSE most
Often(f) == (25000 * Capped(f.count, Span(f))) \div Span(f)

RiskParts(f, day) ==
  Risk(f, day) = 3000 * Capped(f.count, 10) + 1000 * SEVERITY_WEIGHTS[f.severity]
                   + 20 * Decay(day - f.last) + Often(f)
PartsBounded(f) ==
  /\ SEVERITY_WEIGHTS[f.severity] \in Nat /\ SEVERITY_WEIGHTS[f.severity] <= 25
  /\ Span(f) \in Nat /\ Span(f) > 0 /\ Capped(f.count, 10) \in Nat /\ Capped(f.count, 10) <= 10
  /\ Capped(f.count, Span(f)) \in 0..Span(f)
  /\ Often(f) \in Nat /\ Often(f) <= 25000

LEMMA RiskIs ==
  ASSUME NEW f, Weighed(f), NEW day
  PROVE  RiskParts(f, day) /\ PartsBounded(f)
<1>1. Risk(f, day) = 3000 * Capped(f.count, 10) + 1000 * SEVERITY_WEIGHTS[f.severity]
                       + 20 * Decay(day - f.last) + Often(f)
  BY DEF Risk, Often, Span, Capped
<1>2. SEVERITY_WEIGHTS[f.severity] \in Nat /\ SEVERITY_WEIGHTS[f.severity] <= 25
  BY DEF Weighed, SEVERITY_WEIGHTS
<1>3. Span(f) \in Nat /\ Span(f) > 0
  BY DEF Weighed, Span
<1>4. /\ Capped(f.count, 10) \in Nat /\ Capped(f.count, 10) <= 10
      /\ Capped(f.count, Span(f)) \in 0..Span(f)
  BY <1>3 DEF Weighed, Capped
<1>5. Often(f) \in Nat /\ Often(f) <= 25000
  <2> DEFINE n == Span(f)
             c == Capped(f.count, Span(f))
  <2>1. n \in Nat /\ n > 0 /\ c \in Nat /\ c <= n
    BY <1>3, <1>4
  <2>2. Often(f) = (25000 * c) \div n
    BY DEF Often
  <2> HIDE DEF n, c
  <2>3. 25000 * c \in Nat /\ 25000 * n \in Nat /\ 25000 * c <= 25000 * n
    BY <2>1
  <2>4. (25000 * c) \div n <= (25000 * n) \div n
    BY <2>1, <2>3, QuotientsGrow
  <2>5. (25000 * n) \div n = 25000
    BY <2>1
  <2>6. (25000 * c) \div n \in Nat
    BY <2>1, <2>3, Division
  <2>7. PICK x \in Nat : x = (25000 * c) \div n
    BY <2>6
  <2>8. x <= 25000
    BY <2>4, <2>5, <2>7
  <2>9. QED
    BY <2>2, <2>7, <2>8
<1>6. QED
  BY <1>1, <1>2, <1>3, <1>4, <1>5 DEF RiskParts, PartsBounded

LEMMA RiskNumber ==
  ASSUME NEW f, Weighed(f), NEW day \in Nat, f.last <= day
  PROVE  Risk(f, day) \in Int
<1>1. RiskParts(f, day) /\ PartsBounded(f)
  BY RiskIs
<1>2. day - f.last \in Nat
  BY DEF Weighed
<1>3. Decay(day - f.last) \in Nat
  BY <1>2, DecayFalls
<1>4. PICK a \in Nat, b \in Nat, c \in Nat, e \in Nat :
        /\ a = Capped(f.count, 10) /\ b = SEVERITY_WEIGHTS[f.severity]
        /\ c = Decay(day - f.last) /\ e = Often(f)
  BY <1>1, <1>3 DEF PartsBounded
<1>5. Risk(f, day) = 3000 * a + 1000 * b + 20 * c + e
  BY <1>1, <1>4 DEF RiskParts
<1>6. QED
  BY <1>4, <1>5

\* A risk is in bounds, falls from day to day and grows with an occurrence
LEMMA RiskMoves ==
  ASSUME NEW f, Weighed(f), NEW g, Weighed(g), NEW day \in Nat, f.last <= day,
         g.severity = f.severity, g.first = f.first, g.last = f.last, g.count = f.count + 1
  PROVE  /\ Risk(g, day) >= Risk(f, day)
         /\ Risk(f, day + 1) <= Risk(f, day)
         /\ 0 <= Risk(f, day) /\ Risk(f, day) <= 100000
<1> DEFINE d == day - f.last
<1>1. d \in Nat /\ (day + 1) - f.last = d + 1
  BY DEF Weighed
<1>2. Decay(d) \in Nat /\ Decay(d) <= 993 /\ Decay(d + 1) \in Nat /\ Decay(d + 1) <= Decay(d)
  BY <1>1, DecayFalls
<1>3. /\ RiskParts(f, day) /\ RiskParts(f, day + 1) /\ RiskParts(g, day)
      /\ PartsBounded(f) /\ PartsBounded(g)
  BY RiskIs
<1>4. PICK a \in Nat, b \in Nat, c \in Nat, m \in Nat, n \in Nat :
        /\ a = Capped(f.count, 10) /\ b = SEVERITY_WEIGHTS[f.severity] /\ c = Capped(g.count, 10)
        /\ m = Often(f) /\ n = Often(g)
        /\ a <= 10 /\ b <= 25 /\ m <= 25000
  <2>1. /\ Capped(f.count, 10) \in Nat /\ Capped(f.count, 10) <= 10
        /\ Often(f) \in Nat /\ Often(f) <= 25000
        /\ SEVERITY_WEIGHTS[f.severity] \in Nat /\ SEVERITY_WEIGHTS[f.severity] <= 25
    BY <1>3 DEF PartsBounded
  <2>2. Capped(g.count, 10) \in Nat /\ Often(g) \in Nat
    BY <1>3 DEF PartsBounded
  <2>3. QED
    BY <2>1, <2>2
<1>5. PICK x \in Nat, y \in Nat : x = Decay(d) /\ y = Decay(d + 1) /\ y <= x /\ x <= 993
  BY <1>2
<1>6. /\ Risk(f, day) = 3000 * a + 1000 * b + 20 * x + m
      /\ Risk(f, day + 1) = 3000 * a + 1000 * b + 20 * y + m
      /\ Risk(g, day) = 3000 * c + 1000 * b + 20 * x + n
  <2>1. Risk(f, day) = 3000 * a + 1000 * b + 20 * x + m
    BY <1>3, <1>4, <1>5 DEF RiskParts
  <2>2. Risk(f, day + 1) = 3000 * a + 1000 * b + 20 * y + m
    <3>1. Decay((day + 1) - f.last) = y
      BY <1>1, <1>5
    <3>2. QED
      BY <1>3, <1>4, <3>1 DEF RiskParts
  <2>3. Risk(g, day) = 3000 * c + 1000 * b + 20 * x + n
    BY <1>3, <1>4, <1>5 DEF RiskParts
  <2>4. QED
    BY <2>1, <2>2, <2>3
<1>7. Capped(f.count, 10) <= Capped(g.count, 10)
  BY DEF Capped, Weighed
<1>8. Often(f) <= Often(g)
  <2>1. Span(g) = Span(f) /\ Span(f) \in Nat /\ Span(f) > 0
    BY <1>3 DEF PartsBounded, Span
  <2>2. /\ Capped(f.count, Span(f)) \in Nat /\ Capped(g.count, Span(f)) \in Nat
        /\ Capped(f.count, Span(f)) <= Capped(g.count, Span(f))
    BY <2>1 DEF Capped, Weighed
  <2> DEFINE lower == 25000 * Capped(f.count, Span(f))
             upper == 25000 * Capped(g.count, Span(f))
  <2>3. lower \in Nat /\ upper \in Nat /\ lower <= upper
    BY <2>2
  <2>4. Often(f) = lower \div Span(f) /\ Often(g) = upper \div Span(f)
    BY <2>1 DEF Often
  <2> HIDE DEF lower, upper
  <2>5. QED
    BY <2>1, <2>3, <2>4, QuotientsGrow
<1>9. a <= c /\ m <= n
  BY <1>4, <1>7, <1>8
<1>10. QED
  BY <1>4, <1>5, <1>6, <1>9

\* Who is left out of a list of the riskiest for another that is less of a risk
LEMMA ListsHold ==
  ASSUME ArchiveKnown,
         \A i \in DOMAIN archived : Weighed(archived[i]) /\ archived[i].count >= 1
  PROVE  \A listed \in calculateRiskScores(1, 1) :
           \A i \in DOMAIN archived \ DOMAIN listed, k \in DOMAIN listed :
             Score(archived[i], today) > Score(archived[k], today) =>
               2 <= Cardinality({j \in DOMAIN archived \ {i} : archived[j].count >= archived[i].count})
<1> DEFINE often == {i \in DOMAIN archived : archived[i].count >= 1}
           score == [i \in often |-> Score(archived[i], today)]
           count == [i \in often |-> archived[i].count]
           candidates == Tops(often, 2 * 1, count)
<1>1. calculateRiskScores(1, 1) =
        {[i \in T |-> Level(score[i])] : T \in UNION {Tops(C, 1, score) : C \in candidates}}
  BY DEF calculateRiskScores
<1>2. often = DOMAIN archived
  OBVIOUS
<1>3. IsFiniteSet(often) /\ Cardinality(often) \in Nat
  <2>1. DOMAIN archived = 1..Len(archived) /\ Len(archived) \in Nat
    BY DEF ArchiveKnown
  <2> HIDE DEF often
  <2>2. QED
    BY <1>2, <2>1, FS_Interval, FS_CardinalityType
<1>4. /\ \A i \in often : count[i] = archived[i].count /\ archived[i].count \in Nat
      /\ \A i \in often : score[i] = Score(archived[i], today)
  BY <1>2, ArchiveRows
<1> HIDE DEF often, score, count
<1>5. TAKE listed \in calculateRiskScores(1, 1)
<1>6. PICK T \in UNION {Tops(C, 1, score) : C \in candidates} : listed = [i \in T |-> Level(score[i])]
  <2> HIDE DEF candidates
  <2> QED
    BY <1>1
<1>7. PICK C \in candidates : T \in Tops(C, 1, score)
  <2> HIDE DEF candidates
  <2> QED
    BY <1>6
<1>8. /\ C \in SUBSET often /\ Cardinality(C) = IF Cardinality(often) < 2 THEN Cardinality(often) ELSE 2
      /\ \A t \in C, u \in often \ C : count[u] <= count[t]
  BY <1>7 DEF Tops
<1>9. T \in SUBSET C /\ \A t \in T, u \in C \ T : score[u] <= score[t]
  BY <1>7 DEF Tops
<1>10. TAKE i \in DOMAIN archived \ DOMAIN listed, k \in DOMAIN listed
<1>11. HAVE Score(archived[i], today) > Score(archived[k], today)
<1>12. i \in often /\ i \notin T /\ k \in T /\ k \in C /\ k \in often
  BY <1>2, <1>6, <1>8, <1>9
<1>13. Score(archived[i], today) \in Int /\ Score(archived[k], today) \in Int
  <2>1. ASSUME NEW n \in DOMAIN archived PROVE Score(archived[n], today) \in Int
    <3>1. today \in Nat /\ archived[n].last <= today /\ Weighed(archived[n])
      BY DEF ArchiveKnown
    <3>2. Risk(archived[n], today) \in Int
      BY <3>1, RiskNumber
    <3>3. QED
      BY <3>2 DEF Score, Mean
  <2>2. QED
    BY <1>2, <1>12, <2>1
<1>14. i \notin C
  BY <1>4, <1>9, <1>11, <1>12, <1>13
<1>15. Cardinality(C) = 2
  <2>1. ASSUME Cardinality(often) < 2 PROVE FALSE
    <3>1. Cardinality(C) = Cardinality(often)
      BY <1>8, <2>1
    <3>2. C = often
      BY <1>3, <1>8, <3>1, FS_Subset
    <3>3. QED
      BY <1>12, <1>14, <3>2
  <2>2. QED
    BY <1>3, <1>8, <2>1
<1>16. C \subseteq {j \in DOMAIN archived \ {i} : archived[j].count >= archived[i].count}
  <2>1. \A t \in C : t \in DOMAIN archived /\ t # i /\ count[i] <= count[t]
    BY <1>2, <1>8, <1>12, <1>14
  <2>2. \A t \in C : count[t] = archived[t].count /\ count[i] = archived[i].count
    BY <1>4, <1>8, <1>12
  <2>3. \A t \in C : archived[t].count \in Nat /\ archived[i].count \in Nat
    BY <1>4, <1>8, <1>12
  <2>4. QED
    BY <2>1, <2>2, <2>3
<1> DEFINE more == {j \in DOMAIN archived \ {i} : archived[j].count >= archived[i].count}
<1>17. IsFiniteSet(more) /\ Cardinality(more) \in Nat
  BY <1>2, <1>3, FS_Subset, FS_CardinalityType
<1>18. QED
  BY <1>15, <1>16, <1>17, FS_Subset

LEMMA RisksShown == ASSUME FiguresIInv PROVE RisksHold
<1>1. ArchiveKnown /\ today \in Nat
  BY DEF FiguresIInv, ArchiveKnown
<1>2. \A i \in DOMAIN archived : /\ archived[i] \in FailureRow /\ Weighed(archived[i])
                                 /\ archived[i].count >= 1 /\ archived[i].last <= today
  <2>1. TAKE i \in DOMAIN archived
  <2>2. archived[i] \in FailureRow /\ archived[i].last <= today
    BY <1>1, ArchiveRows DEF ArchiveKnown
  <2>3. PICK f \in Failures : archived[i].severity = f.severity
    BY <2>2 DEF FailureRow
  <2>4. archived[i].severity \in DOMAIN SEVERITY_WEIGHTS
    BY <2>3, AnalyticsAssumption DEF SEVERITY_WEIGHTS
  <2>5. /\ archived[i].count \in Nat /\ archived[i].count >= 1 /\ archived[i].first \in Nat
        /\ archived[i].last \in Nat
    BY <2>2 DEF FailureRow
  <2>6. QED
    BY <2>2, <2>4, <2>5 DEF Weighed
<1>3. ASSUME NEW i \in DOMAIN archived
      PROVE  LET f == archived[i] IN
             /\ f.last = today => Risk([f EXCEPT !.count = @ + 1], today) >= Risk(f, today)
             /\ Risk(f, today + 1) <= Risk(f, today)
             /\ 0 <= Risk(f, today) /\ Risk(f, today) <= 100000
  <2> DEFINE f == archived[i]
             g == [f EXCEPT !.count = @ + 1]
  <2>1. f \in FailureRow /\ Weighed(f) /\ f.last <= today
    BY <1>2
  <2>2. /\ g.severity = f.severity /\ g.first = f.first /\ g.last = f.last /\ g.count = f.count + 1
    BY <2>1 DEF FailureRow
  <2> HIDE DEF f, g
  <2>3. Weighed(g)
    BY <2>1, <2>2 DEF Weighed
  <2>4. /\ Risk(g, today) >= Risk(f, today)
        /\ Risk(f, today + 1) <= Risk(f, today)
        /\ 0 <= Risk(f, today) /\ Risk(f, today) <= 100000
    BY <1>1, <2>1, <2>2, <2>3, RiskMoves
  <2>5. QED
    BY <2>4 DEF f, g
<1>4. \A listed \in calculateRiskScores(1, 1) :
        \A i \in DOMAIN archived \ DOMAIN listed, k \in DOMAIN listed :
          Score(archived[i], today) > Score(archived[k], today) =>
            2 <= Cardinality({j \in DOMAIN archived \ {i} : archived[j].count >= archived[i].count})
  BY <1>1, <1>2, ListsHold
<1>5. \A i \in DOMAIN archived : LET f == archived[i] IN
        /\ f.last = today => Risk([f EXCEPT !.count = @ + 1], today) >= Risk(f, today)
        /\ Risk(f, today + 1) <= Risk(f, today)
        /\ 0 <= Risk(f, today) /\ Risk(f, today) <= 100000
  BY <1>3
<1>6. QED
  BY <1>4, <1>5 DEF RisksHold
-----------------------------------------------------------------------------
\* The days of a series, in order

\* A finite set of numbers in order
LEMMA OrderExists ==
  ASSUME NEW D \in SUBSET Int, IsFiniteSet(D)
  PROVE  \E s \in [1..Cardinality(D) -> D] : \A a, b \in DOMAIN s : a < b => s[a] < s[b]
<1> DEFINE n == Cardinality(D)
           NotAfter(d) == {e \in D : e <= d}
           rank == [d \in D |-> Cardinality(NotAfter(d))]
<1>1. n \in Nat
  BY FS_CardinalityType
<1>2. \A d \in D : IsFiniteSet(NotAfter(d)) /\ Cardinality(NotAfter(d)) \in 1..n
  <2>1. TAKE d \in D
  <2>2. IsFiniteSet(NotAfter(d)) /\ Cardinality(NotAfter(d)) \in Nat /\ Cardinality(NotAfter(d)) <= n
    BY FS_Subset, FS_CardinalityType
  <2>3. Cardinality(NotAfter(d)) # 0
    <3>1. d \in NotAfter(d)
      OBVIOUS
    <3> HIDE DEF NotAfter
    <3>2. QED
      BY <2>2, <3>1, FS_EmptySet
  <2> HIDE DEF NotAfter, n
  <2>4. QED
    BY <1>1, <2>2, <2>3
<1>3. \A d, e \in D : d < e => rank[d] < rank[e]
  <2>1. TAKE d \in D, e \in D
  <2>2. HAVE d < e
  <2>3. NotAfter(d) \subseteq NotAfter(e) /\ e \in NotAfter(e) /\ e \notin NotAfter(d)
    <3>1. \A x \in D : x \in Int
      OBVIOUS
    <3>2. \A x \in D : x <= d => x <= e
      BY <2>2, <3>1
    <3>3. e <= e /\ ~(e <= d)
      BY <2>2, <3>1
    <3>4. QED
      BY <3>2, <3>3
  <2>4. IsFiniteSet(NotAfter(d)) /\ IsFiniteSet(NotAfter(e)) /\ Cardinality(NotAfter(d)) \in Nat /\ Cardinality(NotAfter(e)) \in Nat
    BY <1>2, FS_CardinalityType
  <2>5. rank[d] = Cardinality(NotAfter(d)) /\ rank[e] = Cardinality(NotAfter(e))
    OBVIOUS
  <2> HIDE DEF NotAfter, rank
  <2>6. Cardinality(NotAfter(d)) <= Cardinality(NotAfter(e)) /\ Cardinality(NotAfter(d)) # Cardinality(NotAfter(e))
    BY <2>3, <2>4, FS_Subset
  <2>7. QED
    BY <2>4, <2>5, <2>6
<1>4. rank \in [D -> 1..n]
  BY <1>2
<1> HIDE DEF rank
<1>5. \A k \in 1..n : \E d \in D : rank[d] = k
  <2>1. \A d, e \in D : rank[d] = rank[e] => d = e
    <3>1. TAKE d \in D, e \in D
    <3>2. HAVE rank[d] = rank[e]
    <3>3. rank[d] \in Int
      BY <1>4
    <3>4. ~(d < e) /\ ~(e < d)
      BY <1>3, <3>2, <3>3
    <3>5. d \in Int /\ e \in Int
      OBVIOUS
    <3>6. QED
      BY <3>4, <3>5
  <2>2. rank \in Injection(D, 1..n)
    BY <1>4, <2>1 DEF Injection, IsInjective
  <2>3. IsFiniteSet(1..n) /\ Cardinality(1..n) = n
    BY <1>1, FS_Interval
  <2> HIDE DEF n
  <2>4. rank \in Surjection(D, 1..n)
    BY <2>2, <2>3, FS_Injection DEF n
  <2>5. QED
    BY <2>4 DEF Surjection
<1> DEFINE s == [k \in 1..n |-> CHOOSE d \in D : rank[d] = k]
<1>6. s \in [1..n -> D] /\ \A k \in 1..n : rank[s[k]] = k
  BY <1>5
<1>7. \A a, b \in 1..n : a < b => s[a] < s[b]
  <2>1. TAKE a \in 1..n, b \in 1..n
  <2>2. HAVE a < b
  <2>3. s[a] \in Int /\ s[b] \in Int /\ s[a] \in D /\ s[b] \in D /\ rank[s[a]] = a /\ rank[s[b]] = b
    BY <1>6
  <2> HIDE DEF s, n
  <2>4. s[a] # s[b] /\ ~(s[b] < s[a])
    <3>1. a \in Int /\ b \in Int
      BY <1>1
    <3>2. s[b] < s[a] => b < a
      BY <1>3, <2>3
    <3>3. QED
      BY <2>2, <2>3, <3>1, <3>2
  <2>5. QED
    BY <2>3, <2>4
<1>8. DOMAIN s = 1..n
  OBVIOUS
<1> HIDE DEF s
<1>9. QED
  BY <1>6, <1>7, <1>8

LEMMA OrderIs ==
  ASSUME NEW D \in SUBSET Int, IsFiniteSet(D)
  PROVE  \E n \in Nat : /\ InOrder(D) \in [1..n -> D]
                        /\ \A a, b \in 1..n : a < b => InOrder(D)[a] < InOrder(D)[b]
                        /\ \A d \in D : \E a \in 1..n : InOrder(D)[a] = d
<1> DEFINE n == Cardinality(D)
           s == InOrder(D)
<1>1. n \in Nat
  BY FS_CardinalityType
<1>2. s \in [1..n -> D] /\ \A a, b \in DOMAIN s : a < b => s[a] < s[b]
  BY OrderExists DEF InOrder
<1> HIDE DEF s
<1>3. \A a, b \in 1..n : a < b => s[a] < s[b]
  BY <1>2
<1>4. s \in Injection(1..n, D)
  <2>1. \A a, b \in 1..n : s[a] = s[b] => a = b
    <3>1. TAKE a \in 1..n, b \in 1..n
    <3>2. HAVE s[a] = s[b]
    <3>3. s[a] \in Int /\ a \in Int /\ b \in Int
      <4>1. s[a] \in D
        BY <1>2
      <4>2. s[a] \in Int
        BY <4>1
      <4> HIDE DEF n
      <4>3. QED
        BY <1>1, <4>2
    <3>4. ~(a < b) /\ ~(b < a)
      BY <1>3, <3>2, <3>3
    <3>5. QED
      BY <3>3, <3>4
  <2>2. QED
    BY <1>2, <2>1 DEF Injection, IsInjective
<1>5. Cardinality(1..n) = n /\ IsFiniteSet(1..n)
  BY <1>1, FS_Interval
<1> HIDE DEF n
<1>6. s \in Surjection(1..n, D)
  BY <1>4, <1>5, FS_Injection DEF n
<1>7. \A d \in D : \E a \in 1..n : s[a] = d
  BY <1>6 DEF Surjection
<1>8. QED
  BY <1>1, <1>2, <1>3, <1>7 DEF s

LEMMA SeriesIs ==
  ASSUME ArchiveKnown, NEW days \in Nat
  PROVE  LET points == getFailureTimeSeries(days) IN
         /\ SumBy(points, LAMBDA p : p.count) =
              Cardinality({i \in DOMAIN archived : archived[i].last >= today - days})
         /\ \A k \in DOMAIN points : points[k].count > 0 /\ (k > 1 => points[k - 1].date < points[k].date)
<1> DEFINE On(d) == {i \in DOMAIN archived : archived[i].last = d}
           D == {d \in 0..today : d >= today - days /\ On(d) # {}}
           S == {i \in DOMAIN archived : archived[i].last >= today - days}
           seen == InOrder(D)
           points == getFailureTimeSeries(days)
           mu == [A \in SUBSET S |-> Cardinality(A)]
<1>1. /\ today \in Nat /\ DOMAIN archived = 1..Len(archived) /\ Len(archived) \in Nat
      /\ \A i \in DOMAIN archived : archived[i].last \in Nat /\ archived[i].last <= today
  BY ArchiveRows DEF ArchiveKnown
<1>2. IsFiniteSet(S)
  <2>1. IsFiniteSet(DOMAIN archived)
    BY <1>1, FS_Interval
  <2>2. S \in SUBSET DOMAIN archived
    OBVIOUS
  <2> HIDE DEF S
  <2>3. QED
    BY <2>1, <2>2, FS_Subset
<1>3. D \in SUBSET Int /\ IsFiniteSet(D)
  <2>1. D \subseteq 0..today
    OBVIOUS
  <2> HIDE DEF D
  <2>2. IsFiniteSet(0..today)
    BY <1>1, FS_Interval
  <2>3. IsFiniteSet(D)
    BY <2>1, <2>2, FS_Subset
  <2>4. \A d \in D : d \in Int
    BY <1>1, <2>1
  <2>5. QED
    BY <2>3, <2>4
<1>4. points = [k \in DOMAIN seen |-> [date |-> seen[k], count |-> Cardinality(On(seen[k]))]]
  BY DEF getFailureTimeSeries
<1>5. PICK n \in Nat : /\ seen \in [1..n -> D]
                       /\ \A a, b \in 1..n : a < b => seen[a] < seen[b]
                       /\ \A d \in D : \E a \in 1..n : seen[a] = d
  <2> HIDE DEF D
  <2> QED
    BY <1>3, OrderIs
<1> DEFINE part == [k \in 1..n |-> On(seen[k])]
<1>6. \A d \in D : On(d) \in SUBSET S /\ On(d) # {}
  OBVIOUS
<1>7. \A d, e : d # e => On(d) \intersect On(e) = {}
  OBVIOUS
<1>8. \A i \in S : archived[i].last \in D /\ i \in On(archived[i].last)
  BY <1>1
<1> HIDE DEF seen, D, On, S
<1>9. DOMAIN seen = 1..n /\ \A k \in 1..n : seen[k] \in D /\ seen[k] \in Int
  BY <1>3, <1>5
<1>10. part \in [1..n -> SUBSET S]
  BY <1>6, <1>9
<1>11. ArePartsOf(part, n, S)
  <2>1. \A a, b \in 1..n : a # b => part[a] \intersect part[b] = {}
    <3>1. TAKE a \in 1..n, b \in 1..n
    <3>2. HAVE a # b
    <3>3. seen[a] # seen[b]
      BY <1>5, <1>9, <3>2
    <3>4. QED
      BY <1>7, <3>3
  <2> HIDE DEF part
  <2>2. QED
    BY <1>10, <2>1 DEF ArePartsOf
<1>12. UNION {part[k] : k \in 1..n} = S
  <2>1. ASSUME NEW i \in S PROVE i \in UNION {part[k] : k \in 1..n}
    <3>1. PICK a \in 1..n : seen[a] = archived[i].last
      BY <1>5, <1>8
    <3>2. i \in part[a]
      BY <1>8, <3>1
    <3> HIDE DEF part
    <3>3. QED
      BY <3>2
  <2> HIDE DEF part
  <2>2. QED
    BY <1>10, <2>1
<1>13. IsMeasure(mu, S)
  BY <1>2, CardinalityAddsUp
<1>14. mu[S] = Cardinality(S)
  OBVIOUS
<1>15. Total([k \in 1..n |-> mu[part[k]]]) = mu[S]
  <2> HIDE DEF mu, part
  <2>1. AddsUp(mu, part, n)
    BY <1>11, <1>13, PartsAddUp
  <2>2. QED
    BY <1>12, <2>1 DEF AddsUp
<1>16. [k \in 1..n |-> mu[part[k]]] = [k \in DOMAIN points |-> points[k].count]
  <2>1. DOMAIN points = 1..n /\ \A k \in 1..n : points[k].count = Cardinality(On(seen[k]))
    BY <1>4, <1>9
  <2>2. \A k \in 1..n : mu[part[k]] = Cardinality(On(seen[k]))
    BY <1>10
  <2> HIDE DEF points, mu, part
  <2>3. QED
    BY <2>1, <2>2
<1>17. SumBy(points, LAMBDA p : p.count) = Cardinality(S)
  <2>1. SumBy(points, LAMBDA p : p.count) = Total([k \in DOMAIN points |-> points[k].count])
    BY SumUpIsTotal DEF SumBy
  <2> HIDE DEF points, mu, part
  <2>2. QED
    BY <1>14, <1>15, <1>16, <2>1
<1>18. \A k \in DOMAIN points : points[k].count > 0 /\ (k > 1 => points[k - 1].date < points[k].date)
  <2>1. DOMAIN points = 1..n
    BY <1>4, <1>9
  <2>2. \A k \in 1..n : points[k].date = seen[k] /\ points[k].count = Cardinality(On(seen[k]))
    BY <1>4, <1>9
  <2> HIDE DEF points
  <2>3. TAKE k \in DOMAIN points
  <2>4. points[k].count > 0
    <3>1. On(seen[k]) \in SUBSET S /\ On(seen[k]) # {}
      BY <1>6, <1>9, <2>1
    <3>2. IsFiniteSet(On(seen[k]))
      BY <1>2, <3>1, FS_Subset
    <3>3. Cardinality(On(seen[k])) \in Nat /\ Cardinality(On(seen[k])) # 0
      BY <3>1, <3>2, FS_EmptySet, FS_CardinalityType
    <3>4. QED
      BY <2>1, <2>2, <3>3
  <2>5. k > 1 => points[k - 1].date < points[k].date
    <3>1. HAVE k > 1
    <3>2. k \in 1..n /\ k - 1 \in 1..n /\ k - 1 < k
      BY <2>1, <3>1
    <3>3. QED
      BY <1>5, <2>2, <3>2
  <2>6. QED
    BY <2>4, <2>5
<1>19. QED
  BY <1>17, <1>18 DEF S

LEMMA SeriesShown == ASSUME FiguresIInv PROVE SeriesHolds
<1>1. ArchiveKnown /\ 0 \in Nat /\ 30 \in Nat
  BY DEF FiguresIInv
<1>2. \A days \in {0, 30} : days \in Nat
  OBVIOUS
<1>3. QED
  BY <1>1, <1>2, SeriesIs DEF SeriesHolds
-----------------------------------------------------------------------------
\* The places of the latest responses

LEMMA Remainders ==
  ASSUME NEW N \in Nat \ {0}
  PROVE  /\ \A m \in Nat : m % N \in 0..(N - 1)
         /\ \A m \in Nat : N < m /\ m < 2 * N => m % N = m - N
         /\ (2 * N) % N = 0
         /\ \A n, m \in Nat : n < m /\ m < n + N => n % N # m % N
<1>1. \A m \in Nat : \E q \in Int, r \in 0..(N - 1) : m = N * q + r /\ m % N = r
  <2>1. TAKE m \in Nat
  <2>2. N \in Nat /\ N > 0
    OBVIOUS
  <2>3. m = N * (m \div N) + (m % N) /\ (m \div N) \in Int /\ m % N \in 0..(N - 1)
    BY <2>2
  <2>4. QED
    BY <2>3
<1>2. \A k, j \in Int : k <= j => N * k <= N * j
  OBVIOUS
<1>3. ASSUME NEW m \in Nat, N < m, m < 2 * N PROVE m % N = m - N
  <2>1. PICK q \in Int, r \in 0..(N - 1) : m = N * q + r /\ m % N = r
    BY <1>1
  <2>2. q <= 0 => N * q <= N * 0
    BY <1>2
  <2>3. q >= 2 => N * 2 <= N * q
    BY <1>2
  <2>4. q = 1
    BY <1>3, <2>1, <2>2, <2>3
  <2>5. QED
    BY <2>1, <2>4
<1>4. (2 * N) % N = 0
  <2>1. PICK q \in Int, r \in 0..(N - 1) : 2 * N = N * q + r /\ (2 * N) % N = r
    BY <1>1
  <2>2. q <= 1 => N * q <= N * 1
    BY <1>2
  <2>3. q >= 3 => N * 3 <= N * q
    BY <1>2
  <2>4. q = 2
    BY <2>1, <2>2, <2>3
  <2>5. QED
    BY <2>1, <2>4
<1>5. ASSUME NEW n \in Nat, NEW m \in Nat, n < m, m < n + N, n % N = m % N PROVE FALSE
  <2>1. PICK q \in Int, r \in 0..(N - 1) : m = N * q + r /\ m % N = r
    BY <1>1
  <2>2. PICK p \in Int, t \in 0..(N - 1) : n = N * p + t /\ n % N = t
    BY <1>1
  <2>3. N * p < N * q
    BY <1>5, <2>1, <2>2
  <2>4. p < q
    BY <1>2, <2>3
  <2>5. N * (p + 1) <= N * q
    BY <1>2, <2>4
  <2>6. N * (p + 1) = N * p + N
    OBVIOUS
  <2>7. QED
    BY <1>5, <2>1, <2>2, <2>5, <2>6
<1>6. QED
  BY <1>1, <1>3, <1>4, <1>5

\* Where a response's time is: of the first ones at its own place until the next is there,
\* of a later one at the place reckoned from its number, for a whole round
BufferIInv ==
  /\ totalRequests \in Nat /\ durations \in Seq(Nat)
  /\ Len(durations) = IF totalRequests < BUFFER_SIZE THEN totalRequests ELSE BUFFER_SIZE
  /\ totalRequests <= BUFFER_SIZE => \A n \in 1..totalRequests : durations[n] = n
  /\ \A n \in 2..BUFFER_SIZE :
       n <= totalRequests /\ totalRequests + 1 < n + BUFFER_SIZE => durations[n] = n
  /\ \A n \in (BUFFER_SIZE + 1)..totalRequests :
       totalRequests < n + BUFFER_SIZE => durations[(n % BUFFER_SIZE) + 1] = n
  /\ \A k \in DOMAIN durations : durations[k] = 1 => k = 1 /\ totalRequests < 2 * BUFFER_SIZE

LEMMA BufferInit == AnalyticsInit => BufferIInv
<1> SUFFICES ASSUME AnalyticsInit PROVE BufferIInv
  OBVIOUS
<1>1. durations = <<>> /\ totalRequests = 0
  BY DEF AnalyticsInit
<1>2. QED
  BY <1>1, AnalyticsAssumption DEF BufferIInv

LEMMA BufferRecorded == ASSUME BufferIInv, recordResponseTime PROVE BufferIInv'
<1> DEFINE N == BUFFER_SIZE
           T == totalRequests
           m == totalRequests + 1
<1>1. N \in Nat \ {0} /\ T \in Nat /\ durations \in Seq(Nat) /\ totalRequests' = m
  BY AnalyticsAssumption DEF BufferIInv, recordResponseTime
<1>2. CASE T < N
  <2>1. Len(durations) = T /\ \A n \in 1..T : durations[n] = n
    BY <1>1, <1>2 DEF BufferIInv
  <2>2. durations' = Append(durations, m)
    BY <1>1, <1>2, <2>1 DEF recordResponseTime
  <2>3. durations' \in Seq(Nat) /\ Len(durations') = m /\ \A n \in 1..m : durations'[n] = n
    BY <1>1, <2>1, <2>2
  <2>4. \A k \in DOMAIN durations' : durations'[k] = 1 => k = 1 /\ m < 2 * N
    BY <1>1, <1>2, <2>3
  <2>5. QED
    BY <1>1, <1>2, <2>3, <2>4 DEF BufferIInv
<1>3. CASE T >= N
  <2> DEFINE slot == (m % N) + 1
  <2>1. Len(durations) = N
    BY <1>1, <1>3 DEF BufferIInv
  <2>2. slot \in 1..N
    <3>1. m \in Nat
      BY <1>1
    <3>2. m % N \in 0..(N - 1)
      BY <1>1, <3>1, Remainders
    <3>3. QED
      BY <1>1, <3>2
  <2>3. durations' = [durations EXCEPT ![slot] = m]
    BY <1>1, <1>3, <2>1 DEF recordResponseTime
  <2> HIDE DEF slot
  <2>4. /\ durations' \in Seq(Nat) /\ Len(durations') = N /\ durations'[slot] = m
        /\ \A k \in 1..N : k # slot => durations'[k] = durations[k]
    BY <1>1, <2>1, <2>2, <2>3
  <2>5. \A n \in 2..N : n <= m /\ m + 1 < n + N => durations'[n] = n
    <3>1. TAKE n \in 2..N
    <3>2. HAVE n <= m /\ m + 1 < n + N
    <3>3. N < m /\ m < 2 * N /\ m \in Nat
      BY <1>1, <1>3, <3>2
    <3>4. m % N = m - N
      BY <1>1, <3>3, Remainders
    <3>5. slot # n
      BY <1>1, <3>2, <3>4 DEF slot
    <3>6. durations[n] = n
      BY <1>1, <1>3, <3>2 DEF BufferIInv
    <3>7. QED
      BY <1>1, <2>4, <3>5, <3>6
  <2>6. \A n \in (N + 1)..m : m < n + N => durations'[(n % N) + 1] = n
    <3>1. TAKE n \in (N + 1)..m
    <3>2. HAVE m < n + N
    <3>3. CASE n = m
      BY <2>4, <3>3 DEF slot
    <3>4. CASE n # m
      <4>1. n \in Nat /\ m \in Nat /\ n < m /\ n \in (N + 1)..T /\ T < n + N
        BY <1>1, <3>2, <3>4
      <4>2. n % N # m % N /\ n % N \in 0..(N - 1)
        BY <1>1, <3>2, <4>1, Remainders
      <4>3. (n % N) + 1 # slot /\ (n % N) + 1 \in 1..N
        <5>1. m % N \in 0..(N - 1)
          BY <1>1, <4>1, Remainders
        <5>2. QED
          BY <1>1, <4>2, <5>1 DEF slot
      <4>4. durations[(n % N) + 1] = n
        BY <4>1 DEF BufferIInv
      <4>5. QED
        BY <2>4, <4>3, <4>4
    <3>5. QED
      BY <3>3, <3>4
  <2>7. \A k \in DOMAIN durations' : durations'[k] = 1 => k = 1 /\ m < 2 * N
    <3>1. TAKE k \in DOMAIN durations'
    <3>2. HAVE durations'[k] = 1
    <3>3. k \in 1..N /\ m > 1
      BY <1>1, <1>3, <2>4
    <3>4. k # slot
      BY <2>4, <3>2, <3>3
    <3>5. k = 1 /\ T < 2 * N
      <4>1. durations[k] = 1 /\ k \in DOMAIN durations
        BY <1>1, <2>1, <2>4, <3>2, <3>3, <3>4
      <4>2. QED
        BY <4>1 DEF BufferIInv
    <3>6. m # 2 * N
      <4>1. (2 * N) % N = 0
        BY <1>1, Remainders
      <4>2. m = 2 * N => slot = 1
        BY <4>1 DEF slot
      <4>3. QED
        BY <3>4, <3>5, <4>2
    <3>7. QED
      BY <1>1, <3>5, <3>6
  <2>8. m >= N /\ (m <= N => FALSE)
    BY <1>1, <1>3
  <2>9. QED
    BY <1>1, <2>4, <2>5, <2>6, <2>7, <2>8 DEF BufferIInv
<1>4. QED
  BY <1>1, <1>2, <1>3

LEMMA BufferStep == ASSUME BufferIInv, [AnalyticsNext]_analyticsVars PROVE BufferIInv'
<1>1. CASE recordResponseTime
  BY <1>1, BufferRecorded
<1>2. ASSUME durations' = durations, totalRequests' = totalRequests PROVE BufferIInv'
  BY <1>2 DEF BufferIInv
<1>3. (ReportFailure \/ FailureRecurs \/ AnalysisStored \/ DayPasses) => UNCHANGED <<durations, totalRequests>>
  BY DEF ReportFailure, FailureRecurs, AnalysisStored, DayPasses, OnArchive
<1>4. \A kind, range : OpenFigures(kind, range) => UNCHANGED <<durations, totalRequests>>
  BY DEF OpenFigures, OnArchive
<1>5. \A q : FiguresRead(q) \/ FiguresFail(q) => UNCHANGED <<durations, totalRequests>>
  BY DEF FiguresRead, FiguresFail, OnArchive
<1>6. UNCHANGED analyticsVars => UNCHANGED <<durations, totalRequests>>
  BY DEF analyticsVars
<1>7. QED
  BY <1>1, <1>2, <1>3, <1>4, <1>5, <1>6 DEF AnalyticsNext

LEMMA BufferShown == ASSUME BufferIInv PROVE BufferHolds
<1> DEFINE N == BUFFER_SIZE
           T == totalRequests
<1>1. N \in Nat \ {0} /\ T \in Nat /\ durations \in Seq(Nat)
  BY AnalyticsAssumption DEF BufferIInv
<1>2. Len(durations) = (IF T < N THEN T ELSE N) /\ DOMAIN durations = 1..Len(durations)
  BY <1>1 DEF BufferIInv
<1>3. ASSUME NEW n \in 1..T, n > T - N + 1 PROVE n \in Range(durations)
  <2>1. CASE T <= N
    <3>1. durations[n] = n /\ n \in DOMAIN durations
      BY <1>1, <1>2, <2>1 DEF BufferIInv
    <3>2. QED
      BY <3>1 DEF Range
  <2>2. CASE T > N /\ n <= N
    <3>1. n \in 2..N /\ n <= T /\ T + 1 < n + N
      BY <1>1, <1>3, <2>2
    <3>2. durations[n] = n /\ n \in DOMAIN durations
      BY <1>1, <1>2, <2>2, <3>1 DEF BufferIInv
    <3>3. QED
      BY <3>2 DEF Range
  <2>3. CASE T > N /\ n > N
    <3>1. n \in (N + 1)..T /\ T < n + N /\ n \in Nat
      BY <1>1, <1>3, <2>3
    <3>2. durations[(n % N) + 1] = n
      BY <3>1 DEF BufferIInv
    <3>3. n % N \in 0..(N - 1)
      BY <1>1, <3>1, Remainders
    <3>4. (n % N) + 1 \in DOMAIN durations
      BY <1>1, <1>2, <2>3, <3>3
    <3>5. QED
      BY <3>2, <3>4 DEF Range
  <2>4. QED
    BY <1>1, <2>1, <2>2, <2>3
<1>4. T >= 2 * N => 1 \notin Range(durations)
  BY <1>1 DEF Range, BufferIInv
<1>5. Len(durations) <= N
  BY <1>1, <1>2
<1>6. QED
  BY <1>3, <1>4, <1>5 DEF BufferHolds
-----------------------------------------------------------------------------
\* The server of tools for other agents

\* The later ones of a set, when one is left out, are as many as are taken
LEMMA LatestIs ==
  ASSUME NEW S \in SUBSET Nat, IsFiniteSet(S), NEW n \in Nat, NEW i \in S
  PROVE  i \in Latest(S, n) \/ Cardinality({j \in Latest(S, n) : j > i}) >= n
<1> DEFINE Above(j) == {k \in S : k > j}
           m == Cardinality(S)
           above == [j \in S |-> Cardinality(Above(j))]
<1>1. m \in Nat
  BY FS_CardinalityType
<1>2. \A j \in S : j \in Nat
  OBVIOUS
<1>3. \A j \in S : IsFiniteSet(Above(j)) /\ Cardinality(Above(j)) \in 0..(m - 1)
  <2>1. TAKE j \in S
  <2>2. Above(j) \subseteq S /\ j \notin Above(j)
    BY <1>2
  <2> HIDE DEF Above
  <2>3. IsFiniteSet(Above(j)) /\ Cardinality(Above(j)) <= m /\ Cardinality(Above(j)) # m
    BY <2>2, FS_Subset
  <2>4. Cardinality(Above(j)) \in Nat
    BY <2>3, FS_CardinalityType
  <2> HIDE DEF m
  <2>5. QED
    BY <1>1, <2>3, <2>4
<1>4. \A j, k \in S : j < k => above[k] < above[j]
  <2>1. TAKE j \in S, k \in S
  <2>2. HAVE j < k
  <2>3. Above(k) \subseteq Above(j) /\ k \in Above(j) /\ k \notin Above(k)
    <3>1. \A x \in S : x > k => x > j
      BY <1>2, <2>2
    <3>2. ~(k > k)
      BY <1>2
    <3>3. QED
      BY <2>2, <3>1, <3>2
  <2>4. above[j] = Cardinality(Above(j)) /\ above[k] = Cardinality(Above(k))
    OBVIOUS
  <2>5. /\ IsFiniteSet(Above(j)) /\ Cardinality(Above(j)) \in Nat /\ IsFiniteSet(Above(k))
        /\ Cardinality(Above(k)) \in Nat
    BY <1>3, FS_CardinalityType
  <2> HIDE DEF Above, above
  <2>6. Cardinality(Above(k)) <= Cardinality(Above(j)) /\ Cardinality(Above(k)) # Cardinality(Above(j))
    BY <2>3, <2>5, FS_Subset
  <2>7. QED
    BY <2>4, <2>5, <2>6
<1>5. above \in [S -> 0..(m - 1)]
  BY <1>3
<1>6. Latest(S, n) = {j \in S : above[j] < n}
  BY DEF Latest
<1> HIDE DEF above, m
<1>7. above \in Surjection(S, 0..(m - 1))
  <2>1. \A j, k \in S : above[j] = above[k] => j = k
    <3>1. TAKE j \in S, k \in S
    <3>2. HAVE above[j] = above[k]
    <3>3. above[j] \in Int
      BY <1>5
    <3>4. ~(j < k) /\ ~(k < j)
      BY <1>4, <3>2, <3>3
    <3>5. QED
      BY <1>2, <3>4
  <2>2. above \in Injection(S, 0..(m - 1))
    BY <1>5, <2>1 DEF Injection, IsInjective
  <2>3. IsFiniteSet(0..(m - 1)) /\ Cardinality(0..(m - 1)) = m
    BY <1>1, FS_Interval
  <2>4. QED
    BY <2>2, <2>3, FS_Injection DEF m
<1>8. SUFFICES ASSUME above[i] >= n
               PROVE  Cardinality({j \in Latest(S, n) : j > i}) >= n
  <2>1. above[i] \in Int
    BY <1>5
  <2>2. QED
    BY <1>6, <2>1
<1> DEFINE T == {j \in Latest(S, n) : j > i}
<1>9. \A k \in 0..(n - 1) : \E j \in T : above[j] = k
  <2>1. TAKE k \in 0..(n - 1)
  <2>2. above[i] \in 0..(m - 1)
    BY <1>5
  <2>3. k \in 0..(m - 1) /\ k < above[i] /\ k < n
    BY <1>1, <1>8, <2>2
  <2>4. PICK j \in S : above[j] = k
    BY <1>7, <2>3 DEF Surjection
  <2>5. j > i
    <3>1. ~(j < i)
      BY <1>4, <1>5, <2>2, <2>3, <2>4
    <3>2. j # i
      BY <1>5, <2>2, <2>3, <2>4
    <3>3. QED
      BY <1>2, <3>1, <3>2
  <2>6. QED
    BY <1>6, <2>3, <2>4, <2>5
<1>10. IsFiniteSet(T)
  <2>1. T \subseteq S
    BY <1>6
  <2> HIDE DEF T
  <2>2. QED
    BY <2>1, FS_Subset
<1> HIDE DEF T
<1> DEFINE pick == [k \in 0..(n - 1) |-> CHOOSE j \in T : above[j] = k]
<1>11. pick \in [0..(n - 1) -> T] /\ \A k \in 0..(n - 1) : above[pick[k]] = k
  BY <1>9
<1>12. pick \in Injection(0..(n - 1), T)
  <2> HIDE DEF pick
  <2>1. \A a, b \in 0..(n - 1) : pick[a] = pick[b] => a = b
    BY <1>11
  <2>2. QED
    BY <1>11, <2>1 DEF Injection, IsInjective
<1>13. n = Cardinality(0..(n - 1)) /\ IsFiniteSet(0..(n - 1))
  BY FS_Interval
<1> HIDE DEF pick
<1>14. Cardinality(0..(n - 1)) <= Cardinality(T)
  BY <1>10, <1>12, FS_Injection
<1>15. Cardinality(T) \in Nat
  BY <1>10, FS_CardinalityType
<1>16. QED
  BY <1>13, <1>14, <1>15 DEF T
-----------------------------------------------------------------------------
CallFields == {"tool", "input", "got", "phase", "reply", "knew", "unheard"}
IsCall(call) == call = [f \in CallFields |-> call[f]]

Same(next, call, fields) == \A f \in CallFields \ fields : next[f] = call[f]

\* Calls whose changes are all there is of them to be known
LEMMA CallGot ==
  ASSUME NEW call, IsCall(call), NEW got
  PROVE  LET next == [call EXCEPT !.got = got] IN
         IsCall(next) /\ next.got = got /\ Same(next, call, {"got"})
BY DEF IsCall, CallFields, Same

LEMMA CallUnheard ==
  ASSUME NEW call, IsCall(call), NEW got
  PROVE  LET next == [call EXCEPT !.got = got, !.unheard = TRUE] IN
         IsCall(next) /\ next.got = got /\ next.unheard = TRUE /\ Same(next, call, {"got", "unheard"})
BY DEF IsCall, CallFields, Same

LEMMA CallAnswered ==
  ASSUME NEW call, IsCall(call), NEW value
  PROVE  LET next == [call EXCEPT !.phase = "answered", !.got = <<>>, !.reply = {value}] IN
         /\ IsCall(next) /\ next.phase = "answered" /\ next.got = <<>> /\ next.reply = {value}
         /\ Same(next, call, {"phase", "got", "reply"})
BY DEF IsCall, CallFields, Same

LEMMA CallFailed ==
  ASSUME NEW call, IsCall(call)
  PROVE  /\ IsCall([call EXCEPT !.phase = "failed", !.got = <<>>])
         /\ [call EXCEPT !.phase = "failed", !.got = <<>>].phase = "failed"
         /\ [call EXCEPT !.phase = "failed", !.got = <<>>].knew = call.knew
         /\ IsCall([call EXCEPT !.phase = "failed"])
         /\ [call EXCEPT !.phase = "failed"].phase = "failed"
         /\ [call EXCEPT !.phase = "failed"].knew = call.knew
BY DEF IsCall, CallFields

LEMMA CallUnknown ==
  ASSUME NEW call, IsCall(call)
  PROVE  LET next == [call EXCEPT !.tool = "unknown", !.phase = "failed"] IN
         IsCall(next) /\ next.phase = "failed" /\ next.knew = call.knew
BY DEF IsCall, CallFields
-----------------------------------------------------------------------------
Single == {"testops_analyze_failure", "testops_search_knowledge", "testops_add_knowledge"}
Free == {"testops_analyze_failure", "testops_batch_analyze", "testops_health_check"}

Finds(hits, i, limit) == i \in hits \/ Cardinality({j \in hits : j > i}) >= limit

\* What a call that was answered owes to the rows k
FoundBy(k, call) ==
  /\ (call.tool = "testops_analyze_failure" /\ call.phase = "answered" /\ ~call.unheard) =>
       \A r \in call.reply : \A i \in call.knew :
         k[i].test = call.input.testName => Finds(r.similar, i, 5)
  /\ (call.tool = "testops_search_knowledge" /\ call.phase = "answered") =>
       \A r \in call.reply : \A i \in call.knew :
         (call.input.query = k[i].test /\ "category" \notin DOMAIN call.input) =>
           Finds(r, i, call.input.limit)

\* A tool that makes one query has made none while its call is open, and so has one that
\* needs a table that there is not
OpenKnown(tb, call) ==
  /\ call.tool \in DOMAIN InputSchema
  /\ call.tool \in Single => call.got = <<>>
  /\ tb = "migrated" /\ call.tool \notin Free => call.got = <<>>
  /\ call.tool = "testops_search_knowledge" => call.input.limit \in Nat

AnswerKnown(k, tb, call) ==
  /\ call.tool = "testops_add_knowledge" => call.reply \subseteq DOMAIN k
  /\ tb = "migrated" =>
       /\ call.tool \in Free
       /\ call.tool = "testops_analyze_failure" => \A r \in call.reply : r.similar = {}
  /\ FoundBy(k, call)

CallKnown(k, tb, call) ==
  /\ IsCall(call) /\ call.phase \in {"idle", "open", "answered", "failed"}
  /\ call.knew \subseteq DOMAIN k
  /\ call.phase = "open" => OpenKnown(tb, call)
  /\ call.phase = "answered" => AnswerKnown(k, tb, call)

IsKnowledge(k) == k \in Seq(Range(k)) /\ \A i \in DOMAIN k : k[i].resolved

McpIInv ==
  /\ tables \in {"migrated", "described"} /\ IsKnowledge(knowledge)
  /\ tables = "migrated" => knowledge = <<>>
  /\ mcpCall = [c \in Agent |-> mcpCall[c]]
  /\ \A c \in Agent : CallKnown(knowledge, tables, mcpCall[c])

\* Rows are only added
Grew(l, k) == IsKnowledge(l) /\ DOMAIN k \subseteq DOMAIN l /\ \A i \in DOMAIN k : l[i] = k[i]
-----------------------------------------------------------------------------
LEMMA CallOutgrown ==
  ASSUME NEW k, NEW l, Grew(l, k), NEW tb, NEW call, CallKnown(k, tb, call)
  PROVE  CallKnown(l, tb, call)
<1>1. DOMAIN k \subseteq DOMAIN l /\ \A i \in DOMAIN k : l[i] = k[i]
  BY DEF Grew
<1>2. call.knew \subseteq DOMAIN k /\ call.knew \subseteq DOMAIN l
  BY <1>1 DEF CallKnown
<1>3. FoundBy(k, call) => FoundBy(l, call)
  BY <1>1, <1>2 DEF FoundBy
<1>4. AnswerKnown(k, tb, call) => AnswerKnown(l, tb, call)
  BY <1>1, <1>3 DEF AnswerKnown
<1>5. QED
  BY <1>2, <1>4 DEF CallKnown

\* One call changes and nothing is lost
LEMMA McpChange ==
  ASSUME McpIInv, NEW c \in Agent, NEW b, mcpCall' = [mcpCall EXCEPT ![c] = b], tables' = tables,
         Grew(knowledge', knowledge), tables = "migrated" => knowledge' = <<>>,
         CallKnown(knowledge', tables, b)
  PROVE  McpIInv'
<1>1. mcpCall = [d \in Agent |-> mcpCall[d]]
  BY DEF McpIInv
<1>2. /\ mcpCall' = [d \in Agent |-> mcpCall'[d]] /\ mcpCall'[c] = b
      /\ \A d \in Agent : d # c => mcpCall'[d] = mcpCall[d]
  BY <1>1
<1>3. ASSUME NEW d \in Agent PROVE CallKnown(knowledge', tables, mcpCall'[d])
  <2>1. CASE d = c
    BY <1>2, <2>1
  <2>2. CASE d # c
    <3>1. CallKnown(knowledge, tables, mcpCall[d])
      BY DEF McpIInv
    <3>2. CallKnown(knowledge', tables, mcpCall[d])
      BY <3>1, CallOutgrown
    <3>3. QED
      BY <1>2, <2>2, <3>2
  <2>3. QED
    BY <2>1, <2>2
<1>4. IsKnowledge(knowledge')
  BY DEF Grew
<1>5. QED
  BY <1>2, <1>3, <1>4 DEF McpIInv

LEMMA GrewNot == ASSUME NEW k, IsKnowledge(k) PROVE Grew(k, k)
BY DEF Grew

LEMMA GrewOne ==
  ASSUME NEW k, IsKnowledge(k), NEW r, r.resolved
  PROVE  /\ Grew(Append(k, r), k) /\ Len(k) + 1 \in DOMAIN Append(k, r)
<1> DEFINE T == Range(k) \union {r}
           l == Append(k, r)
<1>1. k \in Seq(Range(k)) /\ Range(k) \subseteq T /\ r \in T
  BY DEF IsKnowledge
<1> HIDE DEF T
<1>2. k \in Seq(T)
  BY <1>1
<1>3. /\ l \in Seq(T) /\ Len(l) = Len(k) + 1 /\ Len(k) \in Nat /\ l[Len(k) + 1] = r
      /\ \A i \in 1..Len(k) : l[i] = k[i]
  BY <1>1, <1>2
<1>4. DOMAIN l = 1..(Len(k) + 1) /\ DOMAIN k = 1..Len(k)
  BY <1>2, <1>3
<1>5. l \in Seq(Range(l))
  <2>1. \A i \in 1..Len(l) : l[i] \in Range(l)
    BY <1>3, <1>4 DEF Range
  <2> HIDE DEF l
  <2>2. QED
    BY <1>3, <2>1
<1>6. \A i \in DOMAIN l : l[i].resolved
  <2>1. TAKE i \in DOMAIN l
  <2>2. CASE i = Len(k) + 1
    BY <1>3, <2>2
  <2>3. CASE i # Len(k) + 1
    <3>1. i \in DOMAIN k /\ l[i] = k[i]
      BY <1>3, <1>4, <2>3
    <3>2. QED
      BY <3>1 DEF IsKnowledge
  <2>4. QED
    BY <2>2, <2>3
<1> HIDE DEF l
<1>7. QED
  BY <1>3, <1>4, <1>5, <1>6 DEF Grew, IsKnowledge, l

\* As the backend migrates the database, there is nothing to be asked
LEMMA QueryIsRefused ==
  ASSUME tables = "migrated", NEW q \in DOMAIN Names \ {"ping"}
  PROVE  ~Possible(q)
<1>1. "failure_records" \notin DOMAIN Migrated /\ "failure_records" \notin DOMAIN MigratedUsage
  BY DEF Migrated, MigratedUsage
<1>2. "failure_records" \in DOMAIN KnowledgeNames
  BY DEF KnowledgeNames
<1>3. ASSUME Names[q] = KnowledgeNames PROVE ~Possible(q)
  BY <1>1, <1>2, <1>3 DEF Possible
<1>4. /\ "ai_usage" \in DOMAIN UsageNames /\ "ai_usage" \notin DOMAIN Migrated
      /\ "timestamp" \in UsageNames["ai_usage"] /\ "timestamp" \notin MigratedUsage["ai_usage"]
  BY DEF UsageNames, Migrated, MigratedUsage
<1>5. ASSUME Names[q] = UsageNames PROVE ~Possible(q)
  BY <1>4, <1>5 DEF Possible
<1>6. /\ "test_results" \in DOMAIN LoadNames /\ "test_results" \notin DOMAIN MigratedUsage
      /\ "error_message" \in LoadNames["test_results"]
      /\ "error_message" \notin Migrated["test_results"]
  BY DEF LoadNames, Migrated, MigratedUsage
<1>7. ASSUME Names[q] = LoadNames PROVE ~Possible(q)
  BY <1>6, <1>7 DEF Possible
<1>8. /\ "test_runs" \in DOMAIN RunNames /\ "test_runs" \notin DOMAIN MigratedUsage
      /\ "started_at" \in RunNames["test_runs"] /\ "started_at" \notin Migrated["test_runs"]
  BY DEF RunNames, Migrated, MigratedUsage
<1>9. ASSUME Names[q] = RunNames PROVE ~Possible(q)
  BY <1>8, <1>9 DEF Possible
<1>10. /\ "test_results" \in DOMAIN CommonNames /\ "test_results" \in DOMAIN HistoryNames
       /\ "test_results" \notin DOMAIN MigratedUsage
       /\ "test_name" \in CommonNames["test_results"] /\ "test_name" \in HistoryNames["test_results"]
       /\ "test_name" \notin Migrated["test_results"]
  BY DEF CommonNames, HistoryNames, Migrated, MigratedUsage
<1>11. ASSUME Names[q] = CommonNames \/ Names[q] = HistoryNames PROVE ~Possible(q)
  BY <1>10, <1>11 DEF Possible
<1>12. Names[q] \in {KnowledgeNames, UsageNames, LoadNames, RunNames, CommonNames, HistoryNames}
  BY DEF Names
<1>13. QED
  BY <1>3, <1>5, <1>7, <1>9, <1>11, <1>12

LEMMA MadeGrows ==
  ASSUME McpIInv, NEW q, NEW in, Made(q, in)
  PROVE  /\ Grew(knowledge', knowledge)
         /\ tables = "migrated" => knowledge' = <<>>
         /\ q = "insert" => Len(knowledge) + 1 \in DOMAIN knowledge'
<1>1. IsKnowledge(knowledge) /\ (tables = "migrated" => knowledge = <<>>)
  BY DEF McpIInv
<1>2. CASE q = "insert"
  <2> DEFINE r == [test |-> in.testName, category |-> in.category, resolved |-> TRUE]
  <2>1. knowledge' = Append(knowledge, r) /\ Possible(q)
    BY <1>2 DEF Made, addKnowledgeTool
  <2>2. r.resolved
    OBVIOUS
  <2>3. tables # "migrated"
    <3>1. q \in DOMAIN Names \ {"ping"}
      BY <1>2 DEF Names
    <3>2. QED
      BY <2>1, <3>1, QueryIsRefused
  <2> HIDE DEF r
  <2>4. QED
    BY <1>1, <2>1, <2>2, <2>3, GrewOne
<1>3. CASE q # "insert"
  BY <1>1, <1>3, GrewNot DEF Made
<1>4. QED
  BY <1>2, <1>3
-----------------------------------------------------------------------------
LEMMA McpInitKnown == McpInit => McpIInv
<1> SUFFICES ASSUME McpInit PROVE McpIInv
  OBVIOUS
<1>1. IsKnowledge(knowledge)
  BY DEF McpInit, IsKnowledge
<1>2. IsCall(NotMade) /\ NotMade.phase = "idle" /\ NotMade.knew = {}
  BY DEF IsCall, NotMade, CallFields
<1>3. \A c \in Agent : mcpCall[c] = NotMade
  BY DEF McpInit
<1>4. CallKnown(knowledge, tables, NotMade)
  BY <1>2 DEF CallKnown
<1>5. QED
  BY <1>1, <1>3, <1>4 DEF McpInit, McpIInv

\* The first query of a call
FirstQuery(tool) == Queries[tool][1]

LEMMA FirstIs ==
  ASSUME NEW call, call.got = <<>>, call.tool \in DOMAIN InputSchema
  PROVE  QueryOf(call) = FirstQuery(call.tool)
<1>1. Len(call.got) = 0
  OBVIOUS
<1>2. Len(Queries[call.tool]) > 0
  BY DEF InputSchema, Queries
<1>3. QED
  BY <1>1, <1>2 DEF QueryOf, FirstQuery

LEMMA FirstQueries ==
  /\ FirstQuery("testops_analyze_failure") = "similar"
  /\ FirstQuery("testops_search_knowledge") = "search"
  /\ FirstQuery("testops_add_knowledge") = "insert"
  /\ \A tool \in DOMAIN InputSchema \ Free :
       FirstQuery(tool) \notin Tolerated /\ FirstQuery(tool) \in DOMAIN Names \ {"ping"}
<1>1. /\ FirstQuery("testops_analyze_failure") = "similar"
      /\ FirstQuery("testops_search_knowledge") = "search"
      /\ FirstQuery("testops_add_knowledge") = "insert"
      /\ FirstQuery("testops_get_knowledge_stats") = "total"
      /\ FirstQuery("testops_get_pipeline_stats") = "runs"
      /\ FirstQuery("testops_get_test_history") = "results"
      /\ FirstQuery("testops_get_cost_stats") = "sum"
  BY DEF FirstQuery, Queries
<1>2. ASSUME NEW tool \in DOMAIN InputSchema \ Free
      PROVE  FirstQuery(tool) \in {"search", "insert", "total", "runs", "results", "sum"}
  <2>1. tool \in {"testops_search_knowledge", "testops_add_knowledge", "testops_get_knowledge_stats",
                  "testops_get_pipeline_stats", "testops_get_test_history", "testops_get_cost_stats"}
    BY DEF InputSchema, Free
  <2>2. QED
    BY <1>1, <2>1
<1>3. \A q \in {"search", "insert", "total", "runs", "results", "sum"} :
        q \notin Tolerated /\ q \in DOMAIN Names \ {"ping"}
  BY DEF Tolerated, Names
<1>4. QED
  BY <1>1, <1>2, <1>3

\* A tool of which nothing has to be known
Loose(tb, call) ==
  call.tool \in DOMAIN InputSchema /\ call.tool \notin Single /\ (tb = "migrated" => call.tool \in Free)

LEMMA LooseKnown ==
  ASSUME NEW k, NEW tb, NEW call, Loose(tb, call), IsCall(call), call.phase \in {"open", "answered"},
         call.knew \subseteq DOMAIN k
  PROVE  CallKnown(k, tb, call)
<1>1. OpenKnown(tb, call)
  BY DEF OpenKnown, Loose, Single
<1>2. AnswerKnown(k, tb, call)
  BY DEF AnswerKnown, Loose, Single, FoundBy
<1>3. QED
  BY <1>1, <1>2 DEF CallKnown

\* What a step may count on that leaves the database as it must be
RowsStand ==
  /\ McpIInv /\ tables' = tables /\ Grew(knowledge', knowledge)
  /\ tables = "migrated" => knowledge' = <<>>

LEMMA LooseContinues ==
  ASSUME RowsStand, NEW c \in Agent, NEW next, Loose(tables, next), IsCall(next), next.phase = "open",
         next.knew \subseteq DOMAIN knowledge', Continue(c, next)
  PROVE  McpIInv'
<1> DEFINE value == Value(next.tool, next.input, next.got)
           last == [next EXCEPT !.phase = "answered", !.got = <<>>, !.reply = {value}]
<1>1. CASE Complete(next.tool, next.input, next.got)
  <2>1. mcpCall' = [mcpCall EXCEPT ![c] = last]
    BY <1>1 DEF Continue
  <2> HIDE DEF value
  <2>2. /\ IsCall(last) /\ last.phase = "answered" /\ last.knew = next.knew /\ last.tool = next.tool
    <3>1. /\ IsCall(last) /\ last.phase = "answered"
          /\ Same(last, next, {"phase", "got", "reply"})
      BY CallAnswered
    <3> HIDE DEF last
    <3>2. QED
      BY <3>1 DEF Same, CallFields
  <2> HIDE DEF last
  <2>3. Loose(tables, last)
    BY <2>2 DEF Loose
  <2>4. CallKnown(knowledge', tables, last)
    BY <2>2, <2>3, LooseKnown
  <2>5. QED
    BY <2>1, <2>4, McpChange DEF RowsStand
<1>2. CASE ~Complete(next.tool, next.input, next.got)
  <2>1. mcpCall' = [mcpCall EXCEPT ![c] = next]
    BY <1>2 DEF Continue
  <2>2. CallKnown(knowledge', tables, next)
    BY LooseKnown
  <2>3. QED
    BY <2>1, <2>2, McpChange DEF RowsStand
<1>3. QED
  BY <1>1, <1>2

LEMMA FailedKnown ==
  ASSUME RowsStand, NEW c \in Agent, NEW b, IsCall(b), b.phase = "failed", b.knew \subseteq DOMAIN knowledge',
         mcpCall' = [mcpCall EXCEPT ![c] = b]
  PROVE  McpIInv'
<1>1. CallKnown(knowledge', tables, b)
  BY DEF CallKnown
<1>2. QED
  BY <1>1, McpChange DEF RowsStand

LEMMA ErrorKnown ==
  ASSUME RowsStand, NEW c \in Agent, AnswerError(c)
  PROVE  McpIInv'
<1> DEFINE b == [mcpCall[c] EXCEPT !.phase = "failed", !.got = <<>>]
<1>1. mcpCall = [d \in Agent |-> mcpCall[d]] /\ CallKnown(knowledge, tables, mcpCall[c])
  BY DEF RowsStand, McpIInv
<1>2. IsCall(mcpCall[c]) /\ mcpCall[c].knew \subseteq DOMAIN knowledge'
  BY <1>1 DEF CallKnown, RowsStand, Grew
<1>3. mcpCall' = [mcpCall EXCEPT ![c] = b]
  BY <1>1 DEF AnswerError
<1>4. IsCall(b) /\ b.phase = "failed" /\ b.knew = mcpCall[c].knew
  BY <1>2, CallFailed
<1> HIDE DEF b
<1>5. QED
  BY <1>2, <1>3, <1>4, FailedKnown

\* A tool that makes one query is answered with what it brings
LEMMA SingleContinues ==
  ASSUME RowsStand, NEW c \in Agent, NEW next, IsCall(next), next.phase = "open", next.tool \in Single,
         NEW brought, next.got = <<brought>>, next.knew \subseteq DOMAIN knowledge', Continue(c, next),
         LET last == [next EXCEPT !.phase = "answered", !.got = <<>>,
                                  !.reply = {Value(next.tool, next.input, next.got)}]
         IN AnswerKnown(knowledge', tables, last)
  PROVE  McpIInv'
<1> DEFINE value == Value(next.tool, next.input, next.got)
           last == [next EXCEPT !.phase = "answered", !.got = <<>>, !.reply = {value}]
<1>1. Complete(next.tool, next.input, next.got)
  <2>1. Len(next.got) = 1
    OBVIOUS
  <2>2. Len(Queries[next.tool]) = 1
    BY DEF Single, Queries
  <2>3. next.tool # "testops_batch_analyze" /\ next.tool # "testops_get_pipeline_stats"
    BY DEF Single
  <2>4. QED
    BY <2>1, <2>2, <2>3 DEF Complete
<1>2. mcpCall' = [mcpCall EXCEPT ![c] = last]
  BY <1>1 DEF Continue
<1>3. AnswerKnown(knowledge', tables, last)
  OBVIOUS
<1> HIDE DEF value
<1>4. IsCall(last) /\ last.phase = "answered" /\ last.knew = next.knew
  <2>1. IsCall(last) /\ last.phase = "answered" /\ Same(last, next, {"phase", "got", "reply"})
    BY CallAnswered
  <2> HIDE DEF last
  <2>2. QED
    BY <2>1 DEF Same, CallFields
<1> HIDE DEF last
<1>5. CallKnown(knowledge', tables, last)
  BY <1>3, <1>4 DEF CallKnown
<1>6. QED
  BY <1>2, <1>5, McpChange DEF RowsStand
-----------------------------------------------------------------------------
LEMMA FoundAgain ==
  ASSUME IsKnowledge(knowledge), NEW S \in SUBSET DOMAIN knowledge, NEW i \in S, NEW n \in Nat
  PROVE  Finds(Latest(S, n), i, n)
<1>1. DOMAIN knowledge = 1..Len(knowledge) /\ Len(knowledge) \in Nat
  BY DEF IsKnowledge
<1>2. IsFiniteSet(DOMAIN knowledge)
  BY <1>1, FS_Interval
<1>3. S \in SUBSET Nat /\ IsFiniteSet(S)
  <2>1. DOMAIN knowledge \subseteq Nat
    BY <1>1
  <2>2. QED
    BY <1>2, <2>1, FS_Subset
<1>4. QED
  BY <1>3, LatestIs DEF Finds

LEMMA SimilarFound ==
  ASSUME IsKnowledge(knowledge), NEW test, NEW i \in DOMAIN knowledge, knowledge[i].test = test
  PROVE  Finds(FindSimilarRecords(test), i, 5)
<1> DEFINE S == {j \in DOMAIN knowledge : knowledge[j].test = test /\ knowledge[j].resolved}
<1>1. i \in S /\ S \in SUBSET DOMAIN knowledge
  BY DEF IsKnowledge
<1>2. FindSimilarRecords(test) = Latest(S, 5)
  BY DEF FindSimilarRecords
<1> HIDE DEF S
<1>3. 5 \in Nat
  OBVIOUS
<1>4. Finds(Latest(S, 5), i, 5)
  BY <1>1, <1>3, FoundAgain
<1>5. QED
  BY <1>2, <1>4

LEMMA SearchFound ==
  ASSUME IsKnowledge(knowledge), NEW in, in.limit \in Nat, "category" \notin DOMAIN in,
         NEW i \in DOMAIN knowledge, in.query = knowledge[i].test
  PROVE  Finds(searchKnowledgeTool(in), i, in.limit)
<1> DEFINE Fits(j) == /\ in.onlyResolved => knowledge[j].resolved
                      /\ "category" \in DOMAIN in => knowledge[j].category = in.category
                      /\ in.query = knowledge[j].test
           S == {j \in DOMAIN knowledge : Fits(j)}
<1>1. i \in S /\ S \in SUBSET DOMAIN knowledge
  BY DEF IsKnowledge
<1>2. searchKnowledgeTool(in) = Latest(S, in.limit)
  BY DEF searchKnowledgeTool
<1> HIDE DEF S
<1>3. QED
  BY <1>1, <1>2, FoundAgain

\* What a query of one of the tools brings is all its answer
LEMMA SingleAnswer ==
  ASSUME NEW next, IsCall(next), NEW brought, next.got = <<brought>>
  PROVE  LET last == [next EXCEPT !.phase = "answered", !.got = <<>>,
                                  !.reply = {Value(next.tool, next.input, next.got)}] IN
         /\ last.tool = next.tool /\ last.input = next.input /\ last.knew = next.knew
         /\ last.unheard = next.unheard /\ last.phase = "answered"
         /\ next.tool \in {"testops_search_knowledge", "testops_add_knowledge"} => last.reply = {brought}
         /\ next.tool = "testops_analyze_failure" => \A r \in last.reply : r.similar = brought
<1> DEFINE value == Value(next.tool, next.input, next.got)
           last == [next EXCEPT !.phase = "answered", !.got = <<>>, !.reply = {value}]
<1>1. next.got[1] = brought
  OBVIOUS
<1>2. next.tool \in {"testops_search_knowledge", "testops_add_knowledge"} => value = brought
  BY <1>1 DEF Value
<1>3. next.tool = "testops_analyze_failure" => value.similar = brought
  <2>1. HAVE next.tool = "testops_analyze_failure"
  <2>2. value = analyzeTool(next.input, brought)
    BY <1>1, <2>1 DEF Value
  <2> HIDE DEF value
  <2>3. QED
    BY <2>2 DEF analyzeTool
<1> HIDE DEF value
<1>4. last.reply = {value} /\ last.phase = "answered" /\ Same(last, next, {"phase", "got", "reply"})
  BY CallAnswered
<1> HIDE DEF last
<1>5. /\ last.tool = next.tool /\ last.input = next.input /\ last.knew = next.knew
      /\ last.unheard = next.unheard
  BY <1>4 DEF Same, CallFields
<1>6. QED
  BY <1>2, <1>3, <1>4, <1>5 DEF last, value

\* The query of an open call of such a tool
LEMMA OpenSingle ==
  ASSUME McpIInv, NEW c \in Agent, mcpCall[c].phase = "open", mcpCall[c].tool \in Single
  PROVE  /\ mcpCall[c].got = <<>> /\ QueryOf(mcpCall[c]) = FirstQuery(mcpCall[c].tool)
         /\ mcpCall[c].tool \in DOMAIN InputSchema
<1>1. CallKnown(knowledge, tables, mcpCall[c])
  BY DEF McpIInv
<1>2. OpenKnown(tables, mcpCall[c])
  BY <1>1 DEF CallKnown
<1>3. mcpCall[c].got = <<>> /\ mcpCall[c].tool \in DOMAIN InputSchema
  BY <1>2 DEF OpenKnown
<1>4. QED
  BY <1>3, FirstIs

LEMMA McpAnswered == ASSUME McpIInv, NEW c \in Agent, QueryAnswered(c) PROVE McpIInv'
<1> DEFINE call == mcpCall[c]
           q == QueryOf(call)
<1>1. /\ call.phase = "open" /\ Made(q, call.input) /\ tables' = tables
      /\ \E b \in Brings(q, call.input, call.got) : Continue(c, [call EXCEPT !.got = Append(@, b)])
  BY DEF QueryAnswered
<1>2. PICK b \in Brings(q, call.input, call.got) : Continue(c, [call EXCEPT !.got = Append(@, b)])
  BY <1>1
<1> DEFINE next == [call EXCEPT !.got = Append(call.got, b)]
<1>3. CallKnown(knowledge, tables, call)
  BY DEF McpIInv
<1>4. IsCall(call) /\ call.knew \subseteq DOMAIN knowledge /\ OpenKnown(tables, call)
  BY <1>1, <1>3 DEF CallKnown
<1>5. Continue(c, next)
  BY <1>2
<1>6. RowsStand /\ (q = "insert" => Len(knowledge) + 1 \in DOMAIN knowledge')
  BY <1>1, MadeGrows DEF RowsStand
<1>7. /\ IsCall(next) /\ next.got = Append(call.got, b) /\ next.tool = call.tool
      /\ next.input = call.input /\ next.phase = "open" /\ next.knew = call.knew
      /\ next.unheard = call.unheard
  <2>1. IsCall(next) /\ next.got = Append(call.got, b) /\ Same(next, call, {"got"})
    BY <1>4, CallGot
  <2> HIDE DEF next, call
  <2>2. QED
    BY <1>1, <2>1 DEF Same, CallFields
<1> HIDE DEF next
<1>8. next.knew \subseteq DOMAIN knowledge'
  BY <1>4, <1>6, <1>7 DEF RowsStand, Grew
<1>9. CASE call.tool \in Single
  <2>1. call.got = <<>> /\ q = FirstQuery(call.tool)
    BY <1>1, <1>9, OpenSingle
  <2>2. next.got = <<b>>
    BY <1>7, <2>1
  <2>3. q \in DOMAIN Names \ {"ping"}
    <3>1. FirstQuery(call.tool) \in {"similar", "search", "insert"}
      BY <1>9, FirstQueries DEF Single
    <3>2. QED
      BY <2>1, <3>1 DEF Names
  <2>4. tables # "migrated"
    BY <1>1, <2>3, QueryIsRefused DEF Made
  <2> DEFINE last == [next EXCEPT !.phase = "answered", !.got = <<>>,
                                  !.reply = {Value(next.tool, next.input, next.got)}]
  <2>5. /\ last.tool = next.tool /\ last.input = next.input /\ last.knew = next.knew
        /\ next.tool \in {"testops_search_knowledge", "testops_add_knowledge"} => last.reply = {b}
        /\ next.tool = "testops_analyze_failure" => \A r \in last.reply : r.similar = b
    BY <1>7, <2>2, SingleAnswer
  <2> HIDE DEF last
  <2>6. \A i \in last.knew : i \in DOMAIN knowledge /\ knowledge'[i] = knowledge[i]
    BY <1>4, <1>6, <1>7, <2>5 DEF RowsStand, Grew
  <2>7. IsKnowledge(knowledge)
    BY DEF McpIInv
  <2>8. ASSUME call.tool = "testops_analyze_failure" PROVE AnswerKnown(knowledge', tables, last)
    <3>1. q = "similar"
      BY <2>1, <2>8, FirstQueries
    <3>2. b = FindSimilarRecords(call.input.testName)
      BY <2>1, <3>1 DEF Brings
    <3>3. \A i \in last.knew : knowledge'[i].test = last.input.testName => Finds(b, i, 5)
      BY <1>7, <2>5, <2>6, <2>7, <3>2, SimilarFound
    <3>4. last.tool = "testops_analyze_failure" /\ \A r \in last.reply : r.similar = b
      BY <1>7, <2>5, <2>8
    <3>5. FoundBy(knowledge', last)
      BY <3>3, <3>4 DEF FoundBy
    <3>6. QED
      BY <2>4, <3>4, <3>5 DEF AnswerKnown
  <2>9. ASSUME call.tool = "testops_search_knowledge" PROVE AnswerKnown(knowledge', tables, last)
    <3>1. q = "search"
      BY <2>1, <2>9, FirstQueries
    <3>2. b = searchKnowledgeTool(call.input)
      BY <3>1 DEF Brings
    <3>3. call.input.limit \in Nat
      BY <1>4, <2>9 DEF OpenKnown
    <3>4. \A i \in last.knew :
            (last.input.query = knowledge'[i].test /\ "category" \notin DOMAIN last.input) =>
              Finds(b, i, last.input.limit)
      BY <1>7, <2>5, <2>6, <2>7, <3>2, <3>3, SearchFound
    <3>5. last.tool = "testops_search_knowledge" /\ last.reply = {b}
      BY <1>7, <2>5, <2>9
    <3>6. FoundBy(knowledge', last)
      BY <3>4, <3>5 DEF FoundBy
    <3>7. QED
      BY <2>4, <3>5, <3>6 DEF AnswerKnown
  <2>10. ASSUME call.tool = "testops_add_knowledge" PROVE AnswerKnown(knowledge', tables, last)
    <3>1. q = "insert"
      BY <2>1, <2>10, FirstQueries
    <3>2. b = Len(knowledge) + 1
      BY <3>1 DEF Brings
    <3>3. last.tool = "testops_add_knowledge" /\ last.reply = {b}
      BY <1>7, <2>5, <2>10
    <3>4. FoundBy(knowledge', last)
      BY <3>3 DEF FoundBy
    <3>5. QED
      BY <1>6, <2>4, <3>1, <3>2, <3>3, <3>4 DEF AnswerKnown
  <2>11. AnswerKnown(knowledge', tables, last)
    BY <1>9, <2>8, <2>9, <2>10 DEF Single
  <2>12. QED
    BY <1>5, <1>6, <1>7, <1>8, <1>9, <2>2, <2>11, SingleContinues DEF last
<1>10. CASE call.tool \notin Single
  <2>1. CASE tables = "migrated" /\ call.tool \notin Free
    <3>1. call.got = <<>> /\ call.tool \in DOMAIN InputSchema
      BY <1>4, <2>1 DEF OpenKnown
    <3>2. q = FirstQuery(call.tool)
      BY <3>1, FirstIs
    <3>3. FirstQuery(call.tool) \in DOMAIN Names \ {"ping"}
      BY <2>1, <3>1, FirstQueries
    <3>4. QED
      BY <1>1, <2>1, <3>2, <3>3, QueryIsRefused DEF Made
  <2>2. CASE ~(tables = "migrated" /\ call.tool \notin Free)
    <3>1. Loose(tables, next)
      BY <1>4, <1>7, <1>10, <2>2 DEF Loose, OpenKnown
    <3>2. QED
      BY <1>5, <1>6, <1>7, <1>8, <3>1, LooseContinues
  <2>3. QED
    BY <2>1, <2>2
<1>11. QED
  BY <1>9, <1>10
\* A query without an answer
LEMMA McpMissed ==
  ASSUME RowsStand, NEW c \in Agent, mcpCall[c].phase = "open", Failed(c, QueryOf(mcpCall[c]))
  PROVE  McpIInv'
<1> DEFINE call == mcpCall[c]
           q == QueryOf(call)
           b == IF q = "ping" THEN "unhealthy" ELSE {}
           next == [call EXCEPT !.got = Append(call.got, b), !.unheard = TRUE]
<1>1. CallKnown(knowledge, tables, call) /\ McpIInv
  BY DEF RowsStand, McpIInv
<1>2. IsCall(call) /\ call.knew \subseteq DOMAIN knowledge /\ OpenKnown(tables, call)
  BY <1>1 DEF CallKnown
<1>3. CASE q \notin Tolerated
  BY <1>3, ErrorKnown DEF Failed
<1>4. CASE q \in Tolerated
  <2>1. Continue(c, next)
    BY <1>4 DEF Failed
  <2>2. /\ IsCall(next) /\ next.got = Append(call.got, b) /\ next.tool = call.tool
        /\ next.phase = "open" /\ next.knew = call.knew /\ next.unheard = TRUE
    <3>1. /\ IsCall(next) /\ next.got = Append(call.got, b) /\ next.unheard = TRUE
          /\ Same(next, call, {"got", "unheard"})
      BY <1>2, CallUnheard
    <3>2. call.phase = "open"
      OBVIOUS
    <3> HIDE DEF next, call
    <3>3. QED
      BY <3>1, <3>2 DEF Same, CallFields
  <2> HIDE DEF next
  <2>3. next.knew \subseteq DOMAIN knowledge'
    BY <1>2, <2>2 DEF RowsStand, Grew
  <2>4. CASE call.tool \in Single
    <3>1. call.got = <<>> /\ q = FirstQuery(call.tool)
      BY <1>1, <2>4, OpenSingle
    <3>2. call.tool = "testops_analyze_failure" /\ q = "similar"
      BY <1>4, <2>4, <3>1, FirstQueries DEF Single, Tolerated
    <3>3. b = {}
      BY <3>2
    <3> HIDE DEF b
    <3>4. next.got = <<b>>
      BY <2>2, <3>1
    <3> DEFINE last == [next EXCEPT !.phase = "answered", !.got = <<>>,
                                    !.reply = {Value(next.tool, next.input, next.got)}]
    <3>5. /\ last.tool = next.tool /\ last.unheard = next.unheard
          /\ next.tool = "testops_analyze_failure" => \A r \in last.reply : r.similar = b
      BY <2>2, <3>4, SingleAnswer
    <3> HIDE DEF last
    <3>6. last.tool = "testops_analyze_failure" /\ last.unheard = TRUE /\ \A r \in last.reply : r.similar = {}
      BY <2>2, <3>2, <3>3, <3>5
    <3>7. FoundBy(knowledge', last)
      BY <3>6 DEF FoundBy
    <3>8. AnswerKnown(knowledge', tables, last)
      BY <3>6, <3>7 DEF AnswerKnown, Free
    <3>9. QED
      BY <2>1, <2>2, <2>3, <2>4, <3>4, <3>8, SingleContinues DEF last
  <2>5. CASE call.tool \notin Single
    <3>1. tables = "migrated" => call.tool \in Free
      <4>1. SUFFICES ASSUME call.tool \notin Free, tables = "migrated" PROVE FALSE
        OBVIOUS
      <4>2. call.got = <<>> /\ call.tool \in DOMAIN InputSchema
        BY <1>2, <4>1 DEF OpenKnown
      <4>3. q = FirstQuery(call.tool)
        BY <4>2, FirstIs
      <4>4. QED
        BY <1>4, <4>1, <4>2, <4>3, FirstQueries
    <3>2. Loose(tables, next)
      BY <1>2, <2>2, <2>5, <3>1 DEF Loose, OpenKnown
    <3>3. QED
      BY <2>1, <2>2, <2>3, <3>2, LooseContinues
  <2>6. QED
    BY <2>4, <2>5
<1>5. QED
  BY <1>3, <1>4

LEMMA AcknowledgedKnown ==
  ASSUME McpIInv
  PROVE  Acknowledged \subseteq DOMAIN knowledge
<1>1. ASSUME NEW c \in Agent, mcpCall[c].phase = "answered", mcpCall[c].tool = "testops_add_knowledge"
      PROVE  mcpCall[c].reply \subseteq DOMAIN knowledge
  <2>1. CallKnown(knowledge, tables, mcpCall[c])
    BY DEF McpIInv
  <2>2. AnswerKnown(knowledge, tables, mcpCall[c])
    BY <1>1, <2>1 DEF CallKnown
  <2>3. QED
    BY <1>1, <2>2 DEF AnswerKnown
<1>2. QED
  BY <1>1 DEF Acknowledged

LEMMA LimitParsed ==
  ASSUME NEW args \in Inputs["testops_search_knowledge"]
  PROVE  Parsed(args, InputSchema["testops_search_knowledge"]).limit \in Nat
<1> DEFINE schema == InputSchema["testops_search_knowledge"]
<1>1. schema = [required |-> {"query"}, defaults |-> [limit |-> 10, onlyResolved |-> TRUE]]
  BY DEF InputSchema, SearchKnowledgeInputSchema, Fields
<1>2. "limit" \in DOMAIN schema.defaults /\ schema.defaults["limit"] = 10
  BY <1>1
<1>3. "limit" \in DOMAIN args => args["limit"] = 1
  BY DEF Inputs
<1> HIDE DEF schema
<1>4. Parsed(args, schema)["limit"] = IF "limit" \in DOMAIN args THEN args["limit"] ELSE 10
  BY <1>2 DEF Parsed
<1>5. QED
  BY <1>3, <1>4 DEF schema

LEMMA McpCalled ==
  ASSUME McpIInv, NEW c \in Agent, NEW tool \in DOMAIN InputSchema, NEW args \in Inputs[tool],
         CallTool(c, tool, args)
  PROVE  McpIInv'
<1> DEFINE parsed == Parsed(args, InputSchema[tool])
           given == "failures" \in DOMAIN args /\ args.failures # <<>>
           call == [NotMade EXCEPT !.tool = tool, !.input = parsed, !.phase = "open",
                                   !.knew = Acknowledged]
           refused == \/ ~(InputSchema[tool].required \subseteq DOMAIN args)
                      \/ tool = "testops_batch_analyze" /\ "testRunId" \notin DOMAIN args /\ ~given
           begun == tool = "testops_batch_analyze" /\ "testRunId" \notin DOMAIN args /\ given
<1>1. RowsStand
  <2>1. Grew(knowledge, knowledge)
    BY GrewNot DEF McpIInv
  <2>2. QED
    BY <2>1 DEF RowsStand, CallTool, McpIInv
<1>2. begun => ~refused
  <2>1. InputSchema["testops_batch_analyze"].required = {}
    BY DEF InputSchema, BatchAnalyzeInputSchema, Fields
  <2>2. QED
    BY <2>1
<1>3. /\ IsCall(call) /\ call.phase = "open" /\ call.got = <<>> /\ call.tool = tool
      /\ call.input = parsed /\ call.knew = Acknowledged
  <2>1. PICK knew : knew = Acknowledged
    OBVIOUS
  <2>2. PICK in : in = parsed
    OBVIOUS
  <2>3. PICK one : one = [NotMade EXCEPT !.tool = tool, !.input = in, !.phase = "open", !.knew = knew]
    OBVIOUS
  <2>4. /\ IsCall(one) /\ one.phase = "open" /\ one.got = <<>> /\ one.tool = tool
        /\ one.input = in /\ one.knew = knew
    BY <2>3 DEF IsCall, NotMade, CallFields
  <2>5. one = call
    BY <2>1, <2>2, <2>3
  <2> HIDE DEF call, parsed
  <2>6. QED
    BY <2>1, <2>2, <2>4, <2>5
<1>4. refused => mcpCall' = [mcpCall EXCEPT ![c] = [call EXCEPT !.phase = "failed"]]
  BY <1>2 DEF CallTool
<1>5. begun => Continue(c, [call EXCEPT !.got = <<args.failures>>])
  BY <1>2 DEF CallTool
<1>6. ~refused /\ ~begun => mcpCall' = [mcpCall EXCEPT ![c] = call]
  BY DEF CallTool
<1> HIDE DEF call, refused, begun
<1>7. call.knew \subseteq DOMAIN knowledge'
  BY <1>1, <1>3, AcknowledgedKnown DEF RowsStand, Grew
<1>8. CASE refused
  <2>1. LET b == [call EXCEPT !.phase = "failed"] IN
        IsCall(b) /\ b.phase = "failed" /\ b.knew = call.knew
    BY <1>3, CallFailed
  <2>2. QED
    BY <1>1, <1>7, <1>8, <1>4, <2>1, FailedKnown
<1>9. CASE begun
  <2> DEFINE next == [call EXCEPT !.got = <<args.failures>>]
  <2>1. IsCall(next) /\ next.tool = tool /\ next.phase = "open" /\ next.knew = call.knew
    <3>1. IsCall(next) /\ Same(next, call, {"got"})
      BY <1>3, CallGot
    <3> HIDE DEF next
    <3>2. QED
      BY <1>3, <3>1 DEF Same, CallFields
  <2>2. Continue(c, next)
    BY <1>5, <1>9
  <2> HIDE DEF next
  <2>3. Loose(tables, next)
    BY <1>9, <2>1 DEF Loose, Single, Free, begun
  <2>4. QED
    BY <1>1, <1>7, <2>1, <2>2, <2>3, LooseContinues
<1>10. CASE ~refused /\ ~begun
  <2>1. tool = "testops_search_knowledge" => call.input.limit \in Nat
    BY <1>3, LimitParsed
  <2>2. OpenKnown(tables, call)
    BY <1>3, <2>1 DEF OpenKnown
  <2>3. CallKnown(knowledge', tables, call)
    BY <1>3, <1>7, <2>2 DEF CallKnown
  <2>4. QED
    BY <1>1, <1>10, <1>6, <2>3, McpChange DEF RowsStand
<1>11. QED
  BY <1>8, <1>9, <1>10

LEMMA McpStep == ASSUME McpIInv, [McpNext]_mcpVars PROVE McpIInv'
<1>1. Grew(knowledge, knowledge) /\ (tables = "migrated" => knowledge = <<>>)
  BY GrewNot DEF McpIInv
<1>2. ASSUME NEW c \in Agent, NEW tool \in DOMAIN InputSchema, NEW args \in Inputs[tool],
             CallTool(c, tool, args)
      PROVE  McpIInv'
  BY <1>2, McpCalled
<1>3. ASSUME NEW c \in Agent, CallUnknownTool(c) PROVE McpIInv'
  <2> DEFINE b == [mcpCall[c] EXCEPT !.tool = "unknown", !.phase = "failed"]
  <2>1. mcpCall = [d \in Agent |-> mcpCall[d]] /\ CallKnown(knowledge, tables, mcpCall[c])
    BY DEF McpIInv
  <2>2. mcpCall' = [mcpCall EXCEPT ![c] = b]
    BY <1>3, <2>1 DEF CallUnknownTool
  <2>3. RowsStand
    BY <1>1, <1>3 DEF RowsStand, CallUnknownTool
  <2>4. IsCall(b) /\ b.phase = "failed" /\ b.knew = mcpCall[c].knew
    BY <2>1, CallUnknown DEF CallKnown
  <2>5. b.knew \subseteq DOMAIN knowledge'
    BY <1>3, <2>1, <2>4 DEF CallKnown, CallUnknownTool
  <2> HIDE DEF b
  <2>6. QED
    BY <2>2, <2>3, <2>4, <2>5, FailedKnown
<1>4. ASSUME NEW c \in Agent, QueryAnswered(c) PROVE McpIInv'
  BY <1>4, McpAnswered
<1>5. ASSUME NEW c \in Agent, QueryUnanswered(c) PROVE McpIInv'
  <2>1. CASE knowledge' = knowledge
    <3>1. RowsStand
      BY <1>1, <1>5, <2>1 DEF RowsStand, QueryUnanswered
    <3>2. QED
      BY <1>5, <3>1, McpMissed DEF QueryUnanswered
  <2>2. CASE Made(QueryOf(mcpCall[c]), mcpCall[c].input)
    <3>1. RowsStand
      BY <1>5, <2>2, MadeGrows DEF RowsStand, QueryUnanswered
    <3>2. QED
      BY <1>5, <3>1, McpMissed DEF QueryUnanswered
  <2>3. QED
    BY <1>5, <2>1, <2>2 DEF QueryUnanswered
<1>6. ASSUME NEW c \in Agent, QueryRefused(c) PROVE McpIInv'
  <2>1. RowsStand
    BY <1>1, <1>6 DEF RowsStand, QueryRefused
  <2>2. QED
    BY <1>6, <2>1, McpMissed DEF QueryRefused
<1>7. CASE UseMetered
  BY <1>7 DEF UseMetered, McpIInv
<1>8. CASE UNCHANGED mcpVars
  BY <1>8 DEF mcpVars, McpIInv
<1>9. QED
  BY <1>2, <1>3, <1>4, <1>5, <1>6, <1>7, <1>8 DEF McpNext
-----------------------------------------------------------------------------
LEMMA FoundShown == ASSUME McpIInv PROVE AddedIsFound
<1>1. ASSUME NEW c \in Agent PROVE FoundBy(knowledge, mcpCall[c])
  <2>1. CallKnown(knowledge, tables, mcpCall[c])
    BY DEF McpIInv
  <2>2. CASE mcpCall[c].phase = "answered"
    BY <2>1, <2>2 DEF CallKnown, AnswerKnown
  <2>3. CASE mcpCall[c].phase # "answered"
    BY <2>3 DEF FoundBy
  <2>4. QED
    BY <2>2, <2>3
<1>2. QED
  BY <1>1 DEF AddedIsFound, FoundBy, Finds

LEMMA TablesShown == ASSUME McpIInv PROVE OnlyWhatNeedsNoTable
<1>1. tools = InputSchema
  BY DEF tools, InputSchema, AnalyzeInputSchema, BatchAnalyzeInputSchema, SearchKnowledgeInputSchema,
         AddKnowledgeInputSchema, GetPipelineStatsInputSchema, GetTestHistoryInputSchema,
         GetCostStatsInputSchema, NoFields, Described, analyzeToolDefinition,
         batchAnalyzeToolDefinition, searchKnowledgeToolDefinition, addKnowledgeToolDefinition,
         getKnowledgeStatsToolDefinition, getPipelineStatsToolDefinition,
         getTestHistoryToolDefinition, getCostStatsToolDefinition, healthCheckToolDefinition
<1>2. ASSUME tables = "migrated"
      PROVE  /\ knowledge = <<>>
             /\ \A c \in Agent : mcpCall[c].phase = "answered" =>
                  mcpCall[c].tool \in {"testops_analyze_failure", "testops_batch_analyze",
                                       "testops_health_check"}
             /\ \A r \in RepliesOf("testops_analyze_failure") : r.similar = {}
  <2>1. \A c \in Agent : mcpCall[c].phase = "answered" => AnswerKnown(knowledge, tables, mcpCall[c])
    BY DEF McpIInv, CallKnown
  <2>2. \A c \in Agent : mcpCall[c].phase = "answered" => mcpCall[c].tool \in Free
    BY <1>2, <2>1 DEF AnswerKnown
  <2>3. \A c \in Agent : mcpCall[c].phase = "answered" /\ mcpCall[c].tool = "testops_analyze_failure" =>
          \A r \in mcpCall[c].reply : r.similar = {}
    BY <1>2, <2>1 DEF AnswerKnown
  <2>4. knowledge = <<>>
    BY <1>2 DEF McpIInv
  <2>5. QED
    BY <2>2, <2>3, <2>4 DEF Free, RepliesOf
<1>3. QED
  BY <1>1, <1>2 DEF OnlyWhatNeedsNoTable
-----------------------------------------------------------------------------
\* The figures that are of different moments

\* What adds the numbers one by one comes to their sum
LEMMA TotalIs ==
  ASSUME NEW n \in Nat, NEW s \in [1..n -> Nat], NEW g \in [0..n -> Nat], g[0] = 0,
         \A i \in 1..n : g[i] = g[i - 1] + s[i]
  PROVE  Total(s) = g[n] /\ s \in Seq(Nat)
<1>1. s \in Seq(Nat) /\ Len(s) = n
  OBVIOUS
<1>2. PICK h \in [0..n -> Nat] :
        h[0] = 0 /\ (\A i \in 1..n : h[i] = h[i - 1] + s[i]) /\ Total(s) = h[n]
  BY <1>1, TotalDefined
<1> DEFINE S == {i \in 0..n : g[i] = h[i]}
<1>3. 0 \in S
  BY <1>2
<1>4. ASSUME NEW i \in 0..(n - 1), i \in S PROVE i + 1 \in S
  <2>1. i + 1 \in 1..n /\ (i + 1) - 1 = i
    OBVIOUS
  <2>2. g[i + 1] = g[i] + s[i + 1] /\ h[i + 1] = h[i] + s[i + 1]
    BY <1>2, <2>1
  <2>3. QED
    BY <1>4, <2>1, <2>2
<1>5. \A i \in 0..n : i \in S
  <2> HIDE DEF S
  <2> QED
    BY <1>3, <1>4, SegmentInduction
<1>6. QED
  BY <1>1, <1>2, <1>5

LEMMA TotalOfZeros ==
  ASSUME NEW n \in Nat, NEW z \in [1..n -> {0}]
  PROVE  Total(z) = 0
<1> DEFINE g == [i \in 0..n |-> 0]
<1>1. z \in [1..n -> Nat] /\ g \in [0..n -> Nat] /\ g[0] = 0 /\ g[n] = 0
  OBVIOUS
<1>2. \A i \in 1..n : g[i] = g[i - 1] + z[i]
  OBVIOUS
<1> HIDE DEF g
<1>3. QED
  BY <1>1, <1>2, TotalIs

LEMMA TotalOfOnes ==
  ASSUME NEW n \in Nat
  PROVE  Total([i \in 1..n |-> 1]) = n
<1> DEFINE g == [i \in 0..n |-> i]
           s == [i \in 1..n |-> 1]
<1>1. s \in [1..n -> Nat] /\ g \in [0..n -> Nat] /\ g[0] = 0 /\ g[n] = n
  OBVIOUS
<1>2. \A i \in 1..n : g[i] = g[i - 1] + s[i]
  OBVIOUS
<1> HIDE DEF g, s
<1>3. Total(s) = n
  BY <1>1, <1>2, TotalIs
<1>4. QED
  BY <1>3 DEF s

LEMMA TotalAppend ==
  ASSUME NEW n \in Nat, NEW s \in [1..n -> Nat], NEW x \in Nat, NEW t \in [1..(n + 1) -> Nat],
         \A i \in 1..n : t[i] = s[i], t[n + 1] = x
  PROVE  Total(t) = Total(s) + x
<1>1. s \in Seq(Nat) /\ Len(s) = n
  OBVIOUS
<1>2. PICK g \in [0..n -> Nat] :
        g[0] = 0 /\ (\A i \in 1..n : g[i] = g[i - 1] + s[i]) /\ Total(s) = g[n]
  BY <1>1, TotalDefined
<1> DEFINE h == [i \in 0..(n + 1) |-> IF i = n + 1 THEN g[n] + x ELSE g[i]]
<1>3. h \in [0..(n + 1) -> Nat] /\ h[0] = 0 /\ h[n + 1] = g[n] + x
  BY <1>2
<1>4. ASSUME NEW i \in 1..(n + 1) PROVE h[i] = h[i - 1] + t[i]
  <2>1. CASE i = n + 1
    BY <1>3, <2>1
  <2>2. CASE i # n + 1
    BY <1>2, <2>2
  <2>3. QED
    BY <2>1, <2>2
<1> HIDE DEF h
<1>5. n + 1 \in Nat
  OBVIOUS
<1>6. Total(t) = h[n + 1]
  BY <1>3, <1>4, <1>5, TotalIs
<1>7. QED
  BY <1>2, <1>3, <1>6

\* Sums are added position by position
LEMMA TotalPlus ==
  ASSUME NEW n \in Nat, NEW f \in [1..n -> Nat], NEW g \in [1..n -> Nat]
  PROVE  Total([i \in 1..n |-> f[i] + g[i]]) = Total(f) + Total(g)
<1> DEFINE h == [i \in 1..n |-> f[i] + g[i]]
<1>1. f \in Seq(Nat) /\ g \in Seq(Nat) /\ Len(f) = n /\ Len(g) = n /\ h \in [1..n -> Nat]
  OBVIOUS
<1>2. PICK sf \in [0..n -> Nat] :
        sf[0] = 0 /\ (\A i \in 1..n : sf[i] = sf[i - 1] + f[i]) /\ Total(f) = sf[n]
  BY <1>1, TotalDefined
<1>3. PICK sg \in [0..n -> Nat] :
        sg[0] = 0 /\ (\A i \in 1..n : sg[i] = sg[i - 1] + g[i]) /\ Total(g) = sg[n]
  BY <1>1, TotalDefined
<1> DEFINE sh == [i \in 0..n |-> sf[i] + sg[i]]
<1>4. sh \in [0..n -> Nat] /\ sh[0] = 0 /\ sh[n] = sf[n] + sg[n]
  BY <1>2, <1>3
<1>5. \A i \in 1..n : sh[i] = sh[i - 1] + h[i]
  BY <1>2, <1>3
<1> HIDE DEF h, sh
<1>6. Total(h) = sh[n]
  BY <1>1, <1>4, <1>5, TotalIs
<1>7. QED
  BY <1>2, <1>3, <1>4, <1>6 DEF h

\* What weighs the positions of a list is a measure
Among(w, n, A) == [i \in 1..n |-> IF i \in A THEN w[i] ELSE 0]

LEMMA WeightsAddUp ==
  ASSUME NEW n \in Nat, NEW w \in [1..n -> Nat]
  PROVE  IsMeasure([A \in SUBSET (1..n) |-> Total(Among(w, n, A))], 1..n)
<1>1. \A A : Among(w, n, A) \in [1..n -> Nat] /\ Among(w, n, A) \in Seq(Nat)
  BY DEF Among
<1>2. \A A : Total(Among(w, n, A)) \in Nat
  BY <1>1, TotalTyped
<1>3. Total(Among(w, n, {})) = 0
  <2>1. Among(w, n, {}) \in [1..n -> {0}]
    BY DEF Among
  <2>2. QED
    BY <2>1, TotalOfZeros
<1>4. ASSUME NEW A \in SUBSET (1..n), NEW B \in SUBSET (1..n), A \intersect B = {}
      PROVE  Total(Among(w, n, A \union B)) = Total(Among(w, n, A)) + Total(Among(w, n, B))
  <2> DEFINE f == Among(w, n, A)
             g == Among(w, n, B)
  <2>1. Among(w, n, A \union B) = [i \in 1..n |-> f[i] + g[i]]
    BY <1>4 DEF Among
  <2>2. f \in [1..n -> Nat] /\ g \in [1..n -> Nat]
    BY <1>1
  <2> HIDE DEF f, g
  <2>3. Total([i \in 1..n |-> f[i] + g[i]]) = Total(f) + Total(g)
    BY <2>2, TotalPlus
  <2>4. QED
    BY <2>1, <2>3 DEF f, g
<1>5. QED
  BY <1>2, <1>3, <1>4 DEF IsMeasure

\* The weight of each kind, added over the kinds, is the weight of the list
ShareOf(w, kind, n, k) == Total([i \in 1..n |-> IF kind[i] = k THEN w[i] ELSE 0])
IsSplit(C, key, share, w, kind, n) ==
  /\ IsFiniteSet(C)
  /\ \A r \in C : share[r] = ShareOf(w, kind, n, key[r])
  /\ \A r, t \in C : key[r] = key[t] => r = t
  /\ \A i \in 1..n : \E r \in C : key[r] = kind[i]

SharesTotal(C, share) == Total([m \in DOMAIN SetToSeq(C) |-> share[SetToSeq(C)[m]]])

LEMMA KindsWeighAll ==
  ASSUME NEW n \in Nat, NEW w \in [1..n -> Nat], NEW C, NEW key, NEW share, NEW kind,
         IsSplit(C, key, share, w, kind, n)
  PROVE  SharesTotal(C, share) = Total(w)
<1> DEFINE mu == [A \in SUBSET (1..n) |-> Total(Among(w, n, A))]
           part == [r \in C |-> {i \in 1..n : kind[i] = key[r]}]
           e == SetToSeq(C)
<1>1. IsMeasure(mu, 1..n)
  BY WeightsAddUp
<1>2. IsFiniteSet(C) /\ part \in [C -> SUBSET (1..n)]
  BY DEF IsSplit
<1>3. \A r, t \in C : r # t => part[r] \intersect part[t] = {}
  BY DEF IsSplit
<1>4. \A i \in 1..n : \E r \in C : i \in part[r]
  BY DEF IsSplit
<1>5. \A r \in C : mu[part[r]] = share[r]
  <2>1. TAKE r \in C
  <2>2. mu[part[r]] = Total(Among(w, n, part[r]))
    BY <1>2
  <2>3. Among(w, n, part[r]) = [i \in 1..n |-> IF kind[i] = key[r] THEN w[i] ELSE 0]
    BY DEF Among
  <2> HIDE DEF mu, part
  <2>4. QED
    BY <2>2, <2>3 DEF IsSplit, ShareOf
<1>6. mu[1..n] = Total(w)
  <2>1. Among(w, n, 1..n) = w
    BY DEF Among
  <2>2. QED
    BY <2>1
<1> HIDE DEF mu, part
<1>7. Total([m \in DOMAIN e |-> mu[part[e[m]]]]) = mu[1..n]
  <2> DEFINE I == 1..n
  <2>1. /\ IsMeasure(mu, I) /\ part \in [C -> SUBSET I] /\ \A i \in I : \E r \in C : i \in part[r]
    BY <1>1, <1>2, <1>4
  <2> HIDE DEF I
  <2>2. PICK J, nu, piece : J = I /\ nu = mu /\ piece = part
    OBVIOUS
  <2>3. /\ IsMeasure(nu, J) /\ piece \in [C -> SUBSET J] /\ IsFiniteSet(C)
        /\ \A r, t \in C : r # t => piece[r] \intersect piece[t] = {}
        /\ \A i \in J : \E r \in C : i \in piece[r]
    BY <1>2, <1>3, <2>1, <2>2
  <2>4. Total([m \in DOMAIN e |-> nu[piece[e[m]]]]) = nu[J]
    BY <2>3, SharesAddUp
  <2>5. Total([m \in DOMAIN e |-> mu[part[e[m]]]]) = mu[I]
    BY <2>2, <2>4
  <2>6. QED
    BY <2>5 DEF I
<1> HIDE DEF e
<1>8. [m \in DOMAIN e |-> mu[part[e[m]]]] = [m \in DOMAIN e |-> share[e[m]]]
  <2>1. \A m \in DOMAIN e : e[m] \in C
    BY <1>2, SetToSeqIs DEF e
  <2>2. QED
    BY <1>5, <2>1
<1>9. Total([m \in DOMAIN e |-> share[e[m]]]) = Total(w)
  BY <1>6, <1>7, <1>8
<1>10. QED
  BY <1>9 DEF e, SharesTotal

\* A set of rows, one for every kind in the list
AreRowsOf(C, f, key, share, w, kind, n) ==
  /\ DOMAIN f = 1..n /\ C = {f[i] : i \in 1..n}
  /\ \A i \in 1..n : key[f[i]] = kind[i] /\ share[f[i]] = ShareOf(w, kind, n, kind[i])
  /\ \A i, j \in 1..n : kind[i] = kind[j] => f[i] = f[j]

LEMMA RowsOfKinds ==
  ASSUME NEW n \in Nat, NEW w \in [1..n -> Nat], NEW C, NEW f, NEW key, NEW share, NEW kind,
         AreRowsOf(C, f, key, share, w, kind, n)
  PROVE  IsFiniteSet(C) /\ SharesTotal(C, share) = Total(w)
<1> USE DEF AreRowsOf
<1>1. IsFiniteSet(C)
  <2> DEFINE g == [i \in 1..n |-> f[i]]
  <2>1. g \in Surjection(1..n, C)
    BY DEF Surjection
  <2>2. IsFiniteSet(1..n)
    BY FS_Interval
  <2> HIDE DEF g
  <2>3. QED
    BY <2>1, <2>2, FS_Surjection
<1>2. IsSplit(C, key, share, w, kind, n)
  <2>1. \A r \in C : \E i \in 1..n : r = f[i]
    OBVIOUS
  <2>2. \A r \in C : share[r] = ShareOf(w, kind, n, key[r])
    BY <2>1
  <2>3. \A r, t \in C : key[r] = key[t] => r = t
    BY <2>1
  <2>4. \A i \in 1..n : \E r \in C : key[r] = kind[i]
    OBVIOUS
  <2>5. QED
    BY <1>1, <2>2, <2>3, <2>4 DEF IsSplit
<1>3. SharesTotal(C, share) = Total(w)
  BY <1>2, KindsWeighAll
<1>4. QED
  BY <1>1, <1>3
-----------------------------------------------------------------------------
\* What the rows of use come to, and the lists that a call is given of them and of knowledge
Spent(m) == Total([i \in DOMAIN m |-> m[i].cost])
CountOf(C) == SumOf(SetToSeq(C), LAMBDA r : r.count)
CostOf(C) == SumOf(SetToSeq(C), LAMBDA r : r.cost)

\* The backend meters every use alike
IsMetered(m) == m \in Seq({[feature |-> "rca", cost |-> 3]})

LEMMA CategoriesCount ==
  ASSUME IsKnowledge(knowledge), NEW in, NEW got, NEW C \in Brings("categories", in, got)
  PROVE  CountOf(C) = Len(knowledge)
<1> DEFINE n == Len(knowledge)
           w == [i \in 1..n |-> 1]
           kind == [i \in 1..n |-> knowledge[i].category]
           f == [i \in 1..n |-> [category |-> kind[i], count |-> ShareOf(w, kind, n, kind[i])]]
           key == [r \in C |-> r.category]
           share == [r \in C |-> r.count]
<1>1. n \in Nat /\ DOMAIN knowledge = 1..n
  BY DEF IsKnowledge
<1>2. C = {f[i] : i \in 1..n}
  <2> DEFINE Row(k) == [category |-> k, count |-> SumOf(knowledge, LAMBDA e : IF e.category = k THEN 1 ELSE 0)]
  <2>1. C = {Row(k) : k \in {knowledge[i].category : i \in DOMAIN knowledge}}
    BY DEF Brings
  <2>2. ASSUME NEW k PROVE SumOf(knowledge, LAMBDA e : IF e.category = k THEN 1 ELSE 0) = ShareOf(w, kind, n, k)
    <3>1. [i \in DOMAIN knowledge |-> IF knowledge[i].category = k THEN 1 ELSE 0]
            = [i \in 1..n |-> IF kind[i] = k THEN w[i] ELSE 0]
      BY <1>1
    <3>2. SumOf(knowledge, LAMBDA e : IF e.category = k THEN 1 ELSE 0)
            = Added([i \in DOMAIN knowledge |-> IF knowledge[i].category = k THEN 1 ELSE 0])
      BY DEF SumOf
    <3> HIDE DEF n, w, kind
    <3>3. QED
      BY <3>1, <3>2, AddedIsTotal DEF ShareOf
  <2>3. \A i \in 1..n : Row(knowledge[i].category) = f[i]
    <3> HIDE DEF n, w
    <3> QED
      BY <2>2
  <2> HIDE DEF Row, f, n
  <2>4. QED
    BY <1>1, <2>1, <2>3
<1>3. \A i \in 1..n : key[f[i]] = kind[i] /\ share[f[i]] = ShareOf(w, kind, n, kind[i])
  <2>1. \A i \in 1..n : f[i] \in C
    BY <1>2
  <2> HIDE DEF n, w, kind
  <2>2. QED
    BY <2>1
<1>4. \A i, j \in 1..n : kind[i] = kind[j] => f[i] = f[j]
  <2> HIDE DEF n, w, kind
  <2> QED
    OBVIOUS
<1>5. w \in [1..n -> Nat] /\ DOMAIN f = 1..n
  OBVIOUS
<1>6. Total(w) = n
  <2> HIDE DEF n
  <2> QED
    BY <1>1, TotalOfOnes
<1>7. IsFiniteSet(C) /\ SharesTotal(C, share) = n
  <2>1. AreRowsOf(C, f, key, share, w, kind, n)
    <3> HIDE DEF n, w, kind, f, key, share
    <3> QED
      BY <1>2, <1>3, <1>4, <1>5 DEF AreRowsOf
  <2> HIDE DEF n, w, kind, f, key, share
  <2>2. QED
    BY <1>1, <1>5, <1>6, <2>1, RowsOfKinds
<1>8. CountOf(C) = SharesTotal(C, share)
  <2> DEFINE e == SetToSeq(C)
  <2>1. \A m \in DOMAIN e : e[m] \in C
    BY <1>7, SetToSeqIs
  <2>2. [m \in DOMAIN e |-> e[m].count] = [m \in DOMAIN e |-> share[e[m]]]
    BY <2>1
  <2>3. CountOf(C) = Added([m \in DOMAIN e |-> e[m].count])
    BY DEF CountOf, SumOf
  <2>4. QED
    BY <2>2, <2>3, AddedIsTotal DEF SharesTotal
<1>9. QED
  BY <1>7, <1>8

LEMMA BreakdownCosts ==
  ASSUME IsMetered(metered), NEW in, NEW got, NEW C \in Brings("breakdown", in, got)
  PROVE  CostOf(C) = Spent(metered) /\ (C # {} => metered # <<>>)
<1> DEFINE n == Len(metered)
           w == [i \in 1..n |-> metered[i].cost]
           kind == [i \in 1..n |-> metered[i].feature]
           f == [i \in 1..n |-> [feature |-> kind[i], cost |-> ShareOf(w, kind, n, kind[i])]]
           key == [r \in C |-> r.feature]
           share == [r \in C |-> r.cost]
<1>1. n \in Nat /\ DOMAIN metered = 1..n
  BY DEF IsMetered
<1>2. C = {f[i] : i \in 1..n}
  <2> DEFINE Row(k) == [feature |-> k, cost |-> SumOf(metered, LAMBDA u : IF u.feature = k THEN u.cost ELSE 0)]
  <2>1. C = {Row(k) : k \in {metered[i].feature : i \in DOMAIN metered}}
    BY DEF Brings, UsageByFeature
  <2>2. ASSUME NEW k PROVE SumOf(metered, LAMBDA u : IF u.feature = k THEN u.cost ELSE 0) = ShareOf(w, kind, n, k)
    <3>1. [i \in DOMAIN metered |-> IF metered[i].feature = k THEN metered[i].cost ELSE 0]
            = [i \in 1..n |-> IF kind[i] = k THEN w[i] ELSE 0]
      BY <1>1
    <3>2. SumOf(metered, LAMBDA u : IF u.feature = k THEN u.cost ELSE 0)
            = Added([i \in DOMAIN metered |-> IF metered[i].feature = k THEN metered[i].cost ELSE 0])
      BY DEF SumOf
    <3> HIDE DEF n, w, kind
    <3>3. QED
      BY <3>1, <3>2, AddedIsTotal DEF ShareOf
  <2>3. \A i \in 1..n : Row(metered[i].feature) = f[i]
    <3> HIDE DEF n, w
    <3> QED
      BY <2>2
  <2> HIDE DEF Row, f, n
  <2>4. QED
    BY <1>1, <2>1, <2>3
<1>3. \A i \in 1..n : key[f[i]] = kind[i] /\ share[f[i]] = ShareOf(w, kind, n, kind[i])
  <2>1. \A i \in 1..n : f[i] \in C
    BY <1>2
  <2> HIDE DEF n, w, kind
  <2>2. QED
    BY <2>1
<1>4. \A i, j \in 1..n : kind[i] = kind[j] => f[i] = f[j]
  <2> HIDE DEF n, w, kind
  <2> QED
    OBVIOUS
<1>5. w \in [1..n -> Nat] /\ DOMAIN f = 1..n
  <2>1. \A i \in 1..n : metered[i].cost = 3
    BY <1>1 DEF IsMetered
  <2> HIDE DEF n
  <2>2. QED
    BY <2>1
<1>6. Total(w) = Spent(metered)
  BY <1>1 DEF Spent
<1>7. IsFiniteSet(C) /\ SharesTotal(C, share) = Total(w)
  <2>1. AreRowsOf(C, f, key, share, w, kind, n)
    <3> HIDE DEF n, w, kind, f, key, share
    <3> QED
      BY <1>2, <1>3, <1>4, <1>5 DEF AreRowsOf
  <2> HIDE DEF n, w, kind, f, key, share
  <2>2. QED
    BY <1>1, <1>5, <2>1, RowsOfKinds
<1>8. CostOf(C) = SharesTotal(C, share)
  <2> DEFINE e == SetToSeq(C)
  <2>1. \A m \in DOMAIN e : e[m] \in C
    BY <1>7, SetToSeqIs
  <2>2. [m \in DOMAIN e |-> e[m].cost] = [m \in DOMAIN e |-> share[e[m]]]
    BY <2>1
  <2>3. CostOf(C) = Added([m \in DOMAIN e |-> e[m].cost])
    BY DEF CostOf, SumOf
  <2>4. QED
    BY <2>2, <2>3, AddedIsTotal DEF SharesTotal
<1>9. C # {} => metered # <<>>
  <2>1. ASSUME metered = <<>> PROVE C = {}
    <3>1. 1..n = {}
      BY <2>1
    <3> HIDE DEF f, n
    <3>2. QED
      BY <1>2, <3>1
  <2>2. QED
    BY <2>1
<1>10. QED
  BY <1>6, <1>7, <1>8, <1>9

LEMMA ResolvedAreKnown ==
  ASSUME IsKnowledge(knowledge)
  PROVE  Cardinality({i \in DOMAIN knowledge : knowledge[i].resolved}) \in 0..Len(knowledge)
<1> DEFINE n == Len(knowledge)
           S == {i \in DOMAIN knowledge : knowledge[i].resolved}
<1>1. n \in Nat /\ DOMAIN knowledge = 1..n
  BY DEF IsKnowledge
<1>2. IsFiniteSet(1..n) /\ Cardinality(1..n) = n
  <2> HIDE DEF n
  <2>1. 1 \in Int /\ n \in Int
    BY <1>1
  <2>2. IsFiniteSet(1..n) /\ Cardinality(1..n) = IF 1 > n THEN 0 ELSE n - 1 + 1
    BY <2>1, FS_Interval
  <2>3. QED
    BY <1>1, <2>2
<1>3. S \subseteq 1..n
  BY <1>1
<1> HIDE DEF S, n
<1>4. Cardinality(S) \in Nat /\ Cardinality(S) <= n
  BY <1>2, <1>3, FS_Subset, FS_CardinalityType
<1>5. QED
  BY <1>1, <1>4 DEF S, n

LEMMA RecentAre ==
  ASSUME IsKnowledge(knowledge), Latest(DOMAIN knowledge, 5) = {}
  PROVE  Len(knowledge) = 0
<1> DEFINE n == Len(knowledge)
<1>1. n \in Nat /\ DOMAIN knowledge = 1..n
  BY DEF IsKnowledge
<1>2. ASSUME n # 0 PROVE FALSE
  <2>1. n \in DOMAIN knowledge /\ {j \in DOMAIN knowledge : j > n} = {}
    BY <1>1, <1>2
  <2>2. Cardinality({}) = 0
    BY FS_EmptySet
  <2> HIDE DEF n
  <2>3. n \in Latest(DOMAIN knowledge, 5)
    BY <2>1, <2>2 DEF Latest
  <2>4. QED
    BY <2>3
<1>3. QED
  BY <1>2

LEMMA DearestAre ==
  ASSUME IsMetered(metered), metered # <<>>
  PROVE  Dearest # {}
<1> DEFINE Above(i) == {j \in DOMAIN metered : metered[j].cost > metered[i].cost}
<1>1. DOMAIN metered = 1..Len(metered) /\ Len(metered) \in Nat /\ Len(metered) > 0
  BY DEF IsMetered
<1>2. \A i \in DOMAIN metered : metered[i].cost = 3
  BY <1>1 DEF IsMetered
<1>3. 1 \in DOMAIN metered /\ Above(1) = {}
  BY <1>1, <1>2
<1>4. Cardinality({}) = 0
  BY FS_EmptySet
<1>5. Dearest = {i \in DOMAIN metered : Cardinality(Above(i)) < 10}
  BY DEF Dearest
<1> HIDE DEF Above
<1>6. Cardinality(Above(1)) < 10
  <2>1. PICK above : above = Above(1)
    OBVIOUS
  <2>2. Cardinality(above) = 0
    BY <1>3, <1>4, <2>1
  <2>3. QED
    BY <2>1, <2>2
<1>7. QED
  BY <1>3, <1>5, <1>6

LEMMA SpentGrows ==
  ASSUME IsMetered(metered)
  PROVE  /\ Spent(metered) \in Nat
         /\ LET more == Append(metered, [feature |-> "rca", cost |-> 3]) IN
            IsMetered(more) /\ Spent(more) = Spent(metered) + 3 /\ more # <<>>
<1> DEFINE n == Len(metered)
           row == [feature |-> "rca", cost |-> 3]
           more == Append(metered, row)
           s == [i \in 1..n |-> metered[i].cost]
           t == [i \in 1..(n + 1) |-> more[i].cost]
<1>1. metered \in Seq({row})
  BY DEF IsMetered
<1>2. row.cost = 3
  OBVIOUS
<1> HIDE DEF row
<1>3. /\ n \in Nat /\ more \in Seq({row}) /\ Len(more) = n + 1 /\ more[n + 1] = row
      /\ DOMAIN more = 1..(n + 1) /\ DOMAIN metered = 1..n
      /\ \A i \in 1..n : more[i] = metered[i] /\ metered[i] = row
  BY <1>1
<1> HIDE DEF more, n
<1>4. /\ s \in [1..n -> Nat] /\ t \in [1..(n + 1) -> Nat]
      /\ \A i \in 1..n : t[i] = s[i]
      /\ t[n + 1] = 3
  BY <1>2, <1>3
<1>5. Spent(metered) = Total(s) /\ Spent(more) = Total(t)
  BY <1>3 DEF Spent
<1>6. s \in Seq(Nat)
  BY <1>3, <1>4
<1> HIDE DEF s, t
<1>7. Total(t) = Total(s) + 3 /\ Total(s) \in Nat
  BY <1>3, <1>4, <1>6, TotalAppend, TotalTyped
<1>8. more # <<>>
  BY <1>3
<1>9. QED
  BY <1>3, <1>5, <1>7, <1>8 DEF IsMetered, more, row
-----------------------------------------------------------------------------
IsList(got) == got \in Seq(Range(got))

LEMMA ListGrows ==
  ASSUME NEW got, IsList(got), NEW b
  PROVE  /\ IsList(Append(got, b)) /\ Len(got) \in Nat /\ Len(Append(got, b)) = Len(got) + 1
         /\ Append(got, b)[Len(got) + 1] = b
         /\ \A i \in 1..Len(got) : Append(got, b)[i] = got[i]
<1> DEFINE T == Range(got) \union {b}
           more == Append(got, b)
<1>1. got \in Seq(Range(got)) /\ Range(got) \subseteq T /\ b \in T
  BY DEF IsList
<1> HIDE DEF T
<1>2. got \in Seq(T)
  BY <1>1
<1>3. /\ more \in Seq(T) /\ Len(more) = Len(got) + 1 /\ Len(got) \in Nat /\ more[Len(got) + 1] = b
      /\ \A i \in 1..Len(got) : more[i] = got[i]
  BY <1>1, <1>2
<1>4. more \in Seq(Range(more))
  <2>1. \A i \in 1..Len(more) : more[i] \in Range(more)
    BY <1>3 DEF Range
  <2> HIDE DEF more
  <2>2. QED
    BY <1>3, <2>1
<1>5. QED
  BY <1>3, <1>4 DEF IsList

\* What a call has been told so far of knowledge, or of use, and what its answer says
StatsHold(r) ==
  /\ r.total <= CountOf(r.categories) /\ r.resolved <= CountOf(r.categories)
  /\ r.recent = {} => r.total = 0
StatsGot(k, got) ==
  /\ IsList(got) /\ Len(got) <= 3
  /\ \A i \in {1, 2} : i <= Len(got) => got[i] \in 0..Len(k)
  /\ Len(got) = 3 => \A i \in {1, 2} : got[i] <= CountOf(got[3])

CostsHold(r) == r.total <= CostOf(r.breakdown) /\ (r.breakdown # {} => r.dearest # {})
CostsGot(m, got) ==
  /\ IsList(got) /\ Len(got) <= 2
  /\ Len(got) >= 1 => got[1] \in Nat /\ got[1] <= Spent(m)
  /\ Len(got) = 2 => got[1] <= CostOf(got[2]) /\ (got[2] # {} => m # <<>>)

StatsGoOn(k, got) ==
  \/ StatsGot(k, got)
  \/ Len(got) = 4 /\ StatsHold(getKnowledgeStatsTool(got))
CostsGoOn(m, got) ==
  \/ CostsGot(m, got)
  \/ Len(got) = 3 /\ CostsHold(getCostStatsTool(got))

LEMMA ThirdQueries ==
  ASSUME NEW call, Len(call.got) \in Nat
  PROVE  /\ (call.tool = "testops_get_knowledge_stats" /\ Len(call.got) <= 3) =>
              QueryOf(call) = Queries["testops_get_knowledge_stats"][Len(call.got) + 1]
         /\ (call.tool = "testops_get_cost_stats" /\ Len(call.got) <= 2) =>
              QueryOf(call) = Queries["testops_get_cost_stats"][Len(call.got) + 1]
<1>1. /\ Len(Queries["testops_get_knowledge_stats"]) = 4
      /\ Len(Queries["testops_get_cost_stats"]) = 3
  BY DEF Queries
<1>2. PICK n \in Nat : n = Len(call.got)
  OBVIOUS
<1>3. QED
  BY <1>1, <1>2 DEF QueryOf

LEMMA StatsNext ==
  ASSUME IsKnowledge(knowledge), NEW call, call.tool = "testops_get_knowledge_stats",
         StatsGot(knowledge, call.got), NEW b \in Brings(QueryOf(call), call.input, call.got)
  PROVE  /\ QueryOf(call) \in {"total", "resolved", "categories", "recent"}
         /\ StatsGoOn(knowledge, Append(call.got, b))
<1> DEFINE n == Len(knowledge)
           got == call.got
           more == Append(call.got, b)
           q == QueryOf(call)
<1>1. n \in Nat
  BY DEF IsKnowledge
<1>2. /\ IsList(more) /\ Len(got) \in Nat /\ Len(more) = Len(got) + 1
      /\ more[Len(got) + 1] = b
      /\ \A i \in 1..Len(got) : more[i] = got[i]
  BY ListGrows DEF StatsGot
<1>3. q = Queries["testops_get_knowledge_stats"][Len(got) + 1]
  BY <1>2, ThirdQueries DEF StatsGot
<1>4. /\ Len(got) <= 3
      /\ \A i \in {1, 2} : i <= Len(got) => got[i] \in 0..n
      /\ Len(got) = 3 => \A i \in {1, 2} : got[i] <= CountOf(got[3])
  BY DEF StatsGot
<1>5. /\ q = "total" => b = n
      /\ q = "resolved" => b = Cardinality({i \in DOMAIN knowledge : knowledge[i].resolved})
      /\ q = "categories" => b \in Brings("categories", call.input, call.got)
      /\ q = "recent" => b = Latest(DOMAIN knowledge, 5)
  BY DEF Brings
<1>6. /\ q = "resolved" => b \in 0..n
      /\ q = "categories" => CountOf(b) = n
      /\ q = "recent" /\ b = {} => n = 0
  BY <1>5, ResolvedAreKnown, CategoriesCount, RecentAre
<1> HIDE DEF n, got, more, q
<1>7. PICK k \in 0..3 : k = Len(got)
  <2>1. PICK m \in Nat : m = Len(got)
    BY <1>2
  <2>2. m \in 0..3
    BY <1>4, <2>1
  <2>3. QED
    BY <2>1, <2>2
<1>8. CASE k = 0
  <2>1. q = "total"
    BY <1>3, <1>7, <1>8 DEF Queries
  <2>2. StatsGot(knowledge, more)
    BY <1>1, <1>2, <1>5, <1>7, <1>8, <2>1 DEF StatsGot, n
  <2>3. QED
    BY <2>1, <2>2 DEF StatsGoOn, q, more
<1>9. CASE k = 1
  <2>1. q = "resolved"
    BY <1>3, <1>7, <1>9 DEF Queries
  <2>2. StatsGot(knowledge, more)
    BY <1>1, <1>2, <1>4, <1>6, <1>7, <1>9, <2>1 DEF StatsGot, n
  <2>3. QED
    BY <2>1, <2>2 DEF StatsGoOn, q, more
<1>10. CASE k = 2
  <2>1. q = "categories"
    BY <1>3, <1>7, <1>10 DEF Queries
  <2>2. StatsGot(knowledge, more)
    BY <1>1, <1>2, <1>4, <1>6, <1>7, <1>10, <2>1 DEF StatsGot, n
  <2>3. QED
    BY <2>1, <2>2 DEF StatsGoOn, q, more
<1>11. CASE k = 3
  <2>1. q = "recent"
    BY <1>3, <1>7, <1>11 DEF Queries
  <2>2. /\ Len(more) = 4 /\ more[4] = b /\ more[1] = got[1] /\ more[2] = got[2] /\ more[3] = got[3]
        /\ got[1] \in 0..n /\ got[1] <= CountOf(got[3]) /\ got[2] <= CountOf(got[3])
    BY <1>2, <1>4, <1>7, <1>11
  <2> DEFINE r == getKnowledgeStatsTool(more)
  <2>3. r.total = got[1] /\ r.resolved = got[2] /\ r.categories = got[3] /\ r.recent = b
    BY <2>2 DEF getKnowledgeStatsTool
  <2> HIDE DEF r
  <2>4. b = {} => got[1] = 0
    BY <1>6, <2>1, <2>2
  <2>5. StatsHold(r)
    BY <2>2, <2>3, <2>4 DEF StatsHold
  <2>6. QED
    BY <2>1, <2>2, <2>5 DEF StatsGoOn, r, q, more
<1>12. QED
  BY <1>8, <1>9, <1>10, <1>11

LEMMA CostsNext ==
  ASSUME IsMetered(metered), NEW call, call.tool = "testops_get_cost_stats",
         CostsGot(metered, call.got), NEW b \in Brings(QueryOf(call), call.input, call.got)
  PROVE  /\ QueryOf(call) \in {"sum", "breakdown", "dearest"}
         /\ CostsGoOn(metered, Append(call.got, b))
<1> DEFINE got == call.got
           more == Append(call.got, b)
           q == QueryOf(call)
<1>1. Spent(metered) \in Nat
  BY SpentGrows
<1>2. /\ IsList(more) /\ Len(got) \in Nat /\ Len(more) = Len(got) + 1
      /\ more[Len(got) + 1] = b
      /\ \A i \in 1..Len(got) : more[i] = got[i]
  BY ListGrows DEF CostsGot
<1>3. q = Queries["testops_get_cost_stats"][Len(got) + 1]
  BY <1>2, ThirdQueries DEF CostsGot
<1>4. /\ Len(got) <= 2
      /\ Len(got) >= 1 => got[1] \in Nat /\ got[1] <= Spent(metered)
      /\ Len(got) = 2 => got[1] <= CostOf(got[2]) /\ (got[2] # {} => metered # <<>>)
  BY DEF CostsGot
<1>5. q = "sum" => b = Spent(metered)
  <2>1. HAVE q = "sum"
  <2>2. b = SumOf(metered, LAMBDA u : u.cost)
    BY <2>1 DEF Brings
  <2>3. b = Added([i \in DOMAIN metered |-> metered[i].cost])
    BY <2>2 DEF SumOf
  <2>4. QED
    BY <2>3, AddedIsTotal DEF Spent
<1>6. q = "breakdown" => CostOf(b) = Spent(metered) /\ (b # {} => metered # <<>>)
  <2>1. HAVE q = "breakdown"
  <2>2. b \in Brings("breakdown", call.input, call.got)
    BY <2>1
  <2>3. QED
    BY <2>2, BreakdownCosts
<1>7. q = "dearest" /\ metered # <<>> => b # {}
  <2>1. q = "dearest" => b = Dearest
    BY DEF Brings
  <2>2. QED
    BY <2>1, DearestAre
<1> HIDE DEF got, more, q
<1>8. PICK k \in 0..2 : k = Len(got)
  <2>1. PICK m \in Nat : m = Len(got)
    BY <1>2
  <2>2. m \in 0..2
    BY <1>4, <2>1
  <2>3. QED
    BY <2>1, <2>2
<1>9. CASE k = 0
  <2>1. q = "sum"
    BY <1>3, <1>8, <1>9 DEF Queries
  <2>2. CostsGot(metered, more)
    BY <1>1, <1>2, <1>5, <1>8, <1>9, <2>1 DEF CostsGot
  <2>3. QED
    BY <2>1, <2>2 DEF CostsGoOn, q, more
<1>10. CASE k = 1
  <2>1. q = "breakdown"
    BY <1>3, <1>8, <1>10 DEF Queries
  <2>2. CostsGot(metered, more)
    BY <1>1, <1>2, <1>4, <1>6, <1>8, <1>10, <2>1 DEF CostsGot
  <2>3. QED
    BY <2>1, <2>2 DEF CostsGoOn, q, more
<1>11. CASE k = 2
  <2>1. q = "dearest"
    BY <1>3, <1>8, <1>11 DEF Queries
  <2>2. /\ Len(more) = 3 /\ more[3] = b /\ more[1] = got[1] /\ more[2] = got[2]
        /\ got[1] <= CostOf(got[2]) /\ (got[2] # {} => metered # <<>>)
    BY <1>2, <1>4, <1>8, <1>11
  <2> DEFINE r == getCostStatsTool(more)
  <2>3. r.total = got[1] /\ r.breakdown = got[2] /\ r.dearest = b
    BY <2>2 DEF getCostStatsTool
  <2> HIDE DEF r
  <2>4. CostsHold(r)
    BY <1>7, <2>1, <2>2, <2>3 DEF CostsHold
  <2>5. QED
    BY <2>1, <2>2, <2>4 DEF CostsGoOn, r, q, more
<1>12. QED
  BY <1>9, <1>10, <1>11
-----------------------------------------------------------------------------
Growing == {"testops_get_knowledge_stats", "testops_get_cost_stats"}

\* What a call that asks for such figures has been told, or has told
GrowthOpen(k, m, call) ==
  /\ call.tool = "testops_get_knowledge_stats" => StatsGot(k, call.got)
  /\ call.tool = "testops_get_cost_stats" => CostsGot(m, call.got)
GrowthTold(call) ==
  /\ call.tool = "testops_get_knowledge_stats" => \A r \in call.reply : StatsHold(r)
  /\ call.tool = "testops_get_cost_stats" => \A r \in call.reply : CostsHold(r)
GrowthKnown(k, m, call) ==
  /\ call.phase = "open" => GrowthOpen(k, m, call)
  /\ call.phase = "answered" => GrowthTold(call)

GrowIInv ==
  /\ McpIInv /\ IsMetered(metered)
  /\ \A c \in Agent : GrowthKnown(knowledge, metered, mcpCall[c])

\* There is more to be told
Further(k, l, m, n) ==
  /\ Len(k) \in Nat /\ Len(l) \in Nat /\ Len(k) <= Len(l)
  /\ Spent(m) \in Nat /\ Spent(n) \in Nat /\ Spent(m) <= Spent(n)
  /\ m # <<>> => n # <<>>

LEMMA GotIsShort ==
  /\ \A k, got : StatsGot(k, got) => Len(got) \in 0..3
  /\ \A m, got : CostsGot(m, got) => Len(got) \in 0..2
<1>1. ASSUME NEW got, IsList(got) PROVE Len(got) \in Nat
  BY <1>1 DEF IsList
<1>2. ASSUME NEW k, NEW got, StatsGot(k, got) PROVE Len(got) \in 0..3
  <2>1. Len(got) \in Nat /\ Len(got) <= 3
    BY <1>1, <1>2 DEF StatsGot
  <2>2. PICK n \in Nat : n = Len(got)
    BY <2>1
  <2>3. n \in 0..3
    BY <2>1, <2>2
  <2>4. QED
    BY <2>2, <2>3
<1>3. ASSUME NEW m, NEW got, CostsGot(m, got) PROVE Len(got) \in 0..2
  <2>1. Len(got) \in Nat /\ Len(got) <= 2
    BY <1>1, <1>3 DEF CostsGot
  <2>2. PICK n \in Nat : n = Len(got)
    BY <2>1
  <2>3. n \in 0..2
    BY <2>1, <2>2
  <2>4. QED
    BY <2>2, <2>3
<1>4. QED
  BY <1>2, <1>3

LEMMA GrowthOutgrown ==
  ASSUME NEW k, NEW l, NEW m, NEW n, Further(k, l, m, n), NEW call, GrowthKnown(k, m, call)
  PROVE  GrowthKnown(l, n, call)
<1>1. StatsGot(k, call.got) => StatsGot(l, call.got)
  <2>1. HAVE StatsGot(k, call.got)
  <2>2. \A i \in {1, 2} : i <= Len(call.got) => call.got[i] \in 0..Len(l)
    BY <2>1 DEF StatsGot, Further
  <2>3. QED
    BY <2>1, <2>2 DEF StatsGot
<1>2. CostsGot(m, call.got) => CostsGot(n, call.got)
  <2>1. HAVE CostsGot(m, call.got)
  <2>2. Len(call.got) >= 1 => call.got[1] \in Nat /\ call.got[1] <= Spent(n)
    BY <2>1 DEF CostsGot, Further
  <2>3. QED
    BY <2>1, <2>2 DEF CostsGot, Further
<1>3. QED
  BY <1>1, <1>2 DEF GrowthKnown, GrowthOpen

LEMMA FurtherNot ==
  ASSUME NEW k, NEW l, IsKnowledge(k), Grew(l, k), IsMetered(metered)
  PROVE  Further(k, l, metered, metered)
<1>1. Len(k) \in Nat /\ DOMAIN k = 1..Len(k) /\ Len(l) \in Nat /\ DOMAIN l = 1..Len(l)
  BY DEF IsKnowledge, Grew
<1>2. Len(k) <= Len(l)
  <2>1. 1..Len(k) \subseteq 1..Len(l)
    BY <1>1 DEF Grew
  <2>2. PICK a \in Nat, b \in Nat : a = Len(k) /\ b = Len(l)
    BY <1>1
  <2>3. a # 0 => a \in 1..b
    BY <2>1, <2>2
  <2>4. QED
    BY <2>2, <2>3
<1>3. Spent(metered) \in Nat
  BY SpentGrows
<1>4. QED
  BY <1>1, <1>2, <1>3 DEF Further

\* One call changes
LEMMA GrowChange ==
  ASSUME GrowIInv, McpIInv', RowsStand, NEW c \in Agent, NEW b,
         mcpCall' = [mcpCall EXCEPT ![c] = b], metered' = metered,
         GrowthKnown(knowledge', metered, b)
  PROVE  GrowIInv'
<1>1. /\ mcpCall = [d \in Agent |-> mcpCall[d]] /\ IsMetered(metered) /\ IsKnowledge(knowledge)
      /\ \A d \in Agent : GrowthKnown(knowledge, metered, mcpCall[d])
  BY DEF McpIInv, GrowIInv
<1>2. mcpCall'[c] = b /\ \A d \in Agent : d # c => mcpCall'[d] = mcpCall[d]
  BY <1>1
<1>3. Further(knowledge, knowledge', metered, metered)
  BY <1>1, FurtherNot DEF RowsStand
<1>4. ASSUME NEW d \in Agent PROVE GrowthKnown(knowledge', metered, mcpCall'[d])
  <2>1. CASE d = c
    BY <1>2, <2>1
  <2>2. CASE d # c
    <3>1. GrowthKnown(knowledge', metered, mcpCall[d])
      BY <1>1, <1>3, GrowthOutgrown
    <3>2. QED
      BY <1>2, <2>2, <3>1
  <2>3. QED
    BY <2>1, <2>2
<1>5. QED
  BY <1>1, <1>4 DEF GrowIInv

LEMMA OtherFigures ==
  ASSUME NEW k, NEW m, NEW call, call.tool \notin Growing \/ call.phase = "failed"
  PROVE  GrowthKnown(k, m, call)
BY DEF GrowthKnown, GrowthOpen, GrowthTold, Growing

\* A tool of another kind goes on
LEMMA OtherContinues ==
  ASSUME GrowIInv, McpIInv', RowsStand, metered' = metered, NEW c \in Agent, NEW next,
         IsCall(next), next.tool \notin Growing, Continue(c, next)
  PROVE  GrowIInv'
<1> DEFINE v == Value(next.tool, next.input, next.got)
           last == [next EXCEPT !.phase = "answered", !.got = <<>>, !.reply = {v}]
<1>1. last.tool = next.tool
  <2> HIDE DEF v
  <2>1. QED
    BY DEF IsCall, CallFields
<1> HIDE DEF last
<1>2. GrowthKnown(knowledge', metered, last) /\ GrowthKnown(knowledge', metered, next)
  BY <1>1, OtherFigures
<1>3. \/ mcpCall' = [mcpCall EXCEPT ![c] = last]
      \/ mcpCall' = [mcpCall EXCEPT ![c] = next]
  BY DEF Continue, last
<1>4. QED
  BY <1>2, <1>3, GrowChange

LEMMA ErrorTold ==
  ASSUME GrowIInv, McpIInv', RowsStand, metered' = metered, NEW c \in Agent, AnswerError(c)
  PROVE  GrowIInv'
<1> DEFINE b == [mcpCall[c] EXCEPT !.phase = "failed", !.got = <<>>]
<1>1. mcpCall = [d \in Agent |-> mcpCall[d]] /\ IsCall(mcpCall[c])
  BY DEF GrowIInv, McpIInv, CallKnown
<1>2. mcpCall' = [mcpCall EXCEPT ![c] = b]
  BY <1>1 DEF AnswerError
<1>3. b.phase = "failed"
  BY <1>1, CallFailed
<1> HIDE DEF b
<1>4. QED
  BY <1>2, <1>3, OtherFigures, GrowChange

\* Nothing that is asked for figures that grow is done without
LEMMA GrowingNeeds ==
  ASSUME GrowIInv, NEW c \in Agent, mcpCall[c].phase = "open", mcpCall[c].tool \in Growing
  PROVE  /\ QueryOf(mcpCall[c]) \in {"total", "resolved", "categories", "recent", "sum",
                                     "breakdown", "dearest"}
         /\ mcpCall[c].tool = "testops_get_knowledge_stats" => StatsGot(knowledge, mcpCall[c].got)
         /\ mcpCall[c].tool = "testops_get_cost_stats" => CostsGot(metered, mcpCall[c].got)
<1> DEFINE call == mcpCall[c]
<1>1. /\ call.tool = "testops_get_knowledge_stats" => StatsGot(knowledge, call.got)
      /\ call.tool = "testops_get_cost_stats" => CostsGot(metered, call.got)
  BY DEF GrowIInv, GrowthKnown, GrowthOpen
<1> HIDE DEF call
<1>2. ASSUME call.tool = "testops_get_knowledge_stats"
      PROVE  QueryOf(call) \in {"total", "resolved", "categories", "recent"}
  <2>1. PICK n \in 0..3 : n = Len(call.got)
    BY <1>1, <1>2, GotIsShort
  <2>2. n \in Nat /\ n <= 3
    OBVIOUS
  <2>3. QueryOf(call) = Queries["testops_get_knowledge_stats"][n + 1]
    BY <1>2, <2>1, <2>2, ThirdQueries
  <2>4. PICK q : q = <<"total", "resolved", "categories", "recent">>
    OBVIOUS
  <2>5. q[n + 1] \in {"total", "resolved", "categories", "recent"}
    BY <2>2, <2>4
  <2>6. QED
    BY <2>3, <2>4, <2>5 DEF Queries
<1>3. ASSUME call.tool = "testops_get_cost_stats"
      PROVE  QueryOf(call) \in {"sum", "breakdown", "dearest"}
  <2>1. PICK n \in 0..2 : n = Len(call.got)
    BY <1>1, <1>3, GotIsShort
  <2>2. n \in Nat /\ n <= 2
    OBVIOUS
  <2>3. QueryOf(call) = Queries["testops_get_cost_stats"][n + 1]
    BY <1>3, <2>1, <2>2, ThirdQueries
  <2>4. PICK q : q = <<"sum", "breakdown", "dearest">>
    OBVIOUS
  <2>5. q[n + 1] \in {"sum", "breakdown", "dearest"}
    BY <2>2, <2>4
  <2>6. QED
    BY <2>3, <2>4, <2>5 DEF Queries
<1>4. QED
  BY <1>1, <1>2, <1>3 DEF Growing, call

LEMMA GrowMissed ==
  ASSUME GrowIInv, McpIInv', RowsStand, metered' = metered, NEW c \in Agent,
         mcpCall[c].phase = "open", Failed(c, QueryOf(mcpCall[c]))
  PROVE  GrowIInv'
<1> DEFINE q == QueryOf(mcpCall[c])
           b == IF q = "ping" THEN "unhealthy" ELSE {}
           next == [mcpCall[c] EXCEPT !.got = Append(mcpCall[c].got, b), !.unheard = TRUE]
<1>1. IsCall(mcpCall[c])
  BY DEF GrowIInv, McpIInv, CallKnown
<1>2. CASE q \notin Tolerated
  BY <1>2, ErrorTold DEF Failed
<1>3. CASE q \in Tolerated
  <2>1. mcpCall[c].tool \notin Growing
    BY <1>3, GrowingNeeds DEF Tolerated
  <2>2. Continue(c, next)
    BY <1>3 DEF Failed
  <2>3. IsCall(next) /\ next.tool = mcpCall[c].tool
    <3>1. IsCall(next) /\ Same(next, mcpCall[c], {"got", "unheard"})
      BY <1>1, CallUnheard
    <3> HIDE DEF next
    <3>2. QED
      BY <3>1 DEF Same, CallFields
  <2> HIDE DEF next
  <2>4. QED
    BY <2>1, <2>2, <2>3, OtherContinues
<1>4. QED
  BY <1>2, <1>3

\* The figures go on from an answer
LEMMA GrowAnswered ==
  ASSUME GrowIInv, McpIInv', RowsStand, NEW c \in Agent, QueryAnswered(c)
  PROVE  GrowIInv'
<1> DEFINE call == mcpCall[c]
           q == QueryOf(call)
<1>1. IsCall(call) /\ call.phase = "open" /\ metered' = metered /\ IsKnowledge(knowledge) /\ IsMetered(metered)
  BY DEF GrowIInv, McpIInv, CallKnown, QueryAnswered
<1>2. PICK b \in Brings(q, call.input, call.got) :
        Continue(c, [call EXCEPT !.got = Append(call.got, b)])
  BY DEF QueryAnswered
<1> DEFINE next == [call EXCEPT !.got = Append(call.got, b)]
<1>3. /\ IsCall(next) /\ next.got = Append(call.got, b) /\ next.tool = call.tool
      /\ next.phase = "open"
  <2>1. IsCall(next) /\ next.got = Append(call.got, b) /\ Same(next, call, {"got"})
    BY <1>1, CallGot
  <2> HIDE DEF next
  <2>2. QED
    BY <1>1, <2>1 DEF Same, CallFields
<1>4. Continue(c, next)
  BY <1>2
<1> DEFINE v == Value(next.tool, next.input, next.got)
           last == [next EXCEPT !.phase = "answered", !.got = <<>>, !.reply = {v}]
           done == Complete(next.tool, next.input, next.got)
<1> HIDE DEF next
<1>5. /\ done => mcpCall' = [mcpCall EXCEPT ![c] = last]
      /\ ~done => mcpCall' = [mcpCall EXCEPT ![c] = next]
  BY <1>4 DEF Continue
<1>6. last.phase = "answered" /\ last.reply = {v} /\ last.tool = next.tool
  <2>1. PICK value : value = v
    OBVIOUS
  <2>2. LET x == [next EXCEPT !.phase = "answered", !.got = <<>>, !.reply = {value}] IN
        x.phase = "answered" /\ x.reply = {value} /\ Same(x, next, {"phase", "got", "reply"})
    BY <1>3, CallAnswered
  <2> HIDE DEF v
  <2>3. last.phase = "answered" /\ last.reply = {v} /\ Same(last, next, {"phase", "got", "reply"})
    BY <2>1, <2>2
  <2> HIDE DEF last
  <2>4. QED
    BY <2>3 DEF Same, CallFields
<1> HIDE DEF last
<1>7. CASE call.tool \notin Growing
  BY <1>1, <1>3, <1>4, <1>7, OtherContinues
<1>8. ASSUME call.tool \in Growing PROVE knowledge' = knowledge
  <2>1. q # "insert"
    BY <1>1, <1>8, GrowingNeeds
  <2>2. QED
    BY <2>1 DEF QueryAnswered, Made
<1>9. CASE call.tool = "testops_get_knowledge_stats"
  <2>1. StatsGot(knowledge, call.got)
    BY <1>1, <1>9, GrowingNeeds DEF Growing
  <2>2. StatsGoOn(knowledge, next.got)
    BY <1>1, <1>3, <1>9, <2>1, StatsNext
  <2>3. Len(Queries["testops_get_knowledge_stats"]) = 4
    BY DEF Queries
  <2>4. done <=> Len(next.got) = 4
    BY <1>3, <1>9, <2>3 DEF Complete
  <2>5. v = getKnowledgeStatsTool(next.got)
    BY <1>3, <1>9 DEF Value
  <2> HIDE DEF v, done
  <2>6. knowledge' = knowledge
    BY <1>8, <1>9 DEF Growing
  <2>7. CASE done
    <3>1. ~StatsGot(knowledge, next.got)
      <4>1. PICK n : n = Len(next.got)
        OBVIOUS
      <4>2. n = 4
        BY <2>4, <2>7, <4>1
      <4>3. n \notin 0..3
        BY <4>2
      <4>4. QED
        BY <4>1, <4>3, GotIsShort
    <3>2. StatsHold(v)
      BY <2>2, <2>5, <3>1 DEF StatsGoOn
    <3>3. GrowthKnown(knowledge', metered, last)
      BY <1>3, <1>6, <1>9, <3>2 DEF GrowthKnown, GrowthTold
    <3>4. QED
      BY <1>1, <1>5, <2>7, <3>3, GrowChange
  <2>8. CASE ~done
    <3>1. StatsGot(knowledge, next.got)
      BY <2>2, <2>4, <2>8 DEF StatsGoOn
    <3>2. GrowthKnown(knowledge', metered, next)
      BY <1>3, <1>9, <2>6, <3>1 DEF GrowthKnown, GrowthOpen
    <3>3. QED
      BY <1>1, <1>5, <2>8, <3>2, GrowChange
  <2>9. QED
    BY <2>7, <2>8
<1>10. CASE call.tool = "testops_get_cost_stats"
  <2>1. CostsGot(metered, call.got)
    BY <1>1, <1>10, GrowingNeeds DEF Growing
  <2>2. CostsGoOn(metered, next.got)
    BY <1>1, <1>3, <1>10, <2>1, CostsNext
  <2>3. Len(Queries["testops_get_cost_stats"]) = 3
    BY DEF Queries
  <2>4. done <=> Len(next.got) = 3
    BY <1>3, <1>10, <2>3 DEF Complete
  <2>5. v = getCostStatsTool(next.got)
    BY <1>3, <1>10 DEF Value
  <2> HIDE DEF v, done
  <2>6. CASE done
    <3>1. ~CostsGot(metered, next.got)
      <4>1. PICK n : n = Len(next.got)
        OBVIOUS
      <4>2. n = 3
        BY <2>4, <2>6, <4>1
      <4>3. n \notin 0..2
        BY <4>2
      <4>4. QED
        BY <4>1, <4>3, GotIsShort
    <3>2. CostsHold(v)
      BY <2>2, <2>5, <3>1 DEF CostsGoOn
    <3>3. GrowthKnown(knowledge', metered, last)
      BY <1>3, <1>6, <1>10, <3>2 DEF GrowthKnown, GrowthTold
    <3>4. QED
      BY <1>1, <1>5, <2>6, <3>3, GrowChange
  <2>7. CASE ~done
    <3>1. CostsGot(metered, next.got)
      BY <2>2, <2>4, <2>7 DEF CostsGoOn
    <3>2. GrowthKnown(knowledge', metered, next)
      BY <1>3, <1>10, <3>1 DEF GrowthKnown, GrowthOpen
    <3>3. QED
      BY <1>1, <1>5, <2>7, <3>2, GrowChange
  <2>8. QED
    BY <2>6, <2>7
<1>11. QED
  BY <1>7, <1>9, <1>10 DEF Growing
-----------------------------------------------------------------------------
LEMMA NothingGot ==
  ASSUME NEW k, NEW m
  PROVE  StatsGot(k, <<>>) /\ CostsGot(m, <<>>)
<1>1. IsList(<<>>) /\ Len(<<>>) = 0
  BY DEF IsList
<1>2. QED
  BY <1>1 DEF StatsGot, CostsGot

LEMMA GrowCalled ==
  ASSUME GrowIInv, McpIInv', RowsStand, NEW c \in Agent, NEW tool \in DOMAIN InputSchema,
         NEW args \in Inputs[tool], CallTool(c, tool, args)
  PROVE  GrowIInv'
<1> DEFINE parsed == Parsed(args, InputSchema[tool])
           given == "failures" \in DOMAIN args /\ args.failures # <<>>
           call == [NotMade EXCEPT !.tool = tool, !.input = parsed, !.phase = "open",
                                   !.knew = Acknowledged]
           refused == \/ ~(InputSchema[tool].required \subseteq DOMAIN args)
                      \/ tool = "testops_batch_analyze" /\ "testRunId" \notin DOMAIN args /\ ~given
           begun == tool = "testops_batch_analyze" /\ "testRunId" \notin DOMAIN args /\ given
           next == [call EXCEPT !.got = <<args.failures>>]
           end == [call EXCEPT !.phase = "failed"]
<1>1. begun => ~refused
  <2>1. InputSchema["testops_batch_analyze"].required = {}
    BY DEF InputSchema, BatchAnalyzeInputSchema, Fields
  <2>2. QED
    BY <2>1
<1>2. IsCall(call) /\ call.phase = "open" /\ call.got = <<>> /\ call.tool = tool
  <2>1. PICK knew : knew = Acknowledged
    OBVIOUS
  <2>2. PICK in : in = parsed
    OBVIOUS
  <2>3. PICK one : one = [NotMade EXCEPT !.tool = tool, !.input = in, !.phase = "open", !.knew = knew]
    OBVIOUS
  <2>4. IsCall(one) /\ one.phase = "open" /\ one.got = <<>> /\ one.tool = tool
    BY <2>3 DEF IsCall, NotMade, CallFields
  <2>5. one = call
    BY <2>1, <2>2, <2>3
  <2> HIDE DEF call, parsed
  <2>6. QED
    BY <2>1, <2>2, <2>4, <2>5
<1>3. /\ refused => mcpCall' = [mcpCall EXCEPT ![c] = end]
      /\ begun => Continue(c, next)
      /\ ~refused /\ ~begun => mcpCall' = [mcpCall EXCEPT ![c] = call]
  BY <1>1 DEF CallTool
<1>4. metered' = metered
  BY DEF CallTool
<1> HIDE DEF call, refused
<1>5. CASE refused
  <2>1. end.phase = "failed"
    BY <1>2, CallFailed
  <2> HIDE DEF end
  <2>2. QED
    BY <1>3, <1>4, <1>5, <2>1, OtherFigures, GrowChange
<1>6. CASE begun
  <2>1. IsCall(next) /\ Same(next, call, {"got"})
    BY <1>2, CallGot
  <2> HIDE DEF next
  <2>2. next.tool = tool
    BY <1>2, <2>1 DEF Same, CallFields
  <2>3. next.tool \notin Growing
    BY <1>6, <2>2 DEF Growing
  <2>4. QED
    BY <1>3, <1>4, <1>6, <2>1, <2>3, OtherContinues
<1>7. CASE ~refused /\ ~begun
  <2>1. GrowthKnown(knowledge', metered, call)
    BY <1>2, NothingGot DEF GrowthKnown, GrowthOpen
  <2>2. QED
    BY <1>3, <1>4, <1>7, <2>1, GrowChange
<1>8. QED
  BY <1>5, <1>6, <1>7

LEMMA GrowMetered == ASSUME GrowIInv, McpIInv', UseMetered PROVE GrowIInv'
<1>1. IsMetered(metered) /\ IsKnowledge(knowledge)
  BY DEF GrowIInv, McpIInv
<1>2. /\ metered' = Append(metered, [feature |-> "rca", cost |-> 3])
      /\ knowledge' = knowledge /\ mcpCall' = mcpCall
  BY DEF UseMetered
<1>3. Spent(metered) \in Nat /\ IsMetered(metered') /\ Spent(metered') = Spent(metered) + 3 /\ metered' # <<>>
  BY <1>1, <1>2, SpentGrows
<1>4. Len(knowledge) \in Nat
  BY <1>1 DEF IsKnowledge
<1>5. Further(knowledge, knowledge, metered, metered')
  BY <1>3, <1>4 DEF Further
<1>6. \A c \in Agent : GrowthKnown(knowledge, metered', mcpCall[c])
  BY <1>5, GrowthOutgrown DEF GrowIInv
<1>7. QED
  BY <1>2, <1>3, <1>6 DEF GrowIInv

LEMMA GrowInit == McpInit => GrowIInv
<1> SUFFICES ASSUME McpInit PROVE GrowIInv
  OBVIOUS
<1>1. IsMetered(metered)
  BY DEF McpInit, IsMetered
<1>2. NotMade.phase = "idle" /\ \A c \in Agent : mcpCall[c] = NotMade
  BY DEF McpInit, NotMade
<1>3. GrowthKnown(knowledge, metered, NotMade)
  BY <1>2 DEF GrowthKnown
<1>4. QED
  BY <1>1, <1>2, <1>3, McpInitKnown DEF GrowIInv

LEMMA GrowStep == ASSUME GrowIInv, [McpNext]_mcpVars PROVE GrowIInv'
<1>1. McpIInv /\ Grew(knowledge, knowledge) /\ (tables = "migrated" => knowledge = <<>>)
  BY GrewNot DEF GrowIInv, McpIInv
<1>2. McpIInv'
  BY <1>1, McpStep
<1>3. ASSUME knowledge' = knowledge, tables' = tables PROVE RowsStand
  BY <1>1, <1>3 DEF RowsStand
<1>4. ASSUME NEW c \in Agent, NEW tool \in DOMAIN InputSchema, NEW args \in Inputs[tool],
             CallTool(c, tool, args)
      PROVE  GrowIInv'
  BY <1>2, <1>3, <1>4, GrowCalled DEF CallTool
<1>5. ASSUME NEW c \in Agent, CallUnknownTool(c) PROVE GrowIInv'
  <2> DEFINE b == [mcpCall[c] EXCEPT !.tool = "unknown", !.phase = "failed"]
  <2>1. mcpCall = [d \in Agent |-> mcpCall[d]] /\ IsCall(mcpCall[c])
    BY <1>1 DEF McpIInv, CallKnown
  <2>2. mcpCall' = [mcpCall EXCEPT ![c] = b]
    BY <1>5, <2>1 DEF CallUnknownTool
  <2>3. b.phase = "failed"
    BY <2>1, CallUnknown
  <2> HIDE DEF b
  <2>4. RowsStand /\ metered' = metered
    BY <1>3, <1>5 DEF CallUnknownTool
  <2>5. QED
    BY <1>2, <2>2, <2>3, <2>4, OtherFigures, GrowChange
<1>6. ASSUME NEW c \in Agent, QueryAnswered(c) PROVE GrowIInv'
  <2>1. RowsStand
    BY <1>1, <1>6, MadeGrows DEF RowsStand, QueryAnswered
  <2>2. QED
    BY <1>2, <1>6, <2>1, GrowAnswered
<1>7. ASSUME NEW c \in Agent, QueryUnanswered(c) PROVE GrowIInv'
  <2>1. RowsStand
    <3>1. CASE knowledge' = knowledge
      BY <1>3, <1>7, <3>1 DEF QueryUnanswered
    <3>2. CASE Made(QueryOf(mcpCall[c]), mcpCall[c].input)
      BY <1>1, <1>7, <3>2, MadeGrows DEF RowsStand, QueryUnanswered
    <3>3. QED
      BY <1>7, <3>1, <3>2 DEF QueryUnanswered
  <2>2. QED
    BY <1>2, <1>7, <2>1, GrowMissed DEF QueryUnanswered
<1>8. ASSUME NEW c \in Agent, QueryRefused(c) PROVE GrowIInv'
  <2>1. RowsStand
    BY <1>3, <1>8 DEF QueryRefused
  <2>2. QED
    BY <1>2, <1>8, <2>1, GrowMissed DEF QueryRefused
<1>9. CASE UseMetered
  BY <1>2, <1>9, GrowMetered
<1>10. CASE UNCHANGED mcpVars
  BY <1>2, <1>10 DEF mcpVars, GrowIInv
<1>11. QED
  BY <1>4, <1>5, <1>6, <1>7, <1>8, <1>9, <1>10 DEF McpNext

LEMMA GrowShown == ASSUME GrowIInv PROVE FiguresOnlyGrow
<1>1. ASSUME NEW c \in Agent, mcpCall[c].phase = "answered" PROVE GrowthTold(mcpCall[c])
  BY <1>1 DEF GrowIInv, GrowthKnown
<1>2. ASSUME NEW r \in RepliesOf("testops_get_knowledge_stats")
      PROVE  /\ r.total <= SumOf(SetToSeq(r.categories), LAMBDA k : k.count)
             /\ r.resolved <= SumOf(SetToSeq(r.categories), LAMBDA k : k.count)
             /\ r.recent = {} => r.total = 0
  <2>1. StatsHold(r)
    BY <1>1, <1>2 DEF RepliesOf, GrowthTold
  <2>2. SumOf(SetToSeq(r.categories), LAMBDA k : k.count) = CountOf(r.categories)
    BY DEF CountOf, SumOf
  <2>3. QED
    BY <2>1, <2>2 DEF StatsHold
<1>3. ASSUME NEW r \in RepliesOf("testops_get_cost_stats")
      PROVE  /\ r.total <= SumOf(SetToSeq(r.breakdown), LAMBDA b : b.cost)
             /\ r.breakdown # {} => r.dearest # {}
  <2>1. CostsHold(r)
    BY <1>1, <1>3 DEF RepliesOf, GrowthTold
  <2>2. SumOf(SetToSeq(r.breakdown), LAMBDA b : b.cost) = CostOf(r.breakdown)
    BY DEF CostOf, SumOf
  <2>3. QED
    BY <2>1, <2>2 DEF CostsHold
<1>4. QED
  BY <1>2, <1>3 DEF FiguresOnlyGrow
=============================================================================
