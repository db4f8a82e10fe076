--------------------------- MODULE FailureArchive ---------------------------
(***************************************************************************)
(* One row of the failure archive and the analyses people write into it    *)
(* (failure-archive.service.ts, failure-collaboration.service.ts).  Two    *)
(* writers exist: documentRCA, which the route calls, overwrites; and      *)
(* documentRCAWithLocking compares a version and keeps a revision, in a    *)
(* transaction whose isolation level is the database's default: read       *)
(* committed on PostgreSQL, serializable on SQLite.                        *)
(*                                                                         *)
(* Abstracted: a text is the number of the save that wrote it, the other   *)
(* columns of an analysis go with it; the occurrence count is one or       *)
(* more.  The row exists from the start: rows come from the seeds, since   *)
(* an insert through the route carries a testRunId that the table lacks.   *)
(***************************************************************************)
EXTENDS Naturals, Sequences

CONSTANTS
  Editor,    \* people with the RCA form open, and their requests
  EditBound  \* bound: saves in all

Text == 0..EditBound
Isolation == {"read committed", "serializable"}

ASSUME ArchiveAssumption == EditBound \in Nat

VARIABLES
  isolation,  \* of the database; never changes
  unversioned,\* whether the overwriting writer is in use; never changes
  analysis,   \* the text and rcaVersion columns of the row
  state,      \* its other columns: resolved, resolvedAt set, occurrences
  revisions,  \* RCARevision rows, in the order they were committed
  edits,      \* texts saved so far
  form,       \* per editor: what the form loaded
  stage,      \* per editor: where the editor's save is
  snapshot,   \* per editor: the analysis its transaction read
  stale       \* history: transactions that read the row before its last write

editing == <<form, stage, snapshot>>
archiveVars ==
  <<isolation, unversioned, analysis, state, revisions, edits, editing, stale>>

AnalysisColumns == [text : Text, version : 0..EditBound]
Strict == isolation = "serializable" /\ ~unversioned

ArchiveTypeOK ==
  /\ isolation \in Isolation /\ unversioned \in BOOLEAN
  /\ analysis \in AnalysisColumns
  /\ state \in [resolved : BOOLEAN, dated : BOOLEAN, recurring : BOOLEAN]
  /\ revisions \in Seq(AnalysisColumns)
  /\ edits \in 0..EditBound
  /\ form \in [Editor -> AnalysisColumns]
  /\ stage \in [Editor -> {"closed", "open", "checked"}]
  /\ snapshot \in [Editor -> AnalysisColumns]
  /\ stale \subseteq Editor

NoAnalysis == [text |-> 0, version |-> 0]

ArchiveInit ==
  /\ isolation \in Isolation /\ unversioned \in BOOLEAN
  /\ analysis = NoAnalysis
  /\ state = [resolved |-> FALSE, dated |-> FALSE, recurring |-> FALSE]
  /\ revisions = <<>> /\ edits = 0
  /\ form = [e \in Editor |-> NoAnalysis]
  /\ stage = [e \in Editor |-> "closed"]
  /\ snapshot = [e \in Editor |-> NoAnalysis]
  /\ stale = {}

\* A write of the row makes every transaction that has read it stale
RowWritten == stale' = {e \in Editor : stage[e] = "checked"}
NewText == edits < EditBound /\ edits' = edits + 1
Leave(e) == stage' = [stage EXCEPT ![e] = "closed"]
-----------------------------------------------------------------------------
\* The failure occurs again: it is counted and reopened, its date is kept
createFailure ==
  /\ state' = [state EXCEPT !.resolved = FALSE, !.recurring = TRUE]
  /\ RowWritten
  /\ UNCHANGED <<isolation, unversioned, analysis, revisions, edits, editing>>

markResolved ==
  /\ state' = [state EXCEPT !.resolved = TRUE, !.dated = TRUE]
  /\ RowWritten
  /\ UNCHANGED <<isolation, unversioned, analysis, revisions, edits, editing>>

\* The route's writer: no version is compared or counted
documentRCA ==
  /\ unversioned
  /\ NewText
  /\ analysis' = [analysis EXCEPT !.text = edits']
  /\ \E timed \in BOOLEAN :
       state' = IF timed THEN [state EXCEPT !.resolved = TRUE, !.dated = TRUE] ELSE state
  /\ RowWritten
  /\ UNCHANGED <<isolation, unversioned, revisions, editing>>

OpenForm(e) ==
  /\ stage[e] = "closed"
  /\ form' = [form EXCEPT ![e] = analysis]
  /\ stage' = [stage EXCEPT ![e] = "open"]
  /\ UNCHANGED <<isolation, unversioned, analysis, state, revisions, edits, snapshot, stale>>

\* findUnique inside the transaction, and the test of the version; on a
\* conflict the transaction rolls back
CheckVersion(e) ==
  /\ stage[e] = "open"
  /\ \/ /\ analysis.version = form[e].version
        /\ snapshot' = [snapshot EXCEPT ![e] = analysis]
        /\ stage' = [stage EXCEPT ![e] = "checked"]
        /\ stale' = stale \ {e}
     \/ /\ analysis.version # form[e].version
        /\ Leave(e)
        /\ UNCHANGED <<snapshot, stale>>
  /\ UNCHANGED <<isolation, unversioned, analysis, state, revisions, edits, form>>

\* Mutant: the version is set to the form's plus one instead of incremented
SaveSetsVersion(e) ==
  /\ stage[e] = "checked"
  /\ isolation = "serializable" => e \notin stale
  /\ NewText
  /\ revisions' = Append(revisions, snapshot[e])
  /\ analysis' = [text |-> edits', version |-> form[e].version + 1]
  /\ Leave(e)
  /\ RowWritten
  /\ UNCHANGED <<isolation, unversioned, state, form, snapshot>>

\* Mutant: the revision is a copy of the new text
SaveKeepsNewText(e) ==
  /\ stage[e] = "checked"
  /\ isolation = "serializable" => e \notin stale
  /\ NewText
  /\ analysis' = [text |-> edits', version |-> analysis.version + 1]
  /\ revisions' = Append(revisions, [text |-> edits', version |-> snapshot[e].version])
  /\ Leave(e)
  /\ RowWritten
  /\ UNCHANGED <<isolation, unversioned, state, form, snapshot>>

\* The insert of the revision, the update and the commit.  Others see none or
\* all of it; an update waits for the row, and at read committed it then
\* applies to the row as the other transaction left it.
SaveWithRevision(e) ==
  /\ stage[e] = "checked"
  /\ isolation = "serializable" => e \notin stale
  /\ NewText
  /\ revisions' = Append(revisions, snapshot[e])
  /\ analysis' = [text |-> edits', version |-> analysis.version + 1]
  /\ Leave(e)
  /\ RowWritten
  /\ UNCHANGED <<isolation, unversioned, state, form, snapshot>>

\* The form is closed, or the transaction fails or is refused: nothing is kept
GiveUpEdit(e) ==
  /\ stage[e] # "closed"
  /\ Leave(e)
  /\ UNCHANGED <<isolation, unversioned, analysis, state, revisions, edits, form, snapshot, stale>>

documentRCAWithLocking(e) == CheckVersion(e) \/ SaveWithRevision(e)

ArchiveNext ==
  \/ createFailure \/ markResolved \/ documentRCA
  \/ \E e \in Editor : OpenForm(e) \/ documentRCAWithLocking(e) \/ GiveUpEdit(e)

ArchiveSpec == ArchiveInit /\ [][ArchiveNext]_archiveVars
-----------------------------------------------------------------------------
\* rcaVersion counts the revisions, whatever the isolation level and whoever
\* overwrites in between: the activity feed numbers its entries with it.
VersionCountsRevisions == analysis.version = Len(revisions)

\* In a strict archive the revisions carry the versions 0, 1, 2, ...: no two
\* editors are told that they made the same version.
RevisionsAreNumbered ==
  Strict => \A i \in DOMAIN revisions : revisions[i].version = i - 1

\* In a strict archive no text that was ever saved is lost: it is the row's or
\* a revision's.
NoTextIsLost ==
  Strict =>
    \A t \in 1..edits :
      t = analysis.text \/ \E i \in DOMAIN revisions : revisions[i].text = t

ArchiveInv == ArchiveTypeOK /\ VersionCountsRevisions /\ RevisionsAreNumbered /\ NoTextIsLost

\* In a serializable database a save with a version keeps the text it replaces,
\* even one that the other writer put there after the form was loaded.
SaveKeepsWhatItReplaces ==
  [][(isolation = "serializable" /\ Len(revisions') > Len(revisions))
       => revisions'[Len(revisions')].text = analysis.text]_archiveVars

\* In a strict archive an editor replaces the text the form showed, never one
\* that somebody else saved meanwhile.
NobodyIsOverwritten ==
  [][\A e \in Editor :
       (Strict /\ stage[e] = "checked" /\ edits' > edits /\ stage'[e] = "closed")
         => analysis.text = form[e].text]_archiveVars

Log == INSTANCE EditLog WITH
         Text <- Text,
         strict <- Strict,
         text <- analysis.text,
         history <- [i \in DOMAIN revisions |-> revisions[i].text]

\* The two writers implement the promise where it is made.
ImplementsEditLog == Log!LogSpec
=============================================================================
