--------------------------- MODULE ServicesProofs ---------------------------
(***************************************************************************)
(* The parts that share no state, for every value of the constants: the    *)
(* failure archive, teams and settings, what AI costs, which provider      *)
(* answers, the copilot panel, the cache of the browser, the update        *)
(* script; and all of them, with those of IntegrationsProofs (the systems  *)
(* outside, the window of the model and the copilot's advice), as they are *)
(* composed in MCServices.  Each part has an inductive invariant of its    *)
(* own.                                                                    *)
(***************************************************************************)
EXTENDS MCServices, IntegrationsProofs, SequenceTheorems

-----------------------------------------------------------------------------
\* Analyses of failures

\* Every save has its text, so versions stay within the bound
VersionsAreSaves == analysis.version <= edits

\* Who has checked the version and has not been overtaken read the row as it is
SnapshotIsFresh ==
  \A e \in Editor :
    (stage[e] = "checked" /\ e \notin stale)
      => snapshot[e] = analysis /\ form[e].version = analysis.version

\* In a strict archive a version names a text
VersionNamesText ==
  Strict => \A e \in Editor :
    /\ form[e].version <= analysis.version
    /\ form[e].version = analysis.version => form[e].text = analysis.text

ArchiveIInv ==
  /\ ArchiveTypeOK
  /\ VersionsAreSaves
  /\ VersionCountsRevisions
  /\ SnapshotIsFresh
  /\ VersionNamesText
  /\ RevisionsAreNumbered
  /\ NoTextIsLost
-----------------------------------------------------------------------------
LEMMA ArchiveInvInit == ArchiveInit => ArchiveIInv
<1>1. SUFFICES ASSUME ArchiveInit PROVE ArchiveIInv
  OBVIOUS
<1>2. NoAnalysis \in AnalysisColumns
  BY ArchiveAssumption DEF NoAnalysis, AnalysisColumns, Text
<1>3. ArchiveTypeOK
  BY <1>1, <1>2, ArchiveAssumption DEF ArchiveInit, ArchiveTypeOK
<1>4. VersionsAreSaves /\ VersionCountsRevisions /\ SnapshotIsFresh /\ VersionNamesText
  BY <1>1 DEF ArchiveInit, NoAnalysis, VersionsAreSaves, VersionCountsRevisions,
              SnapshotIsFresh, VersionNamesText
<1>5. RevisionsAreNumbered /\ NoTextIsLost
  BY <1>1 DEF ArchiveInit, RevisionsAreNumbered, NoTextIsLost
<1>6. QED
  BY <1>3, <1>4, <1>5 DEF ArchiveIInv

\* The three writers of the row that touch no analysis, or only read it
LEMMA ReadersKeepInv ==
  ASSUME ArchiveIInv,
         \/ createFailure \/ markResolved
         \/ \E e \in Editor : OpenForm(e) \/ CheckVersion(e) \/ GiveUpEdit(e)
  PROVE  ArchiveIInv' /\ UNCHANGED <<isolation, unversioned, analysis, revisions, edits>>
<1>1. CASE createFailure \/ markResolved
  <2>1. UNCHANGED <<isolation, unversioned, analysis, revisions, edits, form, stage, snapshot>>
    BY <1>1 DEF createFailure, markResolved, editing
  <2>2. stale' = {e \in Editor : stage[e] = "checked"}
    BY <1>1 DEF createFailure, markResolved, RowWritten
  <2>3. state' \in [resolved : BOOLEAN, dated : BOOLEAN, recurring : BOOLEAN]
    BY <1>1 DEF ArchiveIInv, ArchiveTypeOK, createFailure, markResolved
  <2>4. ArchiveTypeOK'
    BY <2>1, <2>2, <2>3 DEF ArchiveIInv, ArchiveTypeOK
  <2>5. SnapshotIsFresh'
    BY <2>1, <2>2 DEF SnapshotIsFresh
  <2>6. QED
    BY <2>1, <2>4, <2>5 DEF ArchiveIInv, VersionsAreSaves, VersionCountsRevisions,
       VersionNamesText,
                            RevisionsAreNumbered, NoTextIsLost, Strict
<1>2. ASSUME NEW e \in Editor, OpenForm(e)
      PROVE  ArchiveIInv' /\ UNCHANGED <<isolation, unversioned, analysis, revisions, edits>>
  <2>1. ArchiveTypeOK'
    BY <1>2 DEF ArchiveIInv, ArchiveTypeOK, OpenForm
  <2>2. SnapshotIsFresh'
    BY <1>2 DEF ArchiveIInv, ArchiveTypeOK, OpenForm, SnapshotIsFresh
  <2>3. VersionNamesText'
    BY <1>2 DEF ArchiveIInv, ArchiveTypeOK, AnalysisColumns, OpenForm, VersionNamesText, Strict
  <2>4. QED
    BY <1>2, <2>1, <2>2, <2>3 DEF ArchiveIInv, OpenForm, VersionsAreSaves, VersionCountsRevisions,
                                  RevisionsAreNumbered, NoTextIsLost, Strict
<1>3. ASSUME NEW e \in Editor, CheckVersion(e)
      PROVE  ArchiveIInv' /\ UNCHANGED <<isolation, unversioned, analysis, revisions, edits>>
  <2>1. ArchiveTypeOK'
    BY <1>3 DEF ArchiveIInv, ArchiveTypeOK, CheckVersion, Leave
  <2>2. SnapshotIsFresh'
    BY <1>3 DEF ArchiveIInv, ArchiveTypeOK, CheckVersion, Leave, SnapshotIsFresh
  <2>3. QED
    BY <1>3, <2>1, <2>2 DEF ArchiveIInv, CheckVersion, VersionsAreSaves, VersionCountsRevisions,
                            VersionNamesText, RevisionsAreNumbered, NoTextIsLost, Strict
<1>4. ASSUME NEW e \in Editor, GiveUpEdit(e)
      PROVE  ArchiveIInv' /\ UNCHANGED <<isolation, unversioned, analysis, revisions, edits>>
  <2>1. ArchiveTypeOK' /\ SnapshotIsFresh'
    BY <1>4 DEF ArchiveIInv, ArchiveTypeOK, GiveUpEdit, Leave, SnapshotIsFresh
  <2>2. QED
    BY <1>4, <2>1 DEF ArchiveIInv, GiveUpEdit, VersionsAreSaves, VersionCountsRevisions,
                      VersionNamesText, RevisionsAreNumbered, NoTextIsLost, Strict
<1>5. QED
  BY <1>1, <1>2, <1>3, <1>4

\* The writer without a version: there is none in a strict archive
LEMMA OverwriteKeepsInv ==
  ASSUME ArchiveIInv, documentRCA
  PROVE  ArchiveIInv' /\ ~Strict /\ UNCHANGED <<isolation, unversioned, revisions>>
<1>1. ~Strict /\ ~Strict'
  BY DEF documentRCA, Strict
<1>2. edits' = edits + 1 /\ edits' \in Text /\ edits' \in 0..EditBound
  BY ArchiveAssumption DEF documentRCA, NewText, ArchiveIInv, ArchiveTypeOK, Text
<1>3. analysis' = [analysis EXCEPT !.text = edits'] /\ analysis' \in AnalysisColumns
  BY <1>2 DEF documentRCA, ArchiveIInv, ArchiveTypeOK, AnalysisColumns
<1>4. state' \in [resolved : BOOLEAN, dated : BOOLEAN, recurring : BOOLEAN]
  BY DEF ArchiveIInv, ArchiveTypeOK, documentRCA
<1>5. ArchiveTypeOK'
  BY <1>2, <1>3, <1>4 DEF ArchiveIInv, ArchiveTypeOK, documentRCA, RowWritten, editing
<1>6. SnapshotIsFresh'
  BY DEF documentRCA, RowWritten, editing, SnapshotIsFresh
<1>7. VersionsAreSaves' /\ VersionCountsRevisions'
  BY <1>2, <1>3 DEF ArchiveIInv, ArchiveTypeOK, AnalysisColumns, VersionsAreSaves,
                    VersionCountsRevisions, documentRCA
<1>8. QED
  BY <1>1, <1>5, <1>6, <1>7 DEF ArchiveIInv, VersionNamesText, RevisionsAreNumbered, NoTextIsLost,
                                documentRCA

\* A save with a version, and what it does to a strict archive
SaveIsStrict(e) ==
  Strict => /\ snapshot[e] = analysis
            /\ form[e].text = analysis.text

LEMMA SaveKeepsInv ==
  ASSUME ArchiveIInv, NEW e \in Editor, SaveWithRevision(e)
  PROVE  /\ ArchiveIInv' /\ SaveIsStrict(e)
         /\ UNCHANGED <<isolation, unversioned>>
         /\ analysis' \in AnalysisColumns
         /\ snapshot[e] \in AnalysisColumns
         /\ revisions' = Append(revisions, snapshot[e])
         /\ isolation = "serializable" => snapshot[e] = analysis
<1>1. edits' = edits + 1 /\ edits' \in 0..EditBound /\ edits \in Nat
  BY ArchiveAssumption DEF SaveWithRevision, NewText, ArchiveIInv, ArchiveTypeOK
<1>2. analysis' = [text |-> edits', version |-> analysis.version + 1]
  BY DEF SaveWithRevision
<1>3. analysis.version \in Nat /\ analysis.version + 1 <= edits'
  BY <1>1 DEF ArchiveIInv, ArchiveTypeOK, AnalysisColumns, VersionsAreSaves
<1>4. analysis' \in AnalysisColumns
  BY <1>1, <1>2, <1>3, ArchiveAssumption DEF AnalysisColumns, Text
<1>5. /\ revisions' = Append(revisions, snapshot[e])
      /\ revisions \in Seq(AnalysisColumns) /\ snapshot[e] \in AnalysisColumns
  BY DEF SaveWithRevision, ArchiveIInv, ArchiveTypeOK
<1>6. /\ revisions' \in Seq(AnalysisColumns)
      /\ Len(revisions') = Len(revisions) + 1
      /\ \A i \in 1..Len(revisions) : revisions'[i] = revisions[i]
      /\ revisions'[Len(revisions) + 1] = snapshot[e]
  BY <1>5, AppendProperties
<1>7. /\ stage[e] = "checked" /\ stage' = [stage EXCEPT ![e] = "closed"]
      /\ UNCHANGED <<isolation, unversioned, state, form, snapshot>>
      /\ stale' = {f \in Editor : stage[f] = "checked"}
  BY DEF SaveWithRevision, Leave, RowWritten
<1>8. ArchiveTypeOK'
  BY <1>1, <1>4, <1>6, <1>7 DEF ArchiveIInv, ArchiveTypeOK
<1>9. isolation = "serializable"
        => snapshot[e] = analysis /\ form[e].version = analysis.version
  BY <1>7 DEF SaveWithRevision, ArchiveIInv, SnapshotIsFresh
<1>10. VersionsAreSaves' /\ VersionCountsRevisions'
  BY <1>2, <1>3, <1>6 DEF ArchiveIInv, VersionsAreSaves, VersionCountsRevisions
<1>11. SnapshotIsFresh'
  BY <1>7 DEF ArchiveIInv, ArchiveTypeOK, SnapshotIsFresh
<1>12. SaveIsStrict(e)
  BY <1>9 DEF SaveIsStrict, Strict, ArchiveIInv, VersionNamesText
<1>13. VersionNamesText'
  <2>1. ASSUME Strict, NEW f \in Editor PROVE form[f].version < analysis.version + 1
    BY <2>1, <1>3 DEF ArchiveIInv, ArchiveTypeOK, AnalysisColumns, VersionNamesText
  <2>2. QED
    BY <2>1, <1>2, <1>3, <1>7 DEF VersionNamesText, Strict, ArchiveIInv, ArchiveTypeOK,
       AnalysisColumns
<1>14. RevisionsAreNumbered'
  <2>1. SUFFICES ASSUME Strict, NEW i \in DOMAIN revisions' PROVE revisions'[i].version = i - 1
    BY <1>7 DEF RevisionsAreNumbered, Strict
  <2>2. Len(revisions) \in Nat /\ DOMAIN revisions = 1..Len(revisions)
    BY <1>5
  <2>3. DOMAIN revisions' = 1..(Len(revisions) + 1)
    BY <1>6
  <2>4. CASE i \in 1..Len(revisions)
    BY <2>1, <2>2, <2>4, <1>6 DEF ArchiveIInv, RevisionsAreNumbered
  <2>5. CASE i = Len(revisions) + 1
    BY <2>1, <2>2, <2>5, <1>6, <1>9 DEF ArchiveIInv, Strict, VersionCountsRevisions
  <2>6. QED
    BY <2>2, <2>3, <2>4, <2>5
<1>15. NoTextIsLost'
  <2>1. SUFFICES ASSUME Strict, NEW t \in 1..edits', t # analysis'.text
                 PROVE  \E i \in DOMAIN revisions' : revisions'[i].text = t
    BY <1>7 DEF NoTextIsLost, Strict
  <2>2. t \in 1..edits
    BY <2>1, <1>1, <1>2
  <2>3. /\ DOMAIN revisions = 1..Len(revisions) /\ Len(revisions) \in Nat
        /\ DOMAIN revisions' = 1..(Len(revisions) + 1)
    BY <1>5, <1>6
  <2>4. CASE t = analysis.text
    BY <2>1, <2>3, <2>4, <1>6, <1>9 DEF Strict
  <2>5. CASE \E i \in DOMAIN revisions : revisions[i].text = t
    BY <2>3, <2>5, <1>6
  <2>6. QED
    BY <2>1, <2>2, <2>4, <2>5 DEF ArchiveIInv, NoTextIsLost
<1>16. QED
  BY <1>4, <1>5, <1>7, <1>8, <1>9, <1>10, <1>11, <1>12, <1>13, <1>14, <1>15 DEF ArchiveIInv

LEMMA ArchiveInvStep == ArchiveIInv /\ [ArchiveNext]_archiveVars => ArchiveIInv'
<1>1. SUFFICES ASSUME ArchiveIInv, [ArchiveNext]_archiveVars PROVE ArchiveIInv'
  OBVIOUS
<1>2. CASE UNCHANGED archiveVars
  BY <1>1, <1>2 DEF archiveVars, editing, ArchiveIInv, ArchiveTypeOK, VersionsAreSaves,
     VersionCountsRevisions, SnapshotIsFresh, VersionNamesText, RevisionsAreNumbered,
     NoTextIsLost, Strict
<1>3. CASE ArchiveNext
  BY <1>1, <1>3, ReadersKeepInv, OverwriteKeepsInv, SaveKeepsInv
     DEF ArchiveNext, documentRCAWithLocking
<1>4. QED
  BY <1>1, <1>2, <1>3
-----------------------------------------------------------------------------
\* Versions count revisions at any isolation level, and a strict archive numbers its
\* revisions and loses no text.
THEOREM ArchiveTheorem == ArchiveSpec => []ArchiveInv
<1>1. ArchiveIInv => ArchiveInv
  BY DEF ArchiveIInv, ArchiveInv
<1>2. QED
  BY <1>1, ArchiveInvInit, ArchiveInvStep, PTL DEF ArchiveSpec

\* A save with a version keeps what it replaces, and in a strict archive it replaces what
\* its form showed.
THEOREM SaveTheorem == ArchiveSpec => SaveKeepsWhatItReplaces /\ NobodyIsOverwritten
<1> DEFINE Keeps == (isolation = "serializable" /\ Len(revisions') > Len(revisions))
                      => revisions'[Len(revisions')].text = analysis.text
           Sees == \A e \in Editor :
                     (Strict /\ stage[e] = "checked" /\ edits' > edits /\ stage'[e] = "closed")
                       => analysis.text = form[e].text
<1>1. ASSUME ArchiveIInv, [ArchiveNext]_archiveVars PROVE Keeps /\ Sees
  <2>1. edits \in Nat /\ Len(revisions) \in Nat /\ revisions \in Seq(AnalysisColumns)
    BY <1>1, ArchiveAssumption DEF ArchiveIInv, ArchiveTypeOK
  <2>2. CASE UNCHANGED archiveVars
    BY <2>1, <2>2 DEF archiveVars
  <2>3. CASE \/ createFailure \/ markResolved
             \/ \E e \in Editor : OpenForm(e) \/ CheckVersion(e) \/ GiveUpEdit(e)
    BY <1>1, <2>1, <2>3, ReadersKeepInv
  <2>4. CASE documentRCA
    BY <1>1, <2>1, <2>4, OverwriteKeepsInv
  <2>5. ASSUME NEW e \in Editor, SaveWithRevision(e) PROVE Keeps /\ Sees
    <3>1. /\ snapshot[e] \in AnalysisColumns /\ revisions' = Append(revisions, snapshot[e])
          /\ isolation = "serializable" => snapshot[e] = analysis
          /\ SaveIsStrict(e)
      BY <1>1, <2>5, SaveKeepsInv
    <3>2. revisions'[Len(revisions')] = snapshot[e]
      BY <2>1, <3>1, AppendProperties
    <3>3. \A f \in Editor : stage[f] = "checked" /\ stage'[f] = "closed" => f = e
      BY <1>1, <2>5 DEF SaveWithRevision, Leave, ArchiveIInv, ArchiveTypeOK
    <3>4. QED
      BY <3>1, <3>2, <3>3 DEF SaveIsStrict
  <2>6. QED
    BY <1>1, <2>2, <2>3, <2>4, <2>5 DEF ArchiveNext, documentRCAWithLocking
<1>2. ArchiveIInv /\ [ArchiveNext]_archiveVars => [Keeps]_archiveVars /\ [Sees]_archiveVars
  BY <1>1
<1>3. QED
  BY <1>2, ArchiveInvInit, ArchiveInvStep, PTL DEF ArchiveSpec, SaveKeepsWhatItReplaces,
     NobodyIsOverwritten
-----------------------------------------------------------------------------
TextsOf(s) == [i \in DOMAIN s |-> s[i].text]

LEMMA TextsOfAppend ==
  ASSUME NEW s \in Seq(AnalysisColumns), NEW x \in AnalysisColumns
  PROVE  TextsOf(Append(s, x)) = Append(TextsOf(s), x.text)
<1> DEFINE t == TextsOf(s)
           u == TextsOf(Append(s, x))
<1>1. /\ Len(s) \in Nat /\ DOMAIN s = 1..Len(s)
      /\ DOMAIN Append(s, x) = 1..(Len(s) + 1)
      /\ \A i \in 1..Len(s) : Append(s, x)[i] = s[i] /\ s[i] \in AnalysisColumns
      /\ Append(s, x)[Len(s) + 1] = x
  BY AppendProperties
<1>2. t \in Seq(Text) /\ Len(t) = Len(s)
  BY <1>1 DEF TextsOf, AnalysisColumns
<1>3. x.text \in Text
  BY DEF AnalysisColumns
<1>4. /\ DOMAIN Append(t, x.text) = 1..(Len(s) + 1)
      /\ \A i \in 1..Len(s) : Append(t, x.text)[i] = t[i]
      /\ Append(t, x.text)[Len(s) + 1] = x.text
  BY <1>1, <1>2, <1>3, AppendProperties
<1>5. Append(t, x.text) = [i \in 1..(Len(s) + 1) |-> Append(t, x.text)[i]]
  BY <1>2, <1>3, <1>4, AppendProperties
<1>6. u = [i \in 1..(Len(s) + 1) |-> Append(s, x)[i].text]
  BY <1>1 DEF TextsOf
<1>7. \A i \in 1..(Len(s) + 1) : Append(s, x)[i].text = Append(t, x.text)[i]
  BY <1>1, <1>4 DEF TextsOf
<1>8. QED
  BY <1>5, <1>6, <1>7

\* The two writers implement the log of edits: where both take part in the version check
\* and transactions are serializable, each save keeps the text it replaces.
THEOREM ArchiveImplementsLog == ArchiveSpec => ImplementsEditLog
<1>1. ArchiveInit => Log!LogInit
  BY ArchiveAssumption DEF ArchiveInit, NoAnalysis, Strict, Text, Log!LogInit
<1>2. ArchiveIInv /\ [ArchiveNext]_archiveVars => [Log!LogNext]_(Log!logVars)
  <2>1. SUFFICES ASSUME ArchiveIInv, [ArchiveNext]_archiveVars PROVE [Log!LogNext]_(Log!logVars)
    OBVIOUS
  <2>2. CASE UNCHANGED archiveVars
    BY <2>2 DEF archiveVars, Strict, Log!logVars
  <2>3. CASE \/ createFailure \/ markResolved
             \/ \E e \in Editor : OpenForm(e) \/ CheckVersion(e) \/ GiveUpEdit(e)
    <3>1. UNCHANGED <<isolation, unversioned, analysis, revisions>>
      BY <2>1, <2>3, ReadersKeepInv
    <3>2. QED
      BY <3>1 DEF Strict, Log!logVars
  <2>4. CASE documentRCA
    <3>1. /\ ~Strict /\ UNCHANGED <<isolation, unversioned, revisions>>
          /\ analysis'.text \in Text
      BY <2>1, <2>4, OverwriteKeepsInv DEF ArchiveIInv, ArchiveTypeOK, AnalysisColumns
    <3>2. QED
      BY <3>1 DEF Strict, Log!LogNext, Log!Lose
  <2>5. ASSUME NEW e \in Editor, SaveWithRevision(e) PROVE Log!LogNext
    <3>1. /\ snapshot[e] \in AnalysisColumns /\ revisions' = Append(revisions, snapshot[e])
          /\ SaveIsStrict(e) /\ UNCHANGED <<isolation, unversioned>>
          /\ analysis' \in AnalysisColumns
      BY <2>1, <2>5, SaveKeepsInv
    <3>2. revisions \in Seq(AnalysisColumns)
      BY <2>1 DEF ArchiveIInv, ArchiveTypeOK
    <3>3. [i \in DOMAIN revisions' |-> revisions'[i].text]
            = Append([i \in DOMAIN revisions |-> revisions[i].text], snapshot[e].text)
      BY <3>1, <3>2, TextsOfAppend DEF TextsOf
    <3>4. analysis'.text \in Text /\ snapshot[e].text \in Text
      BY <3>1 DEF AnalysisColumns
    <3>5. CASE Strict
      <4>1. Log!Save
        BY <3>1, <3>3, <3>4, <3>5 DEF SaveIsStrict, Log!Save
      <4>2. QED
        BY <4>1, <3>1 DEF Log!LogNext, Strict
    <3>6. CASE ~Strict
      <4>1. Log!Lose
        BY <3>3, <3>4, <3>6 DEF Log!Lose
      <4>2. QED
        BY <4>1, <3>1 DEF Log!LogNext, Strict
    <3>7. QED
      BY <3>5, <3>6
  <2>6. QED
    BY <2>1, <2>2, <2>3, <2>4, <2>5 DEF ArchiveNext, documentRCAWithLocking
<1>3. QED
  BY <1>1, <1>2, ArchiveInvInit, ArchiveInvStep, PTL DEF ArchiveSpec, ImplementsEditLog,
     Log!LogSpec
-----------------------------------------------------------------------------
\* Teams, dashboards and settings

MemberChange == {"addMember", "removeMember", "updateMemberRole"}
DashboardChange == {"create", "update"}

OwnerOf(o) == role[o] = "OWNER" /\ \A u \in User : role[u] = "OWNER" => u = o
TeamHolds ==
  /\ Members
  /\ team = "there" => \E o \in User : OwnerOf(o)

MemberRequestsFit == \A a \in Asker : ask[a].does \in MemberChange =>
  /\ team # "not yet"
  /\ ask[a].stage = "checked" /\ ask[a].does # "addMember" => role[ask[a].to] # "OWNER"

DashboardRequestsFit == "dashboards" \notin mingled =>
  /\ \A c, d \in default : c = d
  /\ \A a, b \in Asker : ask[a].does \in DashboardChange /\ ask[b].does \in DashboardChange => a = b
  /\ \A a \in Asker :
       ask[a].does \in DashboardChange /\ ask[a].stage = "checked" /\ ask[a].isDefault
         => default \subseteq {ask[a].id}

TenancyIInv == TenancyTypeOK /\ TeamHolds /\ MemberRequestsFit /\ DashboardRequestsFit
-----------------------------------------------------------------------------
LEMMA RequestTypes ==
  ASSUME TenancyTypeOK, NEW a \in Asker
  PROVE  /\ ask[a] \in Request
         /\ ask[a].does \in MemberChange \union {"createTeam",
            "deleteTeam"} => ask[a] \in TeamRequest
         /\ ask[a].does \in DashboardChange => ask[a] \in DashboardRequest
         /\ ask[a].does = "updateSettings" => ask[a] \in SettingsRequest
         /\ ask[a].stage = "checked" => ask[a].does # "nothing"
         /\ ask[a].stage = "allowed" => ask[a].does # "nothing"
<1>1. ask[a] \in Request
  BY DEF TenancyTypeOK
<1>2. CASE ask[a] \in {Unasked, Dropped}
  BY <1>1, <1>2 DEF Unasked, Dropped, MemberChange, DashboardChange
<1>3. CASE ask[a] \in TeamRequest
  BY <1>1, <1>3 DEF TeamRequest, MemberChange, DashboardChange
<1>4. CASE ask[a] \in DashboardRequest
  BY <1>1, <1>4 DEF DashboardRequest, MemberChange, DashboardChange
<1>5. CASE ask[a] \in SettingsRequest
  BY <1>1, <1>5 DEF SettingsRequest, MemberChange, DashboardChange
<1>6. QED
  BY <1>1, <1>2, <1>3, <1>4, <1>5 DEF Request

\* A request becomes another one, and the others stay what they are.
LEMMA Becoming ==
  ASSUME TenancyTypeOK, NEW a \in Asker, NEW r \in Request, ask' = [ask EXCEPT ![a] = r]
  PROVE  /\ ask' \in [Asker -> Request]
         /\ ask'[a] = r
         /\ \A b \in Asker : b # a => ask'[b] = ask[b]
  BY DEF TenancyTypeOK

\* The parts of a step that leaves the members of the team alone.
LEMMA TeamUntouched ==
  ASSUME TenancyIInv, NEW a \in Asker, NEW r \in Request, ask' = [ask EXCEPT ![a] = r],
         UNCHANGED <<role, team>>,
         r.does \in MemberChange =>
           /\ team # "not yet"
           /\ r.stage = "checked" /\ r.does # "addMember" => role[r.to] # "OWNER"
  PROVE  TeamHolds' /\ MemberRequestsFit'
<1>1. TeamHolds'
  BY DEF TenancyIInv, TeamHolds, Members, OwnerOf
<1>2. MemberRequestsFit'
  BY Becoming DEF TenancyIInv, MemberRequestsFit
<1>3. QED
  BY <1>1, <1>2

\* The part of a step that leaves the dashboards alone and adds no request
\* about them.
LEMMA DashboardsUntouched ==
  ASSUME TenancyIInv, NEW a \in Asker, NEW r \in Request, ask' = [ask EXCEPT ![a] = r],
         default' \subseteq default, mingled \subseteq mingled',
         r.does \notin DashboardChange
  PROVE  DashboardRequestsFit'
  BY Becoming DEF TenancyIInv, DashboardRequestsFit

LEMMA DroppedIsRequest == Dropped \in Request /\ Dropped.does = "nothing"
  BY DEF Dropped, Request

\* What requests record as overlapping never shrinks.
LEMMA AskingMingles ==
  ASSUME TenancyTypeOK, NEW a \in Asker, NEW r \in Request, Asks(a, r)
  PROVE  /\ mingled \subseteq mingled' /\ mingled' \subseteq {"team", "dashboards", "settings"}
         /\ ask' = [ask EXCEPT ![a] = r]
<1>1. Subject(r) \in {"team", "dashboards", "settings"}
  BY DEF Subject
<1>2. QED
  BY <1>1 DEF Asks, TenancyTypeOK
-----------------------------------------------------------------------------
\* Settings are documents: any of the sections, any of the leaves of each.
LEMMA Documents ==
  ASSUME NEW d \in SettingsJson
  PROVE  /\ d = [n \in DOMAIN d |-> d[n]] /\ DOMAIN d \subseteq Chapter
         /\ \A n \in DOMAIN d :
              /\ d[n] = [k \in DOMAIN d[n] |-> d[n][k]] /\ DOMAIN d[n] \subseteq Leaf
              /\ \A k \in DOMAIN d[n] : d[n][k] \in 0..1
<1>1. PICK N \in SUBSET Chapter : d \in [N -> ChapterOf]
  BY DEF SettingsJson
<1>2. ASSUME NEW n \in DOMAIN d
      PROVE  /\ d[n] = [k \in DOMAIN d[n] |-> d[n][k]] /\ DOMAIN d[n] \subseteq Leaf
             /\ \A k \in DOMAIN d[n] : d[n][k] \in 0..1
  <2>1. d[n] \in ChapterOf
    BY <1>1
  <2>2. PICK K \in SUBSET Leaf : d[n] \in [K -> 0..1]
    BY <2>1 DEF ChapterOf
  <2>3. QED
    BY <2>2
<1>3. QED
  BY <1>1, <1>2

LEMMA ADocument ==
  ASSUME NEW N \in SUBSET Chapter, NEW d, d \in [N -> ChapterOf]
  PROVE  d \in SettingsJson
BY DEF SettingsJson

LEMMA ASection ==
  ASSUME NEW K \in SUBSET Leaf, NEW s, s \in [K -> 0..1]
  PROVE  s \in ChapterOf
BY DEF ChapterOf

LEMMA NothingStored == <<>> \in SettingsJson
<1>1. <<>> \in [{} -> ChapterOf]
  OBVIOUS
<1>2. {} \in SUBSET Chapter
  OBVIOUS
<1>3. QED
  BY <1>1, <1>2, ADocument

\* The merge of two sections, and of two documents
LEMMA SectionsMerge ==
  ASSUME NEW old \in ChapterOf, NEW new \in ChapterOf
  PROVE  /\ Overlaid(old, new) \in ChapterOf
         /\ DOMAIN Overlaid(old, new) = DOMAIN old \union DOMAIN new
         /\ \A k \in DOMAIN old \union DOMAIN new :
              Overlaid(old, new)[k] = IF k \in DOMAIN new THEN new[k] ELSE old[k]
<1>1. PICK K \in SUBSET Leaf : old \in [K -> 0..1]
  BY DEF ChapterOf
<1>2. PICK L \in SUBSET Leaf : new \in [L -> 0..1]
  BY DEF ChapterOf
<1> DEFINE both == K \union L
<1>3. Overlaid(old, new) \in [both -> 0..1] /\ both \in SUBSET Leaf
  BY <1>1, <1>2 DEF Overlaid
<1> HIDE DEF both
<1>4. Overlaid(old, new) \in ChapterOf
  BY <1>3, ASection
<1>5. QED
  BY <1>4 DEF Overlaid

LEMMA DocumentsMerge ==
  ASSUME NEW old \in SettingsJson, NEW new \in SettingsJson
  PROVE  /\ deepMerge(old, new) \in SettingsJson
         /\ \A n \in Chapter, k \in Leaf :
              /\ Mentions(deepMerge(old, new), n, k) <=> Mentions(old, n, k) \/ Mentions(new, n, k)
              /\ Mentions(deepMerge(old, new), n, k) =>
                   deepMerge(old, new)[n][k] = IF Mentions(new, n, k) THEN new[n][k] ELSE old[n][k]
<1> DEFINE m == deepMerge(old, new)
<1>1. PICK N \in SUBSET Chapter : old \in [N -> ChapterOf]
  BY DEF SettingsJson
<1>2. PICK O \in SUBSET Chapter : new \in [O -> ChapterOf]
  BY DEF SettingsJson
<1>3. /\ DOMAIN m = N \union O /\ m = [n \in N \union O |-> m[n]]
      /\ \A n \in N \ O : m[n] = old[n]
      /\ \A n \in O \ N : m[n] = new[n]
      /\ \A n \in N \intersect O : m[n] = Overlaid(old[n], new[n])
  BY <1>1, <1>2 DEF deepMerge
<1> HIDE DEF m
<1>4. \A n \in N \union O : m[n] \in ChapterOf
  <2> SUFFICES ASSUME NEW n \in N \union O PROVE m[n] \in ChapterOf
    OBVIOUS
  <2>1. CASE n \in N \intersect O
    <3>1. PICK x, y : x = old[n] /\ y = new[n]
      OBVIOUS
    <3>2. x \in ChapterOf /\ y \in ChapterOf
      BY <1>1, <1>2, <2>1, <3>1
    <3>3. Overlaid(x, y) \in ChapterOf
      BY <3>2, SectionsMerge
    <3>4. QED
      BY <1>3, <2>1, <3>1, <3>3
  <2>2. CASE n \notin N \intersect O
    BY <1>1, <1>2, <1>3, <2>2
  <2>3. QED
    BY <2>1, <2>2
<1> DEFINE both == N \union O
<1>5. m \in [both -> ChapterOf] /\ both \in SUBSET Chapter
  BY <1>3, <1>4
<1>6. m \in SettingsJson
  <2> HIDE DEF both
  <2>1. QED
    BY <1>5, ADocument
<1>7. ASSUME NEW n \in Chapter, NEW k \in Leaf
      PROVE  /\ Mentions(m, n, k) <=> Mentions(old, n, k) \/ Mentions(new, n, k)
             /\ Mentions(m, n, k) =>
                  m[n][k] = IF Mentions(new, n, k) THEN new[n][k] ELSE old[n][k]
  <2>1. CASE n \in N \intersect O
    <3>1. PICK x, y : x = old[n] /\ y = new[n]
      OBVIOUS
    <3>2. x \in ChapterOf /\ y \in ChapterOf /\ m[n] = Overlaid(x, y)
      BY <1>1, <1>2, <1>3, <2>1, <3>1
    <3>3. /\ DOMAIN m[n] = DOMAIN x \union DOMAIN y
          /\ \A j \in DOMAIN x \union DOMAIN y : m[n][j] = IF j \in DOMAIN y THEN y[j] ELSE x[j]
      <4> DEFINE z == Overlaid(x, y)
      <4>1. /\ DOMAIN z = DOMAIN x \union DOMAIN y
            /\ \A j \in DOMAIN x \union DOMAIN y : z[j] = IF j \in DOMAIN y THEN y[j] ELSE x[j]
        BY <3>2, SectionsMerge
      <4>2. m[n] = z
        BY <3>2
      <4> HIDE DEF z
      <4>3. QED
        BY <4>1, <4>2
    <3>4. QED
      BY <1>1, <1>2, <1>3, <2>1, <3>1, <3>3 DEF Mentions
  <2>2. CASE n \in N \ O
    BY <1>1, <1>2, <1>3, <2>2 DEF Mentions
  <2>3. CASE n \in O \ N
    BY <1>1, <1>2, <1>3, <2>3 DEF Mentions
  <2>4. CASE n \notin N \union O
    BY <1>1, <1>2, <1>3, <2>4 DEF Mentions
  <2>5. QED
    BY <2>1, <2>2, <2>3, <2>4
<1>8. QED
  BY <1>6, <1>7 DEF m

\* What a user is shown of a stored document
LEMMA LeafShown ==
  ASSUME NEW d \in SettingsJson, NEW n \in Chapter, NEW k \in Leaf
  PROVE  getSettings(d)[n][k] = IF Mentions(d, n, k) THEN d[n][k] ELSE 0
<1> DEFINE S == DEFAULT_SETTINGS
<1>1. S \in [Chapter -> [Leaf -> 0..1]] /\ S[n][k] = 0
      /\ DOMAIN S = Chapter /\ DOMAIN S[n] = Leaf
  BY DEF DEFAULT_SETTINGS
<1>2. Chapter \in SUBSET Chapter /\ Leaf \in SUBSET Leaf
  OBVIOUS
<1> HIDE DEF S
<1>3. S \in [Chapter -> ChapterOf]
  <2>1. \A c \in Chapter : S[c] \in ChapterOf
    BY <1>1, <1>2, ASection
  <2>2. QED
    BY <1>1, <2>1
<1>4. S \in SettingsJson
  BY <1>2, <1>3, ADocument
<1>5. Mentions(S, n, k)
  BY <1>1 DEF Mentions
<1>6. /\ Mentions(deepMerge(S, d), n, k) <=> Mentions(S, n, k) \/ Mentions(d, n, k)
      /\ Mentions(deepMerge(S, d), n, k) =>
           deepMerge(S, d)[n][k] = IF Mentions(d, n, k) THEN d[n][k] ELSE S[n][k]
  BY <1>4, DocumentsMerge
<1>7. getSettings(d) = deepMerge(S, d)
  BY DEF getSettings, S
<1>8. QED
  BY <1>1, <1>5, <1>6, <1>7

LEMMA TenancyInvInit == TenancyInit => TenancyIInv
<1> SUFFICES ASSUME TenancyInit PROVE TenancyIInv
  OBVIOUS
<1>1. \A a \in Asker : ask[a] = Unasked /\ Unasked.does = "nothing"
  BY DEF TenancyInit, Unasked
<1>2. TenancyTypeOK
  <2>1. /\ team \in {"not yet", "there", "gone"}
        /\ saved \subseteq Dashboard /\ default \subseteq saved
        /\ mingled \subseteq {"team", "dashboards", "settings"}
    BY DEF TenancyInit
  <2>2. role \in [User -> TeamRole \union {None}]
    BY DEF TenancyInit
  <2>3. settings \in SettingsJson
    BY NothingStored DEF TenancyInit
  <2>4. ask \in [Asker -> Request]
    BY DEF TenancyInit, Request
  <2>5. QED
    BY <2>1, <2>2, <2>3, <2>4 DEF TenancyTypeOK
<1>3. TeamHolds
  BY DEF TenancyInit, TeamHolds, Members
<1>4. MemberRequestsFit /\ DashboardRequestsFit
  BY <1>1 DEF TenancyInit, MemberRequestsFit, DashboardRequestsFit, MemberChange, DashboardChange
<1>5. QED
  BY <1>2, <1>3, <1>4 DEF TenancyIInv

\* A request is asked, or goes on, and changes neither the team nor the
\* dashboards nor the settings.
LEMMA Asking ==
  ASSUME TenancyIInv, NEW a \in Asker, NEW r \in Request,
         UNCHANGED <<role, team, saved, default, settings>>,
         ask' = [ask EXCEPT ![a] = r],
         mingled \subseteq mingled', mingled' \subseteq {"team", "dashboards", "settings"},
         r.does \notin DashboardChange,
         r.does \in MemberChange =>
           /\ team # "not yet"
           /\ r.stage = "checked" /\ r.does # "addMember" => role[r.to] # "OWNER"
  PROVE  TenancyIInv'
<1>1. TenancyTypeOK'
  BY Becoming DEF TenancyIInv, TenancyTypeOK
<1>2. TeamHolds' /\ MemberRequestsFit'
  BY TeamUntouched
<1>3. DashboardRequestsFit'
  BY DashboardsUntouched
<1>4. QED
  BY <1>1, <1>2, <1>3 DEF TenancyIInv
-----------------------------------------------------------------------------
LEMMA InvRequireTeamRole ==
  ASSUME TenancyIInv, NEW a \in Asker, NEW what \in MemberChange, NEW by \in User,
    NEW to \in User,
         NEW granted \in Grantable, requireTeamRole(a, what, by, to, granted)
  PROVE  TenancyIInv'
<1> DEFINE r == IF role[by] \in Managers
                THEN [does |-> what, by |-> by, to |-> to, role |-> granted, stage |-> "allowed"]
                ELSE Dropped
<1>1. r \in Request /\ r.does \notin DashboardChange /\ r.stage # "checked"
  BY DroppedIsRequest DEF Dropped, Request, TeamRequest, MemberChange, DashboardChange
<1>2. r.does \in MemberChange => team # "not yet"
  BY DEF TenancyIInv, TeamHolds, Members, Managers, None, Dropped, MemberChange
<1>3. Asks(a, r) /\ UNCHANGED <<role, team, saved, default, settings>>
  BY DEF requireTeamRole
<1> HIDE DEF r
<1>4. QED
  BY <1>1, <1>2, <1>3, AskingMingles, Asking DEF TenancyIInv

LEMMA InvCheckMember ==
  ASSUME TenancyIInv, NEW a \in Asker, CheckMember(a)
  PROVE  TenancyIInv'
<1> DEFINE now == role[ask[a].to]
           fine == IF ask[a].does = "addMember" THEN now = None ELSE now \notin {None, "OWNER"}
           r == IF fine THEN [ask[a] EXCEPT !.stage = "checked"] ELSE Dropped
<1>1. ask[a].does \in MemberChange /\ ask[a] \in TeamRequest
  BY RequestTypes DEF CheckMember, TenancyIInv, MemberChange
<1>2. r \in Request /\ r.does \notin DashboardChange
  BY <1>1, DroppedIsRequest DEF Request, TeamRequest, MemberChange, DashboardChange
<1>3. r.does \in MemberChange =>
        /\ team # "not yet"
        /\ r.stage = "checked" /\ r.does # "addMember" => role[r.to] # "OWNER"
  BY <1>1, DroppedIsRequest DEF TenancyIInv, MemberRequestsFit, TeamRequest, MemberChange
<1>4. /\ ask' = [ask EXCEPT ![a] = r] /\ UNCHANGED mingled
      /\ UNCHANGED <<role, team, saved, default, settings>>
  BY DEF CheckMember, Becomes
<1>5. mingled \subseteq {"team", "dashboards", "settings"}
  BY DEF TenancyIInv, TenancyTypeOK
<1> HIDE DEF r
<1>6. QED
  BY <1>2, <1>3, <1>4, <1>5, Asking

\* A write to the team: the request is over, and the dashboards stand.
LEMMA TeamWritten ==
  ASSUME TenancyIInv, NEW a \in Asker, Becomes(a, Dropped), UNCHANGED <<saved, default,
    settings>>,
         role' \in [User -> TeamRole \union {None}], team' \in {"not yet", "there", "gone"},
         TeamHolds',
         team # "not yet" => team' # "not yet",
         \A u \in User : team # "not yet" /\ role[u] # "OWNER" => role'[u] # "OWNER"
  PROVE  TenancyIInv'
<1>1. ask' = [ask EXCEPT ![a] = Dropped] /\ UNCHANGED mingled
  BY DEF Becomes
<1>2. TenancyTypeOK'
  BY <1>1, Becoming, DroppedIsRequest DEF TenancyIInv, TenancyTypeOK
<1>3. MemberRequestsFit'
  <2> SUFFICES ASSUME NEW b \in Asker, ask'[b].does \in MemberChange
               PROVE  /\ team' # "not yet"
                      /\ ask'[b].stage = "checked" /\ ask'[b].does # "addMember"
                           => role'[ask'[b].to] # "OWNER"
    BY DEF MemberRequestsFit
  <2>1. ask'[b] = ask[b]
    BY <1>1, Becoming, DroppedIsRequest DEF TenancyIInv, MemberChange
  <2>2. ask[b].to \in User
    BY <2>1, RequestTypes DEF TenancyIInv, TeamRequest
  <2>3. QED
    BY <2>1, <2>2 DEF TenancyIInv, MemberRequestsFit
<1>4. DashboardRequestsFit'
  BY <1>1, DashboardsUntouched, DroppedIsRequest DEF DashboardChange
<1>5. QED
  BY <1>2, <1>3, <1>4 DEF TenancyIInv

LEMMA InvWriteMember ==
  ASSUME TenancyIInv, NEW a \in Asker, WriteMember(a)
  PROVE  TenancyIInv'
<1>1. ask[a].does \in MemberChange /\ ask[a].stage = "checked"
  BY DEF WriteMember, MemberChange
<1>2. ask[a] \in TeamRequest
  BY <1>1, RequestTypes DEF TenancyIInv
<1>3. ask[a].to \in User /\ ask[a].role \in Grantable
  BY <1>2 DEF TeamRequest
<1>4. /\ team # "not yet"
      /\ ask[a].does # "addMember" => role[ask[a].to] # "OWNER"
  BY <1>1 DEF TenancyIInv, MemberRequestsFit
<1>5. PICK x \in Grantable \union {None} :
        /\ role' = role \/ role' = [role EXCEPT ![ask[a].to] = x]
        /\ role' # role => role[ask[a].to] # "OWNER" /\ (team = "there" \/ x = None)
  <2>1. CASE ask[a].does = "addMember"
    BY <2>1, <1>3 DEF WriteMember, None
  <2>2. CASE ask[a].does = "removeMember"
    BY <2>2, <1>4 DEF WriteMember, None
  <2>3. CASE ask[a].does = "updateMemberRole"
    BY <2>3, <1>3, <1>4 DEF WriteMember, None, TenancyIInv, TeamHolds, Members
  <2>4. QED
    BY <1>1, <2>1, <2>2, <2>3 DEF MemberChange
<1>6. role \in [User -> TeamRole \union {None}]
  BY DEF TenancyIInv, TenancyTypeOK
<1>7. x # "OWNER" /\ x \in TeamRole \union {None}
  BY DEF Grantable, TeamRole, None
<1>8. role' \in [User -> TeamRole \union {None}]
  BY <1>3, <1>5, <1>6, <1>7
<1>9. \A u \in User : role'[u] = "OWNER" <=> role[u] = "OWNER"
  BY <1>3, <1>5, <1>6, <1>7
<1>10. UNCHANGED <<team, saved, default, settings>> /\ Becomes(a, Dropped)
  BY DEF WriteMember
<1>11. TeamHolds'
  <2>1. Members'
    BY <1>3, <1>5, <1>6, <1>10 DEF TenancyIInv, TeamHolds, Members
  <2>2. QED
    BY <2>1, <1>9, <1>10 DEF TenancyIInv, TeamHolds, OwnerOf
<1>12. team' \in {"not yet", "there", "gone"}
  BY <1>10 DEF TenancyIInv, TenancyTypeOK
<1>13. QED
  BY <1>8, <1>9, <1>10, <1>11, <1>12, TeamWritten

LEMMA InvFindSlug ==
  ASSUME TenancyIInv, NEW a \in Asker, NEW by \in User, FindSlug(a, by)
  PROVE  TenancyIInv'
<1> DEFINE r == IF team # "not yet" THEN Dropped
                ELSE [does |-> "createTeam", by |-> by, to |-> by, role |-> "ADMIN",
                  stage |-> "checked"]
<1>1. r \in Request /\ r.does \notin DashboardChange /\ r.does \notin MemberChange
  BY DroppedIsRequest DEF Request, TeamRequest, Grantable, DashboardChange, MemberChange
<1>2. Asks(a, r) /\ UNCHANGED <<role, team, saved, default, settings>>
  BY DEF FindSlug
<1> HIDE DEF r
<1>3. QED
  BY <1>1, <1>2, AskingMingles, Asking DEF TenancyIInv

LEMMA InvCreateTeam ==
  ASSUME TenancyIInv, NEW a \in Asker, createTeam(a)
  PROVE  TenancyIInv'
<1>1. ask[a].by \in User
  BY RequestTypes DEF createTeam, TenancyIInv, TeamRequest
<1>2. Becomes(a, Dropped) /\ UNCHANGED <<saved, default, settings>>
  BY DEF createTeam
<1>3. CASE team # "not yet"
  <2>1. UNCHANGED <<team, role>>
    BY <1>3 DEF createTeam
  <2>2. TeamHolds'
    BY <2>1 DEF TenancyIInv, TeamHolds, Members, OwnerOf
  <2>3. QED
    BY <1>2, <2>1, <2>2, TeamWritten DEF TenancyIInv, TenancyTypeOK
<1>4. CASE team = "not yet"
  <2>1. team' = "there" /\ role' = [role EXCEPT ![ask[a].by] = "OWNER"]
    BY <1>4 DEF createTeam
  <2>2. role \in [User -> TeamRole \union {None}] /\ \A u \in User : role[u] = None
    BY <1>4 DEF TenancyIInv, TeamHolds, Members, TenancyTypeOK
  <2>3. TeamHolds'
    <3>1. ask[a].by \in User /\ role'[ask[a].by] = "OWNER"
            /\ \A u \in User : role'[u] = "OWNER" => u = ask[a].by
      BY <1>1, <2>1, <2>2 DEF None
    <3>2. QED
      BY <2>1, <3>1 DEF TeamHolds, Members, OwnerOf
  <2>4. role' \in [User -> TeamRole \union {None}]
    BY <1>1, <2>1, <2>2 DEF TeamRole
  <2>5. QED
    BY <1>2, <1>4, <2>1, <2>3, <2>4, TeamWritten
<1>5. QED
  BY <1>3, <1>4

LEMMA InvAskDeleteTeam ==
  ASSUME TenancyIInv, NEW a \in Asker, NEW by \in User, NEW isGlobalAdmin \in BOOLEAN,
         AskDeleteTeam(a, by, isGlobalAdmin)
  PROVE  TenancyIInv'
<1> DEFINE r == IF isGlobalAdmin \/ role[by] = "OWNER"
                THEN [does |-> "deleteTeam", by |-> by, to |-> by, role |-> "ADMIN",
                  stage |-> "checked"]
                ELSE Dropped
<1>1. r \in Request /\ r.does \notin DashboardChange /\ r.does \notin MemberChange
  BY DroppedIsRequest DEF Request, TeamRequest, Grantable, DashboardChange, MemberChange
<1>2. Asks(a, r) /\ UNCHANGED <<role, team, saved, default, settings>>
  BY DEF AskDeleteTeam
<1> HIDE DEF r
<1>3. QED
  BY <1>1, <1>2, AskingMingles, Asking DEF TenancyIInv

LEMMA InvDeleteTeam ==
  ASSUME TenancyIInv, NEW a \in Asker, deleteTeam(a)
  PROVE  TenancyIInv'
<1>1. /\ team' = IF team = "there" THEN "gone" ELSE team
      /\ role' = [u \in User |-> None]
      /\ Becomes(a, Dropped) /\ UNCHANGED <<saved, default, settings>>
  BY DEF deleteTeam
<1>2. TeamHolds'
  BY <1>1 DEF TeamHolds, Members
<1>3. role' \in [User -> TeamRole \union {None}] /\ \A u \in User : role'[u] # "OWNER"
  BY <1>1 DEF None
<1>4. team' \in {"not yet", "there", "gone"}
  BY <1>1 DEF TenancyIInv, TenancyTypeOK
<1>5. QED
  BY <1>1, <1>2, <1>3, <1>4, TeamWritten
-----------------------------------------------------------------------------
LEMMA InvAskDashboard ==
  ASSUME TenancyIInv, NEW a \in Asker, NEW d \in Dashboard, NEW isDefault \in BOOLEAN,
         NEW what \in DashboardChange, AskDashboard(a, what, d, isDefault)
  PROVE  TenancyIInv'
<1> DEFINE r == [does |-> what, id |-> d, isDefault |-> isDefault, stage |-> "allowed"]
<1>1. r \in Request /\ r.does = what /\ r.stage = "allowed" /\ what \notin MemberChange
  BY DEF Request, DashboardRequest, DashboardChange, MemberChange
<1>2. Asks(a, r) /\ UNCHANGED <<role, team, saved, default, settings>>
  BY DEF AskDashboard
<1>3. ask[a] = Unasked /\ r # Dropped /\ Subject(r) = "dashboards"
  BY <1>1, <1>2 DEF Asks, Subject, Dropped, DashboardChange
<1>4. "dashboards" \notin mingled' => \A b \in Asker : ask[b].does \notin DashboardChange
  <2> SUFFICES ASSUME NEW b \in Asker, ask[b].does \in DashboardChange
               PROVE  "dashboards" \in mingled'
    OBVIOUS
  <2>1. ask[b] \in DashboardRequest
    BY RequestTypes DEF TenancyIInv
  <2>2. Busy(b) /\ Subject(ask[b]) = "dashboards"
    BY <2>1 DEF Busy, Subject, DashboardRequest
  <2>3. QED
    BY <1>2, <1>3, <2>2 DEF Asks
<1> HIDE DEF r
<1>5. /\ mingled \subseteq mingled' /\ mingled' \subseteq {"team", "dashboards", "settings"}
      /\ ask' = [ask EXCEPT ![a] = r]
  BY <1>1, <1>2, AskingMingles DEF TenancyIInv
<1>6. TenancyTypeOK'
  BY <1>1, <1>2, <1>5, Becoming DEF TenancyIInv, TenancyTypeOK
<1>7. TeamHolds' /\ MemberRequestsFit'
  BY <1>1, <1>2, <1>5, TeamUntouched
<1>8. DashboardRequestsFit'
  BY <1>1, <1>2, <1>4, <1>5, Becoming DEF TenancyIInv, DashboardRequestsFit
<1>9. QED
  BY <1>6, <1>7, <1>8 DEF TenancyIInv

LEMMA InvUnsetDefault ==
  ASSUME TenancyIInv, NEW a \in Asker, UnsetDefault(a)
  PROVE  TenancyIInv'
<1> DEFINE r == [ask[a] EXCEPT !.stage = "checked"]
<1>1. ask[a].does \in DashboardChange /\ ask[a] \in DashboardRequest
  BY RequestTypes DEF UnsetDefault, TenancyIInv, DashboardChange
<1>2. r \in DashboardRequest /\ r \in Request /\ r.does = ask[a].does /\ r.id = ask[a].id
        /\ r.isDefault = ask[a].isDefault
  BY <1>1 DEF DashboardRequest, Request
<1>3. r.does \notin MemberChange
  BY <1>1, <1>2 DEF DashboardChange, MemberChange
<1>4. /\ default' = IF ask[a].isDefault THEN default \intersect {ask[a].id} ELSE default
      /\ ask' = [ask EXCEPT ![a] = r] /\ UNCHANGED mingled
      /\ UNCHANGED <<role, team, saved, settings>>
  BY DEF UnsetDefault, Becomes
<1> HIDE DEF r
<1>5. TenancyTypeOK'
  BY <1>2, <1>4, Becoming DEF TenancyIInv, TenancyTypeOK
<1>6. TeamHolds' /\ MemberRequestsFit'
  BY <1>2, <1>3, <1>4, TeamUntouched
<1>7. DashboardRequestsFit'
  BY <1>1, <1>2, <1>4, Becoming DEF TenancyIInv, DashboardRequestsFit
<1>8. QED
  BY <1>5, <1>6, <1>7 DEF TenancyIInv

LEMMA InvWriteDashboard ==
  ASSUME TenancyIInv, NEW a \in Asker, WriteDashboard(a)
  PROVE  TenancyIInv'
<1>1. ask[a].does \in DashboardChange /\ ask[a] \in DashboardRequest /\ ask[a].stage = "checked"
  BY RequestTypes DEF WriteDashboard, TenancyIInv, DashboardChange
<1>2. ask[a].id \in Dashboard
  BY <1>1 DEF DashboardRequest
<1>3. /\ ask' = [ask EXCEPT ![a] = Dropped] /\ UNCHANGED mingled
      /\ UNCHANGED <<role, team, settings>>
  BY DEF WriteDashboard, Becomes
<1>4. \/ UNCHANGED <<saved, default>>
      \/ /\ saved' = saved \union {ask[a].id}
         /\ default' = IF ask[a].isDefault THEN default \union {ask[a].id} ELSE default \ {ask[a].id}
  BY DEF WriteDashboard
<1>5. TenancyTypeOK'
  BY <1>2, <1>3, <1>4, Becoming, DroppedIsRequest DEF TenancyIInv, TenancyTypeOK
<1>6. TeamHolds' /\ MemberRequestsFit'
  BY <1>3, TeamUntouched, DroppedIsRequest DEF MemberChange
<1>7. DashboardRequestsFit'
  <2> SUFFICES ASSUME "dashboards" \notin mingled
               PROVE  /\ \A c, d \in default' : c = d
                      /\ \A b \in Asker : ask'[b].does \notin DashboardChange
    BY <1>3 DEF DashboardRequestsFit
  <2>1. \A b \in Asker : ask'[b].does \notin DashboardChange
    BY <1>1, <1>3, Becoming, DroppedIsRequest DEF TenancyIInv, DashboardRequestsFit,
       DashboardChange
  <2>2. \A c, d \in default' : c = d
    BY <1>1, <1>4 DEF TenancyIInv, DashboardRequestsFit
  <2>3. QED
    BY <2>1, <2>2
<1>8. QED
  BY <1>5, <1>6, <1>7 DEF TenancyIInv

LEMMA InvRemoveDashboard ==
  ASSUME TenancyIInv, NEW a \in Asker, NEW d \in Dashboard, removeDashboard(a, d)
  PROVE  TenancyIInv'
<1>1. Asks(a, Dropped) /\ saved' = saved \ {d} /\ default' = default \ {d}
        /\ UNCHANGED <<role, team, settings>>
  BY DEF removeDashboard
<1>2. /\ mingled \subseteq mingled' /\ mingled' \subseteq {"team", "dashboards", "settings"}
      /\ ask' = [ask EXCEPT ![a] = Dropped]
  BY <1>1, AskingMingles, DroppedIsRequest DEF TenancyIInv
<1>3. TenancyTypeOK'
  BY <1>1, <1>2, Becoming, DroppedIsRequest DEF TenancyIInv, TenancyTypeOK
<1>4. TeamHolds' /\ MemberRequestsFit'
  BY <1>1, <1>2, TeamUntouched, DroppedIsRequest DEF MemberChange
<1>5. DashboardRequestsFit'
  BY <1>1, <1>2, DashboardsUntouched, DroppedIsRequest DEF DashboardChange
<1>6. QED
  BY <1>3, <1>4, <1>5 DEF TenancyIInv
-----------------------------------------------------------------------------
LEMMA InvSettings ==
  ASSUME TenancyIInv, NEW a \in Asker, SettingsStep(a)
  PROVE  TenancyIInv'
<1>1. CASE updateSettings(a)
  <2>1. ask[a] \in SettingsRequest
    BY <1>1, RequestTypes DEF updateSettings, TenancyIInv
  <2>2. settings' \in SettingsJson
    <3>1. settings' = deepMerge(ask[a].copy, ask[a].partial)
      BY <1>1 DEF updateSettings
    <3>2. ask[a].copy \in SettingsJson /\ ask[a].partial \in SettingsJson
      BY <2>1 DEF SettingsRequest
    <3>3. QED
      BY <3>1, <3>2, DocumentsMerge
  <2>3. ask' = [ask EXCEPT ![a] = Dropped] /\ UNCHANGED <<role, team, saved, default, mingled>>
    BY <1>1 DEF updateSettings, Becomes
  <2>4. TenancyTypeOK'
    BY <2>2, <2>3, Becoming, DroppedIsRequest DEF TenancyIInv, TenancyTypeOK
  <2>5. TeamHolds' /\ MemberRequestsFit'
    BY <2>3, TeamUntouched, DroppedIsRequest DEF MemberChange
  <2>6. DashboardRequestsFit'
    BY <2>3, DashboardsUntouched, DroppedIsRequest DEF DashboardChange
  <2>7. QED
    BY <2>4, <2>5, <2>6 DEF TenancyIInv
<1>2. ASSUME NEW partial \in Change, ReadSettings(a, partial)
      PROVE  TenancyIInv'
  <2> DEFINE r == [does |-> "updateSettings", partial |-> partial, copy |-> settings,
                   stage |-> "checked"]
  <2>1. settings \in SettingsJson /\ partial \in SettingsJson
    BY TenancyAssumption DEF TenancyIInv, TenancyTypeOK
  <2>2. r \in Request /\ r.does \notin DashboardChange /\ r.does \notin MemberChange
    BY <2>1 DEF Request, SettingsRequest, DashboardChange, MemberChange
  <2>3. Asks(a, r) /\ UNCHANGED <<role, team, saved, default, settings>>
    BY <1>2 DEF ReadSettings
  <2> HIDE DEF r
  <2>4. QED
    BY <2>2, <2>3, AskingMingles, Asking DEF TenancyIInv
<1>3. QED
  BY <1>1, <1>2 DEF SettingsStep

LEMMA InvGiveUp ==
  ASSUME TenancyIInv, NEW a \in Asker, GiveUp(a)
  PROVE  TenancyIInv'
<1>1. /\ ask' = [ask EXCEPT ![a] = Dropped] /\ UNCHANGED mingled
      /\ UNCHANGED <<role, team, saved, default, settings>>
  BY DEF GiveUp, Becomes
<1>2. mingled \subseteq {"team", "dashboards", "settings"}
  BY DEF TenancyIInv, TenancyTypeOK
<1>3. QED
  BY <1>1, <1>2, Asking, DroppedIsRequest DEF MemberChange, DashboardChange

LEMMA TenancyInvStep == TenancyIInv /\ [TenancyNext]_tenancyVars => TenancyIInv'
<1> SUFFICES ASSUME TenancyIInv, [TenancyNext]_tenancyVars PROVE TenancyIInv'
  OBVIOUS
<1>1. ASSUME NEW a \in Asker, TeamStep(a) PROVE TenancyIInv'
  <2>1. ASSUME NEW by \in User, NEW to \in User, NEW granted \in Grantable,
               NEW what \in {"addMember", "removeMember", "updateMemberRole"},
               requireTeamRole(a, what, by, to, granted)
        PROVE  TenancyIInv'
    BY <2>1, InvRequireTeamRole DEF MemberChange
  <2>2. ASSUME NEW by \in User, FindSlug(a, by) PROVE TenancyIInv'
    BY <2>2, InvFindSlug
  <2>3. ASSUME NEW by \in User, NEW isGlobalAdmin \in BOOLEAN, AskDeleteTeam(a, by, isGlobalAdmin)
        PROVE  TenancyIInv'
    BY <2>3, InvAskDeleteTeam
  <2>4. QED
    BY <1>1, <2>1, <2>2, <2>3, InvCheckMember, InvWriteMember, InvCreateTeam, InvDeleteTeam
       DEF TeamStep
<1>2. ASSUME NEW a \in Asker, DashboardStep(a) PROVE TenancyIInv'
  <2>1. ASSUME NEW d \in Dashboard, NEW isDefault \in BOOLEAN, NEW what \in {"create", "update"},
               AskDashboard(a, what, d, isDefault)
        PROVE  TenancyIInv'
    BY <2>1, InvAskDashboard DEF DashboardChange
  <2>2. QED
    BY <1>2, <2>1, InvUnsetDefault, InvWriteDashboard, InvRemoveDashboard DEF DashboardStep
<1>3. CASE UNCHANGED tenancyVars
  BY <1>3 DEF tenancyVars, TenancyIInv, TenancyTypeOK, TeamHolds, Members, OwnerOf,
     MemberRequestsFit,
     DashboardRequestsFit
<1>4. QED
  BY <1>1, <1>2, <1>3, InvSettings, InvGiveUp DEF TenancyNext

\* One owner is a set of owners with one member.
LEMMA TenancyInvImplies == TenancyIInv => TenancyInv
<1> SUFFICES ASSUME TenancyIInv PROVE TenancyInv
  OBVIOUS
<1>1. OneOwner
  <2>1. CASE team = "there"
    <3>1. PICK o \in User : OwnerOf(o)
      BY <2>1 DEF TenancyIInv, TeamHolds
    <3>2. {u \in User : role[u] = "OWNER"} = {o}
      BY <3>1 DEF OwnerOf
    <3>3. QED
      BY <2>1, <3>2, FS_Singleton DEF OneOwner
  <2>2. CASE team # "there"
    <3>1. {u \in User : role[u] = "OWNER"} = {}
      BY <2>2 DEF TenancyIInv, TeamHolds, Members, None
    <3>2. QED
      BY <2>2, <3>1, FS_EmptySet DEF OneOwner
  <2>3. QED
    BY <2>1, <2>2
<1>2. OneDefault
  <2> SUFFICES ASSUME "dashboards" \notin mingled PROVE Cardinality(default) <= 1
    BY DEF OneDefault
  <2>1. CASE default = {}
    BY <2>1, FS_EmptySet
  <2>2. CASE default # {}
    <3>1. PICK d \in default : default = {d}
      BY <2>2 DEF TenancyIInv, DashboardRequestsFit
    <3>2. QED
      BY <3>1, FS_Singleton
  <2>3. QED
    BY <2>1, <2>2
<1>3. QED
  BY <1>1, <1>2 DEF TenancyIInv, TenancyInv, TeamHolds

\* A team that exists has exactly one owner and one that is gone no members,
\* and there is at most one default dashboard unless two changes of dashboards
\* overlapped, whatever requests do at once.
THEOREM TenancyTheorem == TenancySpec => []TenancyInv
<1>1. TenancySpec => []TenancyIInv
  BY TenancyInvInit, TenancyInvStep, PTL DEF TenancySpec
<1>2. QED
  BY <1>1, TenancyInvImplies, PTL

\* Changes of settings that do not overlap are of what is stored.
SettingsRequestsFit == "settings" \notin mingled =>
  /\ \A a, b \in Asker :
       ask[a].does = "updateSettings" /\ ask[b].does = "updateSettings" => a = b
  /\ \A a \in Asker : ask[a].does = "updateSettings" => ask[a].copy = settings

OtherStep(a) ==
  \/ TeamStep(a) \/ DashboardStep(a) \/ GiveUp(a)

\* A step about something else asks for no change of settings and makes none.
LEMMA SettingsUntouched ==
  ASSUME TenancyTypeOK, NEW a \in Asker, OtherStep(a)
  PROVE  /\ UNCHANGED settings /\ mingled \subseteq mingled'
         /\ \A b \in Asker : ask'[b].does = "updateSettings" => ask'[b] = ask[b]
<1> USE DEF Becomes, Asks
<1>1. ASSUME NEW r, ask' = [ask EXCEPT ![a] = r], r.does # "updateSettings"
      PROVE  \A b \in Asker : ask'[b].does = "updateSettings" => ask'[b] = ask[b]
  BY <1>1 DEF TenancyTypeOK
<1>2. Dropped.does # "updateSettings"
  BY DEF Dropped
<1>3. CASE GiveUp(a)
  BY <1>1, <1>2, <1>3 DEF GiveUp
<1>4. CASE TeamStep(a)
  <2>1. ASSUME NEW by \in User, NEW to \in User, NEW granted \in Grantable,
               NEW what \in {"addMember", "removeMember", "updateMemberRole"},
               requireTeamRole(a, what, by, to, granted)
        PROVE  /\ UNCHANGED settings /\ mingled \subseteq mingled'
               /\ \A b \in Asker : ask'[b].does = "updateSettings" => ask'[b] = ask[b]
    <3> DEFINE r == IF role[by] \in Managers
                    THEN [does |-> what, by |-> by, to |-> to, role |-> granted,
                      stage |-> "allowed"]
                    ELSE Dropped
    <3>1. r.does # "updateSettings"
      BY <1>2
    <3>2. ask' = [ask EXCEPT ![a] = r] /\ UNCHANGED settings /\ mingled \subseteq mingled'
      BY <2>1 DEF requireTeamRole
    <3> HIDE DEF r
    <3>3. QED
      BY <1>1, <3>1, <3>2
  <2>2. CASE CheckMember(a)
    <3> DEFINE r == [ask[a] EXCEPT !.stage = "checked"]
    <3>1. ask[a] \in TeamRequest
      BY <2>2, RequestTypes DEF CheckMember, MemberChange
    <3>2. r.does # "updateSettings"
      BY <3>1 DEF TeamRequest
    <3>3. (ask' = [ask EXCEPT ![a] = r] \/ ask' = [ask EXCEPT ![a] = Dropped])
          /\ UNCHANGED <<settings, mingled>>
      BY <2>2 DEF CheckMember
    <3> HIDE DEF r
    <3>4. QED
      BY <1>1, <1>2, <3>2, <3>3
  <2>3. CASE WriteMember(a)
    BY <1>1, <1>2, <2>3 DEF WriteMember
  <2>4. CASE createTeam(a) \/ deleteTeam(a)
    BY <1>1, <1>2, <2>4 DEF createTeam, deleteTeam
  <2>5. ASSUME NEW by \in User, FindSlug(a, by)
        PROVE  /\ UNCHANGED settings /\ mingled \subseteq mingled'
               /\ \A b \in Asker : ask'[b].does = "updateSettings" => ask'[b] = ask[b]
    <3> DEFINE r == IF team # "not yet" THEN Dropped
                    ELSE [does |-> "createTeam", by |-> by, to |-> by, role |-> "ADMIN",
                      stage |-> "checked"]
    <3>1. r.does # "updateSettings"
      BY <1>2
    <3>2. ask' = [ask EXCEPT ![a] = r] /\ UNCHANGED settings /\ mingled \subseteq mingled'
      BY <2>5 DEF FindSlug
    <3> HIDE DEF r
    <3>3. QED
      BY <1>1, <3>1, <3>2
  <2>6. ASSUME NEW by \in User, NEW isGlobalAdmin \in BOOLEAN, AskDeleteTeam(a, by, isGlobalAdmin)
        PROVE  /\ UNCHANGED settings /\ mingled \subseteq mingled'
               /\ \A b \in Asker : ask'[b].does = "updateSettings" => ask'[b] = ask[b]
    <3> DEFINE r == IF isGlobalAdmin \/ role[by] = "OWNER"
                    THEN [does |-> "deleteTeam", by |-> by, to |-> by, role |-> "ADMIN",
                      stage |-> "checked"]
                    ELSE Dropped
    <3>1. r.does # "updateSettings"
      BY <1>2
    <3>2. ask' = [ask EXCEPT ![a] = r] /\ UNCHANGED settings /\ mingled \subseteq mingled'
      BY <2>6 DEF AskDeleteTeam
    <3> HIDE DEF r
    <3>3. QED
      BY <1>1, <3>1, <3>2
  <2>7. QED
    BY <1>4, <2>1, <2>2, <2>3, <2>4, <2>5, <2>6 DEF TeamStep
<1>5. CASE DashboardStep(a)
  <2>1. ASSUME NEW d \in Dashboard, NEW isDefault \in BOOLEAN, NEW what \in {"create", "update"},
               AskDashboard(a, what, d, isDefault)
        PROVE  /\ UNCHANGED settings /\ mingled \subseteq mingled'
               /\ \A b \in Asker : ask'[b].does = "updateSettings" => ask'[b] = ask[b]
    <3> DEFINE r == [does |-> what, id |-> d, isDefault |-> isDefault, stage |-> "allowed"]
    <3>1. r.does # "updateSettings"
      OBVIOUS
    <3>2. ask' = [ask EXCEPT ![a] = r] /\ UNCHANGED settings /\ mingled \subseteq mingled'
      BY <2>1 DEF AskDashboard
    <3> HIDE DEF r
    <3>3. QED
      BY <1>1, <3>1, <3>2
  <2>2. CASE UnsetDefault(a)
    <3> DEFINE r == [ask[a] EXCEPT !.stage = "checked"]
    <3>1. ask[a] \in DashboardRequest
      BY <2>2, RequestTypes DEF UnsetDefault, DashboardChange
    <3>2. r.does # "updateSettings"
      BY <3>1 DEF DashboardRequest
    <3>3. ask' = [ask EXCEPT ![a] = r] /\ UNCHANGED <<settings, mingled>>
      BY <2>2 DEF UnsetDefault
    <3> HIDE DEF r
    <3>4. QED
      BY <1>1, <3>2, <3>3
  <2>3. CASE WriteDashboard(a)
    BY <1>1, <1>2, <2>3 DEF WriteDashboard
  <2>4. ASSUME NEW d \in Dashboard, removeDashboard(a, d)
        PROVE  /\ UNCHANGED settings /\ mingled \subseteq mingled'
               /\ \A b \in Asker : ask'[b].does = "updateSettings" => ask'[b] = ask[b]
    BY <1>1, <1>2, <2>4 DEF removeDashboard
  <2>5. QED
    BY <1>5, <2>1, <2>2, <2>3, <2>4 DEF DashboardStep
<1>6. QED
  BY <1>3, <1>4, <1>5 DEF OtherStep

\* A change of settings, seen by the user: what it names, and what its request had read.
ChangeShows(a) ==
  /\ ask[a].does = "updateSettings" /\ ask'[a] = Dropped
  /\ "settings" \notin mingled => ask[a].copy = settings
  /\ \A n \in Chapter, k \in Leaf :
       getSettings(settings')[n][k] = IF Mentions(ask[a].partial, n, k) THEN ask[a].partial[n][k]
                                ELSE getSettings(ask[a].copy)[n][k]

LEMMA MergeShows ==
  ASSUME TenancyTypeOK, SettingsRequestsFit, NEW a \in Asker, updateSettings(a)
  PROVE  ChangeShows(a)
<1>1. /\ ask[a].does = "updateSettings" /\ ask'[a] = Dropped
      /\ settings' = deepMerge(ask[a].copy, ask[a].partial)
  BY DEF updateSettings, Becomes, TenancyTypeOK
<1>2. ask[a] \in SettingsRequest /\ ("settings" \notin mingled => ask[a].copy = settings)
  BY <1>1, RequestTypes DEF SettingsRequestsFit
<1>3. PICK old, new : old = ask[a].copy /\ new = ask[a].partial
  OBVIOUS
<1>4. old \in SettingsJson /\ new \in SettingsJson
  BY <1>2, <1>3 DEF SettingsRequest
<1>5. PICK m : m = deepMerge(old, new)
  OBVIOUS
<1>6. /\ m \in SettingsJson
      /\ \A n \in Chapter, k \in Leaf :
           /\ Mentions(m, n, k) <=> Mentions(old, n, k) \/ Mentions(new, n, k)
           /\ Mentions(m, n, k) => m[n][k] = IF Mentions(new, n, k) THEN new[n][k] ELSE old[n][k]
  BY <1>4, <1>5, DocumentsMerge
<1>7. ASSUME NEW n \in Chapter, NEW k \in Leaf
      PROVE  getSettings(m)[n][k] = IF Mentions(new, n, k) THEN new[n][k] ELSE getSettings(old)[n][k]
  <2>1. /\ getSettings(m)[n][k] = IF Mentions(m, n, k) THEN m[n][k] ELSE 0
        /\ getSettings(old)[n][k] = IF Mentions(old, n, k) THEN old[n][k] ELSE 0
    BY <1>4, <1>6, LeafShown
  <2>2. QED
    BY <1>6, <2>1
<1>8. settings' = m
  BY <1>1, <1>3, <1>5
<1>9. QED
  BY <1>1, <1>2, <1>3, <1>7, <1>8 DEF ChangeShows

LEMMA SettingsFitStep ==
  ASSUME TenancyTypeOK, SettingsRequestsFit, [TenancyNext]_tenancyVars
  PROVE  SettingsRequestsFit'
<1>1. CASE UNCHANGED tenancyVars
  BY <1>1 DEF tenancyVars, SettingsRequestsFit
<1>2. ASSUME NEW a \in Asker, OtherStep(a) PROVE SettingsRequestsFit'
  BY <1>2, SettingsUntouched DEF SettingsRequestsFit
<1>3. ASSUME NEW a \in Asker, updateSettings(a) PROVE SettingsRequestsFit'
  <2>1. /\ ask' = [ask EXCEPT ![a] = Dropped] /\ UNCHANGED mingled
        /\ ask[a].does = "updateSettings" /\ Dropped.does # "updateSettings"
    BY <1>3 DEF updateSettings, Becomes, Dropped
  <2>2. "settings" \notin mingled => \A b \in Asker : ask'[b].does # "updateSettings"
    BY <2>1 DEF SettingsRequestsFit, TenancyTypeOK
  <2>3. QED
    BY <2>1, <2>2 DEF SettingsRequestsFit
<1>4. ASSUME NEW a \in Asker, NEW partial \in Change, ReadSettings(a, partial)
      PROVE  SettingsRequestsFit'
  <2> DEFINE r == [does |-> "updateSettings", partial |-> partial, copy |-> settings,
                   stage |-> "checked"]
  <2>1. r.does = "updateSettings" /\ r.copy = settings /\ r # Dropped /\ Subject(r) = "settings"
    BY DEF Subject, Dropped
  <2>2. Asks(a, r) /\ UNCHANGED settings
    BY <1>4 DEF ReadSettings
  <2> HIDE DEF r
  <2>3. \A b \in Asker : ask[b].does = "updateSettings" => Busy(b) /\ Subject(ask[b]) = "settings"
    <3> SUFFICES ASSUME NEW b \in Asker, ask[b].does = "updateSettings"
                 PROVE  Busy(b) /\ Subject(ask[b]) = "settings"
      OBVIOUS
    <3>1. ask[b] \in SettingsRequest
      BY RequestTypes
    <3>2. QED
      BY <3>1 DEF Busy, Subject, SettingsRequest
  <2>4. "settings" \notin mingled' => \A b \in Asker : ask[b].does # "updateSettings"
    BY <2>1, <2>2, <2>3 DEF Asks
  <2>5. mingled \subseteq mingled'
    BY <2>2 DEF Asks
  <2>6. ask' = [ask EXCEPT ![a] = r]
    BY <2>2 DEF Asks
  <2>7. QED
    BY <2>1, <2>2, <2>4, <2>5, <2>6 DEF SettingsRequestsFit, TenancyTypeOK
<1>5. QED
  BY <1>1, <1>2, <1>3, <1>4 DEF TenancyNext, SettingsStep, OtherStep

\* For any sections and leaves: a change of settings (settings.service.ts) shows the user the
\* leaves its document names as it names them and every other one as its request had read it,
\* which is as it was stored, unless two changes overlapped.
THEOREM SettingsTheorem == TenancySpec => OtherSettingsStand
<1> DEFINE Stands == settings' # settings => \E a \in Asker : ChangeShows(a)
<1>1. TenancyInit => SettingsRequestsFit
  <2>1. TenancyInit => \A a \in Asker : ask[a].does = "nothing"
    <3>1. Unasked.does = "nothing"
      BY DEF Unasked
    <3>2. TenancyInit => \A a \in Asker : ask[a] = Unasked
      BY DEF TenancyInit
    <3>3. QED
      BY <3>1, <3>2
  <2>2. QED
    BY <2>1 DEF SettingsRequestsFit
<1>2. ASSUME TenancyIInv, SettingsRequestsFit, [TenancyNext]_tenancyVars PROVE Stands
  <2>1. ASSUME NEW a \in Asker, OtherStep(a) PROVE Stands
    BY <1>2, <2>1, SettingsUntouched DEF TenancyIInv
  <2>2. ASSUME NEW a \in Asker, updateSettings(a) PROVE Stands
    BY <1>2, <2>2, MergeShows DEF TenancyIInv
  <2>3. QED
    BY <1>2, <2>1, <2>2 DEF TenancyNext, SettingsStep, ReadSettings, OtherStep, tenancyVars
<1>3. TenancyIInv /\ SettingsRequestsFit /\ [TenancyNext]_tenancyVars => SettingsRequestsFit' /\ [Stands]_tenancyVars
  BY <1>2, SettingsFitStep DEF TenancyIInv
<1>4. [Stands]_tenancyVars => [settings' # settings => \E a \in Asker :
                                /\ ask[a].does = "updateSettings" /\ ask'[a] = Dropped
                                /\ "settings" \notin mingled => ask[a].copy = settings
                                /\ \A n \in Chapter, k \in Leaf :
                                     getSettings(settings')[n][k] =
                                       IF Mentions(ask[a].partial, n, k) THEN ask[a].partial[n][k]
                                       ELSE getSettings(ask[a].copy)[n][k]]_tenancyVars
  BY DEF ChangeShows
<1>5. QED
  BY <1>1, <1>3, <1>4, TenancyInvInit, TenancyInvStep, PTL DEF TenancySpec, OtherSettingsStand
-----------------------------------------------------------------------------
\* What analyses cost

\* An analysis that reports costs goes through these steps; the others through those
Reported == {"gather", "chat", "row", "sum", "mail"}
Unreported == {"embed", "search", "explain", "throw", "update"}

LEMMA FeatureSteps ==
  /\ Len(categorizeFailure) = 4 /\ DOMAIN categorizeFailure = 1..4
  /\ categorizeFailure[1] = "chat" /\ categorizeFailure[2] = "row" /\ categorizeFailure[3] = "sum"
  /\ categorizeFailure[4] = "mail"
  /\ Len(enrichFailureContext) = 5 /\ DOMAIN enrichFailureContext = 1..5
  /\ enrichFailureContext[1] = "gather" /\ enrichFailureContext[2] = "chat"
  /\ enrichFailureContext[3] = "row" /\ enrichFailureContext[4] = "sum"
  /\ enrichFailureContext[5] = "mail"
  /\ summarizeLogs = categorizeFailure
<1>1. Len(categorizeFailure) = 4 /\ DOMAIN categorizeFailure = 1..4
  BY DEF categorizeFailure, recordUsage
<1>2. /\ categorizeFailure[1] = "chat" /\ categorizeFailure[2] = "row"
      /\ categorizeFailure[3] = "sum" /\ categorizeFailure[4] = "mail"
  BY DEF categorizeFailure, recordUsage
<1>3. Len(enrichFailureContext) = 5 /\ DOMAIN enrichFailureContext = 1..5
  BY DEF enrichFailureContext, recordUsage
<1>4. /\ enrichFailureContext[1] = "gather" /\ enrichFailureContext[2] = "chat"
      /\ enrichFailureContext[3] = "row" /\ enrichFailureContext[4] = "sum"
      /\ enrichFailureContext[5] = "mail"
  BY DEF enrichFailureContext, recordUsage
<1>5. summarizeLogs = categorizeFailure
  BY DEF summarizeLogs, categorizeFailure
<1>6. QED BY <1>1, <1>2, <1>3, <1>4, <1>5

LEMMA OtherSteps ==
  /\ Len(findSimilarFailures) = 3 /\ DOMAIN findSimilarFailures = 1..3
  /\ findSimilarFailures[1] = "embed" /\ findSimilarFailures[2] = "search"
  /\ findSimilarFailures[3] = "explain"
  /\ Len(storeFailure) = 2 /\ DOMAIN storeFailure = 1..2
  /\ storeFailure[1] = "embed" /\ storeFailure[2] = "throw"
  /\ Len(markAsResolved) = 1 /\ DOMAIN markAsResolved = 1..1 /\ markAsResolved[1] = "update"
BY DEF findSimilarFailures, storeFailure, markAsResolved

StepsOf(f) == {f[i] : i \in DOMAIN f}

LEMMA StepsKnown ==
  /\ \A f \in Feature : f[1] \in StepsOf(f)
  /\ \A f \in Reporting : StepsOf(f) \subseteq Reported
  /\ \A f \in Feature \ Reporting : StepsOf(f) \subseteq Unreported
<1>1. \A f \in Feature : f[1] \in StepsOf(f)
  BY FeatureSteps, OtherSteps DEF Feature, StepsOf
<1>2. StepsOf(categorizeFailure) \subseteq Reported
      /\ StepsOf(enrichFailureContext) \subseteq Reported
  BY FeatureSteps DEF StepsOf, Reported
<1>3. /\ StepsOf(findSimilarFailures) \subseteq Unreported
      /\ StepsOf(storeFailure) \subseteq Unreported
      /\ StepsOf(markAsResolved) \subseteq Unreported
  BY OtherSteps DEF StepsOf, Unreported
<1>4. QED BY <1>1, <1>2, <1>3, FeatureSteps DEF Feature, Reporting

\* ... and the step after each of them
Follows(f, from) ==
  LET place == CHOOSE i \in DOMAIN f : f[i] = from IN IF place = Len(f) THEN "done" ELSE f[place + 1]

LEMMA WhatFollows ==
  /\ \A f \in Feature, from \in {"embed", "search", "explain", "chat", "gather", "update"} :
       from \in StepsOf(f) => Follows(f, from) \in StepsOf(f) \union {"done"}
  /\ \A f \in Feature : "chat" \in StepsOf(f) => Follows(f, "chat") = "row"
  /\ \A f \in Feature : "gather" \in StepsOf(f) => Follows(f, "gather") = "chat"
  /\ \A f \in Feature, from \in {"embed", "search", "explain", "chat"} :
       from \in StepsOf(f) => Follows(f, from) \notin {"gather", "chat", "embed", "update"}
<1>1. Follows(categorizeFailure, "chat") = "row" /\ Follows(enrichFailureContext, "chat") = "row"
  BY FeatureSteps DEF Follows
<1>2. Follows(enrichFailureContext, "gather") = "chat"
  BY FeatureSteps DEF Follows
<1>3. /\ Follows(findSimilarFailures, "embed") = "search"
      /\ Follows(findSimilarFailures, "search") = "explain"
      /\ Follows(findSimilarFailures, "explain") = "done"
  BY OtherSteps DEF Follows
<1>4. Follows(storeFailure, "embed") = "throw" /\ Follows(markAsResolved, "update") = "done"
  BY OtherSteps DEF Follows
<1>5. QED
  BY <1>1, <1>2, <1>3, <1>4, FeatureSteps, OtherSteps DEF Feature, StepsOf

\* Only a reporting analysis has a row, once it is past that step; what is paid for
\* is past the call that is paid
BooksFollow ==
  \A a \in Analysis :
    /\ a \in booked => /\ feature[a] \in Reporting /\ a \notin wordless
                       /\ turn[a] \in {"sum", "mail", "done", "failed", "lost"}
    /\ turn[a] \in {"sum", "mail"} /\ pool = "postgres" => a \in booked
    /\ turn[a] = "done" /\ a \in paid /\ pool = "postgres" /\ feature[a] \in Reporting
         => a \in booked \union wordless
    /\ a \in wordless => turn[a] = "done"
    /\ a \in paid => turn[a] \notin {"new", "gather", "chat", "embed", "update"}

\* Who is about to mail has seen the month it mails about past the threshold
MailIsDue ==
  /\ AlertsAreDue
  /\ \A a \in Analysis : turn[a] = "mail" => usage[began[a]] >= Threshold

\* Of those that began to reckon alone there is one until the flag falls: it reckons, or
\* has sent the alert
OneReckons ==
  /\ \A a, b \in (alerted \union Reckoning) \ beside : a = b
  /\ alerted # {} => alertSent

\* While a month is past the threshold and no flag tells it, somebody is about to mail, or
\* will sum up such a month
Watched ==
  /\ alertSent => \E m \in Month : usage[m] >= Threshold
  /\ (\E m \in Month : usage[m] >= Threshold) /\ ~blind /\ ~alertSent
       => \E a \in Reckoning : turn[a] = "mail" \/ usage[month] >= Threshold

TurnsKnown == turn \in [Analysis -> Ending \union Reported \union Unreported]

SpendIInv == SpendTypeOK /\ TurnsKnown /\ BooksFollow /\ MailIsDue /\ OneReckons /\ Watched

LEMMA SpendInvInit == SpendInit => SpendIInv
<1> SUFFICES ASSUME SpendInit PROVE SpendIInv
  OBVIOUS
<1>1. Reckoning = {}
  BY DEF SpendInit, Reckoning
<1>2. SpendTypeOK
  <2>1. usage \in [Month -> Nat] /\ alerts \in [Month -> Nat] /\ month \in Month /\ 1 \in Month
    BY DEF SpendInit, Month
  <2>2. setbacks \in 0..SetbackBound
    BY SpendAssumption DEF SpendInit
  <2>3. \A a \in Analysis : turn[a] \in Ending
    BY DEF SpendInit, Ending
  <2>4. feature \in [Analysis -> Feature \union {<<>>}] /\ began \in [Analysis -> Month]
    BY <2>1 DEF SpendInit
  <2>5. QED BY <2>1, <2>2, <2>3, <2>4 DEF SpendInit, SpendTypeOK
<1>3. BooksFollow
  BY DEF SpendInit, BooksFollow
<1>4. MailIsDue
  BY SpendAssumption DEF SpendInit, MailIsDue, AlertsAreDue, Month
<1>5. OneReckons /\ Watched
  BY <1>1, SpendAssumption DEF SpendInit, OneReckons, Watched, Month
<1>6. TurnsKnown
  BY DEF SpendInit, TurnsKnown, Ending
<1>7. QED BY <1>2, <1>3, <1>4, <1>5, <1>6 DEF SpendIInv

LEMMA TypesOf ==
  ASSUME SpendIInv, NEW a \in Analysis
  PROVE  /\ turn \in [Analysis -> Ending \union Reported \union Unreported]
         /\ feature \in [Analysis -> Feature \union {<<>>}] /\ began \in [Analysis -> Month]
         /\ turn[a] \in Reported => feature[a] \in Reporting
         /\ turn[a] \in Unreported => feature[a] \in Feature \ Reporting
         /\ turn[a] \notin Ending => turn[a] \in StepsOf(feature[a])
<1>1. turn[a] \in Ending \union StepsOf(feature[a]) /\ feature[a] \in Feature \union {<<>>}
  BY DEF SpendIInv, SpendTypeOK, StepsOf
<1>2. StepsOf(<<>>) = {}
  BY DEF StepsOf
<1>3. Ending \cap Reported = {} /\ Ending \cap Unreported = {} /\ Reported \cap Unreported = {}
  BY DEF Ending, Reported, Unreported
<1>4. Reporting \subseteq Feature
  BY DEF Reporting, Feature
<1>5. QED BY <1>1, <1>2, <1>3, <1>4, StepsKnown DEF SpendIInv, SpendTypeOK, TurnsKnown

\* A step of an analysis that leaves the books alone
LEMMA BesideTheBooks ==
  ASSUME SpendIInv, NEW a \in Analysis, NEW to, turn' = [turn EXCEPT ![a] = to],
         turn[a] \notin {"row", "sum", "mail", "done", "failed", "lost"},
         UNCHANGED <<accounting, setbacks>>,
         feature' \in [Analysis -> Feature \union {<<>>}],
         \A b \in Analysis \ {a} : feature'[b] = feature[b] /\ began'[b] = began[b],
         began' \in [Analysis -> Month], paid' \subseteq paid \union {a},
         to \in {"done", "failed"} \union StepsOf(feature'[a]), to \notin {"sum", "mail"},
         a \in paid' => to \notin {"gather", "chat", "embed", "update"},
         wordless' \subseteq wordless \union {a}, a \in wordless' => to = "done",
         wordless \subseteq wordless',
         to = "done" => a \notin paid' \/ feature'[a] \notin Reporting \/ a \in wordless'
  PROVE  SpendIInv'
<1>1. /\ turn \in [Analysis -> Ending \union Reported \union Unreported]
      /\ turn'[a] = to /\ \A b \in Analysis \ {a} : turn'[b] = turn[b]
  BY TypesOf
<1>2. UNCHANGED <<pool, month, usage, alertSent, alerts, booked, alerted, beside, blind, setbacks>>
  BY DEF accounting
<1>3. StepsOf(feature'[a]) \subseteq Reported \union Unreported
  <2>1. feature'[a] \in Feature \union {<<>>}
    OBVIOUS
  <2>2. StepsOf(<<>>) = {}
    BY DEF StepsOf
  <2>3. QED BY <2>1, <2>2, StepsKnown
<1>4. TurnsKnown'
  BY <1>1, <1>3 DEF TurnsKnown, Ending
<1>5. SpendTypeOK'
  <2>1. \A b \in Analysis : turn'[b] \in Ending \union StepsOf(feature'[b])
    BY <1>1 DEF SpendIInv, SpendTypeOK, StepsOf, Ending
  <2>2. paid' \subseteq Analysis /\ wordless' \subseteq Analysis
    BY DEF SpendIInv, SpendTypeOK
  <2>3. QED BY <1>2, <2>1, <2>2 DEF SpendIInv, SpendTypeOK, StepsOf, Month
<1>6. Reckoning' = Reckoning
  BY <1>1 DEF Reckoning
<1>7. BooksFollow'
  <2>1. a \notin booked
    BY DEF SpendIInv, BooksFollow
  <2>2. to \notin {"new"}
    BY <1>3 DEF Reported, Unreported
  <2>3. ASSUME NEW b \in Analysis \ {a}
        PROVE  (b \in paid' => b \in paid) /\ (b \in wordless' <=> b \in wordless)
    OBVIOUS
  <2>4. QED BY <1>1, <1>2, <2>1, <2>2, <2>3 DEF SpendIInv, BooksFollow
<1>8. MailIsDue'
  BY <1>1, <1>2 DEF SpendIInv, MailIsDue, AlertsAreDue, Month
<1>9. OneReckons' /\ Watched'
  BY <1>1, <1>2, <1>6 DEF SpendIInv, OneReckons, Watched, Month
<1>10. QED BY <1>4, <1>5, <1>7, <1>8, <1>9 DEF SpendIInv

LEMMA FeatureKeepsInv ==
  ASSUME SpendIInv, NEW a \in Analysis,
         BeginAnalysis(a) \/ ProviderAnswers(a) \/ ProviderFails(a) \/ SearchEnds(a) \/ VectorFails(a)
  PROVE  SpendIInv'
<1> DEFINE follows == Follows(feature[a], turn[a])
<1>1. /\ feature \in [Analysis -> Feature \union {<<>>}] /\ began \in [Analysis -> Month]
      /\ month \in Month
      /\ \A to : Comes(a, to) <=> turn' = [turn EXCEPT ![a] = to]
      /\ ComesNext(a) <=> turn' = [turn EXCEPT ![a] = follows]
  BY TypesOf DEF Comes, ComesNext, StepOf, Follows, SpendIInv, SpendTypeOK
<1>2. /\ "done" \notin Reported \union Unreported /\ "new" \notin Reported \union Unreported
      /\ "failed" \notin Reported \union Unreported
  BY DEF Reported, Unreported
<1>3. CASE BeginAnalysis(a)
  <2>1. /\ a \notin paid /\ UNCHANGED <<accounting, began, paid, wordless, setbacks>>
        /\ turn[a] = "new" /\ a \notin wordless
    BY <1>3 DEF BeginAnalysis, SpendIInv, BooksFollow
  <2>2. CASE Comes(a, "failed") /\ UNCHANGED feature
    BY <1>1, <2>1, <2>2, BesideTheBooks
  <2>3. CASE \E f \in Feature : feature' = [feature EXCEPT ![a] = f] /\ Comes(a, f[1])
    <3>1. PICK f \in Feature : feature' = [feature EXCEPT ![a] = f] /\ Comes(a, f[1])
      BY <2>3
    <3>2. f[1] \in StepsOf(f) /\ f[1] \notin {"sum", "mail", "done"}
      BY StepsKnown, FeatureSteps, OtherSteps DEF Feature
    <3>3. feature'[a] = f
      BY <1>1, <3>1
    <3>4. QED BY <1>1, <2>1, <3>1, <3>2, <3>3, BesideTheBooks
  <2>4. QED BY <1>3, <2>2, <2>3 DEF BeginAnalysis
<1>4. ASSUME turn[a] \in {"embed", "explain", "chat", "search", "gather", "update"}
      PROVE  /\ feature[a] \in Feature /\ turn[a] \in StepsOf(feature[a])
             /\ follows \in StepsOf(feature[a]) \union {"done"}
             /\ feature[a] \in Reporting => turn[a] \in {"chat", "gather"}
             /\ turn[a] = "chat" => follows = "row"
             /\ turn[a] = "gather" => follows = "chat"
             /\ follows \notin {"sum", "mail"}
             /\ turn[a] \notin {"row", "sum", "mail", "done", "failed", "lost"}
  <2>1. turn[a] \in Reported \union Unreported
    BY <1>4 DEF Reported, Unreported
  <2>2. /\ turn[a] \in StepsOf(feature[a]) /\ feature[a] \in Feature
        /\ turn[a] \in Reported => feature[a] \in Reporting
        /\ turn[a] \in Unreported => feature[a] \in Feature \ Reporting
    BY <2>1, TypesOf DEF Ending, Reported, Unreported, Reporting, Feature
  <2>3. follows \in StepsOf(feature[a]) \union {"done"}
    BY <1>4, <2>2, WhatFollows
  <2>4. feature[a] \in Reporting => turn[a] \in {"chat", "gather"}
    BY <1>4, <2>2 DEF Unreported
  <2>5. /\ turn[a] = "chat" => follows = "row"
        /\ turn[a] = "gather" => follows = "chat"
    BY <2>2, WhatFollows
  <2>6. follows \notin {"sum", "mail"}
    BY <2>2, <2>3, <2>4, <2>5, StepsKnown DEF Unreported
  <2>7. QED BY <1>4, <2>2, <2>3, <2>4, <2>5, <2>6
<1>5. CASE turn[a] \in {"embed", "explain", "chat"} /\ ComesNext(a) /\ UNCHANGED wordless
           /\ (ProviderAnswers(a) \/ ProviderFails(a))
  <2>1. /\ UNCHANGED <<accounting, feature, wordless, setbacks>> /\ paid' \subseteq paid \union {a}
        /\ began' = [began EXCEPT ![a] = month] /\ turn' = [turn EXCEPT ![a] = follows]
    BY <1>1, <1>5 DEF ProviderAnswers, ProviderFails
  <2>2. /\ began' \in [Analysis -> Month]
        /\ \A b \in Analysis \ {a} : feature'[b] = feature[b] /\ began'[b] = began[b]
    BY <1>1, <2>1
  <2>3. follows \notin {"gather", "chat", "embed", "update"}
    BY <1>4, <1>5, WhatFollows
  <2>4. follows = "done" => feature[a] \notin Reporting
    BY <1>4, <1>5, <1>2
  <2>5. feature' = feature /\ feature' \in [Analysis -> Feature \union {<<>>}]
    BY <1>1, <2>1
  <2>6. /\ turn[a] \notin {"row", "sum", "mail", "done", "failed", "lost"}
        /\ follows \in {"done", "failed"} \union StepsOf(feature'[a])
        /\ follows \notin {"sum", "mail"} /\ a \notin wordless
    BY <1>4, <1>5, <2>5 DEF SpendIInv, BooksFollow
  <2> HIDE DEF follows
  <2>7. QED BY <2>1, <2>2, <2>3, <2>4, <2>5, <2>6, BesideTheBooks
<1>6. CASE turn[a] = "embed" /\ ProviderFails(a) /\ Comes(a, "failed")
  <2>1. /\ UNCHANGED <<accounting, feature, wordless, setbacks>> /\ paid' \subseteq paid \union {a}
        /\ began' = [began EXCEPT ![a] = month]
    BY <1>6 DEF ProviderFails
  <2>2. /\ began' \in [Analysis -> Month]
        /\ \A b \in Analysis \ {a} : feature'[b] = feature[b] /\ began'[b] = began[b]
    BY <1>1, <2>1
  <2>3. turn' = [turn EXCEPT ![a] = "failed"] /\ feature' \in [Analysis -> Feature \union {<<>>}]
    BY <1>1, <1>6, <2>1
  <2> DEFINE to == "failed"
  <2>4. /\ to \in {"done", "failed"}
        /\ to \notin {"sum", "mail", "gather", "chat", "embed", "update", "done"}
        /\ turn' = [turn EXCEPT ![a] = to]
        /\ turn[a] \notin {"row", "sum", "mail", "done", "failed", "lost"}
        /\ a \notin wordless
    BY <1>6, <2>3 DEF SpendIInv, BooksFollow
  <2> HIDE DEF to
  <2>5. QED BY <2>1, <2>2, <2>3, <2>4, BesideTheBooks
<1>7. CASE SearchEnds(a) \/ VectorFails(a)
  <2>1. UNCHANGED <<accounting, feature, began, paid, wordless, setbacks>> /\ a \notin wordless
    BY <1>7 DEF SearchEnds, VectorFails, SpendIInv, BooksFollow
  <2>2. turn[a] \in {"gather", "update"} => a \notin paid
    BY DEF SpendIInv, BooksFollow
  <2>3. CASE Comes(a, "failed") /\ turn[a] \in {"search", "update", "throw"}
    <3>1. turn' = [turn EXCEPT ![a] = "failed"]
          /\ feature' \in [Analysis -> Feature \union {<<>>}]
      BY <1>1, <2>1, <2>3
    <3> DEFINE to == "failed"
    <3>2. /\ to \in {"done", "failed"}
          /\ to \notin {"sum", "mail", "gather", "chat", "embed", "update", "done"}
          /\ turn' = [turn EXCEPT ![a] = to]
          /\ turn[a] \notin {"row", "sum", "mail", "done", "failed", "lost"}
      BY <2>3, <3>1
    <3> HIDE DEF to
    <3>3. QED BY <1>1, <2>1, <3>1, <3>2, BesideTheBooks
  <2>4. CASE turn[a] \in {"search", "gather", "update"} /\ Comes(a, "done")
    <3>1. a \notin paid \/ feature[a] \notin Reporting
      BY <1>4, <2>2, <2>4
    <3> DEFINE to == "done"
    <3>2. /\ to \in {"done", "failed"}
          /\ to \notin {"sum", "mail", "gather", "chat", "embed", "update"}
          /\ turn' = [turn EXCEPT ![a] = to]
          /\ turn[a] \notin {"row", "sum", "mail", "done", "failed", "lost"}
          /\ feature' = feature /\ feature' \in [Analysis -> Feature \union {<<>>}]
      BY <1>1, <2>1, <2>4
    <3> HIDE DEF to
    <3>3. QED BY <1>1, <2>1, <3>1, <3>2, BesideTheBooks
  <2>5. CASE turn[a] \in {"search", "gather", "update"} /\ ComesNext(a)
    <3>1. a \notin paid \/ (feature[a] \notin Reporting /\ turn[a] = "search")
      BY <1>4, <2>2, <2>5
    <3>2. turn[a] = "search" => follows \notin {"gather", "chat", "embed", "update"}
      BY <1>4, WhatFollows
    <3> HIDE DEF follows
    <3>3. QED BY <1>1, <1>4, <2>1, <2>5, <3>1, <3>2, BesideTheBooks
  <2>6. QED BY <1>7, <2>3, <2>4, <2>5 DEF SearchEnds, VectorFails
<1>8. CASE ProviderFails(a)
  BY <1>5, <1>6, <1>8 DEF ProviderFails, Paying, Required
<1>9. CASE /\ ProviderAnswers(a) /\ turn[a] = "chat" /\ Comes(a, "done")
           /\ wordless' = wordless \union {a}
  <2>1. /\ UNCHANGED <<accounting, feature, setbacks>> /\ paid' \subseteq paid \union {a}
        /\ began' = [began EXCEPT ![a] = month]
    BY <1>9 DEF ProviderAnswers
  <2>2. /\ began' \in [Analysis -> Month]
        /\ \A b \in Analysis \ {a} : feature'[b] = feature[b] /\ began'[b] = began[b]
    BY <1>1, <2>1
  <2> DEFINE to == "done"
  <2>3. /\ to \in {"done", "failed"} /\ to = "done"
        /\ to \notin {"sum", "mail", "gather", "chat", "embed", "update"}
        /\ turn' = [turn EXCEPT ![a] = to] /\ feature' \in [Analysis -> Feature \union {<<>>}]
        /\ turn[a] \notin {"row", "sum", "mail", "done", "failed", "lost"}
    BY <1>1, <1>9, <2>1
  <2> HIDE DEF to
  <2>4. QED BY <1>9, <2>1, <2>2, <2>3, BesideTheBooks
<1>10. QED BY <1>3, <1>5, <1>7, <1>8, <1>9 DEF ProviderAnswers, Paying

LEMMA ReckoningSteps == \A f \in Reporting : {"row", "sum", "mail"} \subseteq StepsOf(f)
<1>1. {"row", "sum", "mail"} \subseteq StepsOf(categorizeFailure)
  BY FeatureSteps DEF StepsOf
<1>2. {"row", "sum", "mail"} \subseteq StepsOf(enrichFailureContext)
  BY FeatureSteps DEF StepsOf
<1>3. QED BY <1>1, <1>2, FeatureSteps DEF Reporting

\* What every step of the accounting leaves as it should be
LEMMA WithinTheBooks ==
  ASSUME SpendIInv, NEW a \in Analysis, NEW to \in {"sum", "mail", "done", "failed"},
         turn' = [turn EXCEPT ![a] = to], turn[a] \in {"row", "sum", "mail"},
         UNCHANGED <<pool, month, feature, paid, wordless>>,
         usage' \in [Month -> Nat], alerts' \in [Month -> Nat], alertSent' \in BOOLEAN,
         blind' \in BOOLEAN, began' \in [Analysis -> Month], booked' \subseteq Analysis,
         alerted' \subseteq Analysis, beside' \subseteq Analysis, setbacks' \in 0..SetbackBound
  PROVE  /\ TurnsKnown' /\ SpendTypeOK' /\ feature[a] \in Reporting
         /\ turn'[a] = to /\ \A b \in Analysis \ {a} : turn'[b] = turn[b]
<1>1. /\ turn \in [Analysis -> Ending \union Reported \union Unreported]
      /\ turn'[a] = to /\ \A b \in Analysis \ {a} : turn'[b] = turn[b]
  BY TypesOf
<1>2. feature[a] \in Reporting
  <2>1. turn[a] \in Reported
    BY DEF Reported
  <2>2. QED BY <2>1, TypesOf
<1>3. to \in Ending \union StepsOf(feature[a])
  BY <1>2, ReckoningSteps DEF Ending
<1>4. TurnsKnown'
  BY <1>1 DEF TurnsKnown, Ending, Reported
<1>5. \A b \in Analysis : turn'[b] \in Ending \union {feature'[b][i] : i \in DOMAIN feature'[b]}
  <2>1. ASSUME NEW b \in Analysis \ {a}
        PROVE  turn'[b] \in Ending \union {feature'[b][i] : i \in DOMAIN feature'[b]}
    BY <1>1 DEF SpendIInv, SpendTypeOK
  <2>2. turn'[a] \in Ending \union {feature'[a][i] : i \in DOMAIN feature'[a]}
    BY <1>1, <1>3 DEF StepsOf
  <2>3. QED BY <2>1, <2>2
<1>6. SpendTypeOK'
  BY <1>5 DEF SpendIInv, SpendTypeOK, Month, Ending
<1>7. QED BY <1>1, <1>2, <1>4, <1>6

LEMMA RecordRowKeepsInv ==
  ASSUME SpendIInv, NEW a \in Analysis, RecordRow(a)
  PROVE  SpendIInv'
<1> DEFINE to == IF alertSent THEN "done" ELSE "sum"
<1>1. /\ usage \in [Month -> Nat] /\ alerts \in [Month -> Nat] /\ month \in Month
      /\ began \in [Analysis -> Month]
      /\ alertSent \in BOOLEAN /\ blind \in BOOLEAN
      /\ booked \subseteq Analysis /\ alerted \subseteq Analysis /\ beside \subseteq Analysis
      /\ setbacks \in 0..SetbackBound /\ pool \in {"postgres", "stub"}
  BY DEF SpendIInv, SpendTypeOK
<1>2. /\ turn[a] = "row" /\ turn' = [turn EXCEPT ![a] = to]
      /\ to \in {"sum", "mail", "done", "failed"}
      /\ UNCHANGED <<pool, month, alertSent, alerts, alerted, feature, began, paid, wordless,
         setbacks>>
      /\ beside' = (IF ~alertSent /\ Reckoning # {} THEN beside \union {a} ELSE beside)
      /\ blind' = (blind \/ (~alertSent /\ began[a] # month))
  BY DEF RecordRow, Comes
<1>3. /\ usage' \in [Month -> Nat] /\ \A m \in Month : usage'[m] >= usage[m]
      /\ \A m \in Month \ {began[a]} : usage'[m] = usage[m]
      /\ booked' = (IF pool = "postgres" THEN booked \union {a} ELSE booked)
  BY <1>1 DEF RecordRow, InsertRow
<1>4. to = (IF alertSent THEN "done" ELSE "sum") /\ (alertSent => to = "done") /\ (~alertSent => to = "sum")
  OBVIOUS
<1> HIDE DEF to
<1>5. /\ TurnsKnown' /\ SpendTypeOK' /\ feature[a] \in Reporting
      /\ turn'[a] = to /\ \A b \in Analysis \ {a} : turn'[b] = turn[b]
  <2>1. booked' \subseteq Analysis
    BY <1>1, <1>3
  <2>2. blind' \in BOOLEAN /\ beside' \subseteq Analysis
    BY <1>1, <1>2
  <2>3. QED BY <1>1, <1>2, <1>3, <2>1, <2>2, WithinTheBooks
<1>6. BooksFollow'
  BY <1>1, <1>2, <1>3, <1>4, <1>5 DEF SpendIInv, BooksFollow
<1>7. MailIsDue'
  <2>1. AlertsAreDue'
    BY <1>1, <1>2, <1>3, SpendAssumption DEF SpendIInv, MailIsDue, AlertsAreDue
  <2>2. ASSUME NEW b \in Analysis, turn'[b] = "mail" PROVE usage'[began'[b]] >= Threshold
    <3>1. turn[b] = "mail" /\ began[b] \in Month
      BY <1>1, <1>4, <1>5, <2>2
    <3>2. QED BY <1>1, <1>2, <1>3, <3>1, SpendAssumption DEF SpendIInv, MailIsDue
  <2>3. QED BY <2>1, <2>2 DEF MailIsDue
<1>8. CASE alertSent
  <2>1. Reckoning' = Reckoning
    BY <1>2, <1>4, <1>5, <1>8 DEF Reckoning
  <2>2. OneReckons'
    BY <1>2, <1>8, <2>1 DEF SpendIInv, OneReckons
  <2>3. \E m \in Month : usage'[m] >= Threshold
    <3>1. PICK m \in Month : usage[m] >= Threshold
      BY <1>8 DEF SpendIInv, Watched
    <3>2. usage[m] \in Nat /\ usage'[m] \in Nat /\ usage'[m] >= usage[m]
      BY <1>1, <1>3
    <3>3. QED BY <3>1, <3>2, SpendAssumption
  <2>4. Watched'
    BY <1>2, <1>8, <2>3 DEF Watched
  <2>5. QED BY <1>5, <1>6, <1>7, <2>2, <2>4 DEF SpendIInv
<1>9. CASE ~alertSent
  <2>1. Reckoning' = Reckoning \union {a}
    BY <1>4, <1>5, <1>9 DEF Reckoning
  <2>2. OneReckons'
    <3>1. alerted = {} /\ alerted' = {}
      BY <1>2, <1>9 DEF SpendIInv, OneReckons
    <3>2. Reckoning' \ beside' \subseteq Reckoning \ beside \/ Reckoning' \subseteq {a}
      BY <1>2, <1>9, <2>1
    <3>3. QED BY <3>1, <3>2 DEF SpendIInv, OneReckons
  <2>3. Watched'
    <3>1. SUFFICES ASSUME NEW m \in Month, usage'[m] >= Threshold, ~blind'
                   PROVE  \E b \in Reckoning' : turn'[b] = "mail" \/ usage'[month'] >= Threshold
      BY <1>2, <1>9 DEF Watched
    <3>2. ~blind /\ began[a] = month /\ a \in Reckoning' /\ turn[a] = "row" /\ month' = month
      BY <1>2, <1>9, <2>1, <3>1
    <3>3. CASE m = month
      BY <3>1, <3>2, <3>3
    <3>4. CASE m # month
      <4>1. usage[m] >= Threshold
        BY <1>3, <3>1, <3>2, <3>4
      <4>2. PICK b \in Reckoning : turn[b] = "mail" \/ usage[month] >= Threshold
        BY <1>9, <3>2, <4>1 DEF SpendIInv, Watched
      <4>3. b \in Reckoning' /\ (turn[b] = "mail" => turn'[b] = "mail")
        BY <1>5, <2>1, <3>2 DEF Reckoning
      <4>4. usage[month] >= Threshold => usage'[month] >= Threshold
        <5>1. usage[month] \in Nat /\ usage'[month] \in Nat /\ usage'[month] >= usage[month]
          BY <1>1, <1>3
        <5>2. QED BY <5>1, SpendAssumption
      <4>5. QED BY <3>2, <4>2, <4>3, <4>4
    <3>5. QED BY <3>3, <3>4
  <2>4. QED BY <1>5, <1>6, <1>7, <2>2, <2>3 DEF SpendIInv
<1>10. QED BY <1>1, <1>8, <1>9

LEMMA SumMonthKeepsInv ==
  ASSUME SpendIInv, NEW a \in Analysis, SumMonth(a)
  PROVE  SpendIInv'
<1> DEFINE to == IF usage[month] >= Threshold THEN "mail" ELSE "done"
<1>1. /\ usage \in [Month -> Nat] /\ alerts \in [Month -> Nat] /\ month \in Month
      /\ began \in [Analysis -> Month]
      /\ alertSent \in BOOLEAN /\ blind \in BOOLEAN
      /\ booked \subseteq Analysis /\ alerted \subseteq Analysis /\ beside \subseteq Analysis
      /\ setbacks \in 0..SetbackBound /\ pool \in {"postgres", "stub"}
  BY DEF SpendIInv, SpendTypeOK
<1>2. /\ turn[a] = "sum" /\ turn' = [turn EXCEPT ![a] = to]
      /\ to \in {"sum", "mail", "done", "failed"}
      /\ began' = [began EXCEPT ![a] = month] /\ a \in Reckoning
      /\ UNCHANGED <<pool, month, usage, alertSent, alerts, booked, alerted, beside, blind,
         setbacks, feature, paid, wordless>>
  BY DEF SumMonth, Comes, accounting, Reckoning
<1>3. (usage[month] >= Threshold /\ to = "mail") \/ (usage[month] < Threshold /\ to = "done")
  BY <1>1, SpendAssumption
<1> HIDE DEF to
<1>4. began' \in [Analysis -> Month] /\ began'[a] = month /\ \A b \in Analysis \ {a} : began'[b] = began[b]
  BY <1>1, <1>2
<1>5. /\ TurnsKnown' /\ SpendTypeOK' /\ feature[a] \in Reporting
      /\ turn'[a] = to /\ \A b \in Analysis \ {a} : turn'[b] = turn[b]
  BY <1>1, <1>2, <1>4, WithinTheBooks
<1>6. BooksFollow'
  BY <1>1, <1>2, <1>3, <1>5 DEF SpendIInv, BooksFollow
<1>7. MailIsDue'
  BY <1>2, <1>3, <1>4, <1>5 DEF SpendIInv, MailIsDue, AlertsAreDue
<1>8. Reckoning' \subseteq Reckoning
  BY <1>2, <1>5 DEF Reckoning
<1>9. OneReckons'
  BY <1>2, <1>8 DEF SpendIInv, OneReckons
<1>10. Watched'
  <2>1. SUFFICES ASSUME NEW m \in Month, usage[m] >= Threshold, ~blind, ~alertSent
                 PROVE  \E b \in Reckoning' : turn'[b] = "mail" \/ usage[month] >= Threshold
    BY <1>2 DEF SpendIInv, Watched
  <2>2. PICK b \in Reckoning : turn[b] = "mail" \/ usage[month] >= Threshold
    BY <2>1 DEF SpendIInv, Watched
  <2>3. CASE usage[month] >= Threshold
    <3>1. to = "mail"
      BY <1>1, <1>3, <2>3, SpendAssumption
    <3>2. a \in Reckoning' /\ turn'[a] = "mail"
      BY <1>5, <3>1 DEF Reckoning
    <3>3. QED BY <3>2
  <2>4. CASE turn[b] = "mail"
    <3>1. b # a /\ b \in Analysis
      BY <1>2, <2>4 DEF Reckoning
    <3>2. b \in Reckoning' /\ turn'[b] = "mail"
      BY <1>5, <2>4, <3>1 DEF Reckoning
    <3>3. QED BY <3>2
  <2>5. QED BY <2>2, <2>3, <2>4
<1>11. QED BY <1>5, <1>6, <1>7, <1>9, <1>10 DEF SpendIInv

LEMMA MailKeepsInv ==
  ASSUME SpendIInv, NEW a \in Analysis, sendBudgetAlert(a) \/ MailFails(a)
  PROVE  SpendIInv'
<1> DEFINE to == "done"
<1>1. /\ usage \in [Month -> Nat] /\ alerts \in [Month -> Nat] /\ month \in Month
      /\ began \in [Analysis -> Month]
      /\ alertSent \in BOOLEAN /\ blind \in BOOLEAN
      /\ booked \subseteq Analysis /\ alerted \subseteq Analysis /\ beside \subseteq Analysis
      /\ setbacks \in 0..SetbackBound /\ pool \in {"postgres", "stub"}
  BY DEF SpendIInv, SpendTypeOK
<1>2. /\ turn[a] = "mail" /\ turn' = [turn EXCEPT ![a] = to]
      /\ to \in {"sum", "mail", "done", "failed"}
      /\ to = "done" /\ alertSent' = TRUE /\ a \in Reckoning
      /\ UNCHANGED <<pool, month, usage, began, booked, beside, blind, feature, paid, wordless>>
  BY DEF sendBudgetAlert, MailFails, Comes, Reckoning
<1>3. \/ /\ alerts' = [alerts EXCEPT ![began[a]] = @ + 1] /\ setbacks' = setbacks
         /\ alerted' = alerted \union {a}
      \/ /\ alerts' = alerts /\ setbacks' = setbacks + 1 /\ setbacks < SetbackBound
         /\ alerted' = alerted
  BY DEF sendBudgetAlert, MailFails, Setback
<1> HIDE DEF to
<1>4. began[a] \in Month /\ usage[began[a]] >= Threshold
  BY <1>1, <1>2 DEF SpendIInv, MailIsDue
<1>5. /\ alerts' \in [Month -> Nat] /\ setbacks' \in 0..SetbackBound
      /\ alerted' \subseteq Analysis
      /\ \A m \in Month \ {began[a]} : alerts'[m] = alerts[m]
  BY <1>1, <1>3, <1>4, SpendAssumption
<1>6. /\ TurnsKnown' /\ SpendTypeOK' /\ feature[a] \in Reporting
      /\ turn'[a] = to /\ \A b \in Analysis \ {a} : turn'[b] = turn[b]
  BY <1>1, <1>2, <1>5, WithinTheBooks
<1>7. BooksFollow'
  BY <1>1, <1>2, <1>6 DEF SpendIInv, BooksFollow
<1>8. MailIsDue'
  BY <1>1, <1>2, <1>4, <1>5, <1>6 DEF SpendIInv, MailIsDue, AlertsAreDue
<1>9. Reckoning' = Reckoning \ {a}
  BY <1>2, <1>6 DEF Reckoning
<1>10. OneReckons'
  <2>1. (alerted' \union Reckoning') \ beside' \subseteq (alerted \union Reckoning) \ beside
    BY <1>2, <1>3, <1>9
  <2>2. QED BY <1>2, <2>1 DEF SpendIInv, OneReckons
<1>11. Watched'
  BY <1>2, <1>4 DEF Watched
<1>12. QED BY <1>6, <1>7, <1>8, <1>10, <1>11 DEF SpendIInv

LEMMA AccountingFailsKeepsInv ==
  ASSUME SpendIInv, NEW a \in Analysis, AccountingFails(a)
  PROVE  SpendIInv'
<1> DEFINE to == "failed"
<1>1. /\ usage \in [Month -> Nat] /\ alerts \in [Month -> Nat] /\ month \in Month
      /\ began \in [Analysis -> Month]
      /\ alertSent \in BOOLEAN /\ blind \in BOOLEAN
      /\ booked \subseteq Analysis /\ alerted \subseteq Analysis /\ beside \subseteq Analysis
      /\ setbacks \in 0..SetbackBound /\ pool \in {"postgres", "stub"}
  BY DEF SpendIInv, SpendTypeOK
<1>2. /\ turn[a] \in {"row", "sum"} /\ turn[a] \in {"row", "sum", "mail"}
      /\ turn' = [turn EXCEPT ![a] = to] /\ to \in {"sum", "mail", "done", "failed"}
      /\ to = "failed" /\ setbacks' = setbacks + 1 /\ setbacks < SetbackBound
      /\ blind' = (blind \/ turn[a] = "sum")
      /\ UNCHANGED <<pool, month, usage, alertSent, alerts, booked, alerted, beside, feature,
         began, paid, wordless>>
  BY DEF AccountingFails, Comes, Setback, accounting
<1> HIDE DEF to
<1>3. setbacks' \in 0..SetbackBound /\ blind' \in BOOLEAN
  BY <1>1, <1>2, SpendAssumption
<1>4. /\ TurnsKnown' /\ SpendTypeOK' /\ feature[a] \in Reporting
      /\ turn'[a] = to /\ \A b \in Analysis \ {a} : turn'[b] = turn[b]
  BY <1>1, <1>2, <1>3, WithinTheBooks
<1>5. BooksFollow'
  BY <1>1, <1>2, <1>4 DEF SpendIInv, BooksFollow
<1>6. MailIsDue'
  BY <1>1, <1>2, <1>4 DEF SpendIInv, MailIsDue, AlertsAreDue
<1>7. Reckoning' \subseteq Reckoning
  BY <1>2, <1>4 DEF Reckoning
<1>8. OneReckons'
  BY <1>2, <1>7 DEF SpendIInv, OneReckons
<1>9. Watched'
  <2>1. \A b \in Analysis : ~blind' => (b \in Reckoning' <=> b \in Reckoning)
    BY <1>2, <1>4 DEF Reckoning
  <2>2. \A b \in Analysis : b \in Reckoning /\ turn[b] = "mail" => turn'[b] = "mail"
    BY <1>2, <1>4
  <2>3. Reckoning \subseteq Analysis
    BY DEF Reckoning
  <2>4. QED BY <1>2, <2>1, <2>2, <2>3 DEF SpendIInv, Watched
<1>10. QED BY <1>4, <1>5, <1>6, <1>8, <1>9 DEF SpendIInv

LEMMA MonthEndsKeepsInv ==
  ASSUME SpendIInv, MonthEnds
  PROVE  SpendIInv'
<1>1. /\ month = 1 /\ month' = 2 /\ blind' = (blind \/ Reckoning # {})
      /\ UNCHANGED <<pool, usage, alertSent, alerts, booked, alerted, beside, feature, turn,
         began, paid, wordless, setbacks>>
  BY DEF MonthEnds
<1>2. Reckoning' = Reckoning
  BY <1>1 DEF Reckoning
<1>3. SpendTypeOK' /\ TurnsKnown' /\ BooksFollow' /\ MailIsDue'
  <2>1. SpendTypeOK'
    BY <1>1 DEF SpendIInv, SpendTypeOK, Month
  <2>2. QED BY <1>1, <2>1 DEF SpendIInv, TurnsKnown, BooksFollow, MailIsDue, AlertsAreDue
<1>4. OneReckons'
  BY <1>1, <1>2 DEF SpendIInv, OneReckons
<1>5. Watched'
  <2>1. CASE blind'
    BY <1>1, <2>1 DEF SpendIInv, Watched
  <2>2. CASE ~blind'
    BY <1>1, <2>2 DEF SpendIInv, Watched
  <2>3. QED BY <2>1, <2>2
<1>6. QED BY <1>3, <1>4, <1>5 DEF SpendIInv

LEMMA ProcessRestartsKeepsInv ==
  ASSUME SpendIInv, ProcessRestarts
  PROVE  SpendIInv'
<1>1. /\ setbacks < SetbackBound /\ setbacks' = setbacks + 1 /\ alerted' = {}
      /\ alertSent' = FALSE /\ blind' = (blind \/ Reckoning # {} \/ alertSent)
      /\ turn' = [a \in Analysis |-> IF turn[a] \in Ending THEN turn[a] ELSE "lost"]
      /\ UNCHANGED <<pool, month, usage, alerts, booked, beside, feature, began, paid, wordless>>
  BY DEF ProcessRestarts, Setback
<1>2. \A a \in Analysis : turn'[a] \in Ending /\ (turn'[a] = turn[a] \/ turn'[a] = "lost")
  BY <1>1 DEF Ending
<1>3. Reckoning' = {}
  BY <1>2 DEF Reckoning, Ending
<1>4. setbacks' \in 0..SetbackBound /\ blind' \in BOOLEAN
  BY <1>1, SpendAssumption DEF SpendIInv, SpendTypeOK
<1>5. SpendTypeOK'
  BY <1>1, <1>2, <1>4 DEF SpendIInv, SpendTypeOK, Month, Ending
<1>6. TurnsKnown'
  BY <1>1, <1>2 DEF TurnsKnown, Ending
<1>7. BooksFollow'
  BY <1>1, <1>2 DEF SpendIInv, BooksFollow, Ending
<1>8. MailIsDue'
  BY <1>1, <1>3 DEF SpendIInv, MailIsDue, AlertsAreDue, Reckoning
<1>9. OneReckons'
  BY <1>1, <1>3 DEF OneReckons
<1>10. Watched'
  BY <1>1 DEF SpendIInv, Watched
<1>11. QED BY <1>5, <1>6, <1>7, <1>8, <1>9, <1>10 DEF SpendIInv

LEMMA SpendInvStep == SpendIInv /\ [SpendNext]_spendVars => SpendIInv'
<1>1. ASSUME SpendIInv, UNCHANGED spendVars PROVE SpendIInv'
  BY <1>1 DEF spendVars, accounting, SpendIInv, SpendTypeOK, TurnsKnown, BooksFollow, MailIsDue,
     AlertsAreDue,
              OneReckons, Watched, Reckoning, Month, Ending
<1>2. ASSUME SpendIInv, NEW a \in Analysis, Analyse(a) PROVE SpendIInv'
  BY <1>2, FeatureKeepsInv, RecordRowKeepsInv, SumMonthKeepsInv, MailKeepsInv,
     AccountingFailsKeepsInv DEF Analyse
<1>3. QED BY <1>1, <1>2, MonthEndsKeepsInv, ProcessRestartsKeepsInv DEF SpendNext

LEMMA SpendInvImplies == SpendIInv => SpendInv
<1> SUFFICES ASSUME SpendIInv PROVE SpendInv
  OBVIOUS
<1>1. PaidIsRecorded
  <2> SUFFICES ASSUME NEW a \in Analysis, turn[a] = "done", a \in paid, pool = "postgres"
               PROVE  a \in booked <=> (feature[a] \in Reporting /\ a \notin wordless)
    BY DEF PaidIsRecorded
  <2>1. QED BY DEF SpendIInv, BooksFollow
<1>2. OneAlert
  BY DEF SpendIInv, OneReckons, OneAlert
<1>3. OverrunIsNoticed
  BY DEF SpendIInv, Watched, OverrunIsNoticed
<1>4. QED BY <1>1, <1>2, <1>3 DEF SpendInv, SpendIInv, MailIsDue
-----------------------------------------------------------------------------
\* The provider that answers

\* Nothing the process or its rows hold is misplaced, unless a provider was
\* once changed without a key
HeldKeysStayHome ==
  /\ ~Misplaced(environment.choice) /\ ~Misplaced(features)
  /\ \A a \in Admin : ~Misplaced(Asked(a))
  /\ ~keyless => /\ ~Misplaced(manager) /\ ~Misplaced(row.choice)
                 /\ ~Misplaced(userRow.choice)
                 /\ \A p \in AnyProvider : ~Misplaced(Using(p, secrets[p]))

\* Who has stored a configuration and not applied it is alone, and it is the row
SavedIsTheRow ==
  /\ astray => keyAstray
  /\ row.choice.key # NoKey => row.stored
  /\ ~astray =>
       /\ \A a, b \in Admin : update[a].at = "saved" /\ update[b].at = "saved" => a = b
       /\ \A a \in Admin : update[a].at = "saved" => Asked(a).provider = row.choice.provider

KeyOfTheRow == secrets[row.choice.provider] = row.choice.key

\* The key of the row is in force, or is what the one who stored it will apply
KeysFollow ==
  (~keyAstray /\ row.choice.key # NoKey) =>
    /\ (\A a \in Admin : update[a].at # "saved") => KeyOfTheRow
    /\ \A a \in Admin : update[a].at = "saved" =>
         Asked(a).key = row.choice.key \/ (Asked(a).key = NoKey /\ KeyOfTheRow)

ProviderIInv ==
  /\ ProviderTypeOK /\ ManagerIsCurrent /\ HeldKeysStayHome
  /\ SavedIsTheRow /\ KeysFollow /\ RowIsInForce

LEMMA ProviderTypes ==
  /\ NoKey \in AnyKey /\ AIKey \subseteq AnyKey
  /\ Unused \in Choice /\ EmptyRow \in Row /\ ~Misplaced(Unused) /\ "mock" \in AnyProvider
  /\ Empty \in [AnyProvider -> [cached : BOOLEAN, key : AnyKey]]
  /\ \A k \in AnyKey : Object(k) \in [cached : BOOLEAN, key : AnyKey]
  /\ \A p \in AnyProvider, k \in AnyKey :
       Using(p, k) \in Choice /\ Using(p, k).provider = p /\ Using(p, k).key = k
<1>1. NoKey \in AnyKey /\ AIKey \subseteq AnyKey /\ "mock" \in AnyProvider
  BY DEF AnyKey, AnyProvider
<1>2. \A p \in AnyProvider, k \in AnyKey :
        Using(p, k) \in Choice /\ Using(p, k).provider = p /\ Using(p, k).key = k
  BY DEF Using, Choice
<1>3. Unused \in Choice /\ ~Misplaced(Unused)
  BY <1>1, <1>2 DEF Unused, Misplaced, Using
<1>4. EmptyRow \in Row
  BY <1>3 DEF EmptyRow, Row
<1>5. \A k \in AnyKey : Object(k) \in [cached : BOOLEAN, key : AnyKey]
  BY DEF Object
<1>6. Empty \in [AnyProvider -> [cached : BOOLEAN, key : AnyKey]]
  BY <1>1 DEF Empty
<1>7. QED BY <1>1, <1>2, <1>3, <1>4, <1>5, <1>6

LEMMA ObjectTypes ==
  /\ ~Misplaced(NoObject)
  /\ \A c \in Choice : Cached(c) \in [AnyProvider -> [cached : BOOLEAN, key : AnyKey]]
<1>1. ~Misplaced(NoObject)
  BY DEF NoObject, Misplaced, Using
<1>2. ASSUME NEW c \in Choice
      PROVE  Cached(c) \in [AnyProvider -> [cached : BOOLEAN, key : AnyKey]]
  <2>1. c.provider \in AnyProvider /\ c.key \in AnyKey
    BY DEF Choice
  <2>2. QED BY <2>1, ProviderTypes DEF Cached
<1>3. QED BY <1>1, <1>2

\* What the process may be started with, and what its start makes of it
LEMMA StartFacts ==
  ASSUME environment \in Environment
  PROVE  /\ environment.enabled \in BOOLEAN /\ Initializes \in BOOLEAN /\ Builds \in BOOLEAN
         /\ environment.choice \in Choice /\ ~Misplaced(environment.choice)
         /\ Built \in Choice \union {NoObject} /\ ~Misplaced(Built)
         /\ EnvironmentSecrets \in [AnyProvider -> AnyKey]
         /\ \A p \in AnyProvider : ~Misplaced(Using(p, EnvironmentSecrets[p]))
         /\ environment.choice.provider \in AnyProvider
         /\ EnvironmentSecrets[environment.choice.provider] = environment.choice.key
         /\ Initializes /\ environment.enabled => Builds
<1>1. /\ environment.enabled \in BOOLEAN /\ environment.flaw \in {"none", "invalid", "late"}
      /\ environment.choice \in {Unused} \union
           {Using(p, k) : p \in AIProvider, k \in {NoKey} \union [for : AIProvider,
              by : {"environment"}]}
      /\ environment.choice.key = NoKey \/ environment.choice.key.for = environment.choice.provider
  BY ProviderAssumption
<1>2. environment.choice \in Choice
  <2>1. CASE environment.choice = Unused
    BY <2>1, ProviderTypes
  <2>2. ASSUME NEW p \in AIProvider, NEW k \in {NoKey} \union [for : AIProvider,
     by : {"environment"}],
               environment.choice = Using(p, k)
        PROVE  environment.choice \in Choice
    <3>1. k \in AnyKey /\ p \in AnyProvider
      BY DEF AnyKey, AIKey, AnyProvider
    <3>2. QED BY <2>2, <3>1, ProviderTypes
  <2>3. QED BY <1>1, <2>1, <2>2
<1>3. environment.choice.provider \in AnyProvider /\ environment.choice.key \in AnyKey
  BY <1>2 DEF Choice
<1>4. ~Misplaced(environment.choice)
  BY <1>1 DEF Misplaced
<1>5. /\ EnvironmentSecrets \in [AnyProvider -> AnyKey]
      /\ EnvironmentSecrets[environment.choice.provider] = environment.choice.key
      /\ \A p \in AnyProvider : ~Misplaced(Using(p, EnvironmentSecrets[p]))
  BY <1>3, <1>4, ProviderTypes DEF EnvironmentSecrets, Misplaced, Using
<1>6. /\ Initializes \in BOOLEAN /\ Builds \in BOOLEAN
      /\ Initializes /\ environment.enabled => Builds
  BY <1>1 DEF Initializes, Builds, Usable
<1>7. Built \in Choice \union {NoObject} /\ ~Misplaced(Built)
  BY <1>2, <1>4, ObjectTypes DEF Built
<1>8. QED BY <1>1, <1>2, <1>3, <1>4, <1>5, <1>6, <1>7

LEMMA ProviderInvInit == ProviderInit => ProviderIInv
<1> SUFFICES ASSUME ProviderInit PROVE ProviderIInv
  OBVIOUS
<1>1. environment \in Environment
  BY DEF ProviderInit
<1>2. /\ active \in AnyProvider /\ secrets \in [AnyProvider -> AnyKey]
      /\ secrets[active] = environment.choice.key /\ active = environment.choice.provider
      /\ \A p \in AnyProvider : ~Misplaced(Using(p, secrets[p]))
  BY <1>1, StartFacts DEF ProviderInit
<1>3. Builds => manager = Using(active, secrets[active])
  <2>1. environment.choice = Using(environment.choice.provider, environment.choice.key)
    BY <1>1, StartFacts DEF Choice, Using
  <2>2. QED BY <1>2, <2>1 DEF ProviderInit, Built
<1>4. \A a \in Admin : update[a] = NoUpdate /\ Asked(a) = Unused /\ update[a].at = "idle"
  BY DEF ProviderInit, Asked, NoUpdate
<1>5. ProviderTypeOK
  <2>1. NoUpdate \in [at : {"idle", "checked", "saved", "testing", "done"}, asks : Choice]
    BY ProviderTypes DEF NoUpdate
  <2>2. instances \in [AnyProvider -> [cached : BOOLEAN, key : AnyKey]]
    BY <1>1, StartFacts, ProviderTypes, ObjectTypes DEF ProviderInit
  <2>3. restarts \in 0..RestartBound
    BY ProviderAssumption DEF ProviderInit
  <2>4. enabled \in BOOLEAN /\ initialized \in BOOLEAN
    BY <1>1, StartFacts DEF ProviderInit
  <2>5. manager \in Choice \union {NoObject} /\ features \in Choice \union {NoObject}
    BY <1>1, StartFacts DEF ProviderInit
  <2>6. row \in Row /\ userRow \in Row /\ outcomes \in [Admin -> AnyKey]
    BY ProviderTypes DEF ProviderInit
  <2>7. update \in [Admin -> [at : {"idle", "checked", "saved", "testing", "done"},
     asks : Choice]]
    BY <2>1 DEF ProviderInit
  <2>8. QED BY <1>1, <1>2, <2>2, <2>3, <2>4, <2>5, <2>6, <2>7 DEF ProviderInit, ProviderTypeOK
<1>6. ManagerIsCurrent
  <2>1. initialized /\ enabled => Builds
    BY <1>1, StartFacts DEF ProviderInit
  <2>2. ~Builds => manager = NoObject
    BY DEF ProviderInit, Built
  <2>3. QED BY <1>3, <2>1, <2>2 DEF ManagerIsCurrent
<1>7. HeldKeysStayHome
  BY <1>1, <1>2, <1>4, StartFacts, ProviderTypes DEF ProviderInit, HeldKeysStayHome, EmptyRow
<1>8. row.choice.key = NoKey /\ ~row.stored
  BY ProviderTypes DEF ProviderInit, EmptyRow, Unused
<1>9. SavedIsTheRow /\ KeysFollow /\ RowIsInForce
  BY <1>4, <1>8 DEF ProviderInit, SavedIsTheRow, KeysFollow, RowIsInForce
<1>10. QED BY <1>5, <1>6, <1>7, <1>9 DEF ProviderIInv

\* What a stored row becomes
LEMMA KeptKeys ==
  ASSUME NEW old \in Row, NEW asks \in Choice, ~Misplaced(asks)
  PROVE  /\ Kept(old, asks) \in Row /\ Kept(old, asks).stored
         /\ Kept(old, asks).choice.provider = asks.provider
         /\ Kept(old, asks).choice.key = IF asks.key = NoKey THEN old.choice.key ELSE asks.key
         /\ ~Misplaced(old.choice) /\ ~Rekeyed(old, asks) => ~Misplaced(Kept(old, asks).choice)
<1>1. old.choice \in Choice /\ asks.provider \in AnyProvider /\ asks.key \in AnyKey
      /\ old.choice.key \in AnyKey
  BY DEF Row, Choice
<1>2. /\ Kept(old, asks).stored = TRUE
      /\ Kept(old, asks).choice = Using(asks.provider,
         IF asks.key = NoKey THEN old.choice.key ELSE asks.key)
  BY DEF Kept
<1>3. Kept(old, asks) \in Row
  BY <1>1, ProviderTypes DEF Kept, Row
<1>4. /\ Kept(old, asks).choice.provider = asks.provider
      /\ Kept(old, asks).choice.key = IF asks.key = NoKey THEN old.choice.key ELSE asks.key
  BY <1>1, <1>2 DEF Using
<1>5. ~Misplaced(old.choice) /\ ~Rekeyed(old, asks) => ~Misplaced(Kept(old, asks).choice)
  BY <1>4 DEF Misplaced, Rekeyed
<1>6. QED BY <1>2, <1>3, <1>4, <1>5

LEMMA ProviderFacts ==
  ASSUME ProviderIInv
  PROVE  /\ row \in Row /\ userRow \in Row /\ environment \in Environment
         /\ active \in AnyProvider /\ secrets \in [AnyProvider -> AnyKey]
         /\ instances \in [AnyProvider -> [cached : BOOLEAN, key : AnyKey]]
         /\ update \in [Admin -> [at : {"idle", "checked", "saved", "testing", "done"},
            asks : Choice]]
         /\ keyless \in BOOLEAN /\ astray \in BOOLEAN /\ keyAstray \in BOOLEAN
         /\ restarts \in 0..RestartBound /\ enabled \in BOOLEAN /\ initialized \in BOOLEAN
         /\ outcomes \in [Admin -> AnyKey]
         /\ manager \in Choice \union {NoObject} /\ features \in Choice \union {NoObject}
         /\ \A a \in Admin : Asked(a) \in Choice /\ ~Misplaced(Asked(a))
         /\ \A a \in Admin : update[a].asks = Asked(a)
BY DEF ProviderIInv, ProviderTypeOK, HeldKeysStayHome, Asked

\* A step that stores, applies and restarts nothing
LEMMA QuietStep ==
  ASSUME ProviderIInv, UNCHANGED <<row, active, secrets, astray, keyAstray>>,
         \A a \in Admin : /\ update'[a].at = "saved" <=> update[a].at = "saved"
                          /\ update[a].at = "saved" => Asked(a)' = Asked(a)
  PROVE  SavedIsTheRow' /\ KeysFollow' /\ RowIsInForce'
<1>1. SavedIsTheRow'
  BY DEF ProviderIInv, SavedIsTheRow
<1>2. KeysFollow'
  BY DEF ProviderIInv, KeysFollow, KeyOfTheRow
<1>3. RowIsInForce'
  BY DEF ProviderIInv, RowIsInForce
<1>4. QED BY <1>1, <1>2, <1>3

LEMMA UpdateKeepsInv ==
  ASSUME ProviderIInv, NEW a \in Admin,
         RequestUpdate(a) \/ SaveUpdate(a) \/ ApplyUpdate(a) \/ BeginTest(a) \/ EndTest(a)
  PROVE  ProviderIInv'
<1>1. CASE RequestUpdate(a)
  <2>1. PICK p \in AnyProvider, given \in BOOLEAN :
          update' = [update EXCEPT ![a] =
            [at |-> "checked", asks |-> Using(p, IF given /\ p # "mock" THEN [for |-> p,
              by |-> a] ELSE NoKey)]]
    BY <1>1 DEF RequestUpdate
  <2> DEFINE asks == Using(p, IF given /\ p # "mock" THEN [for |-> p, by |-> a] ELSE NoKey)
  <2>2. asks \in Choice /\ ~Misplaced(asks)
    <3>1. given /\ p # "mock" => [for |-> p, by |-> a] \in AIKey
      BY DEF AnyProvider, AIKey
    <3>2. asks.key \in {NoKey, [for |-> p, by |-> a]} /\ asks.provider = p
      BY DEF Using
    <3>3. QED BY <3>1, <3>2, ProviderTypes DEF Misplaced
  <2> HIDE DEF asks
  <2>3. /\ update'[a] = [at |-> "checked", asks |-> asks] /\ Asked(a)' = asks
        /\ \A b \in Admin \ {a} : update'[b] = update[b] /\ Asked(b)' = Asked(b)
        /\ update' \in [Admin -> [at : {"idle", "checked", "saved", "testing", "done"},
           asks : Choice]]
    BY <2>1, <2>2, ProviderFacts DEF asks, Asked
  <2>4. /\ UNCHANGED <<row, userRow, environment, active, secrets, enabled, initialized,
                       manager, features, instances>>
        /\ UNCHANGED <<outcomes, astray, keyAstray, keyless, restarts>> /\ update[a].at = "idle"
    BY <1>1 DEF RequestUpdate, stored, process, NoUpdate
  <2>5. update'[a].at = "checked"
    BY <2>3
  <2>6. ProviderTypeOK'
    BY <2>3, <2>4 DEF ProviderIInv, ProviderTypeOK, NoObject, Using, AnyProvider, AnyKey, AIKey,
       NoKey, Choice, Row
  <2>7. HeldKeysStayHome'
    BY <2>2, <2>3, <2>4, ProviderFacts DEF ProviderIInv, HeldKeysStayHome, Misplaced, Using,
       AnyProvider, NoKey
  <2>8. SavedIsTheRow' /\ KeysFollow' /\ RowIsInForce'
    <3>1. \A b \in Admin : /\ update'[b].at = "saved" <=> update[b].at = "saved"
                           /\ update[b].at = "saved" => Asked(b)' = Asked(b)
      BY <2>3, <2>4, <2>5
    <3>2. QED BY <2>4, <3>1, QuietStep
  <2>9. ManagerIsCurrent'
    BY <2>4 DEF ProviderIInv, ManagerIsCurrent, Usable, Using
  <2>10. QED BY <2>6, <2>7, <2>8, <2>9 DEF ProviderIInv
<1>2. CASE SaveUpdate(a)
  <2>1. /\ UNCHANGED <<userRow, environment, active, secrets, enabled, initialized, manager,
                       features, instances>>
        /\ UNCHANGED <<outcomes, restarts>> /\ update[a].at = "checked"
        /\ row' = Kept(row, Asked(a)) /\ keyless' = (keyless \/ Rekeyed(row, Asked(a)))
        /\ astray' = \E b \in Admin : update[b].at = "saved"
        /\ keyAstray' = (astray' \/ (Asked(a).key = NoKey
                           /\ (keyAstray \/ Asked(a).provider # row.choice.provider)))
        /\ update' = [update EXCEPT ![a].at = "saved"]
    BY <1>2 DEF SaveUpdate, process, Stage
  <2>2. /\ update'[a].at = "saved" /\ Asked(a)' = Asked(a)
        /\ \A b \in Admin \ {a} : update'[b] = update[b] /\ Asked(b)' = Asked(b)
        /\ update' \in [Admin -> [at : {"idle", "checked", "saved", "testing", "done"},
           asks : Choice]]
    BY <2>1, ProviderFacts DEF Asked
  <2>3. /\ row' \in Row /\ row'.stored /\ row'.choice.provider = Asked(a).provider
        /\ row'.choice.key = IF Asked(a).key = NoKey THEN row.choice.key ELSE Asked(a).key
        /\ ~Misplaced(row.choice) /\ ~Rekeyed(row, Asked(a)) => ~Misplaced(row'.choice)
    BY <2>1, ProviderFacts, KeptKeys
  <2>4. ProviderTypeOK'
    <3>1. keyless' \in BOOLEAN /\ astray' \in BOOLEAN /\ keyAstray' \in BOOLEAN
      BY <2>1
    <3>2. QED BY <2>1, <2>2, <2>3, <3>1 DEF ProviderIInv, ProviderTypeOK, AnyProvider, AnyKey,
       AIKey, NoKey, Choice, Row
  <2>5. HeldKeysStayHome'
    <3>1. ~keyless' => ~keyless /\ ~Rekeyed(row, Asked(a))
      BY <2>1
    <3>2. ~keyless' => ~Misplaced(row'.choice)
      BY <2>3, <3>1 DEF ProviderIInv, HeldKeysStayHome
    <3>3. \A b \in Admin : ~Misplaced(Asked(b)')
      BY <2>2 DEF ProviderIInv, HeldKeysStayHome
    <3>4. QED
      BY <2>1, <3>1, <3>2, <3>3 DEF ProviderIInv, HeldKeysStayHome, Misplaced, Using,
         AnyProvider, NoKey
  <2>6. SavedIsTheRow'
    <3>1. ~astray' => \A b \in Admin : update[b].at # "saved"
      BY <2>1
    <3>2. QED BY <2>1, <2>2, <2>3, <3>1 DEF SavedIsTheRow
  <2>7. KeysFollow'
    <3>1. SUFFICES ASSUME ~keyAstray', row'.choice.key # NoKey,
                          NEW b \in Admin, update'[b].at = "saved"
                   PROVE  \/ Asked(b)' .key = row'.choice.key
                          \/ Asked(b)' .key = NoKey /\ KeyOfTheRow'
      BY <2>2 DEF KeysFollow
    <3>2. (\A c \in Admin : update[c].at # "saved") /\ b = a
      BY <2>1, <2>2, <3>1
    <3>3. CASE Asked(a).key # NoKey
      BY <2>2, <2>3, <3>2, <3>3
    <3>4. CASE Asked(a).key = NoKey
      <4>1. /\ ~keyAstray /\ Asked(a).provider = row.choice.provider
            /\ row.choice.key # NoKey /\ row'.choice.key = row.choice.key
        BY <2>1, <2>3, <3>1, <3>4
      <4>2. KeyOfTheRow
        BY <3>2, <4>1 DEF ProviderIInv, KeysFollow
      <4>3. QED BY <2>1, <2>2, <2>3, <3>2, <3>4, <4>1, <4>2 DEF KeyOfTheRow
    <3>5. QED BY <3>3, <3>4
  <2>8. RowIsInForce' /\ ManagerIsCurrent'
    BY <2>1, <2>2 DEF ProviderIInv, RowIsInForce, ManagerIsCurrent, Usable, Using
  <2>9. QED BY <2>4, <2>5, <2>6, <2>7, <2>8 DEF ProviderIInv
<1>3. CASE ApplyUpdate(a)
  <2> DEFINE p == Asked(a).provider
             k == Asked(a).key
  <2>1. /\ UNCHANGED <<row, userRow, environment, features, outcomes, astray, keyAstray, keyless,
                       restarts, initialized>>
        /\ update[a].at = "saved" /\ update' = [update EXCEPT ![a].at = "done"]
        /\ active' = p /\ secrets' = [secrets EXCEPT ![p] = IF k = NoKey THEN @ ELSE k]
        /\ enabled' = TRUE /\ instances' = Cached(Using(p, secrets'[p]))
        /\ manager' = IF Usable(Using(p, secrets'[p])) THEN Using(p, secrets'[p]) ELSE manager
    BY <1>3 DEF ApplyUpdate, applyProviderConfig, stored, Stage
  <2>2. p \in AnyProvider /\ k \in AnyKey /\ ~Misplaced(Asked(a)) /\ (k # NoKey => k.for = p)
    BY ProviderFacts DEF Choice, Misplaced
  <2> HIDE DEF p, k
  <2>3. /\ update'[a].at = "done" /\ Asked(a)' = Asked(a)
        /\ \A b \in Admin \ {a} : update'[b] = update[b] /\ Asked(b)' = Asked(b)
        /\ update' \in [Admin -> [at : {"idle", "checked", "saved", "testing", "done"},
           asks : Choice]]
    BY <2>1, ProviderFacts DEF Asked
  <2>4. /\ secrets' \in [AnyProvider -> AnyKey] /\ secrets'[p] \in AnyKey
        /\ \A q \in AnyProvider :
             secrets'[q] = secrets[q] \/ (q = p /\ secrets'[q] = k /\ k # NoKey)
    BY <2>1, <2>2, ProviderFacts
  <2>5. ProviderTypeOK'
    <3>1. /\ instances' \in [AnyProvider -> [cached : BOOLEAN, key : AnyKey]]
          /\ manager' \in Choice \union {NoObject}
      BY <2>1, <2>2, <2>4, ProviderTypes, ObjectTypes, ProviderFacts
    <3>2. QED BY <2>1, <2>2, <2>3, <2>4, <3>1, ProviderFacts
              DEF ProviderTypeOK, NoObject, Using, AnyProvider, AnyKey, AIKey, NoKey, Choice, Row
  <2>6. HeldKeysStayHome'
    <3>1. ASSUME ~keyless', NEW q \in AnyProvider PROVE ~Misplaced(Using(q, secrets'[q]))
      BY <2>1, <2>2, <2>4, <3>1 DEF ProviderIInv, HeldKeysStayHome, Misplaced, Using
    <3>2. \A b \in Admin : ~Misplaced(Asked(b)')
      BY <2>3 DEF ProviderIInv, HeldKeysStayHome
    <3>3. ~keyless' => ~Misplaced(manager')
      BY <2>1, <2>2, <3>1 DEF ProviderIInv, HeldKeysStayHome
    <3>4. QED BY <2>1, <3>1, <3>2, <3>3 DEF ProviderIInv, HeldKeysStayHome, Misplaced,
       AnyProvider, NoKey
  <2>7. SavedIsTheRow'
    BY <2>1, <2>3 DEF ProviderIInv, SavedIsTheRow
  <2>8. ~astray => /\ \A b \in Admin : update'[b].at # "saved"
                   /\ p = row.choice.provider
    BY <2>1, <2>3 DEF ProviderIInv, SavedIsTheRow, p
  <2>9. ASSUME ~keyAstray, row.choice.key # NoKey PROVE KeyOfTheRow'
    <3>1. p = row.choice.provider
      BY <2>8, <2>9 DEF ProviderIInv, SavedIsTheRow
    <3>2. k = row.choice.key \/ (k = NoKey /\ KeyOfTheRow)
      BY <2>1, <2>9 DEF ProviderIInv, KeysFollow, k
    <3>3. QED BY <2>1, <2>2, <2>9, <3>1, <3>2, ProviderFacts DEF KeyOfTheRow
  <2>10. KeysFollow'
    <3>1. ~keyAstray => ~astray
      BY DEF ProviderIInv, SavedIsTheRow
    <3>2. QED BY <2>1, <2>8, <2>9, <3>1 DEF KeysFollow
  <2>11. RowIsInForce'
    BY <2>1, <2>8, <2>9 DEF RowIsInForce, KeyOfTheRow
  <2>12. ManagerIsCurrent'
    BY <2>1 DEF ManagerIsCurrent
  <2>13. QED BY <2>5, <2>6, <2>7, <2>10, <2>11, <2>12 DEF ProviderIInv
<1>4. CASE BeginTest(a)
  <2>1. PICK p \in AIProvider :
          /\ instances' = [instances EXCEPT ![p] = IF @.cached THEN @ ELSE Object([for |-> p,
             by |-> a])]
          /\ outcomes' = [outcomes EXCEPT ![a] = instances'[p].key]
          /\ update' = [update EXCEPT ![a] = [at |-> "testing", asks |-> Using(p, [for |-> p,
             by |-> a])]]
    BY <1>4 DEF BeginTest
  <2> DEFINE mine == [for |-> p, by |-> a]
             asks == Using(p, mine)
  <2>2. p \in AnyProvider /\ mine \in AnyKey /\ mine.for = p
    BY DEF AnyProvider, AnyKey, AIKey
  <2>3. asks \in Choice /\ ~Misplaced(asks)
    <3> HIDE DEF mine
    <3>1. QED BY <2>2, ProviderTypes DEF Misplaced
  <2>4. Object(mine) \in [cached : BOOLEAN, key : AnyKey]
    <3> HIDE DEF mine
    <3>1. QED BY <2>2, ProviderTypes
  <2> HIDE DEF asks, mine
  <2>5. /\ update'[a] = [at |-> "testing", asks |-> asks] /\ Asked(a)' = asks
        /\ \A b \in Admin \ {a} : update'[b] = update[b] /\ Asked(b)' = Asked(b)
        /\ update' \in [Admin -> [at : {"idle", "checked", "saved", "testing", "done"},
           asks : Choice]]
    BY <2>1, <2>3, ProviderFacts DEF asks, mine, Asked
  <2>6. /\ UNCHANGED <<row, userRow, environment, active, secrets, enabled, initialized,
                       manager, features>>
        /\ UNCHANGED <<astray, keyAstray, keyless, restarts>> /\ update[a].at = "idle"
        /\ update'[a].at = "testing"
    BY <1>4, <2>5 DEF BeginTest, stored, NoUpdate
  <2>7. ProviderTypeOK'
    <3>1. instances' \in [AnyProvider -> [cached : BOOLEAN, key : AnyKey]]
      BY <2>1, <2>2, <2>4, ProviderFacts DEF mine
    <3>2. instances'[p].key \in AnyKey
      BY <2>2, <3>1
    <3>3. outcomes' \in [Admin -> AnyKey]
      BY <2>1, <3>2, ProviderFacts
    <3>4. QED BY <2>5, <2>6, <3>1, <3>3, ProviderFacts
              DEF ProviderTypeOK, NoObject, Using, AnyProvider, AnyKey, AIKey, NoKey, Choice, Row
  <2>8. HeldKeysStayHome'
    BY <2>3, <2>5, <2>6, ProviderFacts DEF ProviderIInv, HeldKeysStayHome, Misplaced, Using,
       AnyProvider, NoKey
  <2>9. SavedIsTheRow' /\ KeysFollow' /\ RowIsInForce'
    <3>1. \A b \in Admin : /\ update'[b].at = "saved" <=> update[b].at = "saved"
                           /\ update[b].at = "saved" => Asked(b)' = Asked(b)
      BY <2>5, <2>6
    <3>2. QED BY <2>6, <3>1, QuietStep
  <2>10. ManagerIsCurrent'
    BY <2>6 DEF ProviderIInv, ManagerIsCurrent, Usable, Using
  <2>11. QED BY <2>7, <2>8, <2>9, <2>10 DEF ProviderIInv
<1>5. CASE EndTest(a)
  <2>1. /\ UNCHANGED <<row, userRow, environment, active, secrets, enabled, initialized,
                       manager, features>>
        /\ UNCHANGED <<outcomes, astray, keyAstray, keyless, restarts>> /\ instances' = Empty
        /\ update[a].at = "testing" /\ update' = [update EXCEPT ![a].at = "done"]
    BY <1>5 DEF EndTest, stored, Stage
  <2>2. /\ update'[a].at = "done" /\ Asked(a)' = Asked(a)
        /\ \A b \in Admin \ {a} : update'[b] = update[b] /\ Asked(b)' = Asked(b)
        /\ update' \in [Admin -> [at : {"idle", "checked", "saved", "testing", "done"},
           asks : Choice]]
    BY <2>1, ProviderFacts DEF Asked
  <2>3. ProviderTypeOK'
    BY <2>1, <2>2, ProviderTypes, ProviderFacts DEF ProviderTypeOK, NoObject, Using,
       AnyProvider, AnyKey, AIKey, NoKey, Choice, Row
  <2>4. HeldKeysStayHome'
    <3>1. \A b \in Admin : ~Misplaced(Asked(b)')
      BY <2>2 DEF ProviderIInv, HeldKeysStayHome
    <3>2. QED BY <2>1, <3>1 DEF ProviderIInv, HeldKeysStayHome, Misplaced, Using, AnyProvider,
       NoKey
  <2>5. SavedIsTheRow' /\ KeysFollow' /\ RowIsInForce'
    <3>1. \A b \in Admin : /\ update'[b].at = "saved" <=> update[b].at = "saved"
                           /\ update[b].at = "saved" => Asked(b)' = Asked(b)
      BY <2>1, <2>2
    <3>2. QED BY <2>1, <3>1, QuietStep
  <2>6. ManagerIsCurrent'
    BY <2>1 DEF ProviderIInv, ManagerIsCurrent, Usable, Using
  <2>7. QED BY <2>3, <2>4, <2>5, <2>6 DEF ProviderIInv
<1>6. QED BY <1>1, <1>2, <1>3, <1>4, <1>5

LEMMA UserRowKeepsInv ==
  ASSUME ProviderIInv, updateUserProviderConfig \/ deleteUserProviderConfig
  PROVE  ProviderIInv'
<1>1. /\ UNCHANGED <<row, environment, active, secrets, enabled, initialized, manager, features,
                     instances>>
      /\ UNCHANGED <<update, outcomes, astray, keyAstray, restarts>>
  BY DEF updateUserProviderConfig, deleteUserProviderConfig, process
<1>2. /\ userRow' \in Row /\ keyless' \in BOOLEAN
      /\ ~keyless' => ~keyless /\ (~Misplaced(userRow.choice) => ~Misplaced(userRow'.choice))
  <2>1. CASE updateUserProviderConfig
    <3>1. PICK p \in AnyProvider, k \in {NoKey} \union {UserKey(q) : q \in AIProvider} :
            /\ k # NoKey => k.for = p
            /\ userRow' = Kept(userRow, Using(p, k))
            /\ keyless' = (keyless \/ Rekeyed(userRow, Using(p, k)))
      BY <2>1 DEF updateUserProviderConfig
    <3>2. k \in AnyKey
      BY DEF UserKey, AnyKey, AIKey
    <3> DEFINE asks == Using(p, k)
    <3>3. asks \in Choice /\ ~Misplaced(asks)
      BY <3>1, <3>2, ProviderTypes DEF Misplaced
    <3> HIDE DEF asks
    <3>4. userRow' = Kept(userRow, asks) /\ keyless' = (keyless \/ Rekeyed(userRow, asks))
      BY <3>1 DEF asks
    <3>5. keyless' \in BOOLEAN
      BY <3>4
    <3>6. QED BY <3>3, <3>4, <3>5, ProviderFacts, KeptKeys
  <2>2. CASE deleteUserProviderConfig
    BY <2>2, ProviderTypes, ProviderFacts DEF deleteUserProviderConfig, EmptyRow
  <2>3. QED BY <2>1, <2>2
<1>3. ProviderTypeOK'
  BY <1>1, <1>2 DEF ProviderIInv, ProviderTypeOK, NoObject, Using, AnyProvider, AnyKey, AIKey,
     NoKey, Choice, Row
<1>4. HeldKeysStayHome'
  <2>1. \A a \in Admin : Asked(a)' = Asked(a)
    BY <1>1 DEF Asked
  <2>2. QED BY <1>1, <1>2, <2>1 DEF ProviderIInv, HeldKeysStayHome, Misplaced, Using,
     AnyProvider, NoKey
<1>5. SavedIsTheRow' /\ KeysFollow' /\ RowIsInForce' /\ ManagerIsCurrent'
  <2>1. SavedIsTheRow' /\ KeysFollow' /\ RowIsInForce'
    BY <1>1, QuietStep DEF Asked
  <2>2. QED BY <1>1, <2>1 DEF ProviderIInv, ManagerIsCurrent, Usable, Using
<1>6. QED BY <1>3, <1>4, <1>5 DEF ProviderIInv

LEMMA RestartKeepsInv ==
  ASSUME ProviderIInv, Restart
  PROVE  ProviderIInv'
<1>1. PICK readable \in BOOLEAN :
        LET fromRow == Initializes /\ readable /\ row.stored /\ row.choice.provider # "mock"
            choice == IF fromRow THEN row.choice ELSE environment.choice
        IN /\ astray' = (row.stored /\ ~fromRow) /\ keyAstray' = astray'
           /\ active' = choice.provider
           /\ enabled' = (environment.enabled \/ fromRow)
           /\ secrets' = IF fromRow /\ choice.key # NoKey
                         THEN [EnvironmentSecrets EXCEPT ![choice.provider] = choice.key]
                         ELSE EnvironmentSecrets
           /\ LET configured == Using(choice.provider, secrets'[choice.provider])
                  new == Builds \/ fromRow
              IN /\ instances' = IF new THEN Cached(configured) ELSE Empty
                 /\ manager' = IF new /\ Usable(configured) THEN configured ELSE Built
  BY DEF Restart
<1> DEFINE fromRow == Initializes /\ readable /\ row.stored /\ row.choice.provider # "mock"
           choice == IF fromRow THEN row.choice ELSE environment.choice
           configured == Using(choice.provider, secrets'[choice.provider])
           new == Builds \/ fromRow
<1>2. /\ astray' = (row.stored /\ ~fromRow) /\ keyAstray' = astray'
      /\ active' = choice.provider
      /\ enabled' = (environment.enabled \/ fromRow)
      /\ secrets' = IF fromRow /\ choice.key # NoKey
                    THEN [EnvironmentSecrets EXCEPT ![choice.provider] = choice.key]
                    ELSE EnvironmentSecrets
      /\ instances' = IF new THEN Cached(configured) ELSE Empty
      /\ manager' = IF new /\ Usable(configured) THEN configured ELSE Built
  BY <1>1
<1>3. /\ UNCHANGED <<row, userRow, environment, outcomes, keyless>>
      /\ restarts < RestartBound /\ restarts' = restarts + 1 /\ features' = Built
      /\ initialized' = Initializes
      /\ update' = [a \in Admin |->
            IF update[a] = NoUpdate THEN NoUpdate ELSE [update[a] EXCEPT !.at = "done"]]
  BY DEF Restart, stored
<1>4. /\ environment \in Environment /\ row.choice \in Choice /\ row.stored \in BOOLEAN
      /\ choice \in Choice /\ choice.provider \in AnyProvider /\ choice.key \in AnyKey
  BY ProviderFacts, StartFacts DEF Row, Choice
<1>5. /\ fromRow \in BOOLEAN /\ enabled' \in BOOLEAN /\ initialized' \in BOOLEAN
      /\ astray' \in BOOLEAN /\ keyAstray' \in BOOLEAN
  BY <1>2, <1>3, <1>4, StartFacts
<1>6. row.stored /\ ~astray' =>
        /\ fromRow /\ choice = row.choice
        /\ row.choice.key # NoKey => secrets'[row.choice.provider] = row.choice.key
  BY <1>2, <1>4, StartFacts
<1>7. initialized' /\ enabled' => new
  BY <1>2, <1>3, <1>4, StartFacts
<1>8. ~new => Built = NoObject
  BY DEF Built
<1>9. ~keyless => ~Misplaced(choice)
  BY <1>4, StartFacts DEF ProviderIInv, HeldKeysStayHome
<1> HIDE DEF choice, fromRow, configured, new
<1>10. /\ secrets' \in [AnyProvider -> AnyKey] /\ secrets'[choice.provider] \in AnyKey
       /\ \A p \in AnyProvider :
            secrets'[p] = EnvironmentSecrets[p] \/ (p = choice.provider /\ secrets'[p] = choice.key)
  BY <1>2, <1>4, StartFacts
<1>11. configured = Using(active', secrets'[active']) /\ configured \in Choice
  BY <1>2, <1>4, <1>10, ProviderTypes DEF configured
<1>12. \A a \in Admin : Asked(a)' = Asked(a) /\ update'[a].at \in {"idle", "done"}
                     /\ update'[a] \in [at : {"idle", "checked", "saved", "testing", "done"},
                        asks : Choice]
  <2> TAKE a \in Admin
  <2>1. CASE update[a] = NoUpdate
    <3>1. update'[a] = update[a] /\ NoUpdate.at = "idle"
      BY <1>3, <2>1 DEF NoUpdate
    <3>2. QED BY <2>1, <3>1, ProviderFacts DEF Asked
  <2>2. CASE update[a] # NoUpdate
    <3>1. update'[a] = [update[a] EXCEPT !.at = "done"]
      BY <1>3, <2>2
    <3>2. QED BY <3>1, ProviderFacts DEF Asked
  <2>3. QED BY <2>1, <2>2
<1>13. restarts' \in 0..RestartBound
  BY <1>3, ProviderFacts, ProviderAssumption
<1>14. ProviderTypeOK'
  <2>1. /\ instances' \in [AnyProvider -> [cached : BOOLEAN, key : AnyKey]]
        /\ manager' \in Choice \union {NoObject} /\ features' \in Choice \union {NoObject}
    BY <1>2, <1>3, <1>4, <1>11, ProviderTypes, ObjectTypes, StartFacts
  <2>2. update' \in [Admin -> [at : {"idle", "checked", "saved", "testing", "done"},
        asks : Choice]]
    BY <1>3, <1>12
  <2>3. active' \in AnyProvider
    BY <1>2, <1>4
  <2>4. QED BY <1>3, <1>5, <1>10, <1>13, <2>1, <2>2, <2>3, ProviderFacts
            DEF ProviderTypeOK, NoObject, Using, AnyProvider, AnyKey, AIKey, NoKey, Choice, Row
<1>15. HeldKeysStayHome'
  <2>1. ASSUME ~keyless', NEW p \in AnyProvider PROVE ~Misplaced(Using(p, secrets'[p]))
    <3>1. secrets'[p] = EnvironmentSecrets[p] => ~Misplaced(Using(p, secrets'[p]))
      BY <1>4, StartFacts
    <3>2. p = choice.provider /\ secrets'[p] = choice.key => ~Misplaced(Using(p, secrets'[p]))
      BY <1>3, <1>9, <2>1 DEF Misplaced, Using
    <3>3. QED BY <1>10, <3>1, <3>2
  <2>2. \A a \in Admin : ~Misplaced(Asked(a)')
    BY <1>12 DEF ProviderIInv, HeldKeysStayHome
  <2>3. ~keyless' => ~Misplaced(manager')
    BY <1>2, <1>4, <2>1, StartFacts DEF configured
  <2>4. ~Misplaced(features') /\ ~Misplaced(environment.choice)
    BY <1>3, <1>4, StartFacts
  <2>5. QED BY <1>3, <2>1, <2>2, <2>3, <2>4 DEF ProviderIInv, HeldKeysStayHome, Misplaced,
     AnyProvider, NoKey
<1>16. SavedIsTheRow' /\ KeysFollow'
  <2>1. row.choice.key # NoKey => row.stored
    BY DEF ProviderIInv, SavedIsTheRow
  <2>2. \A a \in Admin : update'[a].at # "saved"
    BY <1>12
  <2>3. QED BY <1>2, <1>3, <1>6, <2>1, <2>2 DEF SavedIsTheRow, KeysFollow, KeyOfTheRow
<1>17. RowIsInForce'
  BY <1>2, <1>3, <1>6 DEF RowIsInForce
<1>18. ManagerIsCurrent'
  <2>1. CASE new
    BY <1>2, <1>11, <2>1 DEF ManagerIsCurrent
  <2>2. CASE ~new
    BY <1>2, <1>7, <1>8, <2>2 DEF ManagerIsCurrent
  <2>3. QED BY <2>1, <2>2
<1>19. QED BY <1>14, <1>15, <1>16, <1>17, <1>18 DEF ProviderIInv

LEMMA ProviderInvStep == ProviderIInv /\ [ProviderNext]_providerVars => ProviderIInv'
<1>1. ASSUME ProviderIInv, UNCHANGED providerVars PROVE ProviderIInv'
  BY <1>1 DEF providerVars, stored, process, ProviderIInv, ProviderTypeOK, ManagerIsCurrent,
     HeldKeysStayHome, SavedIsTheRow, KeysFollow, KeyOfTheRow, RowIsInForce, Misplaced, Usable, Using, Asked, NoObject,
        AnyProvider, AnyKey, AIKey, NoKey, Choice, Row
<1>2. QED BY <1>1, UpdateKeepsInv, UserRowKeepsInv, RestartKeepsInv DEF ProviderNext

LEMMA ProviderInvImplies == ProviderIInv => ProviderInv
<1> SUFFICES ASSUME ProviderIInv PROVE ProviderInv
  OBVIOUS
<1>1. ASSUME ~keyless PROVE ~Misplaced(manager) /\ ~Misplaced(features) /\ ~Misplaced(ChatsWith)
  BY <1>1 DEF ProviderIInv, HeldKeysStayHome, ChatsWith
<1>2. KeysStayHome
  BY <1>1 DEF KeysStayHome
<1>3. QED BY <1>2 DEF ProviderInv, ProviderIInv
-----------------------------------------------------------------------------
\* The settings

\* The settings are those of the start, or those with the stored choice over them, which
\* then has a provider unless it lacks what that demands
SettingsAreLoaded ==
  /\ \/ config = Loaded
     \/ config = Overridden(Loaded) /\ startup = "serving" /\ storedChoice # "none"
  /\ config # Loaded /\ storedChoice = "complete" => hasProvider

\* What is there while the process starts, and what an initialized one has
StartIsOrderly ==
  /\ startup = "starting" => ~ready /\ served = {}
  /\ startup = "started" => ready
  /\ served # {} => ~Complains(Loaded)
  /\ ready /\ IsTrue(Loaded, "enabled") =>
       hasProvider /\ \A f \in Service : isFeatureEnabled(Loaded, f) =>
                        f \in served \/ (f = "rcaMatching" /\ vectorLost)
  /\ startup = "serving" /\ ~ready =>
       \/ ~(Needed \union {"features"} \subseteq Loaded.sections)
       \/ Complains(Loaded) \/ ~hasKey

SettingsIInv == SettingsTypeOK /\ SettingsAreLoaded /\ StartIsOrderly

SettingValue == [by : {"default", "file", "environment", "row", "nobody"}, is : Amount]

\* A field belongs to one section, and the fields of the scalars are they themselves
LEMMA FieldFacts ==
  /\ \A s \in Section, t \in Section : \A f \in FieldsOf[s] : f \in FieldsOf[t] => s = t
  /\ \A s \in Section : \A f \in FieldsOf[s] : f \in Field /\ (f \in Scalar => s = f)
  /\ \A s \in Scalar : s \in Section /\ s \in FieldsOf[s] /\ s \in Field
  /\ Service \subseteq Field \ Scalar
  /\ {"monthlyBudgetUSD", "alertThresholdPercent", "perMinute", "perDay"} \subseteq Field \ Scalar
<1>1. Section = {"enabled", "provider", "model", "features", "providerSettings", "contextWindow",
                 "localModel", "vectorDB", "cost", "cache", "rateLimit"}
  BY DEF Section, FieldsOf
<1>2. /\ FieldsOf["enabled"] = {"enabled"} /\ FieldsOf["provider"] = {"provider"}
      /\ FieldsOf["model"] = {"model"}
      /\ FieldsOf["features"] =
           {"rcaMatching", "categorization", "logSummary", "nlQueries", "ticketGeneration"}
      /\ FieldsOf["providerSettings"] = {"maxTokens", "temperature", "timeoutMs"}
      /\ FieldsOf["contextWindow"] =
           {"sizeOverride", "maxToolResultTokens", "maxTotalToolResultTokens"}
      /\ FieldsOf["localModel"] = {"localEnabled", "localProvider", "localModel", "baseUrl"}
      /\ FieldsOf["vectorDB"] = {"url", "apiKey"}
      /\ FieldsOf["cost"] = {"monthlyBudgetUSD", "alertThresholdPercent", "alertEmail"}
      /\ FieldsOf["cache"] = {"cacheEnabled", "ttlSeconds"}
      /\ FieldsOf["rateLimit"] = {"perMinute", "perDay"}
  BY DEF FieldsOf
<1>3. \A s \in Section, t \in Section : \A f \in FieldsOf[s] : f \in FieldsOf[t] => s = t
  BY <1>1, <1>2
<1>4. \A s \in Section : \A f \in FieldsOf[s] : f \in Field /\ (f \in Scalar => s = f)
  <2>1. \A s \in Section : \A f \in FieldsOf[s] : f \in Field
    BY DEF Field
  <2>2. \A s \in Section : \A f \in FieldsOf[s] : f \in Scalar => s = f
    BY <1>1, <1>2 DEF Scalar
  <2>3. QED BY <2>1, <2>2
<1>5. \A s \in Scalar : s \in Section /\ s \in FieldsOf[s] /\ s \in Field
  <2>1. \A s \in Scalar : s \in Section /\ s \in FieldsOf[s]
    BY <1>1, <1>2 DEF Scalar
  <2>2. QED BY <1>4, <2>1
<1>6. Service \subseteq Field \ Scalar
  <2>1. Service \subseteq FieldsOf["features"] /\ "features" \in Section
    BY <1>1, <1>2 DEF Service
  <2>2. QED BY <1>4, <2>1 DEF Scalar
<1>7. {"monthlyBudgetUSD", "alertThresholdPercent", "perMinute", "perDay"} \subseteq Field \ Scalar
  <2>1. /\ {"monthlyBudgetUSD", "alertThresholdPercent"} \subseteq FieldsOf["cost"]
        /\ {"perMinute", "perDay"} \subseteq FieldsOf["rateLimit"]
        /\ "cost" \in Section /\ "rateLimit" \in Section
    BY <1>1, <1>2
  <2>2. {"monthlyBudgetUSD", "alertThresholdPercent", "perMinute", "perDay"} \subseteq Field
    BY <1>4, <2>1
  <2>3. QED BY <2>2 DEF Scalar
<1>8. QED BY <1>3, <1>4, <1>5, <1>6, <1>7

\* Where a value comes from, layer by layer
LEMMA LayerFacts ==
  ASSUME NEW f \in Field
  PROVE  /\ Undefined \in SettingValue /\ Undefined.by = "nobody"
         /\ DefaultOf(f) \in SettingValue /\ DefaultOf(f).by \in {"default", "nobody"}
         /\ Default(f) \in SettingValue /\ Default(f).by \in {"default", "nobody"}
         /\ \A given : (f \in DOMAIN given => given[f] \in Amount) =>
              /\ Says("file", given, f) \in SettingValue
              /\ Says("file", given, f).by \in {"file", "nobody"}
              /\ FromEnvironment(given, f) \in SettingValue
<1>1. \A who \in {"default", "file", "environment", "row", "nobody"}, amount \in Amount :
        Given(who, amount) \in SettingValue /\ Given(who, amount).by = who
  BY DEF Given, SettingValue
<1>2. Undefined \in SettingValue /\ Undefined.by = "nobody"
  BY <1>1 DEF Undefined, Amount
<1>3. DefaultOf(f) \in SettingValue /\ DefaultOf(f).by \in {"default", "nobody"}
  BY <1>1, <1>2 DEF DefaultOf, Amount
<1>4. Default(f) \in SettingValue /\ Default(f).by \in {"default", "nobody"}
  BY <1>2, <1>3 DEF Default
<1>5. ASSUME NEW given, f \in DOMAIN given => given[f] \in Amount
      PROVE  /\ Says("file", given, f) \in SettingValue
             /\ Says("file", given, f).by \in {"file", "nobody"}
             /\ FromEnvironment(given, f) \in SettingValue
  BY <1>1, <1>2, <1>3, <1>5 DEF Says, FromEnvironment
<1>6. QED BY <1>2, <1>3, <1>4, <1>5

\* The settings of a start
LEMMA LoadedFacts ==
  ASSUME NEW from \in Files, NEW env \in Environs
  PROVE  /\ loadConfig(from, env).sections \subseteq Section
         /\ loadConfig(from, env).value \in [Field -> SettingValue]
<1> DEFINE V(f) == IF \E s \in Section : f \in FieldsOf[s] /\ EnvironmentNames(env, s)
                   THEN FromEnvironment(env, f)
                   ELSE IF from.parsed THEN Says("file", from.says, f) ELSE Default(f)
<1>1. loadConfig(from, env).value = [f \in Field |-> V(f)]
  BY DEF loadConfig
<1>2. loadConfig(from, env).sections \subseteq Section
  BY DEF loadConfig
<1>3. ASSUME NEW f \in Field PROVE V(f) \in SettingValue
  <2>1. /\ f \in DOMAIN env => env[f] \in Amount
        /\ f \in DOMAIN from.says => from.says[f] \in Amount
    BY SettingsAssumption
  <2>2. QED BY <2>1, LayerFacts
<1>4. QED BY <1>1, <1>2, <1>3

\* The stored choice replaces the scalars
LEMMA OverriddenFacts ==
  ASSUME NEW c, c.value \in [Field -> SettingValue]
  PROVE  /\ Overridden(c).sections = c.sections
         /\ Overridden(c).value \in [Field -> SettingValue]
         /\ \A f \in Field : Overridden(c).value[f] =
              IF f \in Scalar THEN Given("row", "much") ELSE c.value[f]
<1>1. Given("row", "much") \in SettingValue
  BY DEF Given, SettingValue, Amount
<1>2. QED BY <1>1 DEF Overridden

\* What is there of the settings at any time
LEMMA ConfigFacts ==
  ASSUME SettingsIInv
  PROVE  /\ Loaded.sections \subseteq Section /\ Loaded.value \in [Field -> SettingValue]
         /\ config.sections = Loaded.sections /\ config.value \in [Field -> SettingValue]
         /\ \A f \in Field : \/ config.value[f] = Loaded.value[f]
                             \/ f \in Scalar /\ config = Overridden(Loaded)
                                /\ config.value[f] = Given("row", "much")
<1>1. file \in Files /\ environ \in Environs
  BY DEF SettingsIInv, SettingsTypeOK
<1>2. Loaded.sections \subseteq Section /\ Loaded.value \in [Field -> SettingValue]
  BY <1>1, LoadedFacts DEF Loaded
<1>3. CASE config = Loaded
  BY <1>2, <1>3
<1>4. CASE config = Overridden(Loaded)
  <2> HIDE DEF Loaded
  <2>1. QED BY <1>2, <1>4, OverriddenFacts
<1>5. QED BY <1>3, <1>4 DEF SettingsIInv, SettingsAreLoaded

LEMMA LayersLemma == SettingsIInv => LayersHold
<1> SUFFICES ASSUME SettingsIInv, NEW s \in Section, NEW f \in FieldsOf[s]
             PROVE  \/ config.value[f] = Documented(f)
                    \/ s \in Scalar /\ config.value[f].by = "row"
                    \/ /\ \E g \in FieldsOf[s] \ {f} : g \in DOMAIN environ
                       /\ config.value[f] = DefaultOf(f)
                    \/ file.parsed /\ f \notin DOMAIN file.says /\ config.value[f] = Undefined
                    \/ /\ s = "localModel" /\ ~EnvironmentNames(environ, s)
                       /\ config.value[f] =
                            IF file.parsed THEN Says("file", file.says, f) ELSE Undefined
  BY DEF LayersHold
<1>1. f \in Field /\ (f \in Scalar => s = f)
  BY FieldFacts
<1>2. \A t \in Section : f \in FieldsOf[t] => t = s
  BY FieldFacts
<1>3. file \in Files /\ environ \in Environs
  BY DEF SettingsIInv, SettingsTypeOK
<1>4. Loaded.value[f] =
        IF EnvironmentNames(environ, s) THEN FromEnvironment(environ, f)
        ELSE IF file.parsed THEN Says("file", file.says, f) ELSE Default(f)
  BY <1>1, <1>2 DEF Loaded, loadConfig
<1>5. CASE config.value[f] # Loaded.value[f]
  <2>1. f \in Scalar /\ config.value[f] = Given("row", "much")
    BY <1>1, <1>5, ConfigFacts
  <2>2. QED BY <1>1, <2>1 DEF Given
<1>6. CASE config.value[f] = Loaded.value[f]
  <2>1. CASE EnvironmentNames(environ, s)
    <3>1. CASE f \in DOMAIN environ
      BY <1>4, <1>6, <2>1, <3>1 DEF FromEnvironment, Documented
    <3>2. CASE f \notin DOMAIN environ
      <4>1. config.value[f] = DefaultOf(f)
        BY <1>4, <1>6, <2>1, <3>2 DEF FromEnvironment
      <4>2. \E g \in FieldsOf[s] : g \in DOMAIN environ
        <5>1. "localEnabled" \in FieldsOf["localModel"]
          BY DEF FieldsOf
        <5>2. QED BY <2>1, <5>1 DEF EnvironmentNames
      <4>3. QED BY <3>2, <4>1, <4>2
    <3>3. QED BY <3>1, <3>2
  <2>2. CASE ~EnvironmentNames(environ, s)
    <3>1. CASE f \in DOMAIN environ
      <4>1. s = "localModel"
        BY <2>2, <3>1 DEF EnvironmentNames
      <4>2. ~file.parsed => config.value[f] = Undefined
        <5>1. FieldsOf[s] = FieldsOf.localModel
          BY <4>1
        <5>2. QED BY <1>4, <1>6, <2>2, <5>1 DEF Default
      <4>3. QED BY <1>4, <1>6, <2>2, <4>1, <4>2
    <3>2. CASE f \notin DOMAIN environ
      <4>1. CASE file.parsed /\ f \in DOMAIN file.says
        BY <1>4, <1>6, <2>2, <3>2, <4>1 DEF Documented, Says
      <4>2. CASE file.parsed /\ f \notin DOMAIN file.says
        BY <1>4, <1>6, <2>2, <3>2, <4>2 DEF Says
      <4>3. CASE ~file.parsed
        BY <1>4, <1>6, <2>2, <3>2, <4>3 DEF Documented
      <4>4. QED BY <4>1, <4>2, <4>3
    <3>3. QED BY <3>1, <3>2
  <2>3. QED BY <2>1, <2>2
<1>7. QED BY <1>5, <1>6

LEMMA SettingsInvImplies == SettingsIInv => SettingsInv
<1> SUFFICES ASSUME SettingsIInv PROVE SettingsInv
  OBVIOUS
<1>1. \A f \in Field \ Scalar : config.value[f] = Loaded.value[f]
  BY ConfigFacts
<1>2. \A f \in Service : IsTrue(config, f) <=> IsTrue(Loaded, f)
  BY <1>1, FieldFacts DEF IsTrue
<1>3. ServicesAreChecked
  <2>1. SUFFICES ASSUME served # {} PROVE ServicesAreChecked
    BY DEF ServicesAreChecked
  <2>2. ~Complains(Loaded)
    BY <2>1 DEF SettingsIInv, StartIsOrderly
  <2>3. /\ Loaded.value["monthlyBudgetUSD"].is # "nothing"
        /\ Loaded.value["perMinute"].is # "nothing"
        /\ ~(Loaded.value["perMinute"].is = "much" /\ Loaded.value["perDay"].is = "little")
        /\ Loaded.value["provider"].is # "nothing" /\ Loaded.value["model"].is # "nothing"
    BY <2>2 DEF Complains, IsOut, IsTrue
  <2>4. \A f \in {"monthlyBudgetUSD", "perMinute", "perDay"} : config.value[f] = Loaded.value[f]
    BY <1>1, FieldFacts
  <2>5. \A f \in {"provider", "model"} : config.value[f].is # "nothing"
    <3>1. ASSUME NEW f \in {"provider", "model"} PROVE config.value[f].is # "nothing"
      <4>1. f \in Field
        BY FieldFacts DEF Scalar
      <4>2. config.value[f] = Loaded.value[f] \/ config.value[f] = Given("row", "much")
        BY <4>1, ConfigFacts
      <4>3. QED BY <2>3, <4>2 DEF Given
    <3>2. QED BY <3>1
  <2>6. QED BY <2>3, <2>4, <2>5 DEF ServicesAreChecked
<1>4. FeaturesAreServed
  BY <1>2 DEF FeaturesAreServed, isFeatureEnabled, SettingsIInv, StartIsOrderly
<1>5. ChatsHaveProvider
  <2>1. SUFFICES ASSUME ready, IsTrue(config, "enabled"), ~hasProvider
                 PROVE  storedChoice = "lacking" /\ ~IsTrue(Loaded, "enabled")
    BY DEF ChatsHaveProvider
  <2>2. ~IsTrue(Loaded, "enabled")
    BY <2>1 DEF SettingsIInv, StartIsOrderly
  <2>3. config # Loaded
    BY <2>1, <2>2
  <2>4. storedChoice # "none" /\ storedChoice # "complete"
    BY <2>1, <2>3 DEF SettingsIInv, SettingsAreLoaded
  <2>5. QED BY <2>2, <2>4 DEF SettingsIInv, SettingsTypeOK
<1>6. QED BY <1>3, <1>4, <1>5, LayersLemma DEF SettingsInv, SettingsIInv

\* A process that has been launched, in this step or before it
FreshLaunch ==
  Launched /\ storedChoice \in {"none", "complete", "lacking"} /\ starts \in 0..StartBound

LEMMA LaunchFacts == FreshLaunch => SettingsIInv
<1> SUFFICES ASSUME FreshLaunch PROVE SettingsIInv
  OBVIOUS
<1> USE DEF FreshLaunch
<1>1. /\ file \in Files /\ environ \in Environs /\ hasKey \in BOOLEAN /\ config = Loaded
      /\ startup = "starting" /\ ready = FALSE /\ hasProvider = FALSE /\ served = {}
      /\ vectorLost = FALSE
  BY DEF Launched, Loaded
<1>2. config.sections \subseteq Section /\ config.value \in [Field -> SettingValue]
  BY <1>1, LoadedFacts DEF Loaded
<1>3. SettingsTypeOK
  BY <1>1, <1>2 DEF SettingsTypeOK, SettingValue
<1>4. SettingsAreLoaded /\ StartIsOrderly
  BY <1>1 DEF SettingsAreLoaded, StartIsOrderly
<1>5. QED BY <1>3, <1>4 DEF SettingsIInv

LEMMA SettingsInvInit == SettingsInit => SettingsIInv
BY LaunchFacts, SettingsAssumption DEF SettingsInit, FreshLaunch

LEMMA StartKeepsInv ==
  ASSUME SettingsIInv, StartDisabled \/ StartFails \/ StartBuilds
  PROVE  SettingsIInv'
<1>1. /\ UNCHANGED <<file, environ, hasKey, config, storedChoice, starts>>
      /\ startup = "starting" /\ startup' \in {"started", "serving"}
  BY DEF StartDisabled, StartFails, StartBuilds
<1>2. config = Loaded /\ ~ready /\ served = {}
  BY <1>1 DEF SettingsIInv, SettingsAreLoaded, StartIsOrderly
<1>3. Loaded' = Loaded
  BY <1>1 DEF Loaded
<1>4. SettingsAreLoaded'
  BY <1>1, <1>2, <1>3 DEF SettingsAreLoaded
<1>5. CASE StartDisabled
  <2>1. /\ ready' = TRUE /\ startup' = "started" /\ UNCHANGED <<hasProvider, served, vectorLost>>
        /\ ~IsTrue(Loaded, "enabled")
    BY <1>2, <1>5 DEF StartDisabled
  <2>2. SettingsTypeOK'
    BY <1>1, <2>1 DEF SettingsIInv, SettingsTypeOK
  <2>3. StartIsOrderly'
    BY <1>2, <1>3, <2>1 DEF StartIsOrderly
  <2>4. QED BY <1>4, <2>2, <2>3 DEF SettingsIInv
<1>6. CASE StartFails
  <2> DEFINE built == Needed \subseteq Loaded.sections /\ ~Complains(Loaded) /\ hasKey
  <2>1. /\ built => "features" \notin Loaded.sections
        /\ hasProvider' = built /\ startup' = "serving" /\ UNCHANGED <<ready, served, vectorLost>>
    BY <1>2, <1>6 DEF StartFails
  <2>2. hasProvider' \in BOOLEAN
    BY <2>1 DEF SettingsIInv, SettingsTypeOK
  <2>3. SettingsTypeOK'
    BY <1>1, <2>1, <2>2 DEF SettingsIInv, SettingsTypeOK
  <2>4. \/ ~(Needed \union {"features"} \subseteq Loaded.sections)
        \/ Complains(Loaded) \/ ~hasKey
    BY <2>1
  <2>5. StartIsOrderly'
    BY <1>1, <1>2, <1>3, <2>1, <2>4 DEF StartIsOrderly
  <2>6. QED BY <1>4, <2>3, <2>5 DEF SettingsIInv
<1>7. CASE StartBuilds
  <2>1. /\ ready' = TRUE /\ hasProvider' = TRUE /\ startup' = "started" /\ ~Complains(Loaded)
    BY <1>2, <1>7 DEF StartBuilds
  <2>2. served' = {f \in Service : isFeatureEnabled(config, f)
                                    /\ ~(f = "rcaMatching" /\ vectorLost')}
    BY <1>7 DEF StartBuilds
  <2>3. vectorLost' \in BOOLEAN
    BY <1>7 DEF StartBuilds
  <2>4. served' \subseteq Service
    BY <2>2
  <2>5. \A f \in Service : isFeatureEnabled(Loaded, f) =>
          f \in served' \/ (f = "rcaMatching" /\ vectorLost')
    BY <1>2, <2>2
  <2>6. SettingsTypeOK'
    BY <1>1, <2>1, <2>3, <2>4 DEF SettingsIInv, SettingsTypeOK
  <2>7. StartIsOrderly'
    BY <1>3, <2>1, <2>5 DEF StartIsOrderly
  <2>8. QED BY <1>4, <2>6, <2>7 DEF SettingsIInv
<1>8. QED BY <1>5, <1>6, <1>7

\* The stored choice, applied while the process serves or is about to
LEMMA ApplyKeepsInv ==
  ASSUME SettingsIInv, startup \in {"started", "serving"}, startup' = "serving",
         UNCHANGED <<file, environ, hasKey>>, starts' \in 0..StartBound,
         storedChoice' \in {"complete", "lacking"}, ApplyChoice(storedChoice')
  PROVE  SettingsIInv'
<1>1. /\ config' = Overridden(config) /\ UNCHANGED <<ready, served, vectorLost>>
      /\ hasProvider' \in BOOLEAN /\ (hasProvider => hasProvider')
      /\ storedChoice' = "complete" => hasProvider'
  BY DEF ApplyChoice, SettingsIInv, SettingsTypeOK
<1>2. Loaded' = Loaded
  BY DEF Loaded
<1>3. config' = Overridden(Loaded)
  <2>1. CASE config = Loaded
    BY <1>1, <2>1
  <2>2. CASE config = Overridden(Loaded)
    <3>1. config' = Overridden(Overridden(Loaded))
      BY <1>1, <2>2
    <3>2. ASSUME NEW c PROVE Overridden(Overridden(c)) = Overridden(c)
      BY DEF Overridden
    <3>3. QED BY <3>1, <3>2
  <2>3. QED BY <2>1, <2>2 DEF SettingsIInv, SettingsAreLoaded
<1>4. SettingsAreLoaded'
  BY <1>1, <1>2, <1>3 DEF SettingsAreLoaded
<1>5. SettingsTypeOK'
  <2>1. config'.sections \subseteq Section /\ config'.value \in [Field -> SettingValue]
    BY <1>1, ConfigFacts, OverriddenFacts
  <2>2. QED BY <1>1, <2>1 DEF SettingsIInv, SettingsTypeOK, SettingValue
<1>6. StartIsOrderly'
  BY <1>1, <1>2 DEF SettingsIInv, StartIsOrderly
<1>7. QED BY <1>4, <1>5, <1>6 DEF SettingsIInv

LEMMA LoadKeepsInv ==
  ASSUME SettingsIInv, LoadRow
  PROVE  SettingsIInv'
<1>1. /\ startup = "started" /\ startup' = "serving"
      /\ UNCHANGED <<file, environ, hasKey, storedChoice, starts>>
  BY DEF LoadRow
<1>2. CASE UNCHANGED <<config, builds>>
  <2>1. Loaded' = Loaded /\ UNCHANGED <<config, ready, hasProvider, served, vectorLost>>
    BY <1>1, <1>2 DEF Loaded, builds
  <2>2. QED BY <1>1, <2>1 DEF SettingsIInv, SettingsTypeOK, SettingsAreLoaded, StartIsOrderly
<1>3. CASE storedChoice # "none" /\ ApplyChoice(storedChoice)
  BY <1>1, <1>3, ApplyKeepsInv DEF SettingsIInv, SettingsTypeOK
<1>4. QED BY <1>2, <1>3 DEF LoadRow

LEMMA SettingsInvStep == SettingsIInv /\ [SettingsNext]_settingsVars => SettingsIInv'
<1> SUFFICES ASSUME SettingsIInv, [SettingsNext]_settingsVars PROVE SettingsIInv'
  OBVIOUS
<1>1. CASE UNCHANGED settingsVars
  <2>1. /\ UNCHANGED <<file, environ, hasKey, config, startup, storedChoice, starts>>
        /\ UNCHANGED <<ready, hasProvider, served, vectorLost>>
    BY <1>1 DEF settingsVars, builds
  <2>2. Loaded' = Loaded
    BY <2>1 DEF Loaded
  <2>3. QED BY <2>1, <2>2 DEF SettingsIInv, SettingsTypeOK, SettingsAreLoaded, StartIsOrderly
<1>2. CASE StartDisabled \/ StartFails \/ StartBuilds
  BY <1>2, StartKeepsInv
<1>3. CASE LoadRow
  BY <1>3, LoadKeepsInv
<1>4. CASE UpdateRow
  <2>1. starts' \in 0..StartBound
    BY <1>4, SettingsAssumption DEF UpdateRow, SettingsIInv, SettingsTypeOK
  <2>2. QED BY <1>4, <2>1, ApplyKeepsInv DEF UpdateRow
<1>5. CASE Relaunch
  <2>1. starts' \in 0..StartBound
    BY <1>5, SettingsAssumption DEF Relaunch, SettingsIInv, SettingsTypeOK
  <2>2. FreshLaunch'
    BY <1>5, <2>1 DEF Relaunch, Launched, FreshLaunch, SettingsIInv, SettingsTypeOK
  <2>3. QED BY <2>2, LaunchFacts, PTL
<1>6. QED BY <1>1, <1>2, <1>3, <1>4, <1>5 DEF SettingsNext
-----------------------------------------------------------------------------
\* The copilot panel

\* Messages are numbered: the newest request is the one that can be aborted
NewestIsHeld ==
  /\ abortRef = sent /\ clearedAt <= sent
  /\ aborted \subseteq 1..sent
  /\ Open \subseteq 1..sent

\* Two requests are in flight only if one was sent while the other was
TwoMeansOvertaken == \A r, q \in Open : r # q => overtook

\* What was in flight when the list was cleared was aborted by it
ClearedIsAborted == \A r \in Open : r <= clearedAt => r \in aborted

ClientIInv == ClientInv /\ NewestIsHeld /\ TwoMeansOvertaken /\ ClearedIsAborted

LEMMA ClientInvInit == ClientInit => ClientIInv
<1> SUFFICES ASSUME ClientInit PROVE ClientIInv
  OBVIOUS
<1>1. ClientTypeOK
  <2>1. 0 \in 0..SendBound
    BY ClientAssumption
  <2>2. QED BY <2>1 DEF ClientInit, ClientTypeOK
<1>2. Open = {}
  BY DEF ClientInit, Open
<1>3. QED
  BY <1>1, <1>2 DEF ClientInit, ClientIInv, ClientInv, NewestIsHeld, TwoMeansOvertaken,
     ClearedIsAborted,
     OneLiveStream, SpinnerIsTrue, ClearedStaysCleared, LiveStreams

\* What sending a message does to the requests, and to which of them are open
LEMMA SendingKeepsInv ==
  ASSUME ClientIInv, NEW then \in BOOLEAN, sendMessage(then),
         UNCHANGED <<answers, confirmation, clearedAt>>,
         posted' \in [Sent -> {"no", "approving", "denying", "timer", "over"}],
         captured' \in [Sent -> BOOLEAN], toolCard' \in [Sent -> {"none", "idle",
           "action_pending"}]
  PROVE  ClientIInv'
<1> USE DEF ClientIInv, ClientInv
<1>1. CASE then
  <2>1. UNCHANGED <<requests, answers, confirmation, clearedAt>>
    BY <1>1 DEF sendMessage
  <2>2. Open' = Open /\ LiveStreams' = LiveStreams
    BY <2>1 DEF requests, Open, LiveStreams
  <2>3. ClientTypeOK'
    BY <2>1 DEF ClientTypeOK, requests
  <2>4. QED
    BY <2>1, <2>2, <2>3 DEF requests, NewestIsHeld, TwoMeansOvertaken, ClearedIsAborted,
       OneLiveStream,
       SpinnerIsTrue, ClearedStaysCleared
<1>2. CASE ~then
  <2>1. /\ sent < SendBound /\ sent' = sent + 1 /\ isStreaming' = TRUE
        /\ aborted' = aborted \union ({abortRef} \ {0}) /\ abortRef' = sent + 1
        /\ stream' = [stream EXCEPT ![sent + 1] = "asking"] /\ overtook' = (overtook \/ Open # {})
    BY <1>2 DEF sendMessage
  <2>2. /\ sent \in Nat /\ sent + 1 \in Sent /\ abortRef = sent /\ clearedAt \in Nat
        /\ clearedAt <= sent
        /\ Sent = 1..SendBound /\ SendBound \in Nat
        /\ stream \in [Sent -> {"none", "asking", "reading", "over"}]
    BY <2>1, ClientAssumption DEF ClientTypeOK, NewestIsHeld, Sent
  <2>3. Open' = Open \union {sent + 1}
    BY <2>1, <2>2 DEF Open
  <2>4. \A r \in Open : r \in Nat /\ r <= sent
    BY <2>2 DEF NewestIsHeld
  <2>5. aborted' \subseteq 1..sent /\ Open \subseteq aborted'
    BY <2>1, <2>2, <2>4 DEF NewestIsHeld, OneLiveStream, LiveStreams
  <2>6. LiveStreams' = {sent + 1}
    <3>1. sent + 1 \notin aborted'
      BY <2>2, <2>5
    <3>2. QED BY <2>3, <2>5, <3>1 DEF LiveStreams
  <2>7. ClientTypeOK'
    <3>1. aborted' \subseteq Sent
      BY <2>2, <2>5
    <3>2. overtook' \in BOOLEAN
      BY <2>1
    <3>3. stream' \in [Sent -> {"none", "asking", "reading", "over"}]
          /\ abortRef' \in 0..SendBound
          /\ sent' \in 0..SendBound
      BY <2>1, <2>2
    <3>4. QED BY <2>1, <3>1, <3>2, <3>3 DEF ClientTypeOK
  <2>8. NewestIsHeld'
    BY <2>1, <2>2, <2>3, <2>4, <2>5 DEF NewestIsHeld
  <2>9. TwoMeansOvertaken'
    BY <2>1, <2>3 DEF TwoMeansOvertaken
  <2>10. ClearedIsAborted'
    BY <2>1, <2>2, <2>3, <2>5 DEF ClearedIsAborted
  <2>11. QED
    BY <2>1, <2>6, <2>7, <2>8, <2>9, <2>10 DEF OneLiveStream, SpinnerIsTrue, ClearedStaysCleared
<1>3. QED BY <1>1, <1>2

\* One step of a message that is in flight
LEMMA EventKeepsInv ==
  ASSUME ClientIInv, NEW r \in Sent, ResponseOpens(r) \/ processSSEEvent(r) \/ Ends(r)
  PROVE  ClientIInv'
<1> USE DEF ClientIInv, ClientInv
<1>1. stream \in [Sent -> {"none", "asking", "reading", "over"}]
  BY DEF ClientTypeOK
<1>2. CASE ResponseOpens(r)
  <2>1. Open' = Open
    BY <1>1, <1>2 DEF ResponseOpens, Open
  <2>2. LiveStreams' = LiveStreams
    BY <1>2, <2>1 DEF ResponseOpens, LiveStreams
  <2>3. ClientTypeOK'
    BY <1>2 DEF ResponseOpens, ClientTypeOK, cards
  <2>4. QED
    BY <1>2, <2>1, <2>2, <2>3 DEF ResponseOpens, NewestIsHeld, TwoMeansOvertaken,
       ClearedIsAborted,
       OneLiveStream, SpinnerIsTrue, ClearedStaysCleared, cards
<1>3. CASE processSSEEvent(r)
  <2>1. Open' = Open /\ LiveStreams' = LiveStreams /\ r \in Open /\ r \notin aborted
    BY <1>3 DEF processSSEEvent, requests, Open, LiveStreams
  <2>2. ClientTypeOK'
    BY <1>3 DEF processSSEEvent, ClientTypeOK, requests, cards
  <2>3. \A q \in 1..clearedAt : q # r
    BY <2>1 DEF ClearedIsAborted
  <2>4. \A q \in 1..clearedAt : q \in Sent
    BY ClientAssumption DEF ClientTypeOK, Sent
  <2>5. ClearedStaysCleared'
    BY <1>3, <2>3, <2>4 DEF processSSEEvent, ClearedStaysCleared, ClientTypeOK, cards
  <2>6. QED
    BY <1>3, <2>1, <2>2, <2>5 DEF processSSEEvent, requests, NewestIsHeld, TwoMeansOvertaken,
       ClearedIsAborted,
       OneLiveStream, SpinnerIsTrue
<1>4. CASE Ends(r)
  <2>1. Open' = Open \ {r}
    BY <1>1, <1>4 DEF Ends, Open
  <2>2. LiveStreams' = LiveStreams \ {r}
    BY <1>4, <2>1 DEF Ends, LiveStreams
  <2>3. ClientTypeOK'
    BY <1>4 DEF Ends, ClientTypeOK, cards
  <2>4. SpinnerIsTrue'
    BY <1>4, <2>2 DEF Ends, SpinnerIsTrue, TwoMeansOvertaken, LiveStreams
  <2>5. QED
    BY <1>4, <2>1, <2>2, <2>3, <2>4 DEF Ends, NewestIsHeld, TwoMeansOvertaken, ClearedIsAborted,
       OneLiveStream, ClearedStaysCleared, cards
<1>5. QED BY <1>2, <1>3, <1>4

LEMMA ClearingKeepsInv == ClientIInv /\ clearMessages => ClientIInv'
<1> SUFFICES ASSUME ClientIInv, clearMessages PROVE ClientIInv'
  OBVIOUS
<1> USE DEF ClientIInv, ClientInv
<1>1. Open' = Open
  BY DEF clearMessages, Open
<1>2. /\ sent \in Nat /\ abortRef = sent /\ sent <= SendBound /\ SendBound \in Nat
      /\ \A r \in Open : r \in 1..sent
      /\ \A q \in 1..sent : q \in Sent
  BY ClientAssumption DEF ClientTypeOK, NewestIsHeld, Sent
<1>3. Open \subseteq aborted' /\ aborted' \subseteq 1..sent
  <2>1. aborted' = aborted \union ({abortRef} \ {0}) /\ aborted \subseteq 1..sent
    BY DEF clearMessages, NewestIsHeld
  <2>2. \A r \in Open : r # 0 /\ (r \in aborted \/ r = abortRef)
    BY <1>2 DEF OneLiveStream, LiveStreams
  <2>3. QED BY <1>2, <2>1, <2>2
<1>4. LiveStreams' = {}
  BY <1>1, <1>3 DEF LiveStreams
<1>5. ClientTypeOK'
  <2>1. aborted' \subseteq Sent
    BY <1>2, <1>3
  <2>2. QED BY <2>1 DEF clearMessages, ClientTypeOK
<1>6. ClearedStaysCleared'
  BY <1>2 DEF clearMessages, ClearedStaysCleared
<1>7. QED
  BY <1>1, <1>2, <1>3, <1>4, <1>5, <1>6 DEF clearMessages, NewestIsHeld, TwoMeansOvertaken,
     ClearedIsAborted,
     OneLiveStream, SpinnerIsTrue

LEMMA ConfirmingKeepsInv ==
  ASSUME ClientIInv, NEW r \in Sent,
         (\E approved \in BOOLEAN : confirmAction(r, approved)) \/ ConfirmAnswered(r)
  PROVE  ClientIInv'
<1> USE DEF ClientIInv, ClientInv
<1>1. UNCHANGED <<requests, answers, clearedAt>>
  BY DEF confirmAction, ConfirmAnswered
<1>2. Open' = Open /\ LiveStreams' = LiveStreams
  BY <1>1 DEF requests, Open, LiveStreams
<1>3. ClientTypeOK'
  <2>1. CASE ConfirmAnswered(r)
    BY <1>1, <2>1 DEF ConfirmAnswered, ClientTypeOK, requests
  <2>2. CASE \E approved \in BOOLEAN : confirmAction(r, approved)
    BY <1>1, <2>2 DEF confirmAction, ClientTypeOK, requests
  <2>3. QED BY <2>1, <2>2
<1>4. ClearedStaysCleared'
  <2>1. \A q \in 1..clearedAt : q \in Sent /\ confirmation[q] = "none"
    BY ClientAssumption DEF ClientTypeOK, Sent, ClearedStaysCleared
  <2>2. \/ confirmation' = confirmation
        \/ /\ confirmation[r] = "pending"
           /\ \E c : confirmation' = [confirmation EXCEPT ![r] = c]
    BY DEF confirmAction, ConfirmAnswered
  <2>3. \A q \in 1..clearedAt : confirmation'[q] = "none"
    BY <2>1, <2>2 DEF ClientTypeOK
  <2>4. QED BY <1>1, <2>3 DEF ClearedStaysCleared
<1>5. QED
  BY <1>1, <1>2, <1>3, <1>4 DEF requests, NewestIsHeld, TwoMeansOvertaken, ClearedIsAborted,
     OneLiveStream,
     SpinnerIsTrue

LEMMA ClientInvStep == ClientIInv /\ [ClientNext]_clientVars => ClientIInv'
<1> SUFFICES ASSUME ClientIInv, [ClientNext]_clientVars PROVE ClientIInv'
  OBVIOUS
<1>1. ClientTypeOK
  BY DEF ClientIInv, ClientInv
<1>2. CASE TypeAndSend
  BY <1>1, <1>2, SendingKeepsInv DEF TypeAndSend, ClientTypeOK, cards
<1>3. CASE clearMessages
  BY <1>3, ClearingKeepsInv
<1>4. ASSUME NEW r \in Sent, FollowUp(r) PROVE ClientIInv'
  BY <1>1, <1>4, SendingKeepsInv DEF FollowUp, ClientTypeOK
<1>5. ASSUME NEW r \in Sent, sendActionPrompt(r) PROVE ClientIInv'
  BY <1>1, <1>5, SendingKeepsInv DEF sendActionPrompt, ClientTypeOK
<1>6. CASE UNCHANGED clientVars
  BY <1>6 DEF ClientIInv, ClientInv, ClientTypeOK, NewestIsHeld, TwoMeansOvertaken,
     ClearedIsAborted, OneLiveStream,
     SpinnerIsTrue, ClearedStaysCleared, clientVars, requests, cards, Open, LiveStreams
<1>7. QED
  BY <1>2, <1>3, <1>4, <1>5, <1>6, EventKeepsInv, ConfirmingKeepsInv DEF ClientNext

LEMMA ClientInvImplies == ClientIInv => ClientInv
BY DEF ClientIInv
-----------------------------------------------------------------------------
\* The cache of the browser

Opens(name, key) ==
  /\ Len(name) \in Nat /\ Len(key) \in Nat /\ Len(name) <= Len(key)
  /\ \A i \in 1..Len(name) : name[i] = key[i]

LEMMA OpensIsPrefix == ASSUME NEW name, NEW key, Opens(name, key) PROVE IsPrefix(name, key)
<1>1. SubSeq(name, 1, Len(name)) = SubSeq(key, 1, Len(name))
  BY DEF Opens
<1>2. QED BY <1>1 DEF IsPrefix, Opens

\* A change of what a query shows, not overlooked, names its key or sets it
OverlookedPairs == {<<"useUpdatePipeline", "pipelines">>, <<"changeOwnMembership", "teams">>,
                    <<"useDeleteHealingRule", "events">>}
Covered(queries, mutations) ==
  \A m \in DOMAIN mutations, q \in DOMAIN queries :
    q \in mutations[m].touches =>
      \/ q \in mutations[m].sets
      \/ \E name \in mutations[m].names : Opens(name, queries[q].key)
      \/ queries[q].polled
      \/ <<m, q>> \in OverlookedPairs

LEMMA PipelinesCovered == Covered(pipelineQueries, pipelineMutations)
<1>1. DOMAIN pipelineQueries = {"pipelines", "pipeline", "testRuns"}
  BY DEF pipelineQueries
<1>2. DOMAIN pipelineMutations = {"useCreatePipeline", "useUpdatePipeline", "useStartPipeline",
      "useDeletePipeline"}
  BY DEF pipelineMutations
<1>3. ASSUME NEW m \in DOMAIN pipelineMutations, NEW q \in DOMAIN pipelineQueries,
      q \in pipelineMutations[m].touches
      PROVE  \/ q \in pipelineMutations[m].sets
             \/ \E name \in pipelineMutations[m].names : Opens(name, pipelineQueries[q].key)
             \/ pipelineQueries[q].polled
             \/ <<m, q>> \in OverlookedPairs
  <2>1. /\ Opens(<<"pipelines">>, <<"pipelines">>)
        /\ Opens(<<"pipeline", "id">>, <<"pipeline", "id">>)
        /\ Opens(<<"pipeline", "id", "test-runs">>, <<"pipeline", "id", "test-runs">>)
        /\ Opens(<<"pipeline", "id">>, <<"pipeline", "id", "test-runs">>)
    BY DEF Opens
  <2>2. /\ pipelineQueries.pipelines.key = <<"pipelines">>
        /\ pipelineQueries.pipeline.key = <<"pipeline", "id">>
        /\ pipelineQueries.testRuns.key = <<"pipeline", "id", "test-runs">>
    BY DEF pipelineQueries, Query, Polled
  <2>3. CASE m = "useCreatePipeline"
    BY <1>1, <1>3, <2>1, <2>2, <2>3 DEF pipelineMutations, pipelineQueries, Mutation, Query,
       Polled, OverlookedPairs
  <2>4. CASE m = "useUpdatePipeline"
    BY <1>1, <1>3, <2>1, <2>2, <2>4 DEF pipelineMutations, pipelineQueries, Mutation, Query,
       Polled, OverlookedPairs
  <2>5. CASE m = "useStartPipeline"
    BY <1>1, <1>3, <2>1, <2>2, <2>5 DEF pipelineMutations, pipelineQueries, Mutation, Query,
       Polled, OverlookedPairs
  <2>6. CASE m = "useDeletePipeline"
    BY <1>1, <1>3, <2>1, <2>2, <2>6 DEF pipelineMutations, pipelineQueries, Mutation, Query,
       Polled, OverlookedPairs
  <2>7. QED BY <1>2, <2>3, <2>4, <2>5, <2>6
<1>4. QED BY <1>3 DEF Covered

LEMMA TeamsCovered == Covered(teamQueries, teamMutations)
<1>1. DOMAIN teamQueries = {"teams", "team"}
  BY DEF teamQueries
<1>2. DOMAIN teamMutations = {"useCreateTeam", "useAddTeamMember", "useRemoveTeamMember",
      "useUpdateTeamMemberRole", "changeOwnMembership"}
  BY DEF teamMutations
<1>3. ASSUME NEW m \in DOMAIN teamMutations, NEW q \in DOMAIN teamQueries,
      q \in teamMutations[m].touches
      PROVE  \/ q \in teamMutations[m].sets
             \/ \E name \in teamMutations[m].names : Opens(name, teamQueries[q].key)
             \/ teamQueries[q].polled
             \/ <<m, q>> \in OverlookedPairs
  BY <1>1, <1>2, <1>3 DEF teamQueries, teamMutations, Mutation, Query, Polled, Opens,
     OverlookedPairs
<1>4. QED BY <1>3 DEF Covered

LEMMA NotificationsCovered == Covered(notificationQueries, notificationMutations)
<1>1. DOMAIN notificationQueries = {"unread", "list", "undelivered"}
  BY DEF notificationQueries
<1>2. DOMAIN notificationMutations = {"useMarkNotificationAsRead",
      "useMarkAllNotificationsAsRead", "useMarkNotificationAsDelivered", "useDeleteNotification",
      "useClearAllNotifications"}
  BY DEF notificationMutations
<1>3. ASSUME NEW m \in DOMAIN notificationMutations, NEW q \in DOMAIN notificationQueries,
      q \in notificationMutations[m].touches
      PROVE  \/ q \in notificationMutations[m].sets
             \/ \E name \in notificationMutations[m].names : Opens(name,
                notificationQueries[q].key)
             \/ notificationQueries[q].polled
             \/ <<m, q>> \in OverlookedPairs
  <2>1. /\ Opens(<<"notifications">>, <<"notifications", "unread">>)
        /\ Opens(<<"notifications">>, <<"notifications", "false">>)
        /\ Opens(<<"notifications">>, <<"notifications", "true">>)
    BY DEF Opens
  <2>2. /\ notificationQueries.unread.key = <<"notifications", "unread">>
        /\ notificationQueries.list.key = <<"notifications", "false">>
        /\ notificationQueries.undelivered.key = <<"notifications", "true">>
    BY DEF notificationQueries, Query, Polled
  <2>3. CASE m = "useMarkNotificationAsRead"
    BY <1>1, <1>3, <2>1, <2>2, <2>3 DEF notificationMutations, notificationQueries, Mutation,
       Query, Polled, OverlookedPairs, OfNotifications
  <2>4. CASE m = "useMarkAllNotificationsAsRead"
    BY <1>1, <1>3, <2>1, <2>2, <2>4 DEF notificationMutations, notificationQueries, Mutation,
       Query, Polled, OverlookedPairs, OfNotifications
  <2>5. CASE m = "useMarkNotificationAsDelivered"
    BY <1>1, <1>3, <2>1, <2>2, <2>5 DEF notificationMutations, notificationQueries, Mutation,
       Query, Polled, OverlookedPairs, OfNotifications
  <2>6. CASE m = "useDeleteNotification"
    BY <1>1, <1>3, <2>1, <2>2, <2>6 DEF notificationMutations, notificationQueries, Mutation,
       Query, Polled, OverlookedPairs, OfNotifications
  <2>7. CASE m = "useClearAllNotifications"
    BY <1>1, <1>3, <2>1, <2>2, <2>7 DEF notificationMutations, notificationQueries, Mutation,
       Query, Polled, OverlookedPairs, OfNotifications
  <2>8. QED BY <1>2, <2>3, <2>4, <2>5, <2>6, <2>7
<1>4. QED BY <1>3 DEF Covered

LEMMA HealingCovered == Covered(healingQueries, healingMutations)
<1>1. DOMAIN healingQueries = {"rules", "events", "stats"}
  BY DEF healingQueries
<1>2. DOMAIN healingMutations = {"useCreateHealingRule", "useToggleHealingRule",
      "useDeleteHealingRule", "useSeedHealingRules"}
  BY DEF healingMutations
<1>3. ASSUME NEW m \in DOMAIN healingMutations, NEW q \in DOMAIN healingQueries,
      q \in healingMutations[m].touches
      PROVE  \/ q \in healingMutations[m].sets
             \/ \E name \in healingMutations[m].names : Opens(name, healingQueries[q].key)
             \/ healingQueries[q].polled
             \/ <<m, q>> \in OverlookedPairs
  <2>1. /\ Opens(<<"healing-rules">>, <<"healing-rules">>)
    BY DEF Opens
  <2>2. /\ healingQueries.rules.key = <<"healing-rules">>
        /\ healingQueries.events.key = <<"healing-events", "limit 20">>
        /\ healingQueries.stats.key = <<"healing-stats">>
    BY DEF healingQueries, Query, Polled
  <2>3. q = "stats" => healingQueries[q].polled
    BY DEF healingQueries, Polled
  <2>4. q = "rules" => \E name \in healingMutations[m].names : Opens(name, healingQueries[q].key)
    <3>1. healingMutations[m].names = {<<"healing-rules">>}
      BY <1>2 DEF healingMutations, Mutation
    <3>2. QED BY <2>1, <2>2, <3>1
  <2>5. q = "events" => m = "useDeleteHealingRule"
    BY <1>2, <1>3 DEF healingMutations, Mutation
  <2>6. q \in {"rules", "events", "stats"}
    BY <1>1
  <2>7. QED BY <2>3, <2>4, <2>5, <2>6 DEF OverlookedPairs
<1>4. QED BY <1>3 DEF Covered

LEMMA QuarantineCovered == Covered(quarantineQueries, quarantineMutations)
<1>1. DOMAIN quarantineQueries = {"quarantine", "fixes"}
  BY DEF quarantineQueries
<1>2. DOMAIN quarantineMutations = {"useReinstateTest", "useDeleteQuarantinedTest"}
  BY DEF quarantineMutations
<1>3. ASSUME NEW m \in DOMAIN quarantineMutations, NEW q \in DOMAIN quarantineQueries,
      q \in quarantineMutations[m].touches
      PROVE  \/ q \in quarantineMutations[m].sets
             \/ \E name \in quarantineMutations[m].names : Opens(name, quarantineQueries[q].key)
             \/ quarantineQueries[q].polled
             \/ <<m, q>> \in OverlookedPairs
  BY <1>1, <1>2, <1>3 DEF quarantineQueries, quarantineMutations, Mutation, Query, Polled, Opens,
     OverlookedPairs
<1>4. QED BY <1>3 DEF Covered

LEMMA SelectionCovered == Covered(selectionQueries, selectionMutations)
<1>1. DOMAIN selectionQueries = {"accuracy", "regressions", "recall"}
  BY DEF selectionQueries
<1>2. DOMAIN selectionMutations = {"useConfirmRegression", "useMarkFalsePositive"}
  BY DEF selectionMutations
<1>3. ASSUME NEW m \in DOMAIN selectionMutations, NEW q \in DOMAIN selectionQueries,
      q \in selectionMutations[m].touches
      PROVE  \/ q \in selectionMutations[m].sets
             \/ \E name \in selectionMutations[m].names : Opens(name, selectionQueries[q].key)
             \/ selectionQueries[q].polled
             \/ <<m, q>> \in OverlookedPairs
  <2>1. /\ Opens(<<"smart-selection", "regressions">>, <<"smart-selection", "regressions", "30">>)
    BY DEF Opens
  <2>2. /\ selectionQueries.accuracy.key = <<"smart-selection", "accuracy", "30">>
        /\ selectionQueries.regressions.key = <<"smart-selection", "regressions", "30">>
        /\ selectionQueries.recall.key = <<"smart-selection", "recall-health">>
    BY DEF selectionQueries, Query, Polled
  <2>3. CASE m = "useConfirmRegression"
    BY <1>1, <1>3, <2>1, <2>2, <2>3 DEF selectionMutations, selectionQueries, Mutation, Query,
       Polled, OverlookedPairs
  <2>4. CASE m = "useMarkFalsePositive"
    BY <1>1, <1>3, <2>1, <2>2, <2>4 DEF selectionMutations, selectionQueries, Mutation, Query,
       Polled, OverlookedPairs
  <2>5. QED BY <1>2, <2>3, <2>4
<1>4. QED BY <1>3 DEF Covered

LEMMA SettingsCovered == Covered(settingsQueries, settingsMutations)
<1>1. DOMAIN settingsQueries = {"settings"}
  BY DEF settingsQueries
<1>2. DOMAIN settingsMutations = {"useUpdateSettings"}
  BY DEF settingsMutations
<1>3. ASSUME NEW m \in DOMAIN settingsMutations, NEW q \in DOMAIN settingsQueries,
      q \in settingsMutations[m].touches
      PROVE  \/ q \in settingsMutations[m].sets
             \/ \E name \in settingsMutations[m].names : Opens(name, settingsQueries[q].key)
             \/ settingsQueries[q].polled
             \/ <<m, q>> \in OverlookedPairs
  BY <1>1, <1>2, <1>3 DEF settingsQueries, settingsMutations, Mutation, Query, Polled, Opens,
     OverlookedPairs
<1>4. QED BY <1>3 DEF Covered

LEMMA XrayCovered == Covered(xrayQueries, xrayMutations)
<1>1. DOMAIN xrayQueries = {"syncs", "config"}
  BY DEF xrayQueries
<1>2. DOMAIN xrayMutations = {"useXraySyncTestRun", "useUpdateXrayConfig"}
  BY DEF xrayMutations
<1>3. ASSUME NEW m \in DOMAIN xrayMutations, NEW q \in DOMAIN xrayQueries,
      q \in xrayMutations[m].touches
      PROVE  \/ q \in xrayMutations[m].sets
             \/ \E name \in xrayMutations[m].names : Opens(name, xrayQueries[q].key)
             \/ xrayQueries[q].polled
             \/ <<m, q>> \in OverlookedPairs
  <2>1. /\ Opens(<<"xray", "syncs">>, <<"xray", "syncs">>)
        /\ Opens(<<"xray", "config">>, <<"xray", "config">>)
    BY DEF Opens
  <2>2. /\ xrayQueries.syncs.key = <<"xray", "syncs">>
        /\ xrayQueries.config.key = <<"xray", "config">>
    BY DEF xrayQueries, Query, Polled
  <2>3. CASE m = "useXraySyncTestRun"
    BY <1>1, <1>3, <2>1, <2>2, <2>3 DEF xrayMutations, xrayQueries, Mutation, Query, Polled,
       OverlookedPairs
  <2>4. CASE m = "useUpdateXrayConfig"
    BY <1>1, <1>3, <2>1, <2>2, <2>4 DEF xrayMutations, xrayQueries, Mutation, Query, Polled,
       OverlookedPairs
  <2>5. QED BY <1>2, <2>3, <2>4
<1>4. QED BY <1>3 DEF Covered

LEMMA FailuresCovered == Covered(failureQueries, failureMutations)
<1>1. DOMAIN failureQueries = {"search", "comments"}
  BY DEF failureQueries
<1>2. DOMAIN failureMutations = {"useAddFailureComment", "useDeleteFailureComment"}
  BY DEF failureMutations
<1>3. ASSUME NEW m \in DOMAIN failureMutations, NEW q \in DOMAIN failureQueries,
      q \in failureMutations[m].touches
      PROVE  \/ q \in failureMutations[m].sets
             \/ \E name \in failureMutations[m].names : Opens(name, failureQueries[q].key)
             \/ failureQueries[q].polled
             \/ <<m, q>> \in OverlookedPairs
  <2>1. /\ Opens(<<"failure-archive", "id", "comments">>, <<"failure-archive", "id", "comments">>)
    BY DEF Opens
  <2>2. /\ failureQueries.search.key = <<"failure-archive", "search", "limit 50">>
        /\ failureQueries.comments.key = <<"failure-archive", "id", "comments">>
    BY DEF failureQueries, Query, Polled
  <2>3. CASE m = "useAddFailureComment"
    BY <1>1, <1>3, <2>1, <2>2, <2>3 DEF failureMutations, failureQueries, Mutation, Query,
       Polled, OverlookedPairs
  <2>4. CASE m = "useDeleteFailureComment"
    BY <1>1, <1>3, <2>1, <2>2, <2>4 DEF failureMutations, failureQueries, Mutation, Query,
       Polled, OverlookedPairs
  <2>5. QED BY <1>2, <2>3, <2>4
<1>4. QED BY <1>3 DEF Covered

LEMMA PromptsCovered == Covered(promptQueries, promptMutations)
<1>1. DOMAIN promptQueries = {"prompts", "catalog"}
  BY DEF promptQueries
<1>2. DOMAIN promptMutations = {"useSavePinnedPrompts", "useResetPinnedPrompts"}
  BY DEF promptMutations
<1>3. ASSUME NEW m \in DOMAIN promptMutations, NEW q \in DOMAIN promptQueries,
      q \in promptMutations[m].touches
      PROVE  \/ q \in promptMutations[m].sets
             \/ \E name \in promptMutations[m].names : Opens(name, promptQueries[q].key)
             \/ promptQueries[q].polled
             \/ <<m, q>> \in OverlookedPairs
  BY <1>1, <1>2, <1>3 DEF promptQueries, promptMutations, Mutation, Query, Polled, Opens,
     OverlookedPairs
<1>4. QED BY <1>3 DEF Covered

LEMMA ProviderCovered == Covered(providerQueries, providerMutations)
<1>1. DOMAIN providerQueries = {"my"}
  BY DEF providerQueries
<1>2. DOMAIN providerMutations = {"useSaveMyProviderConfig", "useDeleteMyProviderConfig"}
  BY DEF providerMutations
<1>3. ASSUME NEW m \in DOMAIN providerMutations, NEW q \in DOMAIN providerQueries,
      q \in providerMutations[m].touches
      PROVE  \/ q \in providerMutations[m].sets
             \/ \E name \in providerMutations[m].names : Opens(name, providerQueries[q].key)
             \/ providerQueries[q].polled
             \/ <<m, q>> \in OverlookedPairs
  BY <1>1, <1>2, <1>3 DEF providerQueries, providerMutations, Mutation, Query, Polled, Opens,
     OverlookedPairs
<1>4. QED BY <1>3 DEF Covered

LEMMA AutonomyCovered == Covered(autonomyHooks.queries, autonomyHooks.mutations)
<1>1. /\ autonomyHooks.queries = [autonomy |-> Query(<<"autonomy-preference">>)]
      /\ autonomyHooks.mutations = [useUpdateAutonomy |-> Mutation({"autonomy"},
         {<<"autonomy-preference">>})]
  BY DEF autonomyHooks, Area
<1>2. Opens(<<"autonomy-preference">>, <<"autonomy-preference">>)
  BY DEF Opens
<1>3. QED BY <1>1, <1>2 DEF Covered, Mutation, Query

\* Two sets of hooks of one page, about different queries
BothOf(f, g) == [x \in DOMAIN f \union DOMAIN g |-> IF x \in DOMAIN f THEN f[x] ELSE g[x]]

LEMMA MergedCovered ==
  ASSUME NEW q1, NEW q2, NEW m1, NEW m2, Covered(q1, m1), Covered(q2, m2),
         DOMAIN q1 \cap DOMAIN q2 = {},
         \A m \in DOMAIN m1 : m1[m].touches \subseteq DOMAIN q1,
         \A m \in DOMAIN m2 : m2[m].touches \subseteq DOMAIN q2
  PROVE  Covered(BothOf(q1, q2), BothOf(m1, m2))
<1> DEFINE queries == [q \in DOMAIN q1 \union DOMAIN q2 |-> IF q \in DOMAIN q1 THEN q1[q] ELSE q2[q]]
           mutations == [m \in DOMAIN m1 \union DOMAIN m2 |-> IF m \in DOMAIN m1 THEN m1[m] ELSE m2[m]]
<1>1. ASSUME NEW m \in DOMAIN m1 \union DOMAIN m2, NEW q \in DOMAIN q1 \union DOMAIN q2,
             q \in mutations[m].touches
      PROVE  \/ q \in mutations[m].sets
             \/ \E name \in mutations[m].names : Opens(name, queries[q].key)
             \/ queries[q].polled
             \/ <<m, q>> \in OverlookedPairs
  <2>1. CASE m \in DOMAIN m1
    <3>1. mutations[m] = m1[m] /\ q \in DOMAIN q1
      BY <1>1, <2>1
    <3>2. queries[q] = q1[q]
      BY <3>1
    <3> HIDE DEF queries, mutations
    <3>3. QED BY <1>1, <2>1, <3>1, <3>2 DEF Covered
  <2>2. CASE m \notin DOMAIN m1
    <3>1. mutations[m] = m2[m] /\ m \in DOMAIN m2 /\ q \in DOMAIN q2 /\ q \notin DOMAIN q1
      BY <1>1, <2>2
    <3>2. queries[q] = q2[q]
      BY <3>1
    <3> HIDE DEF queries, mutations
    <3>3. QED BY <1>1, <2>2, <3>1, <3>2 DEF Covered
  <2>3. QED BY <2>1, <2>2
<1>2. DOMAIN queries = DOMAIN q1 \union DOMAIN q2 /\ DOMAIN mutations = DOMAIN m1 \union DOMAIN m2
  OBVIOUS
<1> HIDE DEF queries, mutations
<1>3. Covered(queries, mutations)
  BY <1>1, <1>2 DEF Covered
<1>4. QED BY <1>3 DEF queries, mutations, BothOf

LEMMA AreasCovered == ASSUME NEW a \in Areas PROVE Covered(a.queries, a.mutations)
<1>1. \A q, m, p : Area(q, m, p).queries = q /\ Area(q, m, p).mutations = m
  BY DEF Area
<1>2. Covered(BothOf(healingQueries, quarantineQueries), BothOf(healingMutations,
      quarantineMutations))
  <2>1. /\ DOMAIN healingQueries = {"rules", "events", "stats"}
        /\ DOMAIN quarantineQueries = {"quarantine", "fixes"}
    BY DEF healingQueries, quarantineQueries
  <2>2. \A m \in DOMAIN healingMutations : healingMutations[m].touches \subseteq DOMAIN healingQueries
    BY <2>1 DEF healingMutations, Mutation
  <2>3. \A m \in DOMAIN quarantineMutations :
          quarantineMutations[m].touches \subseteq DOMAIN quarantineQueries
    BY <2>1 DEF quarantineMutations, Mutation
  <2>4. DOMAIN healingQueries \cap DOMAIN quarantineQueries = {}
    BY <2>1
  <2>5. QED BY <2>2, <2>3, <2>4, HealingCovered, QuarantineCovered, MergedCovered
<1>3. QED
  BY <1>1, <1>2, PipelinesCovered, TeamsCovered, NotificationsCovered, SelectionCovered,
     SettingsCovered, XrayCovered,
     FailuresCovered, PromptsCovered, ProviderCovered, AutonomyCovered DEF Areas, BothOf

LEMMA ChangesAreNamed ==
  ASSUME area \in Areas, query \in DOMAIN area.queries, NEW m \in DOMAIN area.mutations,
         Touches(m), ~Overlooked(m), query \notin area.mutations[m].sets
  PROVE  Named(m)
<1>1. PICK name \in area.mutations[m].names : Opens(name, area.queries[query].key)
  BY AreasCovered DEF Covered, Touches, Overlooked, OverlookedPairs
<1>2. QED BY <1>1, OpensIsPrefix DEF Named

CacheTypes ==
  /\ area \in Areas /\ query \in DOMAIN area.queries /\ shownPage \in area.pages
  /\ server \in Versions /\ owed \in Versions
  /\ cache \in [known : BOOLEAN, data : Versions, fresh : BOOLEAN]
  /\ \/ fetching = Idle \/ fetching = Requested
     \/ \E v \in Versions : fetching = OnItsWay(v) /\ v <= server
  /\ mutation = NoMutation \/ \E m \in DOMAIN area.mutations : \E where \in {"sent", "applied"} :
                               mutation = [is |-> m, stage |-> where]
  /\ late \in BOOLEAN /\ upsets \in 0..UpsetBound

\* Nothing is ahead of the server
ServerIsAhead == cache.data <= server /\ owed <= server

\* What is on its way has the last change, or is known to be late
ComingIsRecent == (fetching.stage = "coming" /\ ~late) => fetching.data >= owed

\* A page that comes to show the query asks for it unless it is fresh: then it has the change
FreshIsRecent ==
  (fetching = Idle /\ cache.known /\ ~late /\ (Shown \/ cache.fresh)) => cache.data >= owed

CacheIInv == CacheTypes /\ ServerIsAhead /\ ComingIsRecent /\ FreshIsRecent

LEMMA Stages ==
  /\ Idle.stage = "idle" /\ Requested.stage = "asked" /\ Idle # Requested
  /\ \A v : /\ OnItsWay(v).stage = "coming" /\ OnItsWay(v).data = v
            /\ OnItsWay(v) # Idle /\ OnItsWay(v) # Requested
BY DEF Idle, Requested, OnItsWay

LEMMA CacheInvInit == CacheInit => CacheIInv
<1> SUFFICES ASSUME CacheInit PROVE CacheIInv
  OBVIOUS
<1>1. 0 \in Versions /\ 0 \in 0..UpsetBound
  BY CacheAssumption DEF Versions
<1>2. cache \in [known : BOOLEAN, data : Versions, fresh : BOOLEAN] /\ cache.known = FALSE
      /\ cache.data = 0
  BY <1>1 DEF CacheInit
<1>3. fetching = Idle \/ fetching = Requested
  BY DEF CacheInit
<1>4. CacheTypes
  BY <1>1, <1>2, <1>3 DEF CacheInit, CacheTypes
<1>5. QED
  BY <1>2, <1>3, <1>4, Stages DEF CacheInit, CacheIInv, ServerIsAhead, ComingIsRecent,
     FreshIsRecent

LEMMA CacheInvStep == CacheIInv /\ [CacheNext]_cacheVars => CacheIInv'
<1> SUFFICES ASSUME CacheIInv, [CacheNext]_cacheVars PROVE CacheIInv'
  OBVIOUS
<1> USE Stages
<1>1. /\ CacheTypes /\ ServerIsAhead /\ ComingIsRecent /\ FreshIsRecent
      /\ server \in Nat /\ owed \in Nat /\ cache.data \in Nat /\ Versions \subseteq Nat
  BY CacheAssumption DEF CacheIInv, CacheTypes, Versions
<1>2. ASSUME NEW to \in area.pages, Navigate(to) PROVE CacheIInv'
  <2>1. CacheTypes'
    BY <1>1, <1>2 DEF Navigate, CacheTypes
  <2>2. FreshIsRecent'
    BY <1>1, <1>2 DEF Navigate, FreshIsRecent, Shown, CacheTypes
  <2>3. QED BY <1>1, <1>2, <2>1, <2>2 DEF Navigate, CacheIInv, ServerIsAhead, ComingIsRecent
<1>3. CASE ServerReads
  <2>1. CacheTypes'
    <3>1. \E v \in Versions : fetching' = OnItsWay(v) /\ v <= server'
      BY <1>1, <1>3 DEF ServerReads, CacheTypes
    <3>2. QED BY <1>1, <1>3, <3>1 DEF ServerReads, CacheTypes
  <2>2. QED BY <1>1, <1>3, <2>1 DEF ServerReads, CacheIInv, ServerIsAhead, ComingIsRecent,
        FreshIsRecent
<1>4. CASE FetchArrives
  <2>1. PICK v \in Versions : fetching = OnItsWay(v) /\ v <= server
    BY <1>1, <1>4 DEF FetchArrives, CacheTypes
  <2>2. cache' = [known |-> TRUE, data |-> v, fresh |-> TRUE]
    BY <1>4, <2>1 DEF FetchArrives
  <2>3. CacheTypes'
    BY <1>1, <1>4, <2>2 DEF FetchArrives, CacheTypes
  <2>4. QED
    BY <1>1, <1>4, <2>1, <2>2, <2>3 DEF FetchArrives, CacheIInv, ServerIsAhead, ComingIsRecent,
       FreshIsRecent
<1>5. CASE FetchFails
  <2>1. CacheTypes'
    BY <1>1, <1>5, CacheAssumption DEF FetchFails, CacheTypes
  <2>2. QED BY <1>1, <1>5, <2>1 DEF FetchFails, CacheIInv, ServerIsAhead, ComingIsRecent,
        FreshIsRecent
<1>6. CASE GoStale
  <2>1. /\ cache' \in [known : BOOLEAN, data : Versions, fresh : BOOLEAN]
        /\ cache'.known = cache.known /\ cache'.data = cache.data /\ cache'.fresh = FALSE
    BY <1>1, <1>6 DEF GoStale, CacheTypes
  <2>2. CacheTypes'
    BY <1>1, <1>6, <2>1 DEF GoStale, CacheTypes
  <2>3. QED
    BY <1>1, <1>6, <2>1, <2>2 DEF GoStale, CacheIInv, ServerIsAhead, ComingIsRecent,
       FreshIsRecent, Shown
<1>7. CASE Poll
  <2>1. CacheTypes'
    BY <1>1, <1>7 DEF Poll, CacheTypes
  <2>2. QED BY <1>1, <1>7, <2>1 DEF Poll, CacheIInv, ServerIsAhead, ComingIsRecent, FreshIsRecent
<1>8. ASSUME NEW m \in DOMAIN area.mutations, Mutate(m) PROVE CacheIInv'
  <2>1. CacheTypes'
    BY <1>1, <1>8 DEF Mutate, CacheTypes
  <2>2. QED BY <1>1, <1>8, <2>1 DEF Mutate, CacheIInv, ServerIsAhead, ComingIsRecent,
        FreshIsRecent, Shown
<1>9. CASE MutationApplied
  <2>1. server' \in Nat /\ server' >= server /\ server' \in Versions
    BY <1>1, <1>9, CacheAssumption DEF MutationApplied, Versions
  <2>2. \E m \in DOMAIN area.mutations : mutation' = [is |-> m, stage |-> "applied"]
    BY <1>1, <1>9 DEF MutationApplied, CacheTypes, NoMutation
  <2>3. CacheTypes'
    <3>1. \/ fetching' = Idle \/ fetching' = Requested
          \/ \E v \in Versions : fetching' = OnItsWay(v) /\ v <= server'
      BY <1>1, <1>9, <2>1 DEF MutationApplied, CacheTypes
    <3>2. QED BY <1>1, <1>9, <2>1, <2>2, <3>1 DEF MutationApplied, CacheTypes
  <2>4. QED
    BY <1>1, <1>9, <2>1, <2>3 DEF MutationApplied, CacheIInv, ServerIsAhead, ComingIsRecent,
       FreshIsRecent, Shown
<1>10. CASE MutationAnswered
  <2> DEFINE m == mutation.is
             isSet == query \in area.mutations[m].sets
             owing == Touches(m) /\ ~Overlooked(m)
  <2>1. m \in DOMAIN area.mutations
    BY <1>1, <1>10 DEF MutationAnswered, CacheTypes, NoMutation
  <2>2. owing => isSet \/ Named(m)
    BY <1>1, <2>1, ChangesAreNamed DEF CacheTypes
  <2>3. /\ cache' = IF isSet THEN [known |-> TRUE, data |-> server, fresh |-> TRUE]
                    ELSE [cache EXCEPT !.fresh = cache.fresh /\ ~Named(m)]
        /\ fetching' = IF Named(m) THEN Refetch ELSE fetching
        /\ owed' = IF owing THEN server ELSE owed
        /\ late' = IF owing THEN fetching.stage = "coming" /\ (isSet \/ ~cache.known \/ ~Shown) ELSE late
        /\ mutation' = NoMutation
        /\ UNCHANGED <<area, query, shownPage, server, upsets>>
    BY <1>10 DEF MutationAnswered
  <2> HIDE DEF m, owing, isSet
  <2>4. /\ cache' \in [known : BOOLEAN, data : Versions, fresh : BOOLEAN]
        /\ isSet => cache'.data = server
        /\ ~isSet => cache'.data = cache.data /\ cache'.known = cache.known
        /\ ~isSet /\ Named(m) => cache'.fresh = FALSE
        /\ ~isSet /\ cache'.fresh => cache.fresh
    BY <1>1, <2>3 DEF CacheTypes
  <2>5. /\ fetching' = fetching \/ fetching' = Requested
        /\ Shown /\ Named(m) /\ (fetching = Idle \/ cache.known) => fetching' = Requested
        /\ Shown' = Shown
    BY <2>3 DEF Refetch, Shown
  <2>6. late' \in BOOLEAN
    BY <1>1, <2>3 DEF CacheTypes
  <2>7. CacheTypes'
    BY <1>1, <2>3, <2>4, <2>5, <2>6 DEF CacheTypes
  <2>8. ServerIsAhead'
    BY <1>1, <2>3, <2>4 DEF ServerIsAhead
  <2>9. ComingIsRecent'
    <3> SUFFICES ASSUME fetching'.stage = "coming", ~late' PROVE fetching'.data >= owed'
      BY DEF ComingIsRecent
    <3>1. fetching' = fetching
      BY <2>5
    <3>2. CASE owing
      BY <2>2, <2>3, <2>5, <3>1, <3>2
    <3>3. CASE ~owing
      BY <1>1, <2>3, <3>1, <3>3 DEF ComingIsRecent
    <3>4. QED BY <3>2, <3>3
  <2>10. FreshIsRecent'
    <3> SUFFICES ASSUME fetching' = Idle, cache'.known, ~late', Shown \/ cache'.fresh
        PROVE cache'.data >= owed'
      BY <2>5 DEF FreshIsRecent
    <3>1. fetching = Idle
      BY <2>5
    <3>2. CASE isSet
      BY <1>1, <2>3, <2>4, <3>2 DEF ServerIsAhead
    <3>3. CASE ~isSet /\ owing
      BY <2>2, <2>4, <2>5, <3>1, <3>3
    <3>4. CASE ~isSet /\ ~owing
      BY <1>1, <2>3, <2>4, <3>1, <3>4 DEF FreshIsRecent
    <3>5. QED BY <3>2, <3>3, <3>4
  <2>11. QED BY <2>7, <2>8, <2>9, <2>10 DEF CacheIInv
<1>11. CASE MutationFails
  <2>1. CacheTypes'
    BY <1>1, <1>11, CacheAssumption DEF MutationFails, CacheTypes
  <2>2. QED BY <1>1, <1>11, <2>1 DEF MutationFails, CacheIInv, ServerIsAhead, ComingIsRecent,
        FreshIsRecent, Shown
<1>12. CASE OthersChange
  <2>1. server' \in Nat /\ server' = server + 1 /\ server' \in Versions
    BY <1>1, <1>12, CacheAssumption DEF OthersChange, Versions
  <2>2. CacheTypes'
    BY <1>1, <1>12, <2>1 DEF OthersChange, CacheTypes
  <2>3. QED
    BY <1>1, <1>12, <2>1, <2>2 DEF OthersChange, CacheIInv, ServerIsAhead, ComingIsRecent,
       FreshIsRecent, Shown
<1>13. CASE UNCHANGED cacheVars
  BY <1>1, <1>13 DEF cacheVars, CacheIInv, CacheTypes, ServerIsAhead, ComingIsRecent,
     FreshIsRecent, Shown
<1>14. QED
  BY <1>2, <1>3, <1>4, <1>5, <1>6, <1>7, <1>8, <1>9, <1>10, <1>11, <1>12, <1>13 DEF CacheNext

LEMMA CacheInvImplies == CacheIInv => CacheInv
<1> SUFFICES ASSUME CacheIInv PROVE CacheInv
  OBVIOUS
<1>1. CacheTypeOK
  BY DEF CacheIInv, CacheTypes, CacheTypeOK, NoMutation
<1>2. PageShowsItsChanges /\ NothingIsInvented
  BY DEF CacheIInv, PageShowsItsChanges, NothingIsInvented, FreshIsRecent, ServerIsAhead
<1>3. QED BY <1>1, <1>2 DEF CacheInv
-----------------------------------------------------------------------------
\* The update of dependencies

\* A report stops before the first command; nothing is suspected before the first verification
UpdateIInv ==
  /\ UpdateInv
  /\ exit = "none" <=> phase # "ended"
  /\ mode = "report" => phase \in {"snapshot", "compare", "ended"}
  /\ phase \in {"snapshot", "update", "compare"} => ~suspected.named
  /\ suspected.named => changed # {}

LEMMA WrittenTyped ==
  ASSUME lockfile \in [Workspace -> Content], NEW S, NEW by \in Content
  PROVE  Written(S, by) \in [Workspace -> Content]
BY DEF Written

LEMMA UpdateInvInit == UpdateInit => UpdateIInv
<1> SUFFICES ASSUME UpdateInit PROVE UpdateIInv
  OBVIOUS
<1>1. NotVerified \in Verification /\ ~NotVerified.named
  BY DEF NotVerified, Verification
<1>2. lockfile \in [Workspace -> Content]
  BY DEF UpdateInit, Content
<1>3. UpdateTypeOK
  <2>1. {lockfile, before, tree} \subseteq [Workspace -> Content]
    BY <1>2 DEF UpdateInit
  <2>2. attempt \in 0..MaxAutoFixAttempts
    BY UpdateAssumption DEF UpdateInit
  <2>3. QED BY <1>1, <2>1, <2>2 DEF UpdateInit, UpdateTypeOK
<1>4. QED
  BY <1>1, <1>3 DEF UpdateInit, UpdateIInv, UpdateInv, GoodExitsAreVerified, TreeIsWhatTheExitSays

LEMMA UpdateInvStep == UpdateIInv /\ [main]_updateVars => UpdateIInv'
<1> SUFFICES ASSUME UpdateIInv, [main]_updateVars PROVE UpdateIInv'
  OBVIOUS
<1>1. UpdateTypeOK'
  <2> USE DEF UpdateIInv, UpdateInv, UpdateTypeOK
  <2>1. CASE Snapshot  BY <2>1 DEF Snapshot, GoesOn, Content
  <2>2. CASE runUpdate  BY <2>2, WrittenTyped DEF runUpdate, GoesOn, Content
  <2>3. CASE Compare  BY <2>3 DEF Compare, Exits, GoesOn, diffLockfiles
  <2>4. CASE Verify  BY <2>4 DEF Verify, Exits, GoesOn, Outcomes
  <2>5. CASE attemptAutoFix
    <3>1. lockfile' \in [Workspace -> Content]
      BY <2>5, WrittenTyped DEF attemptAutoFix, Content
    <3>2. attempt' \in 0..MaxAutoFixAttempts
      BY <2>5, UpdateAssumption DEF attemptAutoFix
    <3>3. QED BY <2>5, <3>1, <3>2 DEF attemptAutoFix, GoesOn
  <2>6. CASE GiveUpRepair  BY <2>6 DEF GiveUpRepair, GoesOn
  <2>7. CASE Reverify  BY <2>7 DEF Reverify, Exits, GoesOn, Outcomes
  <2>8. CASE suggestFix  BY <2>8 DEF suggestFix, Exits, GoesOn
  <2>9. CASE rollback
    <3>1. lockfile' \in [Workspace -> Content] /\ unrestored' \subseteq Workspace
      BY <2>9, WrittenTyped DEF rollback, Content
    <3>2. QED BY <2>9, <3>1 DEF rollback, Exits
  <2>10. CASE UNCHANGED updateVars  BY <2>10 DEF updateVars
  <2>11. QED
    BY <2>1, <2>2, <2>3, <2>4, <2>5, <2>6, <2>7, <2>8, <2>9, <2>10 DEF main
<1>2. /\ (exit = "none" <=> phase # "ended")'
      /\ (mode = "report" => phase \in {"snapshot", "compare", "ended"})'
      /\ (phase \in {"snapshot", "update", "compare"} => ~suspected.named)'
      /\ (suspected.named => changed # {})'
      /\ GoodExitsAreVerified'
      /\ TreeIsWhatTheExitSays'
  <2> USE DEF UpdateIInv, UpdateInv, GoodExitsAreVerified, TreeIsWhatTheExitSays
  <2>1. CASE Snapshot  BY <2>1 DEF Snapshot, GoesOn
  <2>2. CASE runUpdate  BY <2>2 DEF runUpdate, GoesOn
  <2>3. CASE Compare  BY <2>3 DEF Compare, Exits, GoesOn, diffLockfiles
  <2>4. CASE Verify  BY <2>4 DEF Verify, Exits, GoesOn, Outcomes
  <2>5. CASE attemptAutoFix  BY <2>5 DEF attemptAutoFix, GoesOn
  <2>6. CASE GiveUpRepair  BY <2>6 DEF GiveUpRepair, GoesOn
  <2>7. CASE Reverify  BY <2>7 DEF Reverify, Exits, GoesOn, Outcomes
  <2>8. CASE suggestFix  BY <2>8 DEF suggestFix, Exits, GoesOn
  <2>9. CASE rollback  BY <2>9 DEF rollback, Exits, Written, UpdateTypeOK
  <2>10. CASE UNCHANGED updateVars  BY <2>10 DEF updateVars
  <2>11. QED
    BY <2>1, <2>2, <2>3, <2>4, <2>5, <2>6, <2>7, <2>8, <2>9, <2>10 DEF main
<1>3. QED BY <1>1, <1>2 DEF UpdateIInv, UpdateInv

\* The update of dependencies (scripts/safe-update.mjs), for any workspaces, any outcomes of
\* its commands and any number of attempts at repair: it exits with 0 only if what is there is
\* verified, and with 1 only then or where its report could not be written; what it leaves in
\* the tree is what its exit says.
THEOREM UpdateTheorem == UpdateSpec => []UpdateInv
<1>1. UpdateIInv => UpdateInv  BY DEF UpdateIInv
<1>2. QED BY UpdateInvInit, UpdateInvStep, <1>1, PTL DEF UpdateSpec
-----------------------------------------------------------------------------
\* The parts together: each begins as it does alone, and takes its own steps or none.

LEMMA PartsBegin ==
  Init => /\ ArchiveInit /\ XrayInit /\ OutsideInit /\ JenkinsInit /\ PublishInit /\ TenancyInit
          /\ SpendInit /\ ClientInit /\ CacheInit /\ ProviderInit /\ UpdateInit
          /\ SettingsInit /\ BudgetInit /\ AdviceInit /\ McpInit /\ AnalyticsInit
BY DEF Init

LEMMA PartsMove ==
  ASSUME [Next]_vars
  PROVE  /\ [ArchiveNext]_archiveVars /\ [XrayNext]_xrayVars /\ [OutsideNext]_outsideVars
         /\ [JenkinsNext]_jenkinsVars /\ [PublishNext]_publishVars /\ [TenancyNext]_tenancyVars
         /\ [SpendNext]_spendVars /\ [ClientNext]_clientVars /\ [CacheNext]_cacheVars
         /\ [ProviderNext]_providerVars /\ [main]_updateVars /\ [SettingsNext]_settingsVars
         /\ [BudgetNext]_budgetVars /\ [AdviceNext]_adviceVars
         /\ [McpNext]_mcpVars /\ [AnalyticsNext]_analyticsVars
<1> USE DEF vars, Next, Archive, Xray, Outside, Jenkins, Confluence, Tenants, Spend, Client,
    Browser, Provider, Window, Script, Server, Mcp, Figures, Advice, Launch, Moves, OthersRest,
    Rests
<1>1. [ArchiveNext]_archiveVars /\ [XrayNext]_xrayVars
  OBVIOUS
<1>2. [OutsideNext]_outsideVars /\ [JenkinsNext]_jenkinsVars
  OBVIOUS
<1>3. [PublishNext]_publishVars /\ [TenancyNext]_tenancyVars
  OBVIOUS
<1>4. [SpendNext]_spendVars /\ [ClientNext]_clientVars
  OBVIOUS
<1>5. [CacheNext]_cacheVars /\ [ProviderNext]_providerVars
  OBVIOUS
<1>6. [main]_updateVars /\ [SettingsNext]_settingsVars
  OBVIOUS
<1>7. [BudgetNext]_budgetVars /\ [AdviceNext]_adviceVars
  OBVIOUS
<1>8. [McpNext]_mcpVars /\ [AnalyticsNext]_analyticsVars
  OBVIOUS
<1>9. QED
  BY <1>1, <1>2, <1>3, <1>4, <1>5, <1>6, <1>7, <1>8

\* What the syncs of Xray, the monitors of Jenkins and the publishers of Confluence have
\* stored is true in every state (xray.service.ts, jenkins.service.ts, confluence-publisher.ts).
THEOREM IntegrationsTheorem == Spec => []IntegrationsInv
<1>1. XrayIInv /\ JenkinsIInv /\ PublishIInv => IntegrationsInv
  BY XrayInvImplies, JenkinsInvImplies DEF IntegrationsInv, PublishIInv, PublishInv
<1>2. Init => XrayIInv /\ JenkinsIInv /\ PublishIInv
  BY PartsBegin, XrayInvInit, JenkinsInvInit, PublishInvInit
<1>3. XrayIInv /\ JenkinsIInv /\ PublishIInv /\ [Next]_vars
        => XrayIInv' /\ JenkinsIInv' /\ PublishIInv'
  BY PartsMove, XrayInvStep, JenkinsInvStep, PublishInvStep
<1>4. QED
  BY <1>1, <1>2, <1>3, PTL DEF Spec

\* What a reporting analysis cost is in the books when it ends well and its model had a word,
\* a month past the threshold is alerted of once by those that reckon alone, and noticed unless
\* a reckoning was lost (manager.ts, cost-tracker.ts); the provider that answers is the one
\* stored last, with a key that was given for it, whatever overlapped before
\* (provider-config.service.ts, registry.ts); and a start builds what its settings ask for,
\* which have been checked and are the documented ones but in known ways (config.ts).
THEOREM AssistantTheorem == Spec => []AssistantInv
<1>1. SpendIInv /\ ProviderIInv /\ SettingsIInv => AssistantInv
  BY SpendInvImplies, ProviderInvImplies, SettingsInvImplies DEF AssistantInv
<1>2. Init => SpendIInv /\ ProviderIInv /\ SettingsIInv
  BY PartsBegin, SpendInvInit, ProviderInvInit, SettingsInvInit
<1>3. SpendIInv /\ ProviderIInv /\ SettingsIInv /\ [Next]_vars
        => SpendIInv' /\ ProviderIInv' /\ SettingsIInv'
  BY PartsMove, SpendInvStep, ProviderInvStep, SettingsInvStep
<1>4. QED
  BY <1>1, <1>2, <1>3, PTL DEF Spec

\* The browser's panel listens to one stream at most and forgets what was cleared
\* (useAICopilot.ts); its pages show the changes made on them, and nothing the server never
\* had (the hooks of api/).
THEOREM BrowserTheorem == Spec => []BrowserInv
<1>1. ClientIInv /\ CacheIInv => BrowserInv
  BY ClientInvImplies, CacheInvImplies DEF BrowserInv
<1>2. Init => ClientIInv /\ CacheIInv
  BY PartsBegin, ClientInvInit, CacheInvInit
<1>3. ClientIInv /\ CacheIInv /\ [Next]_vars => ClientIInv' /\ CacheIInv'
  BY PartsMove, ClientInvStep, CacheInvStep
<1>4. QED
  BY <1>1, <1>2, <1>3, PTL DEF Spec

\* The history that the model is sent is the longest newest part of the conversation that its
\* limit allows, the tracker knows its size, and the results of tools stay within their budget
\* (context-window-manager.ts, token-budget.ts); a question is decided anew only when none that
\* begins alike was within the cache's time, by a rule that it matches if any does
\* (PersonaRouter.ts); there are four prompts, in the order of their sources and none twice
\* (StarterPromptResolver.ts); what is suggested follows from the results as it does
\* (ProactiveSuggestionEngine.ts): for any conversation, messages, time to live and pins.
THEOREM WindowTheorem == Spec => []ConversationInv
<1>1. BudgetIInv /\ AdviceIInv => ConversationInv
  BY BudgetInvImplies, AdviceInvImplies DEF ConversationInv
<1>2. Init => BudgetIInv /\ AdviceIInv
  BY PartsBegin, BudgetInvInit, AdviceInvInit
<1>3. BudgetIInv /\ AdviceIInv /\ [Next]_vars => BudgetIInv' /\ AdviceIInv'
  BY PartsMove, BudgetInvStep, AdviceInvStep
<1>4. QED
  BY <1>1, <1>2, <1>3, PTL DEF Spec

\* What the dashboards show, for any failures, any number of them and any buffer: the parts of
\* an answer are told in an order in which each has what an earlier one had, every failure has
\* one category, and what is documented or recurs is archived (dashboard.service.ts,
\* failure-metrics); a failure's risk moves as its sightings do, and the list of risks leaves
\* out none that is riskier but for others as frequent (prediction-analysis.service.ts); a
\* series has every failure of its window once, in order of days; and the percentiles are of
\* the latest responses (responseTime.ts).
THEOREM FiguresTheorem ==
  Spec => [](DashboardHolds /\ MetricsHold /\ RisksHold /\ SeriesHolds /\ BufferHolds)
<1>1. FiguresIInv /\ BufferIInv
        => DashboardHolds /\ MetricsHold /\ RisksHold /\ SeriesHolds /\ BufferHolds
  BY DashboardShown, MetricsShown, RisksShown, SeriesShown, BufferShown
<1>2. Init => FiguresIInv /\ BufferIInv
  BY PartsBegin, FiguresInit, BufferInit
<1>3. FiguresIInv /\ BufferIInv /\ [Next]_vars => FiguresIInv' /\ BufferIInv'
  BY PartsMove, FiguresStep, BufferStep
<1>4. QED
  BY <1>1, <1>2, <1>3, PTL DEF Spec

\* What the tools for other agents answer, for any calls, failures and tables: an entry that
\* was said to be added is found by the analyses and the searches that begin afterwards, but
\* for a failed query, a filter or the limit (mcp-server/tools/knowledge.ts, analyze.ts); what
\* the figures of one answer differ by was added between its queries (knowledge.ts, stats.ts);
\* and with the tables that the backend migrates, nothing is known, and only the tools that do
\* without a table answer.
THEOREM McpTheorem == Spec => [](AddedIsFound /\ FiguresOnlyGrow /\ OnlyWhatNeedsNoTable)
<1>1. GrowIInv => AddedIsFound /\ FiguresOnlyGrow /\ OnlyWhatNeedsNoTable
  BY FoundShown, GrowShown, TablesShown DEF GrowIInv
<1>2. Init => GrowIInv
  BY PartsBegin, GrowInit
<1>3. GrowIInv /\ [Next]_vars => GrowIInv'
  BY PartsMove, GrowStep
<1>4. QED
  BY <1>1, <1>2, <1>3, PTL DEF Spec

\* A row that names an execution of Xray loses it to a sync that was answered without one.
LEMMA ExecutionStep ==
  ASSUME XrayIInv, [XrayNext]_xrayVars
  PROVE  \A i \in DOMAIN rows \intersect DOMAIN rows' :
           rows[i].execution # NoExecution =>
             \/ rows'[i].execution # NoExecution
             \/ \E s \in unnamed : record[s] = i /\ progress[s] = "store"
<1> DEFINE Remembered(after) == \A i \in DOMAIN rows \intersect DOMAIN after :
                            rows[i].execution # NoExecution =>
                              \/ after[i].execution # NoExecution
                              \/ \E s \in unnamed : record[s] = i /\ progress[s] = "store"
<1> SUFFICES Remembered(rows')
  OBVIOUS
<1>1. rows \in Seq(XrayRow) /\ DOMAIN rows = 1..Len(rows) /\ Len(rows) \in Nat
  BY DEF XrayIInv, XrayTypes
<1>2. \A i \in 1..Len(rows) : rows[i] \in XrayRow
  BY <1>1
<1>3. CASE UNCHANGED rows
  BY <1>3
<1>4. ASSUME NEW c \in Call, DeleteWithRows(c) PROVE Remembered(rows')
  <2>1. DOMAIN rows' = {}
    BY <1>4 DEF DeleteWithRows
  <2>2. QED
    BY <2>1
<1>5. ASSUME NEW s \in Sync, NEW status \in {"SYNCING", "FAILED"}, record[s] \in 1..Len(rows),
             rows' = [rows EXCEPT ![record[s]].status = status]
      PROVE  Remembered(rows')
  <2>1. \A i \in 1..Len(rows) : rows'[i].execution = rows[i].execution
    BY <1>1, <1>2, <1>5 DEF XrayRow
  <2>2. QED
    BY <1>1, <2>1
<1>6. ASSUME NEW s \in Sync, MarkSyncing(s) PROVE Remembered(rows')
  <2>1. CASE run # "deleted" /\ record[s] = 0
    <3> DEFINE new == [status |-> "SYNCING", execution |-> NoExecution]
    <3>1. rows' = Append(rows, new) /\ new \in XrayRow
      BY <1>6, <2>1 DEF MarkSyncing, XrayRow, NoExecution
    <3> HIDE DEF new
    <3>2. \A i \in 1..Len(rows) : rows'[i] = rows[i]
      BY <1>1, <3>1, AppendProperties
    <3>3. QED
      BY <1>1, <3>2
  <2>2. CASE run # "deleted" /\ record[s] # 0
    <3>1. record[s] \in 1..Len(rows)
      BY <1>1, <1>6, <2>2 DEF MarkSyncing, Proceeds, XrayIInv, RecordKnown
    <3>2. rows' = [rows EXCEPT ![record[s]].status = "SYNCING"]
      BY <1>6, <2>2 DEF MarkSyncing
    <3>3. QED
      BY <1>5, <3>1, <3>2
  <2>3. CASE run = "deleted"
    BY <1>3, <1>6, <2>3 DEF MarkSyncing
  <2>4. QED
    BY <2>1, <2>2, <2>3
<1>7. ASSUME NEW s \in Sync, StoreSynced(s) PROVE Remembered(rows')
  <2>1. CASE run # "deleted"
    <3>1. /\ rows' = [rows EXCEPT ![record[s]] = [status |-> "SYNCED", execution |-> keySent[s]]]
          /\ progress[s] = "store"
      BY <1>7, <2>1 DEF StoreSynced, Proceeds
    <3>2. record[s] \in 1..Len(rows) /\ (keySent[s] # NoExecution \/ s \in unnamed)
      BY <2>1, <3>1 DEF XrayIInv, RecordKnown
    <3>3. QED
      BY <1>1, <3>1, <3>2
  <2>2. QED
    BY <1>3, <1>7, <2>1 DEF StoreSynced
<1>8. ASSUME NEW s \in Sync, MarkFailed(s) PROVE Remembered(rows')
  <2>1. CASE run # "deleted"
    <3>1. progress[s] = "fail" /\ rows' = [rows EXCEPT ![record[s]].status = "FAILED"]
      BY <1>8, <2>1 DEF MarkFailed, Proceeds
    <3>2. record[s] \in 1..Len(rows)
      BY <2>1, <3>1 DEF XrayIInv, RecordKnown
    <3>3. QED
      BY <1>5, <3>1, <3>2
  <2>2. QED
    BY <1>3, <1>8, <2>1 DEF MarkFailed
<1>9. CASE UNCHANGED xrayVars
  BY <1>3, <1>9 DEF xrayVars
<1>10. CASE \E c \in Call : ControlStep(c)
  BY <1>3, <1>4, <1>10 DEF ControlStep, CompleteAndSync
<1>11. CASE \E s \in Sync : SyncByHand(s) \/ syncTestRun(s) \/ WriteFails(s)
  BY <1>3, <1>6, <1>7, <1>8, <1>11
     DEF SyncByHand, syncTestRun, WriteFails, ReadTestRun, FindRecord, Import, ImportUnheard,
       ImportRefused
<1>12. CASE XrayCrash
  BY <1>3, <1>12 DEF XrayCrash
<1>13. QED
  BY <1>9, <1>10, <1>11, <1>12 DEF XrayNext

\* No step of a sync touches the run, and no other overwrites a decision but one that had
\* found the run undecided.
LEMMA RunStep ==
  ASSUME XrayIInv, [XrayNext]_xrayVars
  PROVE  /\ run \in Finished => run' \in Finished \union {"deleted"}
         /\ (run \in Finished /\ run' # run) =>
              \/ run' = "deleted"
              \/ \E d \in overtaken : wanted[d] \in {"cancel", "complete"} /\ wanted'[d] = "over"
<1>1. CASE UNCHANGED run
  BY <1>1
<1>2. ASSUME NEW c \in Call, ControlStep(c)
      PROVE  /\ run \in Finished => run' \in Finished \union {"deleted"}
             /\ (run \in Finished /\ run' # run) =>
                  \/ run' = "deleted"
                  \/ \E d \in overtaken :
                       wanted[d] \in {"cancel", "complete"} /\ wanted'[d] = "over"
  BY <1>2, ControlSteps DEF ControlStep, CompleteAndSync, DeleteWithRows, XrayIInv, XrayTypes
<1>3. CASE \E s \in Sync : SyncByHand(s) \/ syncTestRun(s) \/ WriteFails(s)
  BY <1>1, <1>3 DEF SyncByHand, syncTestRun, WriteFails, ReadTestRun, FindRecord, MarkSyncing,
     Import,
     ImportUnheard, ImportRefused, StoreSynced, MarkFailed, controlVars
<1>4. CASE XrayCrash \/ UNCHANGED xrayVars
  BY <1>1, <1>4 DEF XrayCrash, xrayVars, controlVars
<1>5. QED
  BY <1>2, <1>3, <1>4 DEF XrayNext

\* No step of the system takes back what is stored but in the ways named: the decision on a
\* run, which those overwrite that had found it undecided; the execution it is known by in
\* Xray, which a sync answered without a key removes; the verdict on a build, which its
\* timeout may replace; somebody else's edit in Confluence; the settings that a request does
\* not mention; an analysis that a writer has not seen (testRun.service.ts, xray.service.ts,
\* jenkins.service.ts, confluence-publisher.ts, settings, failure-knowledge-base.service.ts).
THEOREM StoredTheorem == Spec => WhatIsStoredStands
<1> DEFINE Finishes == run \in Finished => run' \in Finished \union {"deleted"}
           Stays == (run \in Finished /\ run' # run) =>
                      \/ run' = "deleted"
                      \/ \E c \in overtaken :
                           wanted[c] \in {"cancel", "complete"} /\ wanted'[c] = "over"
           Remembers == \A i \in DOMAIN rows \intersect DOMAIN rows' :
                      rows[i].execution # NoExecution =>
                        rows'[i].execution # NoExecution
                          \/ \E s \in unnamed : record[s] = i /\ progress[s] = "store"
           Verdict == (testRun = "PASSED" /\ (trouble' = 0 \/ ~jostled') /\ elapsed' < Hour)
                        => testRun' = "PASSED"
           Edits == \A p \in Publisher :
                      (publishing[p] = "writing" /\ publishing'[p] # "writing" /\ page' # page)
                        => page[document[p]] = found[p]
<1>1. Init => XrayIInv /\ JenkinsIInv /\ PublishIInv
  BY PartsBegin, XrayInvInit, JenkinsInvInit, PublishInvInit
<1>2. XrayIInv /\ JenkinsIInv /\ PublishIInv /\ [Next]_vars
        => XrayIInv' /\ JenkinsIInv' /\ PublishIInv'
  BY PartsMove, XrayInvStep, JenkinsInvStep, PublishInvStep
<1>3. XrayIInv /\ [Next]_vars => [Finishes]_controlVars /\ [Stays]_controlVars /\ [Remembers]_xrayVars
  BY PartsMove, RunStep, ExecutionStep
<1>4. JenkinsIInv /\ [Next]_vars => [Verdict]_jenkinsVars
  BY PartsMove, VerdictStep
<1>5. PublishIInv /\ [Next]_vars => [Edits]_publishVars
  BY PartsMove, PublicationStep
<1>6. ArchiveInit /\ [][ArchiveNext]_archiveVars => SaveKeepsWhatItReplaces /\ NobodyIsOverwritten
  BY SaveTheorem DEF ArchiveSpec
<1>7. TenancyInit /\ [][TenancyNext]_tenancyVars => OtherSettingsStand
  BY SettingsTheorem DEF TenancySpec
<1>8. Init => ArchiveInit /\ TenancyInit
  BY PartsBegin
<1>9. [Next]_vars => [ArchiveNext]_archiveVars /\ [TenancyNext]_tenancyVars
  BY PartsMove
<1>10. Spec => /\ FinishedStaysFinished /\ FirstDecisionStands /\ ExecutionIsNotForgotten
               /\ VerdictStands /\ NoEditIsOverwritten
  BY <1>1, <1>2, <1>3, <1>4, <1>5, PTL
  DEF Spec, FinishedStaysFinished, FirstDecisionStands, ExecutionIsNotForgotten, VerdictStands,
      NoEditIsOverwritten
<1>11. Spec => SaveKeepsWhatItReplaces /\ NobodyIsOverwritten /\ OtherSettingsStand
  BY <1>6, <1>7, <1>8, <1>9, PTL DEF Spec
<1>12. QED
  BY <1>10, <1>11 DEF WhatIsStoredStands
=============================================================================
