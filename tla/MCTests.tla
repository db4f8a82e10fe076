------------------------------- MODULE MCTests -------------------------------
(***************************************************************************)
(* What the program does with tests, one part at a time: it heals          *)
(* pipelines and quarantines tests, keeps an import graph, selects tests,  *)
(* records regressions, finds flaky tests.  Of three requests to heal two  *)
(* go on at a time, with a limit of one retry and one failure; the code    *)
(* has two source files and two tests, of which one imports through the    *)
(* other file; one pipeline regresses while the other recovers.            *)
(***************************************************************************)
EXTENDS MCSelfHealing, TestSelection, Regressions, FlakyTests, Sessions

CONSTANTS fileA, fileB, testA, testB, nowhere
VARIABLE part  \* the one that moves; never changes

testsVars == <<part, vars, selectionVars, regressionVars, past, sessionVars>>

OwnFiles == {<<testA, fileA>>, <<testB, fileB>>}
MCCode == {OwnFiles, OwnFiles \cup {<<fileB, fileA>>}}
MCCandidate == (fileA :> <<testA>>) @@ (fileB :> <<nowhere, testB>>)
Together(today) == [changed |-> {fileA}, failed |-> {testA, testB}, recent |-> today]
MCPast == {<<>>, <<Together(FALSE), Together(TRUE)>>}

Parts == {"healing", "graph", "selection", "regressions", "flaky", "sessions"}
Rests(p, rest) == IF part = p THEN TRUE ELSE rest

TestsInit ==
  /\ part \in Parts
  /\ Init
  /\ IF part = "selection" THEN GraphOnRecord ELSE GraphInit
  /\ SelectionInit
  /\ Rests("graph", part = "selection" \/ (imports = OwnFiles /\ root = "relative"))
  /\ Rests("selection", history = <<>>)
  /\ RegressionInit
  /\ SessionInit /\ (redisUp \/ (\E t \in AccessToken : ~issued[t].expired))
  /\ Rests("sessions", issued = <<>>)
  /\ FlakyInit /\ Rests("flaky", past = <<>>)

Moves(p) ==
  /\ part = p /\ UNCHANGED <<part, past>>
  /\ Rests("healing", UNCHANGED vars)
  /\ part \in {"graph", "selection"} \/ UNCHANGED selectionVars
  /\ Rests("regressions", UNCHANGED regressionVars)
  /\ Rests("sessions", UNCHANGED sessionVars)

Healing == Moves("healing") /\ Next
Graph == Moves("graph") /\ GraphNext /\ UNCHANGED <<world, memory, asked>>
Selection == Moves("selection") /\ SelectionNext
Regression == Moves("regressions") /\ RegressionNext
SignIn == Moves("sessions") /\ SessionNext

TestsNext == Healing \/ Graph \/ Selection \/ Regression \/ SignIn
TestsSpec == TestsInit /\ [][TestsNext]_testsVars
-----------------------------------------------------------------------------
\* What is on record of the code and of its runs, the import graph with the tests that it
\* selects and the regressions, is true.
RecordsInv == SelectionInv /\ RegressionInv

\* What is reckoned from the records, the verdicts on a selection and on the flakiness of a
\* test, agrees with them.
HistoryInv == VerdictsAgree /\ FlakyInv
=============================================================================
