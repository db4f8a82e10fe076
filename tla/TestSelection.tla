---------------------------- MODULE TestSelection ----------------------------
(***************************************************************************)
(* Smart test selection (TestImpactService and the services it asks): a    *)
(* request names changed files; each is mapped by the first strategy that  *)
(* finds a test; tests that history relates to them join, quarantined ones *)
(* leave.  Between its awaits the import graph is built or loaded, coverage*)
(* reports arrive and age, runs are recorded, tests go into quarantine.    *)
(* A lookup that fails finds nothing.                                      *)
(*                                                                         *)
(* One request is followed; what earlier ones have left in memory is there *)
(* at first or not.  Abstracted: paths and names, the count of all tests,  *)
(* times within a window, the wording of explanations.                     *)
(***************************************************************************)
EXTENDS Integers, DependencyGraph

CONSTANTS
  Config,     \* files that touch everything, such as package.json
  Other,      \* files that are neither
  Past,       \* what runs may be on record at first
  Candidate,  \* for each source file, where its test may be, the likeliest first
  TurnBound   \* bound: changes to what selection reads

ALL == [all |-> "tests"]

ASSUME SelectionAssumption ==
  /\ Config \cap Codebase = {} /\ ALL \notin Suite
  /\ \A f \in Source : 1 \in DOMAIN Candidate[f] /\ ALL \notin ToSet(Candidate[f])
  /\ TurnBound \in Nat

VARIABLES
  coverage,   \* rows of the coverage map: a test, a source file, whether it is recent
  history,    \* runs: changed files, failed tests, recent or old
  related,    \* in memory: tests by file, and whether the relation is strong
  cofailing,  \* in memory: pairs of tests that fail together
  quarantined, \* names of the quarantined tests
  asked,       \* the request in progress or answered
  turns

selectionVars ==
  <<graphVars, coverage, history, related, cofailing, quarantined, asked, turns>>

memory == <<related, cofailing>>
world == <<coverage, history, quarantined, turns>>

ChangedFile == Codebase \cup Config \cup Other
NoOption == [coverage |-> FALSE, dependency |-> FALSE, correlation |-> FALSE,
             exclude |-> FALSE, validate |-> FALSE]

\* What the webhook asks with, the copilot's tool, and CI with every strategy
Options ==
  {NoOption,
   [NoOption EXCEPT !.correlation = TRUE, !.exclude = TRUE],
   [NoOption EXCEPT !.coverage = TRUE, !.dependency = TRUE, !.validate = TRUE]}

Idle == [at |-> "idle", files |-> <<>>, todo |-> <<>>, options |-> NoOption, details |-> {},
         selected |-> {}, added |-> {}, excluded |-> {}]

-----------------------------------------------------------------------------
\* What selection reads changes; after an answer, that is before the next request
Turns == turns < TurnBound /\ turns' = turns + 1 /\ asked.at # "answered"
WorldRests == UNCHANGED <<graphVars, memory, asked>>

\* storeCoverage upserts a row by test and file; a failure leaves the rest undone
storeCoverage(t, f) ==
  /\ Turns /\ WorldRests
  /\ coverage' = {r \in coverage : <<r.test, r.source>> # <<t, f>>}
                   \cup {[test |-> t, source |-> f, recent |-> TRUE]}
  /\ UNCHANGED <<history, quarantined>>

\* A week goes by
CoverageAges ==
  /\ Turns /\ WorldRests
  /\ coverage' = {[r EXCEPT !.recent = FALSE] : r \in coverage}
  /\ coverage' # coverage
  /\ UNCHANGED <<history, quarantined>>

\* A run ends in which some tests fail
RecordRun(changed, failed) ==
  /\ Turns /\ WorldRests
  /\ history' = Append(history, [changed |-> changed, failed |-> failed, recent |-> TRUE])
  /\ UNCHANGED <<coverage, quarantined>>

\* The self-healing part quarantines a test or reinstates it
ChangeQuarantine(t) ==
  /\ Turns /\ WorldRests
  /\ quarantined' = (quarantined \ {t}) \cup ({t} \ quarantined)
  /\ UNCHANGED <<coverage, history>>
-----------------------------------------------------------------------------
\* The lookups

\* In eighths: a run of today weighs one, one of ninety days ago, three half-lives, an eighth
Weight(R) == 8 * Cardinality({i \in R : history[i].recent}) + Cardinality({i \in R : ~history[i].recent})

buildFileCorrelations ==
  {c \in [file : ChangedFile, test : Suite, strong : BOOLEAN] :
    LET both == {i \in DOMAIN history : c.file \in history[i].changed /\ c.test \in history[i].failed}
        joint == Cardinality(both)
        changes == Cardinality({i \in DOMAIN history : c.file \in history[i].changed}) IN
    /\ joint > 0 /\ (100 * joint >= 15 * changes \/ joint >= 2)
    /\ c.strong = (5 * Weight(both) >= 8 * changes)}

\* Only runs with several failures count
buildCoFailureMatrix ==
  {pair \in Suite \X Suite :
    LET Fail(T) == Cardinality({i \in DOMAIN history :
                      T \subseteq history[i].failed /\ Cardinality(history[i].failed) > 1})
        both == Fail({pair[1], pair[2]}) IN
    /\ pair[1] # pair[2] /\ both >= 2
    /\ 10 * both >= 3 * (Fail({pair[1]}) + Fail({pair[2]}) - both)}

\* A weak relation to a changed file hides a partner that would have joined
getCorrelatedTests(files, selected, byFile, byTest) ==
  LET known == {c \in byFile : c.file \in files} IN
  {c.test : c \in {k \in known : k.strong}}
    \cup ({p[2] : p \in {q \in byTest : q[1] \in selected}} \ {c.test : c \in known})

isFresh == \E r \in coverage : r.recent
getTestsForSourceFile(f) == {r.test : r \in {q \in coverage : q.source = f}}
getCoverageBasedTests(f) == IF isFresh THEN getTestsForSourceFile(f) ELSE {}

\* Where the test of a source file is, or would be
mapSourceToTests(f, options) ==
  IF f \notin Source THEN {}
  ELSE IF options.validate THEN ToSet(Candidate[f]) \cap Suite
  ELSE {Candidate[f][1]}
-----------------------------------------------------------------------------
\* The request
RequestMoves == UNCHANGED <<world>>

Ask(files, options) ==
  /\ asked.at = "idle"
  /\ asked' = [Idle EXCEPT !.at = "files", !.files = files, !.todo = files, !.options = options]
  /\ UNCHANGED <<graphVars, memory>> /\ RequestMoves

Mapped(tests, strategy, next) ==
  LET f == Head(asked.todo) IN
  asked' = [asked EXCEPT
    !.todo = Tail(@), !.at = next,
    !.selected = @ \cup tests,
    !.details = IF tests = {} THEN @
                ELSE @ \cup {[file |-> f, tests |-> tests, strategy |-> strategy]}]

\* A global file ends the search, whatever was found before it
RunAll ==
  /\ asked.at = "files" /\ asked.todo # <<>> /\ Head(asked.todo) \in Config
  /\ asked' = [Idle EXCEPT !.at = "answered", !.files = asked.files, !.options = asked.options,
                   !.selected = {ALL},
                   !.details = {[file |-> Head(asked.todo), tests |-> {ALL},
                                 strategy |-> "global"]}]
  /\ UNCHANGED <<graphVars, memory>> /\ RequestMoves

SelectItself ==
  /\ asked.at = "files" /\ asked.todo # <<>> /\ Head(asked.todo) \in Suite
  /\ Mapped({Head(asked.todo)}, "direct", "files")
  /\ UNCHANGED <<graphVars, memory>> /\ RequestMoves

\* Mutant: coverage that finds nothing ends the search for the file
CoverageDecides ==
  \E fails \in BOOLEAN :
    LET f == Head(asked.todo)
        found == IF fails \/ ~asked.options.coverage THEN {} ELSE getCoverageBasedTests(f) IN
    /\ asked.at = "files" /\ asked.todo # <<>> /\ f \notin Config \cup Suite
    /\ fails => asked.options.coverage
    /\ May(fails)
    /\ IF asked.options.coverage THEN Mapped(found, "coverage", "files")
       ELSE asked' = [asked EXCEPT !.at = "dependency"]
    /\ UNCHANGED <<graphData, memory>>
    /\ RequestMoves

\* Coverage is asked when the request wants it; the next strategy when it finds nothing
AskCoverage ==
  \E fails \in BOOLEAN :
    LET f == Head(asked.todo)
        found == IF fails \/ ~asked.options.coverage THEN {} ELSE getCoverageBasedTests(f) IN
    /\ asked.at = "files" /\ asked.todo # <<>> /\ f \notin Config \cup Suite
    /\ fails => asked.options.coverage
    /\ May(fails)
    /\ IF found # {} THEN Mapped(found, "coverage", "files")
       ELSE asked' = [asked EXCEPT !.at = "dependency"]
    /\ UNCHANGED <<graphData, memory>>
    /\ RequestMoves

\* The graph, loaded first when it is empty
AskGraph ==
  LET asks == asked.at = "dependency" /\ asked.options.dependency
      found == getTestsForFile(Head(asked.todo)) IN
  \/ /\ asks /\ graph = {}
     /\ AskEdges
     /\ asked' = [asked EXCEPT !.at = "loading"]
     /\ UNCHANGED memory /\ RequestMoves
  \/ /\ (asked.at = "loading" /\ loading = {}) \/ (asks /\ graph # {})
     /\ IF found # {} THEN Mapped(found, "dependency", "files")
        ELSE asked' = [asked EXCEPT !.at = "convention"]
     /\ UNCHANGED <<graphVars, memory>> /\ RequestMoves
  \/ /\ asked.at = "dependency" /\ ~asked.options.dependency
     /\ asked' = [asked EXCEPT !.at = "convention"]
     /\ UNCHANGED <<graphVars, memory>> /\ RequestMoves

FollowConvention ==
  /\ asked.at = "convention"
  /\ Mapped(mapSourceToTests(Head(asked.todo), asked.options), "convention", "files")
  /\ UNCHANGED <<graphVars, memory>> /\ RequestMoves

\* Both relations are built when they are empty and kept until a restart
Correlate ==
  \E fails \in BOOLEAN :
    LET asks == asked.options.correlation
        byFile == IF related = {} /\ ~fails THEN buildFileCorrelations ELSE related
        byTest == IF cofailing = {} /\ asked.selected # {} /\ ~fails
                  THEN buildCoFailureMatrix ELSE cofailing
        found == getCorrelatedTests(ToSet(asked.files), asked.selected, byFile, byTest)
                   \ asked.selected IN
    /\ asked.at = "files" /\ asked.todo = <<>>
    /\ fails => (asks /\ (related = {} \/ cofailing = {}))
    /\ May(fails)
    /\ related' = IF asks THEN byFile ELSE related
    /\ cofailing' = IF asks THEN byTest ELSE cofailing
    /\ asked' = [asked EXCEPT !.at = "exclude",
                     !.added = IF asks THEN found ELSE {},
                     !.selected = IF asks THEN @ \cup found ELSE @]
    /\ UNCHANGED graphData
    /\ RequestMoves

ExcludeQuarantined ==
  \E fails \in BOOLEAN :
    LET out == IF asked.options.exclude /\ ~fails THEN asked.selected \cap quarantined ELSE {} IN
    /\ asked.at = "exclude"
    /\ fails => asked.options.exclude /\ asked.selected \cap quarantined # {}
    /\ May(fails)
    /\ asked' = [asked EXCEPT !.at = "answered", !.selected = @ \ out, !.excluded = out]
    /\ UNCHANGED <<graphData, memory>>
    /\ RequestMoves

\* A restart forgets what is in memory, the request included
SelectionRestarts ==
  /\ GraphRestarts /\ Turns
  /\ related' = {} /\ cofailing' = {} /\ asked' = Idle
  /\ UNCHANGED <<coverage, history, quarantined>>

\* The graph on its own is the business of DependencyGraph.  Here the database holds
\* the edges of some code, and the process has built the graph, or not yet loaded it.
GraphOnRecord ==
  /\ imports \in Code /\ root \in {"relative", "absolute"}
  /\ stored = UNION {Edges(f, extractImports(f)) : f \in Codebase}
  /\ graph \in {{}, stored}
  /\ build = [b \in Builder |-> BuildOver] /\ loading = {} /\ faults = 0
  /\ ever = stored /\ fresh = {} /\ owed = stored

SelectionInit ==
  /\ coverage = {} /\ history \in Past /\ quarantined = {}
  /\ \/ related = {} /\ cofailing = {}
     \/ related = buildFileCorrelations /\ cofailing = buildCoFailureMatrix
  /\ asked = Idle /\ turns = 0

\* One file, or a source file and another
Requests == {<<f>> : f \in ChangedFile} \cup {<<f, g>> : f \in Source, g \in ChangedFile \ Source}

SelectionNext ==
  \/ CoverageAges \/ SelectionRestarts
  \/ loadFromDatabase /\ UNCHANGED <<world, memory, asked>>
  \/ \E t \in Suite : ChangeQuarantine(t) \/ \E f \in Source : storeCoverage(t, f)
  \/ \E f \in Source, failed \in {Suite} \cup {{t} : t \in Suite} : RecordRun({f}, failed)
  \/ \E files \in Requests, options \in Options : Ask(files, options)
  \/ RunAll \/ SelectItself \/ AskCoverage \/ AskGraph \/ FollowConvention
  \/ Correlate \/ ExcludeQuarantined
-----------------------------------------------------------------------------
\* What the answer says, and what is made of it
Answered == asked.at = "answered"
RunsAll == ALL \in asked.selected

Correlated ==
  IF asked.added = {} THEN {}
  ELSE {[file |-> "correlation", tests |-> asked.added, strategy |-> "correlation"]}
Details == asked.details \cup Correlated

StrategyWeight ==
  [direct |-> 100, global |-> 100, coverage |-> 95, dependency |-> 85, correlation |-> 80,
   convention |-> 70]

\* In percent, rounded
calculateConfidence ==
  LET Share(s) == StrategyWeight[s] * Cardinality({d \in Details : d.strategy = s})
      total == Share("direct") + Share("global") + Share("coverage") + Share("dependency")
                 + Share("correlation") + Share("convention")
      n == Cardinality(Details) IN
  IF n = 0 THEN 100 ELSE (2 * total + n) \div (2 * n)

primaryStrategy ==
  LET used == {d.strategy : d \in Details} IN
  CASE Cardinality(used) > 1 -> "mixed"
    [] used = {"direct"} -> "direct"
    [] used = {"correlation"} -> "correlation"
    [] used = {"global"} -> "global"
    [] OTHER -> "convention"

\* Of the tests that failed, those the selection ran and those it missed
evaluateSelection(failed) ==
  LET chosen == asked.selected IN
  IF RunsAll THEN [hit |-> failed, missed |-> {}, needless |-> {}]
  ELSE [hit |-> failed \cap chosen, missed |-> failed \ chosen, needless |-> chosen \ failed]
Recall(result) ==
  LET n == Cardinality(result.hit) + Cardinality(result.missed) IN
  IF n = 0 THEN 100 ELSE (100 * Cardinality(result.hit)) \div n

\* The rules that explain a selection when no model does
generateRuleBasedSummary ==
  [summary |-> IF RunsAll THEN "all" ELSE IF asked.selected = {} THEN "none" ELSE "some",
   advice |-> (IF calculateConfidence < 70 /\ asked.selected # {} THEN {"run the full suite"} ELSE {})
       \cup (IF calculateConfidence >= 85 THEN {"safe to run only these"} ELSE {})
       \cup (IF \E d \in Details : d.strategy = "convention" THEN {"upload coverage"} ELSE {})]

\* A global file selects everything.  Otherwise every changed test file is run or
\* reported as quarantined, every changed source file leads to a test, whatever
\* lookups failed, were stale or found nothing, and the answer says how it came
\* to each test it names (TestImpactService.getTestsForChanges, strategies 1 to 6).
AnswersAreComplete ==
  Answered =>
    /\ RunsAll = (ToSet(asked.files) \cap Config # {})
    /\ ~RunsAll =>
         /\ ToSet(asked.files) \cap Suite \subseteq asked.selected \cup asked.excluded
         /\ \A f \in ToSet(asked.files) \cap Source :
              (~asked.options.validate \/ ToSet(Candidate[f]) \cap Suite # {})
                => \E d \in asked.details : d.file = f /\ d.tests # {}
         /\ asked.selected \cup asked.excluded = UNION {d.tests : d \in Details}
         /\ asked.selected \cap asked.excluded = {}

\* What is made of an answer agrees with it: nothing but convention gives no more
\* than medium confidence, an explanation never calls such a selection safe, a
\* selection has missed a failing test exactly when its recall is not perfect,
\* and a quarantined test that fails counts as missed (SelectionAccuracyService,
\* SelectionExplainerService).
VerdictsAgree ==
  Answered =>
    /\ primaryStrategy = "global" <=> RunsAll
    /\ (\A d \in Details : d.strategy = "convention") /\ Details # {}
         => calculateConfidence = 70 /\ generateRuleBasedSummary.advice = {"upload coverage"}
    /\ \A failed \in SUBSET (Suite \cup asked.selected) :
         LET result == evaluateSelection(failed) IN
         /\ (Recall(result) < 100) = (result.missed # {})
         /\ ~RunsAll => failed \ asked.selected = result.missed

SelectionTypeOK ==
  /\ GraphTypeOK
  /\ coverage \in SUBSET [test : Suite, source : Source, recent : BOOLEAN]
  /\ related \in SUBSET [file : ChangedFile, test : Suite, strong : BOOLEAN]
  /\ cofailing \in SUBSET (Suite \X Suite)
  /\ quarantined \in SUBSET Suite /\ turns \in 0..TurnBound
  /\ asked.at \in {"idle", "files", "dependency", "loading", "convention", "exclude", "answered"}

\* The answers of smart selection are complete whatever its lookups run into, and the
\* graph they come from is true.
SelectionInv == SelectionTypeOK /\ GraphIsTrue /\ AnswersAreComplete
=============================================================================
