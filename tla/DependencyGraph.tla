--------------------------- MODULE DependencyGraph ---------------------------
(***************************************************************************)
(* The import graph behind smart test selection (DependencyGraphService):  *)
(* a graph in memory, its copy in the database, the build that scans one   *)
(* file after the other and persists the result, and the load that the     *)
(* first query starts while the graph is empty.  Nothing locks: builds     *)
(* overlap, and a load clears what they have added so far.                 *)
(*                                                                         *)
(* A file is imported under its path from the project's root, and scanned  *)
(* under the path the walk has given it, absolute when the root is.  The   *)
(* text of imports and the batches of 500 rows are abstracted.             *)
(***************************************************************************)
EXTENDS FiniteSets, SequencesExt

CONSTANTS
  Source,     \* files under src/ that are not tests
  Suite,      \* test files
  Code,       \* imports that the code may have: sets of pairs
  Builder,    \* calls of buildGraph, which may overlap
  FaultBound  \* bound: lookups and writes that fail

ASSUME GraphAssumption ==
  /\ IsFiniteSet(Source) /\ IsFiniteSet(Suite) /\ Source \cap Suite = {}
  /\ Code \subseteq SUBSET ((Source \cup Suite) \X Source)
  /\ FaultBound \in Nat

VARIABLES
  imports,  \* the code: pairs of a file and one it imports
  root,     \* how the walk names files
  graph,    \* edges in memory, the reverse of them included
  stored,   \* edges in the database
  build,    \* each build: where it is, the files to scan, the edges to insert
  loading,  \* what queries that found the graph empty have read and not yet received
  faults,
  ever,     \* history: edges that some scan has seen
  fresh,    \* history: edges that scans have added and no load has taken away since
  owed      \* history: edges that builds have persisted since the last deletion

graphData == <<imports, root, graph, stored, build, loading, ever, fresh, owed>>
graphVars == <<graphData, faults>>

Codebase == Source \cup Suite
Scanned(f) == IF root = "absolute" THEN [absolute |-> f] ELSE f
TestName == Suite \cup [absolute : Suite]
isTestFile(f) == f \in TestName

\* Imports of packages are skipped, and what cannot be read imports nothing
extractImports(f) == {g \in Source : <<f, g>> \in imports}
Edges(f, targets) == {<<Scanned(f), g>> : g \in targets}

BuildAt(at, todo, rows, due) == [at |-> at, todo |-> todo, rows |-> rows, due |-> due]
NoBuild == BuildAt("new", <<>>, {}, {})
BuildOver == BuildAt("over", <<>>, {}, {})

GraphTypeOK ==
  /\ imports \in SUBSET (Codebase \X Source)
  /\ root \in {"relative", "absolute"}
  /\ faults \in 0..FaultBound
  /\ DOMAIN build = Builder
  /\ \A b \in Builder : build[b].at \in {"new", "scan", "clear", "collect", "insert", "over"}

GraphInit ==
  /\ imports \in Code
  /\ root \in {"relative", "absolute"}
  /\ graph = {} /\ stored = {}
  /\ build = [b \in Builder |-> NoBuild] /\ loading = {}
  /\ faults = 0
  /\ ever = {} /\ fresh = {} /\ owed = {}

May(fault) == IF fault THEN faults < FaultBound /\ faults' = faults + 1 ELSE UNCHANGED faults
-----------------------------------------------------------------------------
\* The code changes, and with it what files import
EditImports ==
  /\ imports' \in Code \ {imports}
  /\ UNCHANGED <<root, graph, stored, build, loading, faults, ever, fresh, owed>>

\* Nothing keeps a build from beginning while another goes on
buildGraph(b) ==
  /\ build[b].at = "new"
  /\ build' = [build EXCEPT ![b] = BuildAt("scan", SetToSeq(Codebase), {}, {})]
  /\ UNCHANGED <<imports, root, graph, stored, loading, faults, ever, fresh, owed>>

\* One file: its edges join those of every build, earlier or under way
ScanFile(b) ==
  \E unreadable \in BOOLEAN :
    LET f == Head(build[b].todo)
        new == IF unreadable THEN {} ELSE Edges(f, extractImports(f)) IN
    /\ build[b].at = "scan" /\ build[b].todo # <<>>
    /\ unreadable => extractImports(f) # {}
    /\ May(unreadable)
    /\ graph' = graph \cup new /\ ever' = ever \cup new /\ fresh' = fresh \cup new
    /\ build' = [build EXCEPT ![b] =
                   BuildAt(IF Len(@.todo) = 1 THEN "clear" ELSE "scan", Tail(@.todo), {}, {})]
    /\ UNCHANGED <<imports, root, stored, loading, owed>>

\* deleteMany, which may fail; the failure is logged and the build succeeds
ClearStored(b) ==
  \E fails \in BOOLEAN :
    /\ build[b].at = "clear" /\ May(fails)
    /\ build' = [build EXCEPT ![b] = IF fails THEN BuildOver ELSE BuildAt("collect", <<>>, {}, {})]
    /\ stored' = IF fails THEN stored ELSE {}
    /\ owed' = IF fails THEN owed ELSE {}
    /\ UNCHANGED <<imports, root, graph, loading, ever, fresh>>

\* The rows are what is in memory when the deletion has been answered
CollectEdges(b) ==
  /\ build[b].at = "collect"
  /\ build' = [build EXCEPT ![b] = BuildAt("insert", <<>>, graph, fresh)]
  /\ UNCHANGED <<imports, root, graph, stored, loading, faults, ever, fresh, owed>>

\* createMany, which fails after some of its batches when a row is there already, put
\* there by a build that overlaps (edges are unique), or for any other reason
InsertEdges(b) ==
  LET rows == build[b].rows IN
  /\ build[b].at = "insert"
  /\ build' = [build EXCEPT ![b] = BuildOver]
  /\ \/ /\ rows \cap stored = {} /\ UNCHANGED faults
        /\ stored' = stored \cup rows /\ owed' = owed \cup build[b].due
     \/ /\ May(rows \cap stored = {}) /\ UNCHANGED owed
        /\ \E some \in SUBSET (rows \ stored) : some # rows /\ stored' = stored \cup some
  /\ UNCHANGED <<imports, root, graph, loading, ever, fresh>>
-----------------------------------------------------------------------------
\* loadFromDatabase reads the edges, and clears and fills the maps when they arrive.
\* A load that fails leaves them as they are.
AskEdges ==
  /\ graph = {}
  /\ loading' = loading \cup {stored}
  /\ UNCHANGED <<imports, root, graph, stored, build, faults, ever, fresh, owed>>

\* Several queries may have read the same edges
loadFromDatabase ==
  \E fails \in BOOLEAN, edges \in loading :
    /\ loading' \in {loading, loading \ {edges}} /\ May(fails)
    /\ graph' = IF fails THEN graph ELSE edges
    /\ fresh' = IF fails THEN fresh ELSE fresh \cap edges
    /\ UNCHANGED <<imports, root, stored, build, ever, owed>>

\* A restart forgets the graph and the builds
GraphRestarts ==
  /\ graph' = {} /\ loading' = {} /\ fresh' = {}
  /\ build' = [b \in Builder |-> IF build[b].at = "new" THEN NoBuild ELSE BuildOver]
  /\ UNCHANGED <<imports, root, stored, faults, ever, owed>>

\* Breadth-first from what was visited, against the edges
Reached(start, edges) ==
  LET importers(visited) == {e[1] : e \in {d \in edges : d[2] \in visited}}
      reach[visited \in SUBSET (start \cup {e[1] : e \in edges})] ==
        IF importers(visited) \subseteq visited THEN visited
        ELSE reach[visited \cup importers(visited)]
  IN reach[start]

getTransitiveDependents(f) == Reached({f}, graph) \ {f}
getTestsForFile(f) == {d \in getTransitiveDependents(f) : isTestFile(d)}

GraphNext ==
  \/ EditImports \/ AskEdges \/ loadFromDatabase \/ GraphRestarts
  \/ \E b \in Builder : \/ buildGraph(b) \/ ScanFile(b)
                        \/ ClearStored(b) \/ CollectEdges(b) \/ InsertEdges(b)
-----------------------------------------------------------------------------
\* However builds, loads and restarts interleave, the graph and its copy know no import
\* that no scan has seen; a load that arrives during a build takes from memory what was
\* scanned before it arrived and nothing that is scanned after it; and once a build has
\* persisted its edges, the database holds all that any build had scanned by then, but
\* for what a load had taken, until the next build deletes it (buildGraph,
\* persistGraph, loadFromDatabase; "Cache the graph in the database for persistence",
\* DependencyGraphService.ts:12).
GraphIsTrue ==
  /\ graph \cup stored \cup UNION loading \subseteq ever
  /\ fresh \subseteq graph
  /\ owed \subseteq stored
=============================================================================
