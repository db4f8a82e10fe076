------------------------------ MODULE McpServer ------------------------------
(***************************************************************************)
(* The server that offers the program's figures to other agents as nine    *)
(* tools (mcp-server/).  It shares no code with the backend, but reads and *)
(* writes its database with SQL of its own.  A call is parsed, makes its   *)
(* queries one after the other and is answered; calls overlap.             *)
(***************************************************************************)
EXTENDS Integers, SequencesExt

CONSTANTS
  Agent,       \* calls that agents make
  Failure,     \* failures of tests they ask about: [test, message], a message a set of keywords
  RunTables,   \* contents of test_runs, latest first: [pipeline, status, duration, age]
  ResultTables,\* contents of test_results, latest first: [test, message, status, pipeline, age]
  MeterBound,  \* uses of AI that the backend meters meanwhile
  UnluckyBound  \* queries that are not answered

VARIABLES
  tables,    \* the database is as the backend migrates it, or as the server's README has it
  knowledge, \* rows of failure_records, oldest first
  metered,   \* rows of ai_usage
  mcpCall,   \* per call: its tool and input, what its queries brought, its answer
  unlucky    \* queries that were not answered

mcpVars == <<tables, knowledge, metered, mcpCall, unlucky>>
-----------------------------------------------------------------------------
\* What each tool parses its input with, and what it is listed with
Fields(required, defaults) == [required |-> required, defaults |-> defaults]
NoFields == Fields({}, <<>>)
Described == {"testName", "errorMessage"}

AnalyzeInputSchema == Fields(Described, <<>>)
BatchAnalyzeInputSchema == Fields({}, [maxFailures |-> 20, priorityThreshold |-> 70])
SearchKnowledgeInputSchema == Fields({"query"}, [limit |-> 10, onlyResolved |-> TRUE])
AddKnowledgeInputSchema ==
  Fields(Described \union {"category", "resolution", "resolvedBy"}, <<>>)
GetPipelineStatsInputSchema == Fields({}, [limit |-> 10, daysBack |-> 30])
GetTestHistoryInputSchema == Fields({"testName"}, [daysBack |-> 90, limit |-> 20])
GetCostStatsInputSchema == NoFields

InputSchema ==
  [testops_analyze_failure |-> AnalyzeInputSchema,
   testops_batch_analyze |-> BatchAnalyzeInputSchema,
   testops_search_knowledge |-> SearchKnowledgeInputSchema,
   testops_add_knowledge |-> AddKnowledgeInputSchema,
   testops_get_knowledge_stats |-> NoFields,
   testops_get_pipeline_stats |-> GetPipelineStatsInputSchema,
   testops_get_test_history |-> GetTestHistoryInputSchema,
   testops_get_cost_stats |-> GetCostStatsInputSchema,
   testops_health_check |-> NoFields]

analyzeToolDefinition == Fields({"testName", "errorMessage"}, <<>>)
batchAnalyzeToolDefinition == Fields({}, [maxFailures |-> 20, priorityThreshold |-> 70])
searchKnowledgeToolDefinition == Fields({"query"}, [limit |-> 10, onlyResolved |-> TRUE])
addKnowledgeToolDefinition ==
  Fields({"testName", "errorMessage", "category", "resolution", "resolvedBy"}, <<>>)
getKnowledgeStatsToolDefinition == NoFields
getPipelineStatsToolDefinition == Fields({}, [limit |-> 10, daysBack |-> 30])
getTestHistoryToolDefinition == Fields({"testName"}, [daysBack |-> 90, limit |-> 20])
getCostStatsToolDefinition == NoFields
healthCheckToolDefinition == NoFields

tools ==
  [testops_analyze_failure |-> analyzeToolDefinition,
   testops_batch_analyze |-> batchAnalyzeToolDefinition,
   testops_search_knowledge |-> searchKnowledgeToolDefinition,
   testops_add_knowledge |-> addKnowledgeToolDefinition,
   testops_get_knowledge_stats |-> getKnowledgeStatsToolDefinition,
   testops_get_pipeline_stats |-> getPipelineStatsToolDefinition,
   testops_get_test_history |-> getTestHistoryToolDefinition,
   testops_get_cost_stats |-> getCostStatsToolDefinition,
   testops_health_check |-> healthCheckToolDefinition]
-----------------------------------------------------------------------------
\* The tables as the backend migrates them
Migrated ==
  [test_runs |->
     {"id", "pipelineId", "userId", "name", "status", "startedAt", "completedAt", "duration",
      "totalTests", "passed", "failed", "skipped", "flaky", "branch", "commit", "buildNumber",
      "metadata", "createdAt", "updatedAt"},
   pipelines |->
     {"id", "name", "type", "repository", "branch", "config", "enabled", "lastRunAt", "teamId",
      "createdAt", "updatedAt"},
   test_results |->
     {"id", "testRunId", "name", "className", "status", "duration", "error", "stackTrace",
      "createdAt", "updatedAt"}]
MigratedUsage ==
  [ai_usage |->
     {"id", "provider", "model", "feature", "promptTokens", "completionTokens", "totalTokens",
      "cost", "userId", "metadata", "createdAt"}]

\* The tables and columns that the queries name
KnowledgeNames ==
  [failure_records |->
     {"test_name", "error_message", "stack_trace", "category", "resolution", "resolved_by",
      "resolved_at", "ticket_url", "pipeline", "branch", "created_at", "updated_at"}]
LoadNames ==
  [test_results |-> {"name", "error_message", "stack_trace", "logs", "test_run_id", "status",
                     "created_at"},
   test_runs |-> {"id", "branch", "pipeline_id"}, pipelines |-> {"id", "name"}]
RunNames ==
  [pipelines |-> {"id", "name", "type"},
   test_runs |-> {"id", "status", "started_at", "duration", "failed", "total_tests", "pipeline_id"}]
CommonNames ==
  [test_results |-> {"test_name", "created_at", "test_run_id", "status"},
   test_runs |-> {"id", "pipeline_id"}]
HistoryNames ==
  [test_results |-> {"id", "status", "created_at", "error_message", "test_name", "test_run_id"},
   test_runs |-> {"id", "branch", "pipeline_id"}, pipelines |-> {"id", "name"}]
UsageNames == [ai_usage |-> {"timestamp", "feature", "total_tokens", "cost_usd"}]

Names ==
  [similar |-> KnowledgeNames, search |-> KnowledgeNames, insert |-> KnowledgeNames,
   total |-> KnowledgeNames, resolved |-> KnowledgeNames, categories |-> KnowledgeNames,
   recent |-> KnowledgeNames, sum |-> UsageNames, breakdown |-> UsageNames,
   dearest |-> UsageNames, load |-> LoadNames, runs |-> RunNames, common |-> CommonNames,
   results |-> HistoryNames, ping |-> <<>>]

\* PostgreSQL refuses a query that names what there is not
Possible(q) ==
  \/ tables = "described"
  \/ \A t \in DOMAIN Names[q] :
       \/ t \in DOMAIN Migrated /\ Names[q][t] \subseteq Migrated[t]
       \/ t \in DOMAIN MigratedUsage /\ Names[q][t] \subseteq MigratedUsage[t]
-----------------------------------------------------------------------------
\* The queries of each tool; the last one is made once for every failure of a batch,
\* and for every pipeline
Queries ==
  [testops_analyze_failure |-> <<"similar">>,
   testops_batch_analyze |-> <<"load", "similar">>,
   testops_search_knowledge |-> <<"search">>,
   testops_add_knowledge |-> <<"insert">>,
   testops_get_knowledge_stats |-> <<"total", "resolved", "categories", "recent">>,
   testops_get_pipeline_stats |-> <<"runs", "common">>,
   testops_get_test_history |-> <<"results">>,
   testops_get_cost_stats |-> <<"sum", "breakdown", "dearest">>,
   testops_health_check |-> <<"ping">>]

\* A query whose failure its tool answers as if nothing had been found
Tolerated == {"similar", "common", "ping"}

\* The first n of a sequence, as Array.slice(0, n) has them
Slice(s, n) == SubSeq(s, 1, IF n < 0 THEN Len(s) + n ELSE IF n < Len(s) THEN n ELSE Len(s))
First(s, n) == SubSeq(s, 1, IF n < Len(s) THEN n ELSE Len(s))
\* The n latest of the rows S of knowledge
Latest(S, n) == {i \in S : Cardinality({j \in S : j > i}) < n}
Added(s) ==
  LET upTo[n \in 0..Len(s)] == IF n = 0 THEN 0 ELSE upTo[n - 1] + s[n] IN upTo[Len(s)]
SumOf(s, Of(_)) == Added([i \in DOMAIN s |-> Of(s[i])])
Quotient(n, d) == (2 * n + d) \div (2 * d)

FindSimilarRecords(test) ==
  Latest({i \in DOMAIN knowledge : knowledge[i].test = test /\ knowledge[i].resolved}, 5)

searchKnowledgeTool(in) ==
  LET Fits(i) ==
        /\ in.onlyResolved => knowledge[i].resolved
        /\ "category" \in DOMAIN in => knowledge[i].category = in.category
        /\ in.query = knowledge[i].test
  IN Latest({i \in DOMAIN knowledge : Fits(i)}, in.limit)

loadFailuresFromTestRun(rs) ==
  LET failed == SelectSeq(rs, LAMBDA r : r.status = "FAILED")
  IN [i \in DOMAIN failed |-> [test |-> failed[i].test, message |-> failed[i].message]]

\* Runs without a start in the window are left out, and with them their pipelines
PipelineRuns(in, rs) ==
  SelectSeq(rs, LAMBDA r : r.age <= in.daysBack /\
                           ("pipelineId" \in DOMAIN in => r.pipeline = in.pipelineId))

getCommonFailures(p, days, rs) ==
  LET failed == {i \in DOMAIN rs :
                   rs[i].pipeline = p /\ rs[i].status = "FAILED" /\ rs[i].age <= days}
  IN {[test |-> t, count |-> Cardinality({i \in failed : rs[i].test = t})] :
        t \in {rs[i].test : i \in failed}}

ResultsOf(in, rs) ==
  First(SelectSeq(rs, LAMBDA r : r.test = in.testName /\ r.age <= in.daysBack), in.limit)

UsageByFeature ==
  {[feature |-> f,
    cost |-> SumOf(metered, LAMBDA u : IF u.feature = f THEN u.cost ELSE 0)] :
     f \in {metered[i].feature : i \in DOMAIN metered}}

Dearest ==
  LET Above(i) == {j \in DOMAIN metered : metered[j].cost > metered[i].cost}
  IN {i \in DOMAIN metered : Cardinality(Above(i)) < 10}

\* Pipelines of the runs that were found
PipelinesOf(rs) == SetToSeq({rs[i].pipeline : i \in DOMAIN rs})

\* The failures a batch takes on, and those it analyses, without their logs: one that
\* was stored without a message is refused by the analysis and skipped
Chosen(in, got) == Slice(got[1], in.maxFailures)
Analyzable(in, got) == SelectSeq(Chosen(in, got), LAMBDA f : f.message # {"absent"})

\* What a query can bring.  Nobody but the backend writes the runs and the results.
Brings(q, in, got) ==
  CASE q = "similar" ->
         {FindSimilarRecords(IF got = <<>> THEN in.testName ELSE Analyzable(in, got)[Len(got)].test)}
    [] q = "search" -> {searchKnowledgeTool(in)}
    [] q = "load" -> {loadFailuresFromTestRun(rs) : rs \in ResultTables}
    [] q = "total" -> {Len(knowledge)}
    [] q = "resolved" -> {Cardinality({i \in DOMAIN knowledge : knowledge[i].resolved})}
    [] q = "categories" ->
         {{[category |-> k, count |-> SumOf(knowledge, LAMBDA e : IF e.category = k THEN 1 ELSE 0)] :
             k \in {knowledge[i].category : i \in DOMAIN knowledge}}}
    [] q = "recent" -> {Latest(DOMAIN knowledge, 5)}
    [] q = "runs" -> {PipelineRuns(in, rs) : rs \in RunTables}
    [] q = "common" ->
         {getCommonFailures(PipelinesOf(got[1])[Len(got)], in.daysBack, rs) : rs \in ResultTables}
    [] q = "results" -> {ResultsOf(in, rs) : rs \in ResultTables}
    [] q = "sum" -> {SumOf(metered, LAMBDA u : u.cost)}
    [] q = "breakdown" -> {UsageByFeature}
    [] q = "dearest" -> {Dearest}
    [] q = "ping" -> {"healthy"}
    [] OTHER -> {Len(knowledge) + 1}
-----------------------------------------------------------------------------
\* Answers, in thousandths of a dollar, hundredths of a score and tenths of a percent
Keywords ==
  <<[word |-> "timeout", category |-> "TIMEOUT", confidence |-> 90],
    [word |-> "network", category |-> "INFRASTRUCTURE_ISSUE", confidence |-> 85],
    [word |-> "null", category |-> "APPLICATION_BUG", confidence |-> 80],
    [word |-> "selector", category |-> "FLAKY_TEST", confidence |-> 75],
    [word |-> "none", category |-> "UNKNOWN", confidence |-> 50]>>

categorizeMessage(message) ==
  SelectSeq(Keywords, LAMBDA k : k.word \in message \union {"none"})[1]

\* The search is charged for even when it has failed; so is a summary that nobody made
analyzeTool(in, alike) ==
  LET logs == IF "logs" \in DOMAIN in THEN in.logs ELSE 0
      guess == categorizeMessage(in.errorMessage)
  IN [category |-> guess.category, confidence |-> guess.confidence, similar |-> alike,
      summarized |-> logs > 100,
      cost |-> 15 + (IF logs > 100 THEN Quotient(3 * ((logs + 3) \div 4), 1000) ELSE 0)]

detectPatterns(analyses) ==
  LET Of(k) == SelectSeq(analyses, LAMBDA a : a.category = k)
  IN {[category |-> k, count |-> Len(Of(k)),
       examples |-> LET s == First(Of(k), 3) IN [i \in DOMAIN s |-> s[i].test]] :
        k \in {analyses[i].category : i \in DOMAIN analyses}}

Priority(a, threshold) ==
  IF \/ a.category \in {"INFRASTRUCTURE_ISSUE", "TIMEOUT"}
     \/ a.category = "APPLICATION_BUG" /\ a.confidence >= threshold THEN "high"
  ELSE IF a.category = "FLAKY_TEST" \/ a.confidence < 50 THEN "low" ELSE "medium"

prioritizeFailures(analyses, threshold) ==
  [p \in {"high", "medium", "low"} |-> SelectSeq(analyses, LAMBDA a : Priority(a, threshold) = p)]

generateSummary(patterns) ==
  [top |-> {p \in patterns : \A other \in patterns : p.count >= other.count},
   distinct |-> Cardinality(patterns)]

batchAnalyzeTool(in, got) ==
  LET chosen == Analyzable(in, got)
      Analyzed(i) ==
        LET a == analyzeTool([testName |-> chosen[i].test, errorMessage |-> chosen[i].message],
                             got[i + 1])
        IN [test |-> chosen[i].test, category |-> a.category, confidence |-> a.confidence,
            similar |-> a.similar, summarized |-> a.summarized, cost |-> a.cost]
      analyses == [i \in DOMAIN chosen |-> Analyzed(i)]
  IN [total |-> Len(Chosen(in, got)), analyzed |-> Len(analyses),
      summary |-> generateSummary(detectPatterns(analyses)),
      patterns |-> detectPatterns(analyses),
      priorities |-> prioritizeFailures(analyses, in.priorityThreshold),
      cost |-> SumOf(analyses, LAMBDA a : a.cost)]

\* Of each pipeline the latest runs, how many of them passed and how long they took
PipelineStats(in, p, common, rs) ==
  LET latest == First(SelectSeq(rs, LAMBDA r : r.pipeline = p), in.limit)
      passed == SelectSeq(latest, LAMBDA r : r.status = "PASSED")
      timed == SelectSeq(latest, LAMBDA r : r.duration > 0)
  IN [pipeline |-> p, recent |-> latest, common |-> common,
      successRate |-> IF latest = <<>> THEN 0 ELSE Quotient(1000 * Len(passed), Len(latest)),
      avgDuration |-> IF timed = <<>> THEN 0
                      ELSE Quotient(SumOf(timed, LAMBDA r : r.duration), Len(timed))]

getPipelineStatsTool(in, got) ==
  {PipelineStats(in, PipelinesOf(got[1])[i], got[i + 1], got[1]) : i \in DOMAIN PipelinesOf(got[1])}

calculateFlakinessScore(rs) ==
  LET seen == First(rs, 20)
      n == Len(seen)
      failed == Len(SelectSeq(seen, LAMBDA r : r.status = "FAILED"))
      turns == Cardinality({i \in 2..n : seen[i].status # seen[i - 1].status})
  IN IF Len(rs) < 5 THEN 0
     ELSE (IF 5 * failed > n /\ 5 * failed < 4 * n THEN 50 ELSE 0) + Quotient(50 * turns, n - 1)

getTestHistoryTool(rs) ==
  LET failed == {i \in DOMAIN rs : rs[i].status = "FAILED"}
      Alike(m) == {i \in failed : rs[i].message = m}
  IN [totalRuns |-> Len(rs), failures |-> Cardinality(failed),
      flakinessScore |-> calculateFlakinessScore(rs), recent |-> First(rs, 10),
      patterns |-> {[message |-> rs[i].message, count |-> Cardinality(Alike(rs[i].message)),
                     lastOccurrence |-> CHOOSE a \in {rs[j].age : j \in Alike(rs[i].message)} :
                                          \A j \in Alike(rs[i].message) : a <= rs[j].age] :
                       i \in failed}]

\* Only the database is looked at
healthCheckTool(database) ==
  [database |-> database, aiProvider |-> TRUE, vectorDB |-> TRUE, cache |-> TRUE,
   healthy |-> database]

\* Four and three queries of as many moments
getKnowledgeStatsTool(got) ==
  [total |-> got[1], resolved |-> got[2], categories |-> got[3], recent |-> got[4]]
getCostStatsTool(got) == [total |-> got[1], breakdown |-> got[2], dearest |-> got[3]]

Value(tool, in, got) ==
  CASE tool = "testops_analyze_failure" -> analyzeTool(in, got[1])
    [] tool = "testops_batch_analyze" -> batchAnalyzeTool(in, got)
    [] tool = "testops_get_knowledge_stats" -> getKnowledgeStatsTool(got)
    [] tool = "testops_get_pipeline_stats" -> getPipelineStatsTool(in, got)
    [] tool = "testops_get_test_history" -> getTestHistoryTool(got[1])
    [] tool = "testops_get_cost_stats" -> getCostStatsTool(got)
    [] tool = "testops_health_check" -> healthCheckTool(got[1] = "healthy")
    [] OTHER -> got[1]

Complete(tool, in, got) ==
  CASE tool = "testops_batch_analyze" -> got # <<>> /\ Len(got) = 1 + Len(Analyzable(in, got))
    [] tool = "testops_get_pipeline_stats" -> got # <<>> /\ Len(got) = 1 + Len(PipelinesOf(got[1]))
    [] OTHER -> Len(got) = Len(Queries[tool])
-----------------------------------------------------------------------------
NotMade == [tool |-> "none", input |-> <<>>, got |-> <<>>, phase |-> "idle", reply |-> {},
            knew |-> {}, unheard |-> FALSE]

McpInit ==
  /\ tables \in {"migrated", "described"}
  /\ knowledge = <<>>
  /\ metered = <<>>
  /\ mcpCall = [c \in Agent |-> NotMade]
  /\ unlucky = 0

AnswerError(c) ==
  mcpCall' = [mcpCall EXCEPT ![c].phase = "failed", ![c].got = <<>>]

\* The queries of a call go on from what they brought so far
Continue(c, call) ==
  mcpCall' = [mcpCall EXCEPT ![c] =
    IF Complete(call.tool, call.input, call.got)
    THEN [call EXCEPT !.phase = "answered", !.got = <<>>,
                      !.reply = {Value(call.tool, call.input, call.got)}]
    ELSE call]

\* What is known for certain: entries whose addition has been answered
Acknowledged ==
  UNION {mcpCall[c].reply : c \in {d \in Agent : mcpCall[d].phase = "answered" /\
                                                 mcpCall[d].tool = "testops_add_knowledge"}}

\* What is left out has its default
Parsed(args, schema) ==
  [field \in DOMAIN args \union DOMAIN schema.defaults |->
     IF field \in DOMAIN args THEN args[field] ELSE schema.defaults[field]]

\* The input is parsed before anything else is done
CallTool(c, tool, args) ==
  /\ mcpCall[c].phase = "idle"
  /\ LET parsed == Parsed(args, InputSchema[tool])
         given == "failures" \in DOMAIN args /\ args.failures # <<>>
         call == [NotMade EXCEPT !.tool = tool, !.input = parsed, !.phase = "open",
                                 !.knew = Acknowledged]
     IN CASE \/ ~(InputSchema[tool].required \subseteq DOMAIN args)
             \/ tool = "testops_batch_analyze" /\ "testRunId" \notin DOMAIN args /\ ~given ->
               mcpCall' = [mcpCall EXCEPT ![c] = [call EXCEPT !.phase = "failed"]]
          [] tool = "testops_batch_analyze" /\ "testRunId" \notin DOMAIN args /\ given ->
               Continue(c, [call EXCEPT !.got = <<args.failures>>])
          [] OTHER -> mcpCall' = [mcpCall EXCEPT ![c] = call]
  /\ UNCHANGED <<tables, knowledge, metered, unlucky>>

CallUnknownTool(c) ==
  /\ mcpCall[c].phase = "idle"
  /\ mcpCall' = [mcpCall EXCEPT ![c].tool = "unknown", ![c].phase = "failed"]
  /\ UNCHANGED <<tables, knowledge, metered, unlucky>>

QueryOf(call) ==
  Queries[call.tool][IF Len(call.got) < Len(Queries[call.tool]) THEN Len(call.got) + 1
                     ELSE Len(Queries[call.tool])]

addKnowledgeTool(in) ==
  Append(knowledge, [test |-> in.testName, category |-> in.category, resolved |-> TRUE])

\* The database makes the query
Made(q, in) ==
  /\ Possible(q)
  /\ knowledge' = IF q = "insert" THEN addKnowledgeTool(in) ELSE knowledge

\* ... and its answer arrives
QueryAnswered(c) ==
  LET call == mcpCall[c]
      q == QueryOf(call)
  IN /\ call.phase = "open"
     /\ Made(q, call.input)
     /\ \E brought \in Brings(q, call.input, call.got) :
          Continue(c, [call EXCEPT !.got = Append(@, brought)])
     /\ UNCHANGED <<tables, metered, unlucky>>

Failed(c, q) ==
  IF q \in Tolerated
  THEN Continue(c, [mcpCall[c] EXCEPT !.got = Append(@, IF q = "ping" THEN "unhealthy" ELSE {}),
                                      !.unheard = TRUE])
  ELSE AnswerError(c)

\* ... or not, with or without an effect
QueryUnanswered(c) ==
  LET q == QueryOf(mcpCall[c])
  IN /\ mcpCall[c].phase = "open"
     /\ unlucky < UnluckyBound
     /\ unlucky' = unlucky + 1
     /\ Failed(c, q)
     /\ Made(q, mcpCall[c].input) \/ UNCHANGED knowledge
     /\ UNCHANGED <<tables, metered>>

QueryRefused(c) ==
  LET q == QueryOf(mcpCall[c])
  IN /\ mcpCall[c].phase = "open"
     /\ ~Possible(q)
     /\ Failed(c, q)
     /\ UNCHANGED <<tables, knowledge, metered, unlucky>>

\* The backend meters a use of AI meanwhile
UseMetered ==
  /\ tables = "described" /\ Len(metered) < MeterBound
  /\ metered' = Append(metered, [feature |-> "rca", cost |-> 3])
  /\ UNCHANGED <<tables, knowledge, mcpCall, unlucky>>
-----------------------------------------------------------------------------
\* Calls an agent may make: complete ones, ones that lack a field, ones past a limit
AskAbout(f) == [testName |-> f.test, errorMessage |-> f.message]
Entry(f) ==
  [testName |-> f.test, errorMessage |-> f.message,
   category |-> categorizeMessage(f.message).category, resolution |-> "fixed",
   resolvedBy |-> "somebody"]
Batch == SetToSeq(Failure)

Inputs ==
  [testops_analyze_failure |->
     {AskAbout(f) : f \in Failure} \union
     {[testName |-> Batch[1].test, errorMessage |-> Batch[1].message, logs |-> 5000],
      [testName |-> "alone"]},
   testops_batch_analyze |->
     {<<>>, [failures |-> <<>>], [testRunId |-> "run"], [failures |-> Batch]} \union
     {[failures |-> Batch, maxFailures |-> n] : n \in {-1, 0, 1}},
   testops_search_knowledge |->
     {<<>>, [query |-> Batch[1].test], [query |-> Batch[1].test, category |-> "UNKNOWN"],
      [query |-> Batch[1].test, onlyResolved |-> FALSE, limit |-> 1]},
   testops_add_knowledge |-> {Entry(f) : f \in Failure} \union {AskAbout(Batch[1])},
   testops_get_knowledge_stats |-> {<<>>},
   testops_get_pipeline_stats |-> {<<>>, [limit |-> 2, pipelineId |-> "nightly"]},
   testops_get_test_history |-> {<<>>, [testName |-> Batch[1].test]},
   testops_get_cost_stats |-> {<<>>},
   testops_health_check |-> {<<>>}]

McpNext ==
  \/ \E c \in Agent :
       \/ \E tool \in DOMAIN InputSchema : \E args \in Inputs[tool] : CallTool(c, tool, args)
       \/ CallUnknownTool(c)
       \/ QueryAnswered(c)
       \/ QueryUnanswered(c)
       \/ QueryRefused(c)
  \/ UseMetered
-----------------------------------------------------------------------------
RepliesOf(tool) ==
  UNION {mcpCall[c].reply :
           c \in {d \in Agent : mcpCall[d].tool = tool /\ mcpCall[d].phase = "answered"}}

\* Every failure of a batch has one pattern and one priority, whatever its query for
\* similar ones came to; no more are analysed than the caller allows, if it allows a number
\* (batch.ts:64-69,177-205); infrastructure comes first.
BatchesAddUp ==
  \A c \in Agent : mcpCall[c].tool = "testops_batch_analyze" => \A r \in mcpCall[c].reply :
    /\ r.analyzed = SumOf(SetToSeq(r.patterns), LAMBDA p : p.count)
    /\ r.analyzed = Len(r.priorities.high) + Len(r.priorities.medium) + Len(r.priorities.low)
    /\ mcpCall[c].input.maxFailures >= 0 => r.analyzed <= mcpCall[c].input.maxFailures
    /\ \A p \in r.patterns :
         p.category \in {"INFRASTRUCTURE_ISSUE", "TIMEOUT"} => Len(r.priorities.high) >= p.count

\* What the server said it has added, an analysis of the same test and a search that
\* begin afterwards find, unless a query failed, a filter excludes it, or as many later ones
\* as the limit allows are found instead (knowledge.ts:122-172, analyze.ts:172-184).
AddedIsFound ==
  \A c \in Agent :
    LET call == mcpCall[c]
        Finds(hits, i, limit) == i \in hits \/ Cardinality({j \in hits : j > i}) >= limit
    IN
    /\ (call.tool = "testops_analyze_failure" /\ call.phase = "answered" /\ ~call.unheard) =>
         \A r \in call.reply : \A i \in call.knew :
           knowledge[i].test = call.input.testName => Finds(r.similar, i, 5)
    /\ (call.tool = "testops_search_knowledge" /\ call.phase = "answered") =>
         \A r \in call.reply : \A i \in call.knew :
           (call.input.query = knowledge[i].test /\ "category" \notin DOMAIN call.input) =>
             Finds(r, i, call.input.limit)

\* The figures of one answer are of different moments, and differ by what was added in
\* between and by nothing else (knowledge.ts:187-229, stats.ts:320-370).
FiguresOnlyGrow ==
  /\ \A r \in RepliesOf("testops_get_knowledge_stats") :
       /\ r.total <= SumOf(SetToSeq(r.categories), LAMBDA k : k.count)
       /\ r.resolved <= SumOf(SetToSeq(r.categories), LAMBDA k : k.count)
       /\ r.recent = {} => r.total = 0
  /\ \A r \in RepliesOf("testops_get_cost_stats") :
       /\ r.total <= SumOf(SetToSeq(r.breakdown), LAMBDA b : b.cost)
       /\ r.breakdown # {} => r.dearest # {}

\* A test whose runs all ended alike is not flaky and one that both failed and did not
\* is, given five runs; a pipeline succeeds always exactly if all its runs passed.
FiguresMean ==
  /\ \A r \in RepliesOf("testops_get_test_history") :
       r.totalRuns <= Len(r.recent) => (r.flakinessScore > 0) =
         (r.totalRuns >= 5 /\ \E i \in DOMAIN r.recent : r.recent[i].status # r.recent[1].status)
  /\ \A stats \in RepliesOf("testops_get_pipeline_stats") : \A p \in stats :
       (p.successRate = 1000) = (\A i \in DOMAIN p.recent : p.recent[i].status = "PASSED")

\* The server lists its tools with the very fields it parses, and with the tables that the
\* backend migrates, none of them works that is about the program's data: nothing is found
\* or stored, and only the check of health and what needs no table answers (README.md:281-292
\* lists tables as created by the migrations that they do not create).
OnlyWhatNeedsNoTable ==
  /\ tools = InputSchema
  /\ tables = "migrated" =>
       /\ knowledge = <<>>
       /\ \A c \in Agent : mcpCall[c].phase = "answered" =>
            mcpCall[c].tool \in {"testops_analyze_failure", "testops_batch_analyze",
                                 "testops_health_check"}
       /\ \A r \in RepliesOf("testops_analyze_failure") : r.similar = {}

McpInv ==
  /\ BatchesAddUp /\ AddedIsFound /\ FiguresOnlyGrow /\ FiguresMean /\ OnlyWhatNeedsNoTable
=============================================================================
