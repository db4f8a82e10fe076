----------------------------- MODULE MCServices -----------------------------
(***************************************************************************)
(* The parts of the program that share no state with one another, nor with *)
(* the copilot and the workflows, in one state machine.  An execution is   *)
(* one of one part; the others rest in an initial state, since to          *)
(* interleave two that share nothing adds states and shows nothing.        *)
(***************************************************************************)
EXTENDS FailureArchive, XraySync, OutsideCalls, JenkinsMonitor, ConfluencePublish, Tenancy,
        AiSpend, CopilotClient, BrowserCache, ProviderConfig, ContextBudget, SafeUpdate,
        HttpRoutes, McpServer, Analytics, CopilotAdvice, MCAiSettings

VARIABLE part  \* the one that moves; never changes

vars ==
  <<part, archiveVars, xrayVars, outsideVars, jenkinsVars, publishVars, tenancyVars, spendVars,
    clientVars, cacheVars, providerVars, budgetVars, updateVars, httpVars, mcpVars,
    analyticsVars, adviceVars, settingsVars>>

\* The tests of the database that the MCP server reads
TestFailures ==
  {[test |-> "login", message |-> {"timeout", "network"}], [test |-> "login", message |-> {}],
   [test |-> "cart", message |-> {"null"}], [test |-> "menu", message |-> {"selector"}]}

Result(test, message, status, age) ==
  [test |-> test, message |-> message, status |-> status, pipeline |-> "nightly", age |-> age]
ModelResults ==
  {<<>>,
   <<Result("login", {"timeout"}, "FAILED", 1), Result("cart", {"absent"}, "FAILED", 2),
     Result("menu", {"network"}, "FAILED", 40), Result("menu", {}, "PASSED", 100)>>,
   [i \in 1..5 |-> Result("login", {}, "FAILED", i)],
   [i \in 1..5 |-> Result("login", {}, IF i = 3 THEN "PASSED" ELSE "FAILED", i)]}

TestRun(pipeline, status, age) ==
  [pipeline |-> pipeline, status |-> status, duration |-> age, age |-> age]
ModelRuns ==
  {<<>>,
   <<TestRun("nightly", "PASSED", 0), TestRun("weekly", "FAILED", 3),
     TestRun("nightly", "PASSED", 7), TestRun("nightly", "FAILED", 20)>>}

ModelFailures ==
  {[kind |-> "flaky", severity |-> "LOW", categorized |-> TRUE],
   [kind |-> "unknown", severity |-> "CRITICAL", categorized |-> FALSE]}
\* All short series of few and of many failures, and those of around a week
ModelSeries ==
  UNION {[1..n -> {1, 2, 9}] : n \in 0..4} \union UNION {[1..n -> {1, 9}] : n \in 6..8} \union
  {[i \in 1..9 |-> i], [i \in 1..16 |-> IF i = 4 THEN 9 ELSE 1]}
ModelJudged ==
  LET Selection == [tp : {0, 2}, fp : {0, 1}, fn : {0, 1}, strategy : {"graph", "ALL"}, week : {1, 2}]
  IN UNION {[1..n -> Selection] : n \in 1..2}

\* Two beginnings, so that more are kept than the limit and one; two messages begin alike
Said(start, matches) == [start |-> start, matches |-> matches]
ModelMessages ==
  {Said("deploy", {"DEVOPS_ENGINEER"}), Said("long", {}),
   Said("long", {"SECURITY_ENGINEER", "TEST_ENGINEER"})}
ModelPins ==
  {<<>>, <<<<"GENERIC", 1>>, <<"GENERIC", 1>>>>, <<<<"own", 0>>, <<"LEAD", 2>>>>,
   [i \in 1..4 |-> <<"QA", i>>], [i \in 1..5 |-> <<"QA", i>>]}

\* Two windows: a large one, and one that the history alone can fill
ModelBudgets ==
  {[input |-> 9, system |-> 2, history |-> 4, tool |-> 2, tools |-> 4, user |-> 2],
   [input |-> 6, system |-> 2, history |-> 4, tool |-> 3, tools |-> 4, user |-> 1]}

\* Changes of settings: of one leaf of a section, of two leaves of two, and of a section
\* that is empty beside one that is not
ModelChanges ==
  {[cicd |-> [enabled |-> 1]], [cicd |-> [theme |-> 1], general |-> [theme |-> 1]],
   [cicd |-> <<>>, general |-> [enabled |-> 1, theme |-> 0]]}

\* What the process starts with: the demo mode; AI disabled and no key; and settings that
\* make the start fail when the provider has been built
StartsWith(on, flaw, p, k) == [enabled |-> on, flaw |-> flaw, choice |-> Using(p, k)]
DemoMode == StartsWith(TRUE, "none", "mock", NoKey)
ModelEnvironments ==
  LET p == CHOOSE q \in AIProvider : TRUE
  IN {DemoMode, StartsWith(FALSE, "none", p, NoKey),
      StartsWith(TRUE, "late", p, [for |-> p, by |-> "environment"])}

Parts ==
  {"archive", "xray", "outside", "jenkins", "confluence", "tenancy", "spend", "client", "cache",
   "provider", "budget", "update", "http", "mcp", "figures", "advice", "settings"}

Rests(p, rest) == IF part = p THEN TRUE ELSE rest

\* A part that rests has one initial state.  A run that is RUNNING at first is as
\* one that is PENDING, and one that has ended otherwise comes about by completion.
Init ==
  /\ part \in Parts
  /\ Rests("archive", isolation = "serializable" /\ unversioned = FALSE) /\ ArchiveInit
  /\ run = "PENDING" /\ XrayInit
  /\ Rests("outside", program = <<Find>>) /\ OutsideInit
  /\ JenkinsInit
  /\ Rests("confluence", document = [p \in Publisher |-> "rca"]) /\ PublishInit
  /\ TenancyInit
  /\ Rests("spend", pool = "stub") /\ SpendInit
  /\ ClientInit
  /\ Rests("cache", area = autonomyHooks /\ query = "autonomy") /\ CacheInit
  /\ Rests("provider", environment = DemoMode) /\ ProviderInit
  /\ BudgetInit /\ Rests("budget",
       budget.input = 9 /\ asked = [system |-> 1, history |-> <<>>, pinned |-> FALSE, user |-> 1])
  /\ Rests("update", mode = "report" /\ lockfile = [w \in Workspace |-> "head"]) /\ UpdateInit
  /\ Rests("http", target = [method |-> "GET", path |-> <<"health">>] /\ sender = Nobody
                     /\ content = "fits")
  /\ HttpInit
  /\ Rests("mcp", tables = "migrated") /\ McpInit
  /\ Rests("figures", series = <<>> /\ judged = <<>>) /\ AnalyticsInit
  /\ Rests("advice", aspect = "routing") /\ AdviceInit
  /\ Rests("settings", file = NoFile /\ environ = <<>> /\ hasKey = FALSE) /\ SettingsInit

\* Everything but the part that moves stays as it is
OthersRest ==
  /\ UNCHANGED part
  /\ Rests("archive", UNCHANGED archiveVars)
  /\ Rests("xray", UNCHANGED xrayVars)
  /\ Rests("outside", UNCHANGED outsideVars)
  /\ Rests("jenkins", UNCHANGED jenkinsVars)
  /\ Rests("confluence", UNCHANGED publishVars)
  /\ Rests("tenancy", UNCHANGED tenancyVars)
  /\ Rests("spend", UNCHANGED spendVars)
  /\ Rests("client", UNCHANGED clientVars)
  /\ Rests("cache", UNCHANGED cacheVars)
  /\ Rests("provider", UNCHANGED providerVars)
  /\ Rests("budget", UNCHANGED budgetVars)
  /\ Rests("update", UNCHANGED updateVars)
  /\ Rests("http", UNCHANGED httpVars)
  /\ Rests("mcp", UNCHANGED mcpVars)
  /\ Rests("figures", UNCHANGED analyticsVars)
  /\ Rests("advice", UNCHANGED adviceVars)
  /\ Rests("settings", UNCHANGED settingsVars)

Moves(p) == part = p /\ OthersRest

Archive == Moves("archive") /\ ArchiveNext
Xray == Moves("xray") /\ XrayNext
Outside == Moves("outside") /\ OutsideNext
Jenkins == Moves("jenkins") /\ JenkinsNext
Confluence == Moves("confluence") /\ PublishNext
Tenants == Moves("tenancy") /\ TenancyNext
Spend == Moves("spend") /\ SpendNext
Client == Moves("client") /\ ClientNext
Browser == Moves("cache") /\ CacheNext
Provider == Moves("provider") /\ ProviderNext
Window == Moves("budget") /\ BudgetNext
Script == Moves("update") /\ main
Server == Moves("http") /\ HttpNext
Mcp == Moves("mcp") /\ McpNext
Figures == Moves("figures") /\ AnalyticsNext
Advice == Moves("advice") /\ AdviceNext
Launch == Moves("settings") /\ SettingsNext

Next ==
  \/ Archive \/ Xray \/ Outside \/ Jenkins \/ Confluence \/ Tenants \/ Spend
  \/ Client \/ Browser \/ Provider \/ Window \/ Script \/ Server \/ Mcp \/ Figures
  \/ Advice \/ Launch

\* What the modules of the parts assume is fair of the one that moves
Fairness ==
  /\ WF_xrayVars(part = "xray" /\ XrayProgress)
  /\ WF_outsideVars(part = "outside" /\ OutsideProgress)
  /\ WF_jenkinsVars(part = "jenkins" /\ JenkinsProgress)
  /\ WF_updateVars(part = "update" /\ main)
  /\ WF_httpVars(part = "http" /\ HttpNext)

Spec == Init /\ [][Next]_vars /\ Fairness
-----------------------------------------------------------------------------
\* What the syncs of Xray, the monitors of Jenkins and the publishers of Confluence have
\* stored is true.
IntegrationsInv == XrayInv /\ JenkinsInv /\ PublishInv

\* What AI costs is accounted for and alerted once, and its provider and key are the ones
\* that were chosen, and what it runs on is what the documents say, or differs in known ways.
AssistantInv == SpendInv /\ ProviderInv /\ SettingsInv

\* The history that the model is sent is the longest recent part of the conversation that
\* its limit allows, and is counted; a question is routed, and prompts and suggestions are
\* offered, as they should be.
ConversationInv == BudgetInv /\ AdviceInv

\* A request over HTTP ends in its own route, past the guards it needs; and what is derived
\* from the archive and the database, for the dashboards, the metrics, the predictions and the
\* agents that use the MCP server, adds up.
AnswersInv == RoutesInv /\ McpInv /\ AnalyticsInv

\* What the browser holds of the server, the streams of the copilot and the cache of
\* queries, is what it was told.
BrowserInv == ClientInv /\ CacheInv

\* What is stored stands: a finished run stays finished, and as it was decided but for the
\* calls that had found it undecided; the execution of a run is forgotten only to an answer
\* that names none; a stored verdict, an edit in Confluence, a setting nobody changed, an
\* analysis that was saved with a version are not overwritten by a writer that has not seen
\* them.
WhatIsStoredStands ==
  /\ FinishedStaysFinished /\ FirstDecisionStands /\ ExecutionIsNotForgotten
  /\ VerdictStands /\ NoEditIsOverwritten /\ OtherSettingsStand
  /\ SaveKeepsWhatItReplaces /\ NobodyIsOverwritten

\* What is begun ends: the syncs of Xray, a request to another system, the watch of
\* a build, the update script; every request over HTTP is answered.
EverythingEnds ==
  []<>/\ NothingSyncs
      /\ part = "outside" => RequestIsOver
      /\ part = "jenkins" => RunIsSettled
      /\ part = "update" => ScriptIsOver
      /\ part = "http" => RequestIsAnswered
=============================================================================
