# TestOps Copilot in TLA+

TestOps Copilot is a Node/TypeScript backend (Express, Prisma on SQLite or PostgreSQL, Redis), a
React frontend and a small MCP server. It follows the runs of CI pipelines, archives test
failures, selects tests, heals pipelines, and has a copilot: a language model in a ReAct loop with
tools that read from and write to Jira, GitHub, Jenkins, Confluence, Azure DevOps and the backend
itself.

This directory models what its correctness rests on: order, overlap, failure, limits, and who may
do what. Paths below are relative to `backend/src/` unless they start with `frontend/`, `scripts/`,
`mcp-server/`, `specs/` or `docs/`. `PROJECT.json` maps every definition to the lines it models,
and lists the hazards of the code with the properties that cover them.

Contents: [the system](#the-system) · [the plan](#the-plan) · [modules](#modules) ·
[runs](#runs-and-bounds) · [properties](#the-properties-in-words) ·
[disagreements](#where-the-code-and-its-documents-disagree) · [fairness](#fairness) ·
[proofs](#proofs) · [limits](#what-is-not-modelled-or-not-proved) · [running](#running-it)

## The system

One Node process serves HTTP. Its state is a handful of singletons (a circuit breaker per external
service, the sync service's flag, the AI manager, caches) and rows in a database that several
processes may share. Handlers are asynchronous functions: between two awaits they are atomic, at
every await anything else may run. This decides the grain of every model: **an action is the code
between two awaits**, and what a handler remembers across an await is a variable.

| Component | State | Operations | Hard behaviour | What makes it correct |
|---|---|---|---|---|
| Resilience (`lib/resilience.ts`), around every external call | breaker state, counters, time of the last failure | `execute`, `onSuccess`, `onFailure`, `withRetry`, `withTimeout`, `reset` | calls admitted in one state settle in another; timeouts abandon calls that still run | counters agree with the state; it trips only on consecutive failures; one outcome per call; it recovers |
| Confirmation gate (`services/ai/ConfirmationService.ts`, `routes/ai/chat.ts`) | `PendingAction` rows | create, confirm or deny, expire | read, test, update by id: overlapping confirms; deletes and restarts in between | no unapproved tool call; at most one run; true replies; expiry |
| ReAct loop (`services/ai/AIChatService.ts`, `chat-helpers.ts`) | messages, counters, batch of calls; per request | prepare, ask the model, handle each call, stream events | any model answer, several calls per answer, failures of any step | autonomy and roles respected; a stored confirmation pauses the loop; well-formed conversation; one `done` |
| Autonomy (`AutonomyClassifier.ts`, `autonomy.service.ts`, `tools/`) | the user's level; the registry | classify a call, change the level | tables that have to agree with one another | writes run unasked only where the level says so |
| Sync and webhook (`github-sync.service.ts`, `routes/webhook.routes.ts`) | `test_runs` rows, the `syncing` flag | poll, upsert, serve a webhook | two writers per row; late, lost, repeated deliveries; restarts | a row shows what GitHub said and ends with the conclusion |
| Pipeline start and monitor (`github.service.ts`, `jenkins.service.ts`) | one row, one timer | create, dispatch, poll, give up | dispatch does not name its run; ticks overtake each other; restarts | polling ends; the row follows its run; a verdict stands |
| Self-healing (`self-healing.service.ts`, `healing-queries.service.ts`) | rules, events, quarantine, retry runs | evaluate, execute, retry, quarantine, fix, notify | check-then-act over many awaits; rules deleted meanwhile | bounded retries; conservative users only get suggestions; a true audit trail |
| Failure archive (`failure-archive.service.ts`, `failure-collaboration.service.ts`) | analyses, versions, revisions | report, document, document with version, resolve | version check without a lock beside an unversioned writer | no lost edit; versions count revisions |
| Test runs (`testRun.service.ts`) | status | cancel, retry, complete, delete | read, test, update by id | a finished run stays finished |
| Xray, Confluence publication | rows that name things elsewhere | sync a run; publish an analysis | overlapping and repeated requests, lost answers | a row names what exists; nobody's edit is overwritten |
| Clients (Jira, TestRail, Monday, Azure DevOps, GitHub, Jenkins, Confluence) | rows of created issues | sequences of calls inside `withResilience` | one step of several fails; a retried call had been carried out | success is whole; nothing made twice without a lost answer |
| Teams, settings, default dashboards | rows | role-checked updates | read-check-write without a lock | one owner; one default; no lost setting |
| AI providers (`ai/manager.ts`, `providers/`, `provider-config.service.ts`) | active provider, cache of objects, rows | choose, test, hot swap, restart | overlapping updates; keys of different owners; starts that fail early or late | the object is the configured one; keys stay with their provider |
| AI settings (`ai/config.ts`) | the loaded settings | load, validate, start, override | four layers that replace one another by section | no setting is lost unnoticed; services run on checked settings |
| AI features and costs (`ai/features/`, `cost-tracker.ts`) | usage rows, `alertSent` | analyse, record, alert | sum and flag across awaits | what was paid is recorded; an alert is due and sent once |
| Context window (`context-window-manager.ts`, `token-budget.ts`) | a tracker per request | truncate, prune, track | boundaries of budgets | the newest history is kept; results are bounded |
| Persona, prompts, suggestions | a cache of routings | route, resolve, suggest | staleness, a limit, answers of a model | routed by its rules; four prompts; suggestions that fit the result |
| Test selection, graph, regressions, flakiness (`services/test/`) | graph in memory and database, caches, events | build, load, select, record, evaluate | a load during a build; overlapping recordings; failing lookups | no lost edges; every change leads to tests; one open event per test |
| Sessions (`user`, `jwt`, `tokenBlacklist` services; `middleware/`; `frontend/src/api/client.ts`) | users, tokens, a blacklist in Redis and memory; the browser's copy | register, sign in and out, revoke, CSRF | Redis goes and comes, restarts, overlapping calls of a page | signed out stays signed out; the page shows the token's owner |
| HTTP (`app.ts`, `routes/`, `controllers/`, `middleware/`) | none | a chain of layers per request | order of layers and of routes | each request ends in its own route, with the guards it needs, and is answered |
| Dashboards, metrics, predictions | a ring buffer of times | query, aggregate | parts of an answer are of different moments; failing queries | figures add up; risks and trends are monotone and found |
| Frontend (`frontend/src/hooks/`) | messages, streams, a cache of queries | send, confirm, clear; fetch, mutate, invalidate | stale closures, aborted streams, late answers | one stream; a page shows what was changed on it |
| MCP server (`mcp-server/`) | a knowledge base in the database | nine tools | overlapping calls, failing queries, a schema of its own | figures of one answer agree; what was added is found |
| Update script (`scripts/safe-update.js`) | lockfiles of a tree | install, verify, repair, roll back | every command may fail half done | exit codes say what the tree is |

How they interact: the chat route reads the autonomy level and runs the loop, which calls tools
through the registry; tools call services, and services call out through the resilience layer.
A write tool that needs a human becomes a `PendingAction`, which a later HTTP request, possibly
in another process, confirms and executes. The sync, the webhook, the monitors and healing all
write `test_runs`; healing also reads the autonomy level. Deleting a chat session deletes its
messages and pending actions by cascade, whoever is using them. Selection reads the quarantine
that healing writes. The browser sends every request through the chain of layers.

## The plan

In the order of what it costs if it is wrong; everything below is done.

1. **CircuitBreaker**, which every external call passes.
2. **Confirmation** with its abstract specification **PendingAction**, the gate before every write.
3. **ReActLoop** over **Autonomy**, which decide what needs the gate.
4. **WorkflowRuns** with **WorkflowSync** and **WorkflowMonitor**, the data everything else shows.
5. **SelfHealing**, which acts without being asked.
6. **FailureArchive** with its abstract specification **EditLog**: `documentRCAWithLocking` at both
   isolation levels beside the unversioned `documentRCA`.
7. What is stored about other systems: **XraySync**, **TestRunControl** (composed on one run),
   **JenkinsMonitor**, **ConfluencePublish**, and every other integration as a program of
   **OutsideCalls**.
8. What the process holds for its users: **Tenancy**, **ProviderConfig**, **AiSettings**,
   **AiSpend**, **ContextBudget**, **CopilotAdvice**, **Sessions**.
9. What the browser holds: **CopilotClient**, **BrowserCache**.
10. Tests: **DependencyGraph** with **TestSelection**, **Regressions**, **FlakyTests**.
11. The edges: **HttpRoutes**, **McpServer**, **Analytics**, **SafeUpdate**.
12. **MCServices** and **MCTests** put parts that share no state into one state machine each.

Open: the composition of ReActLoop with Confirmation on one session, and of the sync with the
monitor and healing on one table (today each has the others' writes as disturbances); the chat
channels, once they keep state.

## Modules

A definition commented *Mutant* is a plausible bug in the definition that follows it. It is used
nowhere in the specification; substituting it for that definition must violate the property that
`PROJECT.json` pairs with it, which shows that the property says something about the code.

**CircuitBreaker** — `breaker.execute(withRetry(withTimeout(fn)))` for a set of callers. `state`,
`failures`, `halfOpenSuccesses`, `sinceFailure` are the fields of the class, with
`lastFailureTime` turned into an age that saturates at `resetTimeoutMs`; `pc`, `attempt`, `orphan`
are where a call is, its retry number, and whether an attempt that timed out is still running.
`probe`, `recorded`, `streak` are history. A backoff is a sleep that ends.

**PendingAction, Confirmation** — the first is what the documents promise: an action is decided once
or expires, and an approved one is carried out at most once by the request that approved it. The
second is the code: `FindAction` is `findUnique` and the two tests, `Decide` and `MarkExpired` the
two updates by id, `ToolReturns` and `ToolThrows` the tool, `SaveMessage` and `SaveMessageThrows`
the chat message and the catch that answers for both. Any query may be rejected, at any time;
saveMessage also when the message itself is stored and the title or the time of the session is not.
`DeleteSession` cascades, `Tick` ages, `Crash` loses the requests in flight. `Guarded` are the
actions whose tool makes only calls that time out. The constant `Overlap` says whether confirm
requests may be in flight together; with `FALSE` the module implements `PendingAction`.

**Autonomy, ReActLoop** — the tool files' flags and roles, the tier table, overrides, preference.
`WriteTool` is what changes something, `GatedTool` what is registered as needing confirmation; two
of the former (`HousekeepingTool`) are not among the latter. And one request: `ReadPreference`,
`Prepare`, then `ProviderEnds`, `RefuseCalls` (the limit) or `ProposeCalls` (any batch), and per
call `Refuse`, `Ask` or `Execute`. Streaming and buffered mode differ where the code differs. A call
says what the documents look at and the code may not: whether a comment is marked as a note, and a
build is one of production. The user may change the level or delete the session at any time.

**WorkflowRuns, WorkflowSync, WorkflowMonitor** — GitHub's side of a run with `mapGitHubStatus`, and
the production schema's enum, which has no `ERROR` (`Recordable`; variable `schema`). Runs are build
numbers; GitHub lists the newest first, a page at a time (`Page`), and a sync asks for one page
(`PageSize`, ten in the code). Poller and webhook are *upserters* of the same rows: fetch, find by
build number, write, each an await; a webhook may carry any state its run has been in, arrive late,
or never. `startPipeline` and `monitorWorkflowProgress`: a dispatch may be refused, or accepted
unanswered and repeated; a poll reads the newest run of the workflow, whoever created it. Between
the dispatch and the first poll, the row and the pipeline's `lastRunAt` are written one after the
other.

**SelfHealing** — `POST /healing/execute` from the match of a rule to the last update, one
database call per action, with people who delete rules, quarantine and reinstate the test,
failures and a crash. Which rule matches is any that exists.

**EditLog, FailureArchive** — the promise of `ROADMAP.md` that a save keeps the text it replaces,
and one row of the archive with its two writers. A text is the number of the save that wrote it.
`isolation` is the database's: read committed or serializable; `unversioned` says whether the
writer without a version takes part. `Strict` is where the promise is made.

**TestRunControl, XraySync** — `cancel`, `complete`, `retry`, `remove` on one run, each a read, a
test and a write by id; a completion starts, and does not await, a sync of the run. The sync finds
or creates its row, marks it SYNCING, imports (answers may be lost, imports retried, and an answer
may name no execution), and stores what the answer named, or null. History: `unnamed`, `overtaken`
(calls that had found the run undecided before it was decided).

**OutsideCalls** — every method of the integration services, the tools on them and their routes
as a program: the sequence of its awaits, each with how often it is tried, and whether it may be
skipped, fail and be tolerated, end the program, or hang without a timeout. One interpreter
carries them out under lost answers, refusals, timeouts and crashes.

**JenkinsMonitor, ConfluencePublish** — ticks of `setInterval` that start whether or not the last
was answered, until one that is counted finds the hour over; those still in flight then store what
they were told; publishers that look a page up by title, update or create it with the version they
saw, label it and insert the row that maps it.

**Tenancy** — members, owner and deletion of a team, the default dashboard, the settings as a
document of sections and leaves with `deepMerge`: requests read, decide and write by key.
**ProviderConfig** — the stored provider, the user's own, the hot swap of the manager, the
registry's cache and the connection test that goes through it; a process may start with AI disabled,
with settings that make the start fail before or after the provider is built, or without the key
that a constructor demands (the hot swap then keeps the object it had). **AiSettings** — the values
of a start: `DEFAULT_CONFIG`, the YAML file and the environment laid over one another section by
section as `loadConfig` does, `validate`, what `initialize` then builds or fails on, and the stored
choice that overrides three of them. A value is who gave it and whether it is nothing, little, much
or no number. **MCAiSettings** has its files and environments. **AiSpend** — every AI feature as its
awaits, what it pays for, records and alerts; a model may have no word for an enrichment
(`wordless`). **ContextBudget** — messages as sizes; what `prepareMessages`, `pruneHistory` and the
truncation of results leave of them, and what the tracker believes. **CopilotAdvice** — the routing
cache with its rules and the model, the prompts a conversation starts with, the suggestion after a
tool.

**CopilotClient** — `useAICopilot` with `abortRef`, `isStreaming`, confirmation cards and the
delayed follow-up, where a click sees the state as rendered and a timer the closure it captured.
**BrowserCache** — for each page the queries it shows and the mutations it offers, for each
mutation the keys it invalidates; React Query itself is external and modelled from its use.

**DependencyGraph, TestSelection** — the import graph in memory and its copy in the database, with
builds and loads that overlap as they will (nothing locks), a failing or a colliding insert, and
crashes; history says what any scan has seen (`ever`), what was scanned since the last load
(`fresh`) and what the database owes (`owed`); a request through the six strategies of
`getTestsForChanges` with its caches, correlated tests and quarantine, while coverage and results
arrive. **Regressions** — runs recorded and compared, events opened, resolved, confirmed; an event
remembers which ones there were when its recording looked (`looked`, history). **FlakyTests** — the
walk over a test's results, of any status.

**Sessions** — the browser's token, CSRF token and user; calls of one page that overlap; the
server's tokens, its blacklist in Redis and in memory; Redis failing, the process restarting.

**HttpRoutes** — `Chain` is the list of all layers of `app.ts` with every route of every router in
order; a request walks it. **McpServer** — the nine tools with their schemas, queries and answers,
over the tables as the backend migrates them and as the server's README has them. **Analytics** —
the queries of a dashboard, metrics, summary or search request answered in any order while the
archive changes, and the functions of their results. **SafeUpdate** — all modes and exits.

**MCServices, MCTests** — parts that share no state, in one state machine: the variable `part`
says which one moves, the others rest. An interleaving of two of them would show nothing that
each by itself does not.

## Runs and bounds

| Run | Instance | What it shows |
|---|---|---|
| `breaker` | 2 callers, thresholds 2, timeout 2, 1 retry, 5 failures | all breaker properties, safety and liveness |
| `confirm_overlap` | 3 actions (a tool whose calls time out, one with a call that may hang, one unknown), 2 requests, TTL 1, overlapping | what overlap, deletion, expiry and restarts cannot break; requests end |
| `confirm_serial` | 2 actions, 3 requests, one after the other | the code implements `PendingAction`; true audit trail |
| `confirm_twice` | 1 action, 2 requests | the tool runs twice (a disagreement) |
| `copilot` | 9 tools, 2 roles, 2 calls, 3 turns, batches of 2 | all properties of the loop |
| `wf_sync` | 2 runs, a page of one, 1 conclusion, 2 syncs, 1 webhook, 1 failure or restart | rows are honest and converge; one sync at a time |
| `wf_monitor` | 2 runs, 4 conclusions, 2 failures or restarts | polling ends; what strands a row |
| `wf_monitor_other` | the same | the row follows another run (a disagreement) |
| `healing` | 3 requests, 2 in flight, limit 1, 1 failure or crash; 2 source files and 2 tests, 2 overlapping builds, 1 fault; 4 runs of 2 pipelines; histories of 0, 4, 5 results of 3 statuses; 2 users, 2 page calls, 2 tokens | healing, import graph, selection, regressions, flakiness, sessions |
| `healing_limit` | the same requests | the limit is exceeded (a disagreement) |
| `confluence_republish` | 2 publishers, 1 edit elsewhere, 2 mishaps | a second publication fails (a disagreement) |
| `services` | see below | the seventeen parts of MCServices |

Why the bounds are enough to see the interesting cases:

- *CircuitBreaker.* Thresholds of two make "not yet" and "enough" different; two callers are what
  it takes for a result to arrive in a state its call was not admitted in. `FailureBound` only
  caps the counter: five failures pass through CLOSED, OPEN, HALF_OPEN and back more than once.
  It cannot make the liveness properties true by itself: while OPEN, only calls already in flight
  can fail, and there are two.
- *Confirmation.* Two requests overlap in every way, on one action or on two; the third request of
  the serial run is the one that comes back after a decision and an expiry.
- *ReActLoop.* The nine names are one tool per case the loop or the documents tell apart: a read
  without a timeout, a tier-1 write, a write whose arguments change its tier, a tier-3 write, a
  write that is registered as a read, three writes without a tier of their own (the documents give
  one of them tier 3, and a second when it builds production), and a name nobody registered. Two
  calls and three turns let a batch straddle the limit, be refused, and end on the iteration bound.
- *WorkflowSync.* Two runs and a page of one: the second pushes the first off the page, with the
  syncs and deliveries of the first in every state. Upserts of different builds touch different
  rows; two firings and a delivery give every overlap of two writers with a third in flight.
  `success` is a conclusion the enum has, and a run that waits has a status it lacks, so that its
  write is refused; `wf_monitor` has all conclusions.
- *WorkflowMonitor.* Its own run and somebody else's; `TwoFailuresStrandARow` needs two failures.
- *SelfHealing.* Two requests that overlap and one that comes after. Requests are symmetric and no
  liveness is checked in that run, so the symmetry set is sound.
- *FailureArchive, Xray, Confluence.* Two editors, syncs or publishers are what an overlap takes;
  two edits or imports, what a loss takes; one or two failures, what a retry takes. An edit in
  Confluence happens once.
- *OutsideCalls.* One program at a time, all of them; lists of at most two items; two troubles (a
  lost answer and a failure after it). *JenkinsMonitor:* an hour of three ticks, and four of them,
  so that one that started before its end, and one more, are in flight when it is over.
- *Tenancy.* Two users and three requests: an administrator's, one on him, and a deletion. Settings
  of two sections with two leaves; a change of one leaf, of one in each section, and one with an
  empty section.
- *AiSpend, ProviderConfig.* A threshold of one row, so that two analyses cross it together; two
  administrators, two providers with keys, one restart, three environments to start with
  (demo, disabled without a key, failing late). *AiSettings:* six files (none, the least, complete,
  off, contradictory) with eight environments that name one or two fields, with and without a key,
  and two restarts or updates; a section is lost by one field of another layer.
- *ContextBudget.* All messages of sizes up to three in histories of two, one pinned, in a large
  window and in one that history alone fills; two results pushed. *CopilotAdvice:* three
  questions, two of which begin alike, a cache limit of zero and a lifetime shorter than the one
  minute that passes, so that two entries exceed the limit and an entry lapses; lists of pins from
  none to five.
- *CopilotClient, BrowserCache.* Two messages; one query (any of them) with every page, two
  changes and one failure: queries do not depend on each other.
- *Analytics.* Two kinds of failure, one recurrence, one day, all short series of days and those
  around a week; judged selections up to two. *McpServer:* two agents, four failures, histories of
  five results on both sides of the flakiness threshold.
- *HttpRoutes.* Every target of every router, once, with every kind of sender.
- *Tests.* Two files of which one imports the other give a transitive import; two builds that
  overlap, loads whenever one may arrive. Four runs of two pipelines: a regression on one while the
  other recovers.
- *Sessions.* Two users on one page with two calls and two tokens; Redis fails, or the process
  restarts, once.

`CHECK_DEADLOCK FALSE` is set where the modelled world may come to rest: Confirmation has finitely
many requests, one pipeline is started once, and the parts of MCServices, MCTests and
ConfluencePublish end when their bounded work is done. The other modules always have a step.

## The properties in words

`CircuitBreaker`: a closed circuit is below its threshold, recoveries start from zero, an open
circuit has the failures that opened it (`CountersFitState`); one outcome per admitted call,
whatever its retries and late answers (`OneOutcomePerCall`); it trips only on consecutive failures
(`TripsOnConsecutiveFailures`); OPEN and HALF_OPEN are left (`OpenIsTemporary`,
`RecoveryIsDecided`).

`Confirmation`: only approved tools run, for the request that approved them, and only old actions
expire (`ConfirmationInv`); whoever is told "resolved" got what it asked for, and it is on record;
whoever is told "rejected" has approved and run nothing; "execution failed" is told only to one who
approved, and is false only when the tool ran and saving the message was rejected
(`RepliesAreTrue`); a request ends, unless its process stops or its tool waits for ever in a call
without a timeout (`RequestsEnd`); serially also `ImplementsGate` and `AuditMatchesExecution`.

`ReActLoop`: a write that runs unasked has a tier *in the documents* that the user's level, or the
channel, lets run unasked, but for the three cases that `MoreThanDocumented` names, and roles are
respected (`ToolsAreAllowed`); the loop stops exactly when a confirmation is stored, with one `done`
(`LoopPauses`); the model never sees a tool call without its tool message
(`ConversationIsWellFormed`); fewer than the limit plus one batch of calls run (`RunsBounded`); it
ends, or waits for ever in one call that has no timeout (`RequestEnds`).

`WorkflowSync`: a row shows only what GitHub said of that build (`RowsAreHonest`); syncs do not
overlap (`SyncInv`); the poller alone never takes a conclusion back (`ConclusionsStand`); a
concluded run's row ends with the conclusion, for good, if the column can hold it and newer runs do
not push it off the page a sync asks for (`RowsConverge`). `WorkflowMonitor`: it ends, or waits for
good for one poll that is not answered (`MonitorEnds`); with a column that takes ERROR it takes two
failures to leave a finished monitor's row unfinished (`MonitorInv`).

`SelfHealing`: in an hour, retries exceed the limit by at most the overlap and by the retries
whose event a failure spoiled (`HealingInv`); conservative users only get suggestions
(`ConservativeOnlySuggests`); events tell the truth (`EventsTellTheTruth`); a reported quarantine
holds unless somebody freed the test meanwhile (`QuarantineTakesEffect`).

`FailureArchive` (`ArchiveInv`, `ImplementsEditLog`, part of `WhatIsStoredStands`): the version
counts revisions at any isolation level; where every edit takes part in the check and transactions
are serializable, revisions are numbered, no text is lost and nobody replaces a text his form did
not show; in any serializable database a save with a version keeps what it replaces.

`TestRunControl`, `XraySync`, `JenkinsMonitor`, `ConfluencePublish` (`IntegrationsInv`,
`WhatIsStoredStands`): a finished run stays finished, and its first decision is overwritten only by
calls that had found it undecided before; SYNCED names an execution, or none because a sync of that
row was answered without a key, which is also the only way an execution is forgotten; serial syncs
share a row and, when nothing was lost, an execution, and nothing is left SYNCING; a verdict is
true, one that a late tick stores after the hour is taken back, and within the hour PASSED stands
unless a tick that asked earlier fails later; a published page exists and is mapped, and no edit is
overwritten.

`OutsideCalls` (`ClientsAreTrue`): the rows that Jira, Jenkins and Confluence clients keep speak only
of what was made or changed there; what an operation announces as made or changed was; the clients
without retries make nothing twice and the others only after a lost answer; and where the row is
written last, an operation that is answered as failed has left none that a repetition would stand
beside.

`Tenancy` (`TenancyInv`): one owner per team, no members of one that is gone, at most one default
dashboard unless two changes overlapped; a change of settings shows the leaves it names as it names
them, and every other as it was stored unless two overlapped.

`AssistantInv`: paid is recorded, but for a model without a word and for searches; alerts are due;
of the analyses that reckon alone one alerts; a month past the threshold has set the flag, though
others overlap and mails fail, unless its reckoning was lost (AiSpend); the manager's object is the
configured one, keys are never used at another provider unless one was changed without a key, and
whatever overlapped before, the stored row is in force from the next change that overlaps no other,
or the next restart that reads it, but for objects that could not be made for want of a key and
starts that failed (ProviderConfig); a setting is the documented one, or one of the five ways it can
be lost has happened (the fifth is a `localModel` whose switch is off), services run on checked
settings, features that are on are served and a chat let in has a provider, but for starts that
failed or found AI disabled (AiSettings). `ConversationInv`: the history sent is the longest recent
part that fits, the tracker knows what is sent up to fixed overheads, results are bounded
(ContextBudget); a routing is decided anew only if none that begins alike is fresh, prompts are four
and ordered, and exactly which suggestions ever appear (CopilotAdvice).

`BrowserInv`: at most one stream is live, the spinner tells the truth, what was cleared stays
cleared (CopilotClient); a page shows what was changed on it once nothing is under way, and
nothing the server never had (BrowserCache).

`UpdateInv`: exit 0 means a verified tree, and so does 1 unless the report could not be written; a
report touches nothing, 3 is the last commit's lockfiles where git could restore them.

`AnswersInv`: a request never ends in another route's handler; what others see is changed by editors
and signed events alone, save by the routes named in the property; who has what a route asks for is
served, save by three parts named there; mistakes are told as such (HttpRoutes). Figures of one
answer, taken at different moments, differ by what happened in between and no more; risks, series,
trends and anomalies have the relations one expects of them; the accuracy on the dashboard is no
more than the share of the failures that is categorized, unless a report overtook the queries
(Analytics). What was said to be added to the knowledge is found by what begins afterwards, but for
a failed query, a filter, or as many later ones as the limit allows (McpServer).

`EverythingEnds`: unless it asks something without a timeout, or a catch fails, a sync, a request to
another system, the watch of a build, the update script and every request over HTTP end.

`RecordsInv`: however builds and loads overlap, no edge of the graph or its copy that no scan has
seen, what was scanned since the last load is in memory, and what builds had scanned when one of
them persisted is in the database until the next deletes it; every changed test is run or reported
quarantined, every changed source leads to a test whatever lookups failed; regressions are true, and
a test has a second open event only if its recording looked for one before the first was there.
`HistoryInv`: what is said of an answer agrees with it; a test is unstable exactly if neighbouring
runs of one commit disagree. `SessionInv`: signed out stays signed out while Redis, or the process,
lives; the page shows the token's owner unless he signed in before its first check ended; a delayed
call is rejected only if the cookie changed once more.

## Where the code and its documents disagree

Four are runs that TLC ends with a counterexample; `PROJECT.json` quotes the sentence.

- `confirm_twice`: two overlapping approvals both pass the "already resolved" test and both run
  the tool; the update in `ConfirmationService.ts:106` is by id alone.
- `wf_monitor_other`: the monitor takes the newest run of the workflow, so a push at the wrong
  time makes the started row PASSED for a run that was not started by it.
- `healing_limit`: overlapping executions pass `canRetry` together; `CHANGELOG.md:254` promises at
  most two retries per pipeline and hour.
- `confluence_republish`: the second publication of an analysis updates its page and then fails,
  since the mapping row is inserted and its `pageId` is unique.

The models of the others are of the code as it is; they have no run of their own.

*Copilot.* HALF_OPEN admits any number of calls (`resilience.ts:101`; `specs/ARCHITECTURE.md:254`
says one). `azdo_trigger_pipeline` gets tier 2 by default (`AutonomyClassifier.ts:151`;
`tools/index.ts:102` says 3), and a production build is not told from another. `jira_link_issues`
and `jira_add_label` write without ever asking, since they are registered without
`requiresConfirmation` (`jira-housekeeping.ts:21,100`; `specs/AUTONOMOUS_AI_SPEC.md:439` has all
writes of a conservative user wait). An enrichment with an empty answer is paid for and not recorded
(`manager.ts:338`). An update of the provider without the key it needs is answered with success,
while the old object goes on, since the hot swap swallows the constructor's exception
(`provider-config.service.ts:345`). `config.ts:102` and `specs/AI_TOOLS.md:398` give settings an
order of layers, but whole sections replace each other (`config.ts:104-108`): a file without `cost`
has no default for it and the start fails, and `AI_ALERT_EMAIL` alone puts the file's budget back to
the default. AI features keep their provider after a hot swap (`manager.ts:93-112`;
`provider-config.service.ts:6`). The loop's messages are counted and never limited
(`context-window-manager.ts:5-6`). `expireStaleActions` and `resetAlertFlag` have no caller. A
failed similarity search is answered as nothing found. `getPersonaInstruction` knows every name the
model may answer with, but the routing cache's key is a message's first 200 characters and its
eviction drops stale entries only, so it can exceed its limit; a default given while the model is
out is kept for five minutes. Suggestions read fields that no tool returns: `jira_search` returns an
array, so a draft of an issue follows every successful search
(`specs/AUTONOMOUS_AI_SPEC.md:470-474`), every pull request found is offered for merging, and the
suggestions for retrying, rebuilding and linking never appear.

*Workflows and integrations.* `xray.service.ts:86-87,128` promises a refresh on 401 that is not
done, `:409` idempotence that overlapping syncs break. `jenkins_trigger_build` only stores a PENDING
row and says that a build was started. A sync that Xray answers without a key stores SYNCED with
null, over a known key too (`xray.service.ts:478`). A row is never repaired once ten newer runs are
listed (`github-sync.service.ts:80`). `completeTestRun`, `documentRCAWithLocking`
(`ROADMAP.md:227`), `buildGraph`, `storeCoverage`, `recordRegressions`, `evaluateSelection` and the
explanations have no caller in the backend. `updateNotificationPreferences` stores nothing.

*HTTP and sessions.* The CSRF check is for the whole application and skips only channels and
signing in, so webhooks and the CI selection (`action.yml:79`) are always refused
(`middleware/csrf.ts:7`): WorkflowSync has the webhook as its route is written, its safety does
not need it, and its convergence rests on the poller. The webhook's signature would be taken over
re-serialised JSON. `POST /auth/refresh` cannot succeed (`jwt.service.ts:105-108`;
`specs/API_CONTRACT.md:99`), and nobody calls it. Routes of notifications for admins ask for a
role before they know the user (`notification.routes.ts:208`). Jira, Azure DevOps and Monday
writes, `ai/rca` and the confirmation of regressions are open to viewers, although the copilot's
tools for the same need an editor. `requireTeamRole` says global admins always pass; they do not.
`ZodError`s of two controllers become 500. `/health/full` counts the providers mock, bedrock and
openrouter as down. A refused sign-in, or any error of `/auth/me` that has an answer, removes the
stored token. Logout can answer 500 after it has revoked the token. The redirect of single sign-on
goes to a page the frontend lacks.

*Tests and figures.* An absolute root ends the transitive closure after one hop. The header of
`FlakyTestService` has other thresholds (`:14`) than the code; unknown commits count as one, and a
test that is skipped once and passes once has flipped (`:93`). A recovery resolves regressions of
other pipelines (`RegressionDetectionService.ts:255`), and the run before is that of any branch
(`:5`). Selections by coverage or graph alone are reported as `convention`.
`getCategorizedFailuresCount` is not awaited, so its failure refuses the dashboard whose other parts
tolerate theirs (`dashboard.service.ts:154-165`). The series of days skips days without failures, so
its "seven days" are seven points. A recurrence after a long time can lower a risk. The ring buffer
keeps its first entry until it is filled twice (`responseTime.ts:27-31`). Rates over test runs in
the metrics are constants. The MCP server's SQL names tables and columns that the schema lacks
(`mcp-server/README.md:281-292`): only analysis, batches and the health check answer.

*Update script.* Code 1 is "auto-fixed" (`safe-update.js:21`) and also what node ends with when the
report cannot be written (`:615`). A rollback restores the last commit's lockfiles, whatever the
tree had before (`safe-update.js:590`).

## Fairness

Only what the code or its platform drives is fair: the event loop, the database, which answers
every query one way or the other, and calls that a timeout ends. No user, model or GitHub user has
to do anything, except where said. Calls without a timeout may hang for ever, and the liveness
properties say what then: the `getContent` of `github_update_file` (`github.service.ts:367`), the
monitor's poll (`:149`), giphy, and the google, bedrock and azure providers, since providers do not
go through `resilience.ts` and only the other clients are given a timeout.

- *CircuitBreaker*: the clock runs; `withTimeout` settles every attempt and sleeps end; an
  abandoned request ends with its socket; requests keep coming (the poller fires every interval
  and users retry). The last is needed for recovery: the breaker only leaves OPEN when asked.
- *Confirmation*: the clock, and each request that has begun (`Continue`), unless its tool waits
  for a call without a timeout. A crash may end it instead.
- *ReActLoop*: the handler (`Handle`), unless it waits for a provider or a tool without a timeout
  (`WaitsUnguarded`).
- *WorkflowSync*: the interval fires, and what has begun is driven on. Nothing obliges a webhook to
  arrive or a run to conclude: convergence is the poller's alone.
- *WorkflowMonitor*: GitHub carries out accepted dispatches and ends its runs (its own time
  limits), and the event loop drives what is not the poll itself.
- *MCServices* (`Fairness`): calls to other systems time out where `withTimeout` guards them, and
  the event loop drives what was begun: the syncs of Xray, the programs of OutsideCalls, the ticks
  of the Jenkins interval, the script, a request in the chain. A request that asks something without
  a timeout, and a tick whose catch fails, are exempt in the properties.
- *SelfHealing and the rest*: none; a crash may leave events open for ever, and
  `EventsTellTheTruth` says so.

## Proofs

TLAPS proves the following for every value of the constants under the named assumptions in the
modules (positive thresholds; disjoint sets of syncs and hooks; a finite set of healing requests;
times to live, limits and a buffer's size that are numbers; rules that a message can match, pins
that are lists, severities that have a weight; and the like).

| Module | Theorems | The invariant, and why it is needed |
|---|---|---|
| `CircuitBreakerProofs` | `BreakerSafety`, `OutcomesRecordedOnce`, `TripTheorem` | In CLOSED the counter equals the run of consecutive failures (`StreakIsCounted`): without it a trip says nothing about the past. A sleeping retry has an attempt left. |
| `ConfirmationProofs` | `GateSafety`, `ReplyTheorem`, `SerialImplementsGate`, `SerialAuditTrail` | What each program point has established, and where approvers and runners can be; for
`ReplyTheorem`, that a reply is given once and that who failed to save its message has one
(`UnsavedKnown`). The serial theorems add `SerialInv`: one request is busy, what it read still
holds, and the row tells who approved; each step then maps to a step of `PendingAction` or a
stutter. They assume `~Overlap`. |
| `ReActLoopProofs` | `AutonomyTheorem`, `PauseTheorem`, `ConversationTheorem`, `RunsTheorem` | The calls without a tool message are those of the batch still to handle; calls run plus calls left stay below the limit plus a batch; an executed call was allowed at a level that is fixed by then. `AutonomyTheorem` then compares the classifier with the documents' tiers, level by level. |
| `WorkflowSyncProofs` | `SyncTheorem`, `HonestyTheorem`, `ConclusionTheorem` | Pages and payloads under way carry a state their run has been in; the flag is up whenever a sync is under way. For `ConclusionTheorem`, a second invariant: GitHub's conclusions are final, a job has one state of each run, and while only the poller writes, what it is about to write of a row with a conclusion is that conclusion. |
| `WorkflowMonitorProofs` | `StrandingTheorem` | A monitor that gives up has had a failure, or a status the column refuses; dispatches accepted are at most the lost answers plus one. |
| `TestsProofs` | `ConservativeTheorem`, `AuditTheorem`, `QuarantineTheorem`, `RetryTheorem`; of the composed system `RecordsTheorem`, `HistoryTheorem`, `SessionTheorem` | Of healing: what each program point tells of the effects, and for `RetryTheorem` a second invariant that counts: events in the window together with requests that have passed the check and are not counted yet are at most the limit plus the other slots (`LimitKnown`). Of the other parts: see below. |
| `IntegrationsProofs` | `XrayTheorem`, `JenkinsTheorem`, `PublishTheorem`, `OutsideTheorem`; and the invariants of the conversation, the advice, the figures and the tools for other agents, which are used for the composed system | see below |
| `ServicesProofs` | `ArchiveTheorem`, `SaveTheorem`, `ArchiveImplementsLog`, `TenancyTheorem`, `SettingsTheorem`, `UpdateTheorem`; of the composed system `IntegrationsTheorem`, `AssistantTheorem`, `BrowserTheorem`, `WindowTheorem`, `FiguresTheorem`, `McpTheorem`, `StoredTheorem` | see below |

The last three modules hold a proof per part, each with an inductive invariant of its own:

- *Xray.* Executions are counted by the syncs that have imported and by the answers that were lost;
  since sets of any size are counted, each import adds a sync to a set whose cardinality is compared
  (`SyncsAreCounted`). A sync knows what row it marks, and a row without a key has had an answer
  without one (`RowKnown`, `RowsKnown`). While syncs have been serial there is one row
  (`SerialKnown`); while nothing failed as well, the row's execution is the only one (`CleanKnown`).
- *Jenkins.* Time passes once per tick, so the ticks that are done bound it (`TimeKnown`); a tick
  that stores a verdict saw the build ended and stopped the interval (`TicksKnown`); when the hour
  was counted, a run that is not FAILED has a tick in flight that will see to it (`HourIsUp`);
  unless ticks jostled there is one in flight, and a run that PASSED leaves it nothing to
  overwrite (`LastKnown`).
- *Confluence.* The page that a publisher names, or that it is about to map, exists.
- *OutsideCalls.* The step that is being tried took effect only in tries whose answers were lost
  (`TriesAccountedFor`); every effect, and every one still to come, is that of a try of its own
  (`EffectsAreTries`); each step behind took effect or is known to have been left (`BehindIsDone`),
  and those ahead are untouched (`AheadUntouched`). That holds of any program of well-formed steps.
  What the clients promise is of their programs: those that announce something do it in a step
  that is neither passed over nor tolerated (`BringsAbout`), or ask at the end whether it was done
  (`Targets`); those that keep a row do it first (`DoesFirst`), or store last (`StoresLast`); those
  without retries try once (`OneTry`). One lemma per client and shape shows it, and `OutsideEnds`
  how a request that has ended got there.
- *Archive.* A form's version is at most the row's, and where they are equal in a strict archive
  the form's text is the row's; an editor that has checked holds the check while nobody has
  saved. Every save then maps to an edit of `EditLog` that keeps the text it replaces.
- *Teams and settings.* That a member who is removed or given a role is not the owner was read
  before the write; it stands because a team gets its owner once, in the transaction that makes it,
  and requests about its members are allowed only after that (`MemberRequestsFit`). A request that
  is to set a default dashboard has unset the others (`DashboardRequestsFit`). Of settings, a merge
  is shown as what it names over what was read (`DocumentsMerge`, `MergeShows`), for any sections
  and leaves; what was read is what is stored unless two requests overlapped.
- *AI spend.* Who is about to mail has seen its month past the threshold (`MailIsDue`); of those
  that began to reckon alone there is one until the flag falls (`OneReckons`); while a month is past
  the threshold and no flag tells it, somebody is about to mail or will sum up such a month
  (`Watched`); a row and what was paid follow from the step an analysis is at (`BooksFollow`).
- *Providers.* Stored and held keys, and those of objects, are with the provider they were given for
  as long as none was changed without a key (`HeldKeysStayHome`); what a start makes is one of few
  things (`StartFacts`); of updates that do not overlap, the one that is stored and not yet applied
  is the row (`SavedIsTheRow`), whose key is in force or is the one that update will apply
  (`KeysFollow`).
- *Settings.* The settings are those of the start, or those with the stored choice over them
  (`SettingsAreLoaded`), so that each property is one of `loadConfig`, proved field by field; what
  is built while the process starts fits them (`StartIsOrderly`).
- *Copilot panel.* The newest request is the one that can be aborted (`NewestIsHeld`), two are in
  flight only if one overtook the other (`TwoMeansOvertaken`), and what was in flight when the list
  was cleared has been aborted (`ClearedIsAborted`).
- *Browser cache.* Nothing is ahead of the server (`ServerIsAhead`); an answer on its way has the
  last change the page made, or is known to be late (`ComingIsRecent`), and so has what is shown
  or fresh when nothing is on its way (`FreshIsRecent`). This needs that a mutation names, sets
  or polls every query it touches, save for three pairs that are named; `Covered` says so, with a
  lemma per set of hooks.
- *Context window.* A conversation's size is a sum along its messages, and so is that of its n newest
  ones; a longer part is at least as large. The walk from the newest message back knows after n
  messages that all of them fit, or that it has met the one that does not (`Looked`), so that
  what it keeps is the longest part that fits (`KeptIs`). The tracker follows from the last
  request (`BudgetIInv`).
- *Routing, prompts, suggestions.* Every entry of the cache is the answer to some question, an answer
  that was decided anew is remembered as long as it counts, since the limit removes only what does
  not, and above the limit the entries' ages are close to one another (`EntriesIInv`). What is
  answered follows from the answers before it (`QuestionsIInv`). A list of prompts is filled source by
  source, stays ordered and is full or has taken all (`GoodList`). What is suggested is a
  function of the results so far (`SuggestionsHold`).
- *Dashboards.* Rows are only added, and a row that is of a window stays of it, so what a query counts
  only grows (`Outgrows`). What a request has been told counts at most what there is
  (`RequestKnown`), and the breakdown, which is asked for last, is of the archive as it is when the
  answer is given. Cardinality is a measure, which adds up over the kinds and over the days
  (`SharesAddUp`). In a list of the riskiest, who is left out for one who is less of a risk was
  not among the candidates, which two others as frequent then are. The days of a series are
  enumerated by rank (`InOrder`). A response n is at the place n in the buffer during the first
  round and at the place reckoned from its remainder afterwards (`BufferIInv`).
- *Tools for other agents.* Rows are only added, and a call knows those whose addition was answered
  before it began (`CallKnown`); a tool that makes one query has been brought nothing while its
  call is open. The n latest of a set leave out only what n later ones outrank (`LatestIs`, by
  the rank of each). As the backend migrates the tables, every query about the program's data
  names something that is not there (`QueryIsRefused`). For the figures (`GrowIInv`): what a call
  has been told so far is at most what there is, and the weights of the kinds add up to the
  weight of the list (`RowsOfKinds`).
- *Flaky tests and what is said of a selection.* A history is walked run by run; the walk has counted
  a flip exactly if two neighbouring runs of one commit disagreed so far, and its failures are none,
  or all, exactly if the runs were alike (`Walks`, an induction along the history). What is said of
  an answer follows from the invariant of selection.
- *Update script.* What each program point has established about tree, lockfiles and the report.
- *Import graph.* Where edges are, some scan saw them; what was scanned since the last load is in
  memory and what is owed is stored (`EdgesKnown`); the rows that a build is about to insert were
  scanned, at each of its places and for any number of builds (`BuildKnown`).
- *Selection of tests.* Each file of a request is still to do or is handled: it is selected if it
  is a test, and some detail names tests for it if it has candidates (`Handled`, `RequestKnown`).
  What is selected is what the details name plus what was added. That a full run contains every
  changed test needs that no test bears the name that stands for all of them.
- *Regressions.* What a recorder compares are ended runs of its pipeline (`TrailKnown`,
  `RecorderKnown`), so what it writes is true (`EventsKnown`); a recording that found nothing is
  right of the events there were when it looked, so that every event beside an earlier one was
  looked for before that one was there (`LookedFirst`).
- *Sessions.* What a call carries, at each of its stages (`CallInv`); the check of the page was sent
  with the page's token (`CheckInv`); a token whose owner was told he is signed out is on a list
  unless a restart forgot it (`ToldInv`). A CSRF token that is made is new because the calls and
  the browser hold fewer than there are numbers to choose from (`NewTokenIsNew`).
- *The composition.* Each part begins as it does alone (`PartsBegin`), and a step of the system is
  a step of each part or leaves it alone (`PartsMove`), so invariants and action properties of
  the parts are the system's.

Each proof has one step per action. The modules under proof define by recursive functions, never
by recursive operators. What such a function computes is proved for data of any length by
induction in the form of a set: a set of naturals that has 0, and n + 1 whenever it has n, has
them all (`NatSetInduction`, from the least element of what it lacks; `SegmentInduction` up to a
bound), with a lemma that a function that takes given steps exists (`SegmentRecursion`). The claim
is a set rather than an operator, which the provers could not instantiate. The proofs about
conversations, lists of prompts, sums, series and histories rest on these three lemmas.

## What is not modelled, or not proved

Only model-checked: all liveness properties (`OpenIsTemporary`, `RecoveryIsDecided`, `RequestsEnd`,
`RequestEnds`, `RowsConverge`, `MonitorEnds`, `EverythingEnds`), which are beyond the prover; and
five parts of `AnswersInv`, whose other eight `FiguresTheorem` and `McpTheorem` state:

- `RoutesInv` is about one fixed table of routes, which TLC enumerates whole: there is no constant
  for which a proof would say more.
- `BatchesAddUp` and `FiguresMean` are about what `SelectSeq` leaves of a sequence. It takes an
  operator, which the provers cannot instantiate.
- `TrendsHold` bounds anomalies by the variance of a series and compares rounded means: products of
  sums, which neither prover handles.
- `AccuracyHolds` says that recall is full exactly if nothing was missed. That is so of the number
  of selections the run looks at; of some thousands, rounding would hide a missed test. It is not
  a theorem for every number.

Abstracted everywhere: texts, prompts, argument and result contents, HTTP framing, logging,
durations. External systems answer, fail, or answer too late. A database statement is atomic; the
few writes inside `saveMessage` are one step.

Not modelled: the chat channels (adapters around the loop's buffered mode that keep no state), the
audit log (it appends, and its failure is ignored), the adapters' translation between formats of AI
vendors, report and page layouts, charts and forms, cryptography (a library's), generated clients,
seeds, screenshots and infrastructure scripts. `PROJECT.json` says per component what is left out,
and has a note for each hazard that a property covers only in part.

## Running it

    tlc -workers 2 -config CircuitBreaker.cfg CircuitBreaker
    tlc -workers 2 -config MCServices.cfg MCServices
    tlapm CircuitBreakerProofs.tla

`services` takes about three to four minutes, `healing` one to two, the other runs about one or less,
and the proofs about half an hour in total.
