---------------------------- MODULE OutsideCalls ----------------------------
(***************************************************************************)
(* What the integration services do for one request: a fixed program of    *)
(* calls to Jira, TestRail, Monday, Azure DevOps, GitHub, Jenkins,         *)
(* Confluence and Xray and of database steps, run by one async function.   *)
(* Every method is the sequence of its awaits, named after it; the         *)
(* interpreter below carries any of them out under lost answers, refused   *)
(* calls, timeouts and crashes, as lib/resilience.ts does.                 *)
(*                                                                         *)
(* Abstracted: what is asked, made or stored (payloads, mappings between   *)
(* formats, wording of errors), the circuit breaker (CircuitBreaker.tla;   *)
(* an open one refuses the call), and the mock modes.  A step says how     *)
(* often it is tried and what the code around it lets it do:               *)
(*   skip  it is left out when the arguments do not ask for it             *)
(*   fail  its failure is caught and the program goes on                   *)
(*   stop  the program may end well after it                               *)
(*   hang  no timeout guards it                                            *)
(***************************************************************************)
EXTENDS Naturals, Sequences

CONSTANT ItemBound  \* bound: rounds of a loop over targets or polls

ASSUME OutsideAssumption == ItemBound \in Nat

Deed(does, tries) == [does |-> does, tries |-> tries, may |-> {}]
Ask(tries) == Deed("ask", tries)    \* a read elsewhere
Make(tries) == Deed("make", tries)  \* elsewhere; done twice, it makes two
Put(tries) == Deed("put", tries)    \* elsewhere; done twice, it is done once
Find == Deed("find", 1)             \* a read of our database, or not found
Store == Deed("store", 1)           \* an insert
Note == Deed("note", 1)             \* an update or a delete
AnyDone == Deed("judge", 1)         \* fails unless an earlier step went well

Allow(what, step) == [step EXCEPT !.may = @ \union {what}]
Perhaps(step) == Allow("skip", step)
Tolerant(step) == Allow("fail", step)
Sufficient(step) == Allow("stop", step)
Untimed(step) == Allow("hang", step)
UpTo(n, step) == [i \in 1..n |-> Perhaps(step)]
-----------------------------------------------------------------------------
\* Jira: three tries, each timed

\* Mutant: the row is written before Jira is asked
RowFirst ==
  [createIssue |-> <<Store, Make(3)>>,
   updateIssue |-> <<Put(3), Perhaps(Ask(3)), Perhaps(Put(3)), Note>>,
   getIssue |-> <<Ask(3)>>]

jiraIssues ==
  [createIssue |-> <<Make(3), Store>>,
   \* the transitions are listed only when a status is given
   updateIssue |-> <<Put(3), Perhaps(Ask(3)), Perhaps(Put(3)), Note>>,
   getIssue |-> <<Ask(3)>>]

linkTestRun == <<Find, Note, Make(3)>>

\* A search that fails is answered as one that found nothing
searchSimilarIssues == <<Tolerant(Ask(3))>>

jiraOperations ==
  [transitionIssue |-> <<Ask(3), Put(3)>>, addComment |-> <<Make(3)>>,
   linkIssues |-> <<Put(3)>>, addLabels |-> <<Put(3)>>]

\* The copilot's tools, by the names the model knows; a tool does what its
\* service does, and turns an error into a result that says so
jira_search == searchSimilarIssues
jira_get == jiraIssues.getIssue
jira_create_issue == jiraIssues.createIssue
jira_transition_issue == jiraOperations.transitionIssue
jira_comment == jiraOperations.addComment
\* At least one target: with none it answers at once that it has linked none
jira_link_issues ==
  <<Tolerant(Put(3))>> \o UpTo(ItemBound - 1, Tolerant(Put(3))) \o <<AnyDone>>
jira_add_label == jiraOperations.addLabels

jiraRoutes ==
  [create |-> jiraIssues.createIssue, update |-> jiraIssues.updateIssue,
   get |-> jiraIssues.getIssue, link |-> linkTestRun]
-----------------------------------------------------------------------------
\* TestRail and Monday: one try; Monday's client has no timeout

testRailReads ==
  [validateConnection |-> <<Ask(1)>>, getProject |-> <<Ask(1)>>, getSuites |-> <<Ask(1)>>,
   getCases |-> <<Ask(1)>>]

testRailWrites ==
  [createTestRun |-> <<Make(1), Perhaps(Store)>>, addTestResults |-> <<Make(1)>>,
   addTestResult |-> <<Make(1)>>, closeTestRun |-> <<Put(1)>>]

testRailRuns ==
  [getTestRun |-> <<Ask(1)>>, getTestRuns |-> <<Ask(1)>>,
   syncTestRunResults |-> <<Find, Find>> \o testRailWrites.addTestResults]

Monday(step) == Untimed(step)

mondayReads ==
  [getBoards |-> <<Monday(Ask(1))>>, getBoard |-> <<Monday(Ask(1))>>]

mondayItems ==
  [createItem |-> <<Monday(Make(1))>>, updateItem |-> <<Monday(Put(1))>>,
   getItems |-> <<Monday(Ask(1))>>]

mondayUpdates ==
  [createUpdate |-> <<Monday(Make(1))>>,
   \* the item, then the update that describes the failure
   createItemFromTestFailure |-> <<Monday(Make(1)), Monday(Make(1))>>]

mondaySearch ==
  [searchItems |-> <<Monday(Ask(1))>>, testConnection |-> <<Tolerant(Monday(Ask(1)))>>]

mondayRoutes ==
  [getBoards |-> mondayReads.getBoards, getBoard |-> mondayReads.getBoard,
   getItems |-> mondayItems.getItems, searchItems |-> mondaySearch.searchItems,
   createItem |-> mondayItems.createItem, updateItem |-> mondayItems.updateItem,
   createUpdate |-> mondayUpdates.createUpdate,
   createItemFromTestFailure |-> mondayUpdates.createItemFromTestFailure,
   testConnection |-> mondaySearch.testConnection]
-----------------------------------------------------------------------------
\* Azure DevOps: three tries, each timed

azurePipelines ==
  [listPipelines |-> <<Ask(3)>>, getPipeline |-> <<Ask(3)>>,
   triggerPipelineRun |-> <<Make(3)>>]

azureBuilds ==
  [listPipelineRuns |-> <<Ask(3)>>, listBuilds |-> <<Ask(3)>>,
   getBuild |-> <<Ask(3)>>, getBuildTimeline |-> <<Ask(3)>>, getBuildLog |-> <<Ask(3)>>]

azureWorkItems ==
  [queryWorkItems |-> <<Ask(3)>>, getWorkItem |-> <<Ask(3)>>, getWorkItems |-> <<Ask(3)>>]

azureWorkItemWrites ==
  [createWorkItem |-> <<Make(3)>>, updateWorkItem |-> <<Put(3)>>,
   \* nothing is fetched when the query finds nothing
   searchWorkItems |-> <<Sufficient(Ask(3)), Ask(3)>>]

azureWiki ==
  [listWikis |-> <<Ask(3)>>, getWikiPage |-> <<Ask(3)>>,
   createOrUpdateWikiPage |-> <<Put(3)>>, deleteWikiPage |-> <<Put(3)>>,
   listWikiPages |-> <<Ask(3)>>]

azureRepositories ==
  [listRepositories |-> <<Ask(3)>>, getRepository |-> <<Ask(3)>>,
   listPullRequests |-> <<Ask(3)>>, getPullRequest |-> <<Ask(3)>>,
   getPullRequestThreads |-> <<Ask(3)>>, getPullRequestIterationChanges |-> <<Ask(3)>>]

azureTestRuns ==
  [listTestRuns |-> <<Ask(3)>>, getTestRun |-> <<Ask(3)>>, getTestResults |-> <<Ask(3)>>,
   getTestRunStatistics |-> <<Ask(3)>>, testConnection |-> <<Tolerant(Ask(1))>>]

azureTeams ==
  [getProject |-> <<Ask(3)>>, listTeams |-> <<Ask(3)>>, getCurrentIteration |-> <<Ask(3)>>]

azurePipelineRoutes ==
  [testConnection |-> azureTestRuns.testConnection,
   listPipelines |-> azurePipelines.listPipelines, getPipeline |-> azurePipelines.getPipeline,
   triggerPipelineRun |-> azurePipelines.triggerPipelineRun,
   listPipelineRuns |-> azureBuilds.listPipelineRuns, listBuilds |-> azureBuilds.listBuilds,
   getBuild |-> azureBuilds.getBuild, getBuildTimeline |-> azureBuilds.getBuildTimeline]

azureWorkItemRoutes ==
  [queryWorkItems |-> <<Ask(3), Perhaps(Ask(3))>>, getWorkItem |-> azureWorkItems.getWorkItem,
   createWorkItem |-> azureWorkItemWrites.createWorkItem,
   updateWorkItem |-> azureWorkItemWrites.updateWorkItem,
   searchWorkItems |-> azureWorkItemWrites.searchWorkItems]

azureContentRoutes ==
  [listWikis |-> azureWiki.listWikis, getWikiPage |-> azureWiki.getWikiPage,
   createOrUpdateWikiPage |-> azureWiki.createOrUpdateWikiPage,
   listRepositories |-> azureRepositories.listRepositories,
   listPullRequests |-> azureRepositories.listPullRequests,
   getPullRequest |-> azureRepositories.getPullRequest,
   getPullRequestThreads |-> azureRepositories.getPullRequestThreads,
   listTestRuns |-> azureTestRuns.listTestRuns,
   getTestResults |-> azureTestRuns.getTestResults, listTeams |-> azureTeams.listTeams,
   getProject |-> azureTeams.getProject,
   getCurrentIteration |-> azureTeams.getCurrentIteration]

azdo_create_work_item == azureWorkItemWrites.createWorkItem
azdo_update_work_item == azureWorkItemWrites.updateWorkItem
azdo_trigger_pipeline == azurePipelines.triggerPipelineRun
azdo_create_wiki_page == azureWiki.createOrUpdateWikiPage
\* By id, by name (there may be none of it), or all
azdo_get_pipeline == <<Sufficient(Ask(3)), Ask(3)>>
azdo_search_work_items == azureWorkItemWrites.searchWorkItems
azdo_get_work_item == azureWorkItems.getWorkItem
azdo_get_build == azureBuilds.getBuild \o <<Perhaps(Ask(3))>>
\* The repository by name, the request, its threads
azdo_get_pull_request == <<Sufficient(Ask(3)), Ask(3), Perhaps(Ask(3))>>
azdo_list_wikis == <<Sufficient(Ask(3)), Ask(3)>>
azdo_get_wiki_page == azureWiki.getWikiPage
azdo_get_test_results == azureTestRuns.getTestResults
-----------------------------------------------------------------------------
\* GitHub: three tries, each timed; a failed read is no news

githubReads ==
  [validateConnection |-> <<Ask(3)>>, getCommitChanges |-> <<Tolerant(Ask(3))>>,
   getPullRequestForCommit |-> <<Tolerant(Ask(3))>>,
   getPullRequestFiles |-> <<Tolerant(Ask(3))>>]

githubWrites ==
  [createPullRequest |-> <<Make(3)>>, createBranch |-> <<Ask(3), Make(3)>>]

\* The file's sha is read outside withResilience; without one it is new
githubChanges ==
  [updateFile |-> <<Tolerant(Untimed(Ask(1))), Put(3)>>,
   rerunWorkflow |-> <<Make(3)>>, mergePR |-> <<Put(3)>>]

github_get_commit == githubReads.getCommitChanges
github_get_pr == <<Sufficient(Tolerant(Ask(3))), Tolerant(Ask(3))>>
github_create_pr == githubWrites.createPullRequest
github_create_branch == githubWrites.createBranch
github_update_file == githubChanges.updateFile
github_merge_pr == githubChanges.mergePR
github_rerun_workflow == githubChanges.rerunWorkflow
-----------------------------------------------------------------------------
\* Jenkins (two tries for the build, one for a poll); its monitor is
\* JenkinsMonitor.tla

jenkinsPipelines ==
  [validateConnection |-> <<Ask(2)>>,
   \* a row, the build, the polls of its queue until it starts, the row again
   startPipeline |-> <<Store, Make(2)>> \o UpTo(ItemBound, Ask(1)) \o <<Ask(1), Note>>]

\* It stores a run in state PENDING and asks nothing of Jenkins
jenkins_trigger_build == <<Find, Store>>
jenkins_get_status == <<Sufficient(Find), Tolerant(Find)>>
-----------------------------------------------------------------------------
\* Confluence (reads) and Xray (a token first, unless one is kept)

confluenceSpaces == [validateConnection |-> <<Ask(3)>>, getSpace |-> <<Ask(3)>>]
confluenceReads ==
  [searchContent |-> <<Tolerant(Ask(3))>>, getPageContent |-> <<Ask(3)>>]
confluence_search == confluenceReads.searchContent

authenticate == <<Perhaps(Ask(3))>>
xrayReads ==
  [validateConnection |-> <<Perhaps(Tolerant(Ask(3)))>>,
   getTestCases |-> authenticate \o <<Ask(3)>>, getTestPlans |-> authenticate \o <<Ask(3)>>]
xrayPlans ==
  [getTestPlan |-> authenticate \o <<Ask(3)>>, getTestCaseHistory |-> authenticate \o <<Ask(3)>>]
xrayRecords == [getSyncHistory |-> <<Find>>, getSyncStatus |-> <<Find>>]
xrayRoutes ==
  [testConnection |-> xrayReads.validateConnection, getTestCases |-> xrayReads.getTestCases,
   getTestPlans |-> xrayReads.getTestPlans, getTestPlan |-> xrayPlans.getTestPlan,
   getTestCaseHistory |-> xrayPlans.getTestCaseHistory]
xray_search == xrayReads.getTestCases
-----------------------------------------------------------------------------
\* Pipelines: a GitHub repository is looked up before its row is written; an
\* update looks it up whenever it brings a configuration

pipelines ==
  [list |-> <<Find>>, getById |-> <<Find>>, create |-> <<Perhaps(Ask(3)), Store>>,
   update |-> <<Find, Perhaps(Ask(3)), Note>>, delete |-> <<Find, Note>>]
pipelineRuns == [getTestRuns |-> <<Find, Find>>, getFailedTests |-> <<Find, Find>>,
   getFlakyTests |-> <<Find, Find>>, schedule |-> <<Find, Note>>,
   validateConfig |-> <<Perhaps(Tolerant(Ask(3)))>>]
dashboard_metrics == <<Find>>
failure_predictions == <<Find>>
smart_test_select == <<Tolerant(Find)>>

\* A message to a channel is tried once, and its failure is only logged
channelMessage == Perhaps(Tolerant(Untimed(Make(1))))
sendTestNotification == <<Find, channelMessage, Store>>
\* User after user; one channel, since several are served at once
sendBroadcast ==
  <<Sufficient(Find), channelMessage, Sufficient(Store), channelMessage, Store>>
createShare == <<Store>>
\* Counting the view is not waited for
getShareByToken == <<Find, Tolerant(Note)>>
\* Any error is answered with an emoji
giphy_search == <<Perhaps(Tolerant(Untimed(Ask(1))))>>
-----------------------------------------------------------------------------
Ran(service) == {service[method] : method \in DOMAIN service}

Programs ==
  UNION {Ran(jiraIssues), Ran(jiraOperations), Ran(jiraRoutes),
         Ran(testRailReads), Ran(testRailWrites), Ran(testRailRuns),
         Ran(mondayReads), Ran(mondayItems), Ran(mondayUpdates), Ran(mondaySearch), Ran(mondayRoutes),
         Ran(azurePipelines), Ran(azureBuilds), Ran(azureWorkItems), Ran(azureWorkItemWrites),
         Ran(azureWiki), Ran(azureRepositories), Ran(azureTestRuns), Ran(azureTeams),
         Ran(azurePipelineRoutes), Ran(azureWorkItemRoutes), Ran(azureContentRoutes),
         Ran(githubReads), Ran(githubChanges), Ran(githubWrites), Ran(jenkinsPipelines),
         Ran(confluenceSpaces), Ran(confluenceReads), Ran(xrayReads), Ran(xrayPlans), Ran(xrayRecords), Ran(xrayRoutes),
         Ran(pipelines), Ran(pipelineRuns),
         {linkTestRun, jira_search, jira_get, jira_create_issue, jira_transition_issue,
          jira_comment, jira_link_issues, jira_add_label, azdo_get_pipeline,
          azdo_create_work_item, azdo_update_work_item, azdo_trigger_pipeline,
          azdo_create_wiki_page, azdo_search_work_items, azdo_get_work_item, azdo_get_build, azdo_get_pull_request,
          azdo_list_wikis, azdo_get_wiki_page, azdo_get_test_results, github_get_commit,
          github_get_pr, github_create_pr, github_create_branch, github_update_file,
          github_merge_pr, github_rerun_workflow, jenkins_trigger_build, jenkins_get_status,
          confluence_search, xray_search, dashboard_metrics, failure_predictions,
          smart_test_select, giphy_search, sendTestNotification,
          sendBroadcast, createShare, getShareByToken}}

VARIABLES
  program,   \* of the request; never changes
  at,        \* its step
  tried,   \* which try of the step
  carried,   \* per step: how often it took effect
  unheard,   \* history: effects whose answer was lost
  pending,   \* steps a timeout gave up on that may yet take effect
  left,      \* steps passed over, or whose failure was tolerated
  outcome    \* of the request

outsideVars == <<program, at, tried, carried, unheard, pending, left, outcome>>

Steps == DOMAIN program
Elsewhere(i) == program[i].does \in {"ask", "make", "put"}
Now == program[at]
May(what) == what \in Now.may
Running == outcome = "open" /\ at \in Steps

OutsideTypeOK ==
  /\ program \in Programs
  /\ at \in 1..(Len(program) + 1)
  /\ tried \in 1..3
  /\ carried \in [Steps -> 0..3]
  /\ unheard \in [Steps -> 0..3]
  /\ pending \subseteq Steps /\ left \subseteq Steps
  /\ outcome \in {"open", "done", "failed", "lost"}

OutsideInit ==
  /\ program \in Programs
  /\ at = 1 /\ tried = 1
  /\ carried = [i \in Steps |-> 0] /\ unheard = [i \in Steps |-> 0]
  /\ pending = {} /\ left = {}
  /\ outcome = "open"

CarryOut(i) == carried' = [carried EXCEPT ![i] = @ + 1]

\* On to the next step; after the last one the request has succeeded
Advance ==
  /\ at' = at + 1 /\ tried' = 1
  /\ outcome' = IF at = Len(program) THEN "done" ELSE "open"

Skip == Advance /\ left' = left \union {at}
Fail == outcome' = "failed" /\ UNCHANGED <<at, tried, left>>

\* A failure that the code around the step catches, or passes on
StepFails == IF May("fail") THEN Skip ELSE Fail

\* withRetry: an error that may pass is tried again while tries are left
FailsOrTriesAgain ==
  \/ StepFails
  \/ tried < Now.tries /\ tried' = tried + 1 /\ UNCHANGED <<at, left, outcome>>

\* Not configured, or the arguments are refused: nothing is done
TurnedAway ==
  /\ Running /\ at = 1 /\ tried = 1
  /\ Fail
  /\ UNCHANGED <<program, carried, unheard, pending>>

Answered ==
  /\ Running /\ Now.does # "judge"
  /\ CarryOut(at)
  /\ \/ Advance /\ UNCHANGED left
     \/ May("stop") /\ outcome' = "done" /\ UNCHANGED <<at, tried, left>>
  /\ UNCHANGED <<program, unheard, pending>>

Pass ==
  /\ Running /\ May("skip")
  /\ Skip
  /\ UNCHANGED <<program, carried, unheard, pending>>

\* An error, an open breaker, no such row
Refused ==
  /\ Running /\ Now.does # "judge"
  /\ FailsOrTriesAgain
  /\ UNCHANGED <<program, carried, unheard, pending>>

\* It is done there, and the connection is reset before the answer
AnswerLost ==
  /\ Running /\ Elsewhere(at)
  /\ CarryOut(at)
  /\ unheard' = [unheard EXCEPT ![at] = @ + 1]
  /\ FailsOrTriesAgain
  /\ UNCHANGED <<program, pending>>

\* withTimeout rejects and nothing is cancelled; a TimeoutError is not retried
TimesOut ==
  /\ Running /\ Elsewhere(at) /\ ~May("hang")
  /\ pending' = pending \union {at}
  /\ StepFails
  /\ UNCHANGED <<program, carried, unheard>>

\* What was given up on happens after all, perhaps after the request ended
LateEffect(i) ==
  /\ i \in pending
  /\ pending' = pending \ {i}
  /\ CarryOut(i)
  /\ UNCHANGED <<program, at, tried, unheard, left, outcome>>

Judge ==
  /\ Running /\ Now.does = "judge"
  /\ IF \E i \in 1..(at - 1) : i \notin left
     THEN Advance /\ CarryOut(at) /\ UNCHANGED left
     ELSE Fail /\ UNCHANGED carried
  /\ UNCHANGED <<program, unheard, pending>>

\* The process stops; what it had asked for may still happen
Stop ==
  /\ Running
  /\ outcome' = "lost"
  /\ pending' = IF Elsewhere(at) THEN pending \union {at} ELSE pending
  /\ UNCHANGED <<program, at, tried, carried, unheard, left>>

OutsideNext ==
  \/ TurnedAway \/ Answered \/ Pass \/ Refused \/ AnswerLost \/ TimesOut \/ Judge \/ Stop
  \/ \E i \in Steps : LateEffect(i)

\* Timers fire and our own database answers; nobody else is bound to
OurSide == Running /\ ~Elsewhere(at) /\ (Answered \/ Refused \/ Judge)

OutsideProgress == TimesOut \/ OurSide

OutsideSpec == OutsideInit /\ [][OutsideNext]_outsideVars /\ WF_outsideVars(OutsideProgress)
-----------------------------------------------------------------------------
\* The clients that keep a row of what they made or changed elsewhere
Recorders ==
  {jiraIssues.createIssue, jiraIssues.updateIssue, testRailWrites.createTestRun}

\* No row of ours speaks of an issue, a status or a run that the other system was never given.
RowsFollowDeeds ==
  program \in Recorders =>
    \A row \in Steps : (program[row].does \in {"store", "note"} /\ carried[row] > 0) =>
      \E deed \in Steps : deed < row /\ program[deed].does \in {"make", "put"} /\ carried[deed] > 0

\* The operations that say, when they succeed, that something was made or changed elsewhere.
\* (jenkins_trigger_build says so too, and asks nothing of Jenkins.)
Announcers ==
  (Ran(jiraIssues) \ {jiraIssues.getIssue}) \union Ran(jiraOperations) \union Ran(testRailWrites) \union
  {linkTestRun, jira_link_issues, mondayItems.createItem, mondayItems.updateItem,
   azdo_create_work_item, azdo_update_work_item, azdo_trigger_pipeline, azdo_create_wiki_page,
   github_update_file, github_rerun_workflow, github_merge_pr, github_create_pr,
   github_create_branch}
  \union Ran(mondayUpdates) \union {jenkinsPipelines.startPipeline}

\* What such an operation announces was done, whichever of its calls were refused or late.
AnnouncedIsDone ==
  (outcome = "done" /\ program \in Announcers) =>
    \E deed \in Steps : program[deed].does \in {"make", "put"} /\ carried[deed] > 0

\* The clients without retries make nothing twice; the others only when an answer was lost.
OnceOnly ==
  Ran(testRailWrites) \union Ran(mondayItems) \union Ran(mondayUpdates) \union {sendTestNotification}
NothingIsMadeTwice ==
  \A i \in Steps :
    /\ carried[i] <= 1 + unheard[i]
    /\ program \in OnceOnly => carried[i] <= 1

\* Whoever is told that one of these failed may ask again: it left no row that a second
\* one would stand beside.  (startPipeline is not among them: its row comes first, and
\* stays PENDING when the build is not started.)
StoreLast ==
  {jiraIssues.createIssue, testRailWrites.createTestRun, jenkins_trigger_build, pipelines.create,
   sendTestNotification, createShare}
FailureLeavesNoRow ==
  (outcome = "failed" /\ program \in StoreLast) =>
    \A row \in Steps : program[row].does = "store" => carried[row] = 0

\* What the clients say and store of the other systems is so, whatever was lost, late or
\* refused.
ClientsAreTrue ==
  /\ OutsideTypeOK
  /\ RowsFollowDeeds /\ AnnouncedIsDone /\ NothingIsMadeTwice /\ FailureLeavesNoRow

\* The request is over, unless it asks something without a timeout.
RequestIsOver == outcome # "open" \/ \E i \in Steps : "hang" \in program[i].may
=============================================================================
