---------------------------- MODULE BrowserCache ----------------------------
(***************************************************************************)
(* What the pages of the frontend show of the server's data: each hook of  *)
(* hooks/api is a query with a key, or a mutation that names the keys to   *)
(* be fetched again when it has succeeded; a page shows queries and offers *)
(* mutations.  The cache itself is React Query's, modelled from how the    *)
(* hooks use it (App.tsx: fresh for thirty seconds, no fetch on focus).    *)
(*                                                                         *)
(* Queries do not depend on each other: one is followed, any of them.  Its *)
(* data is the number of changes made to it.  Abstracted: everything a     *)
(* page does with the data it shows; hooks that no page uses.              *)
(***************************************************************************)
EXTENDS Naturals, SequencesExt

CONSTANTS
  ChangeBound,  \* bound: changes of the data on the server
  UpsetBound    \* bound: failed requests

ASSUME CacheAssumption == ChangeBound \in Nat /\ UpsetBound \in Nat

Query(k) == [key |-> k, polled |-> FALSE]
Polled(k) == [key |-> k, polled |-> TRUE]

\* What it changes, by the queries that show it; the keys it invalidates; the
\* queries it sets from its answer
Mutation(touches, names) == [touches |-> touches, names |-> names, sets |-> {}]

\* What it shows, what must have loaded before it offers anything, its offers
Page(shows, needs, offers) == [shows |-> shows, needs |-> needs, offers |-> offers]

Area(queries, mutations, pages) == [queries |-> queries, mutations |-> mutations, pages |-> pages]
-----------------------------------------------------------------------------
pipelineQueries ==
  [pipelines |-> Query(<<"pipelines">>), pipeline |-> Query(<<"pipeline", "id">>),
   testRuns |-> Query(<<"pipeline", "id", "test-runs">>)]

pipelineMutations ==
  [useCreatePipeline |-> Mutation({"pipelines"}, {<<"pipelines">>}),
   \* the list is not named
   useUpdatePipeline |-> Mutation({"pipelines", "pipeline"}, {<<"pipeline", "id">>}),
   useStartPipeline |-> Mutation({"pipelines", "pipeline", "testRuns"},
     {<<"pipeline", "id">>, <<"pipeline", "id", "test-runs">>, <<"pipelines">>}),
   useDeletePipeline |-> Mutation({"pipelines"}, {<<"pipelines">>})]

PipelineList == Page({"pipelines"}, {"pipelines"},
  {"useCreatePipeline", "useStartPipeline", "useDeletePipeline"})
PipelineDetail == Page({"pipeline", "testRuns"}, {"pipeline", "testRuns"},
  {"useUpdatePipeline", "useStartPipeline", "useDeletePipeline"})

teamQueries == [teams |-> Query(<<"teams">>), team |-> Query(<<"team", "id">>)]

teamMutations ==
  [useCreateTeam |-> Mutation({"teams"}, {<<"teams">>}),
   useAddTeamMember |-> Mutation({"team"}, {<<"team", "id">>}),
   useRemoveTeamMember |-> Mutation({"team"}, {<<"team", "id">>}),
   useUpdateTeamMemberRole |-> Mutation({"team"}, {<<"team", "id">>}),
   \* about oneself, these two change the list as well
   changeOwnMembership |-> Mutation({"team", "teams"}, {<<"team", "id">>})]

TeamSettings == Page({"teams", "team"}, {"teams"}, DOMAIN teamMutations)

notificationQueries ==
  [unread |-> Polled(<<"notifications", "unread">>), list |-> Query(<<"notifications", "false">>),
   undelivered |-> Query(<<"notifications", "true">>)]

OfNotifications == Mutation(DOMAIN notificationQueries, {<<"notifications">>})
notificationMutations ==
  [useMarkNotificationAsRead |-> OfNotifications, useMarkAllNotificationsAsRead |-> OfNotifications,
   useMarkNotificationAsDelivered |-> OfNotifications, useDeleteNotification |-> OfNotifications,
   useClearAllNotifications |-> OfNotifications]

NotificationBadge == Page({"unread"}, {"unread"},
  {"useMarkNotificationAsRead", "useMarkAllNotificationsAsRead"})
\* The badge is on every page
NotificationList(list) == Page({"unread", list}, {list}, DOMAIN notificationMutations)

healingQueries ==
  [rules |-> Query(<<"healing-rules">>), events |-> Query(<<"healing-events", "limit 20">>),
   stats |-> Polled(<<"healing-stats">>)]
quarantineQueries ==
  [quarantine |-> Query(<<"healing-quarantine">>), fixes |-> Query(<<"healing-fix-suggestions">>)]

\* The number of active rules is left to the poll
healingMutations ==
  [useCreateHealingRule |-> Mutation({"rules", "stats"}, {<<"healing-rules">>}),
   useToggleHealingRule |-> Mutation({"rules", "stats"}, {<<"healing-rules">>}),
   \* the events name the rule
   useDeleteHealingRule |-> Mutation({"rules", "stats", "events"}, {<<"healing-rules">>}),
   useSeedHealingRules |-> Mutation({"rules", "stats"}, {<<"healing-rules">>})]
quarantineMutations ==
  [useReinstateTest |-> Mutation({"quarantine"}, {<<"healing-quarantine">>}),
   useDeleteQuarantinedTest |-> Mutation({"quarantine"}, {<<"healing-quarantine">>})]

SelfHealing == Page({"rules", "events", "stats", "quarantine", "fixes"}, {"rules"},
  DOMAIN healingMutations \union DOMAIN quarantineMutations)

selectionQueries ==
  [accuracy |-> Query(<<"smart-selection", "accuracy", "30">>),
   regressions |-> Query(<<"smart-selection", "regressions", "30">>),
   recall |-> Polled(<<"smart-selection", "recall-health">>)]
selectionMutations ==
  [useConfirmRegression |-> Mutation({"regressions"}, {<<"smart-selection", "regressions">>}),
   useMarkFalsePositive |-> Mutation({"regressions"}, {<<"smart-selection", "regressions">>})]
SmartSelection ==
  Page(DOMAIN selectionQueries, {"accuracy", "regressions"}, DOMAIN selectionMutations)

settingsQueries == [settings |-> Query(<<"settings">>)]
settingsMutations == [useUpdateSettings |-> Mutation({"settings"}, {<<"settings">>})]
Settings == Page({"settings"}, {"settings"}, {"useUpdateSettings"})

autonomyHooks == Area([autonomy |-> Query(<<"autonomy-preference">>)],
  [useUpdateAutonomy |-> Mutation({"autonomy"}, {<<"autonomy-preference">>})],
  {Page({"autonomy"}, {"autonomy"}, {"useUpdateAutonomy"})})

xrayQueries ==
  [syncs |-> Query(<<"xray", "syncs">>), config |-> Query(<<"xray", "config">>)]
xrayMutations ==
  [useXraySyncTestRun |-> Mutation({"syncs"}, {<<"xray", "syncs">>}),
   useUpdateXrayConfig |-> Mutation({"config"}, {<<"xray", "config">>})]
AutoSyncCard == Page({"syncs", "config"}, {"config"}, {"useUpdateXrayConfig"})
TestRunDetail == Page({}, {}, {"useXraySyncTestRun"})

failureQueries ==
  [search |-> Query(<<"failure-archive", "search", "limit 50">>),
   comments |-> Query(<<"failure-archive", "id", "comments">>)]
failureMutations ==
  [useAddFailureComment |-> Mutation({"comments"}, {<<"failure-archive", "id", "comments">>}),
   useDeleteFailureComment |-> Mutation({"comments"}, {<<"failure-archive", "id", "comments">>})]
FailureComments == Page({"search", "comments"}, {"comments"}, DOMAIN failureMutations)

promptQueries == [prompts |-> Query(<<"starter-prompts">>),
  catalog |-> Query(<<"starter-prompts", "catalog">>)]
\* The answer is the new list
promptMutations ==
  [useSavePinnedPrompts |-> [touches |-> {"prompts"}, names |-> {}, sets |-> {"prompts"}],
   useResetPinnedPrompts |-> [touches |-> {"prompts"}, names |-> {}, sets |-> {"prompts"}]]
StarterPromptSettings == Page(DOMAIN promptQueries, {}, DOMAIN promptMutations)

providerQueries == [my |-> Query(<<"ai-config", "my">>)]
providerMutations ==
  [useSaveMyProviderConfig |-> Mutation({"my"}, {<<"ai-config", "my">>}),
   useDeleteMyProviderConfig |-> Mutation({"my"}, {<<"ai-config", "my">>})]
ProviderPicker == Page({"my"}, {}, DOMAIN providerMutations)

Nothing == Page({}, {}, {})

Areas ==
  {Area(pipelineQueries, pipelineMutations, {PipelineList, PipelineDetail}),
   Area(teamQueries, teamMutations, {TeamSettings, Nothing}),
   Area(notificationQueries, notificationMutations,
        {NotificationBadge, NotificationList("list"), NotificationList("undelivered")}),
   Area([q \in DOMAIN healingQueries \union DOMAIN quarantineQueries |->
           IF q \in DOMAIN healingQueries THEN healingQueries[q] ELSE quarantineQueries[q]],
        [m \in DOMAIN healingMutations \union DOMAIN quarantineMutations |->
           IF m \in DOMAIN healingMutations THEN healingMutations[m] ELSE quarantineMutations[m]],
        {SelfHealing}),
   Area(selectionQueries, selectionMutations, {SmartSelection}),
   Area(settingsQueries, settingsMutations, {Settings, Nothing}),
   Area(xrayQueries, xrayMutations, {AutoSyncCard, TestRunDetail}),
   Area(failureQueries, failureMutations, {FailureComments, Nothing}),
   Area(promptQueries, promptMutations, {StarterPromptSettings, Nothing}),
   Area(providerQueries, providerMutations, {ProviderPicker}),
   autonomyHooks}
-----------------------------------------------------------------------------
VARIABLES
  area,     \* queries, mutations and pages; never changes
  query,    \* the query that is followed; never changes
  shownPage,
  server,   \* how often its data has changed
  cache,    \* what the cache has of it
  fetching, \* what is under way for it
  mutation, \* the mutation in flight and where it is
  owed,     \* history: its data after the last change made here
  late,     \* history: a fetch from before that change may arrive after it
  upsets

cacheVars == <<area, query, shownPage, server, cache, fetching, mutation, owed, late, upsets>>

Versions == 0..ChangeBound
NoMutation == [is |-> "none", stage |-> "none"]
Idle == [stage |-> "idle", data |-> 0]
Requested == [stage |-> "asked", data |-> 0]
OnItsWay(data) == [stage |-> "coming", data |-> data]

CacheTypeOK ==
  /\ area \in Areas /\ query \in DOMAIN area.queries /\ shownPage \in area.pages
  /\ server \in Versions /\ owed \in Versions
  /\ cache \in [known : BOOLEAN, data : Versions, fresh : BOOLEAN]
  /\ fetching \in {Idle, Requested} \union {OnItsWay(v) : v \in Versions}
  /\ mutation.is \in DOMAIN area.mutations \union {"none"}
  /\ late \in BOOLEAN
  /\ upsets \in 0..UpsetBound

Shown == query \in shownPage.shows

CacheInit ==
  /\ area \in Areas /\ query \in DOMAIN area.queries /\ shownPage \in area.pages
  /\ server = 0 /\ owed = 0 /\ late = FALSE
  /\ cache = [known |-> FALSE, data |-> 0, fresh |-> FALSE]
  /\ fetching = IF Shown THEN Requested ELSE Idle
  /\ mutation = NoMutation
  /\ upsets = 0

\* What the page shows is fetched unless it is fresh or on its way
Navigate(to) ==
  /\ to # shownPage
  /\ shownPage' = to
  /\ fetching' = IF query \in to.shows \ shownPage.shows /\ fetching = Idle /\ ~cache.fresh
                 THEN Requested ELSE fetching
  /\ UNCHANGED <<area, query, server, cache, mutation, owed, late, upsets>>

ServerReads ==
  /\ fetching = Requested
  /\ fetching' = OnItsWay(server)
  /\ late' = FALSE
  /\ UNCHANGED <<area, query, shownPage, server, cache, mutation, owed, upsets>>

FetchArrives ==
  /\ fetching.stage = "coming"
  /\ cache' = [known |-> TRUE, data |-> fetching.data, fresh |-> TRUE]
  /\ fetching' = Idle
  /\ UNCHANGED <<area, query, shownPage, server, mutation, owed, late, upsets>>

\* It failed twice; the page keeps what it had
FetchFails ==
  /\ fetching # Idle /\ upsets < UpsetBound
  /\ upsets' = upsets + 1
  /\ fetching' = Idle
  /\ late' = TRUE
  /\ UNCHANGED <<area, query, shownPage, server, cache, mutation, owed>>

\* Nothing is fetched because of it as long as the page stays
GoStale ==
  /\ cache.fresh
  /\ cache' = [cache EXCEPT !.fresh = FALSE]
  /\ UNCHANGED <<area, query, shownPage, server, fetching, mutation, owed, late, upsets>>

Poll ==
  /\ area.queries[query].polled /\ Shown /\ fetching = Idle
  /\ fetching' = Requested
  /\ UNCHANGED <<area, query, shownPage, server, cache, mutation, owed, late, upsets>>

Mutate(m) ==
  /\ mutation = NoMutation /\ m \in shownPage.offers
  /\ query \in shownPage.needs => cache.known
  /\ mutation' = [is |-> m, stage |-> "sent"]
  /\ UNCHANGED <<area, query, shownPage, server, cache, fetching, owed, late, upsets>>

Touches(m) == query \in area.mutations[m].touches

MutationApplied ==
  /\ mutation.stage = "sent"
  /\ server' = IF Touches(mutation.is) THEN server + 1 ELSE server
  /\ server' <= ChangeBound
  /\ mutation' = [mutation EXCEPT !.stage = "applied"]
  /\ UNCHANGED <<area, query, shownPage, cache, fetching, owed, late, upsets>>

\* A name stands for every key that begins with it
Named(m) == \E name \in area.mutations[m].names : IsPrefix(name, area.queries[query].key)

\* Mutant: a fetch on its way is left to arrive
RefetchIdle == IF Shown /\ fetching = Idle THEN Requested ELSE fetching

\* A page that shows it gives up a fetch on its way, unless it is the first
Refetch == IF Shown /\ (fetching = Idle \/ cache.known) THEN Requested ELSE fetching

\* Not fetched again by the change: left to a poll, or to the thirty seconds
Overlooked(m) ==
  \/ area.queries[query].polled
  \/ <<m, query>> \in {<<"useUpdatePipeline", "pipelines">>, <<"changeOwnMembership", "teams">>,
                       <<"useDeleteHealingRule", "events">>}

\* onSuccess
MutationAnswered ==
  /\ mutation.stage = "applied"
  /\ LET m == mutation.is
         isSet == query \in area.mutations[m].sets
     IN /\ cache' = IF isSet THEN [known |-> TRUE, data |-> server, fresh |-> TRUE]
                    ELSE [cache EXCEPT !.fresh = cache.fresh /\ ~Named(m)]
        /\ fetching' = IF Named(m) THEN Refetch ELSE fetching
        /\ owed' = IF Touches(m) /\ ~Overlooked(m) THEN server ELSE owed
        /\ late' = IF Touches(m) /\ ~Overlooked(m)
                   THEN fetching.stage = "coming" /\ (isSet \/ ~cache.known \/ ~Shown)
                   ELSE late
  /\ mutation' = NoMutation
  /\ UNCHANGED <<area, query, shownPage, server, upsets>>

\* Applied or not: nothing is fetched
MutationFails ==
  /\ mutation # NoMutation /\ upsets < UpsetBound
  /\ upsets' = upsets + 1
  /\ mutation' = NoMutation
  /\ UNCHANGED <<area, query, shownPage, server, cache, fetching, owed, late>>

OthersChange ==
  /\ server < ChangeBound
  /\ server' = server + 1
  /\ UNCHANGED <<area, query, shownPage, cache, fetching, mutation, owed, late, upsets>>

CacheNext ==
  \/ \E to \in area.pages : Navigate(to)
  \/ ServerReads \/ FetchArrives \/ FetchFails \/ GoStale \/ Poll \/ OthersChange
  \/ \E m \in DOMAIN area.mutations : Mutate(m)
  \/ MutationApplied \/ MutationAnswered \/ MutationFails

CacheSpec == CacheInit /\ [][CacheNext]_cacheVars
-----------------------------------------------------------------------------
\* A page shows what has been changed here, on it or on another page, once
\* nothing is on its way; unless the mutation overlooks the query, the fetch
\* failed, or one from before the change could not be given up: the query's
\* first, one whose page was left, one beside which the answer was stored.
PageShowsItsChanges == (Shown /\ fetching = Idle /\ cache.known /\ ~late) => cache.data >= owed

\* No page shows data that the server never had.
NothingIsInvented == cache.data <= server

CacheInv == CacheTypeOK /\ PageShowsItsChanges /\ NothingIsInvented
=============================================================================
