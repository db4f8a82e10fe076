----------------------------- MODULE HttpRoutes -----------------------------
(***************************************************************************)
(* A request on its way through Express: app.ts puts layers in a chain and *)
(* registerRoutes mounts the routers in theirs.  A request goes from layer *)
(* to layer that matches its method and path; a layer's guards let it on,  *)
(* refuse it, or answer it; an error goes to the next layer for errors.    *)
(*                                                                         *)
(* Abstracted: /api/v1 is one segment of a path, ":" a segment that is a   *)
(* parameter; an input fits or does not; a service does what is asked of   *)
(* it or fails, as the modules of the services say in detail.              *)
(***************************************************************************)
EXTENDS Naturals, Sequences, SequencesExt, FiniteSets, TLC

\* Guards: middleware that a request has to pass
Guard(kind, of) == [kind |-> kind, of |-> of]
Authenticate == Guard("authenticate", "bearer")
CiAuthenticate == Guard("ciAuthenticate", "ci")
Authorize(least) == Guard("authorize", least)
Editors == Authorize("EDITOR")
Admins == Authorize("ADMIN")
Validate == Guard("validate", "body")
Signed(by) == Guard("signed", by)

\* Handlers: what becomes of an input that does not fit ("free": none is refused;
\* "answers" 400; "throws" an error of its schema), what is changed ("own" rows of the
\* caller or what others see too), who tells of a failure ("never": none is
\* possible), what may be answered instead
\* because something it needs is off
Handler(misfit, alters, fails, off) ==
  [input |-> misfit, changes |-> alters, fails |-> fails, off |-> off]
Reads == Handler("free", "none", "next", {})
Changes(what) == Handler("free", what, "next", {})
Checks(what) == Handler("answers", what, "next", {})
Parses(what) == Handler("throws", what, "next", {})
\* Handlers that answer 500 for their failures themselves
Tells(misfit, what) == Handler(misfit, what, "answers", {})
AllAre(names, handler) == [n \in names |-> handler]

Layer(kind, method, path, barriers, handler) ==
  [kind |-> kind, method |-> method, path |-> path, guards |-> barriers, run |-> handler]
Use(barriers) == Layer("use", "any", <<>>, barriers, Reads)
GET(path, barriers, handler) == Layer("route", "GET", path, barriers, handler)
POST(path, barriers, handler) == Layer("route", "POST", path, barriers, handler)
PUT(path, barriers, handler) == Layer("route", "PUT", path, barriers, handler)
PATCH(path, barriers, handler) == Layer("route", "PATCH", path, barriers, handler)
DELETE(path, barriers, handler) == Layer("route", "DELETE", path, barriers, handler)
OnErrors == Layer("error", "any", <<>>, <<>>, Reads)
-----------------------------------------------------------------------------
\* Controllers
TeamController ==
  AllAre({"createTeam", "updateTeam", "addMember", "updateMemberRole"}, Checks("shared")) @@
  AllAre({"deleteTeam", "removeMember"}, Changes("shared")) @@
  AllAre({"listTeams", "getTeam", "getMembers"}, Reads)

TeamScopes ==
  AllAre({"createDashboard", "updateDashboard"}, Checks("shared")) @@
  AllAre({"assignPipeline", "deleteDashboard"}, Changes("shared")) @@
  AllAre({"getTeamPipelines", "listDashboards"}, Reads)

HealingRules ==
  AllAre({"createRule", "updateRule", "toggleRule", "execute"}, Checks("shared")) @@
  AllAre({"deleteRule"}, Changes("shared")) @@
  AllAre({"evaluate"}, Checks("none")) @@
  AllAre({"getRules", "getRule"}, Reads)

HealingLists ==
  AllAre({"quarantineTest"}, Checks("shared")) @@
  AllAre({"reinstateTest", "deleteQuarantinedTest", "seedRules"}, Changes("shared")) @@
  AllAre({"getEvents", "getStats", "getQuarantinedTests", "getQuarantineStats",
          "getFixSuggestions"}, Reads)

FailureArchiveController ==
  AllAre({"createFailure", "documentRCA"}, Checks("shared")) @@
  AllAre({"searchFailures"}, Checks("none")) @@
  AllAre({"getById"}, Reads)

FailureCollaboration ==
  AllAre({"markResolved", "addComment"}, Checks("shared")) @@
  AllAre({"deleteComment"}, Changes("shared")) @@
  AllAre({"findSimilar"}, Checks("none")) @@
  AllAre({"getInsights", "getRevisions", "getComments", "getActivityFeed"}, Reads)

\* The only controller that leaves the errors of its schemas to the application
PredictionController == AllAre({"getTrends", "getPredictions", "getAnomalies"}, Parses("none"))

MondayItems ==
  AllAre({"createItem", "updateItem"}, Changes("shared")) @@
  AllAre({"getBoards", "getBoard", "getItems"}, Reads)

MondayUpdates ==
  AllAre({"createUpdate", "createItemFromTestFailure"}, Changes("shared")) @@
  AllAre({"searchItems"}, Checks("none")) @@
  AllAre({"testConnection"}, Reads)

NotificationController ==
  AllAre({"markAllAsRead", "markAsDelivered", "deleteNotification", "deleteAllNotifications",
          "updatePreferences", "sendTestNotification"}, Changes("own")) @@
  AllAre({"sendBroadcastNotification", "updateGlobalSettings"}, Changes("shared")) @@
  AllAre({"getUserNotifications", "getUndeliveredNotifications", "getPreferences",
          "getAvailableChannels", "verifyChannel", "getNotificationHistory",
          "getDeliveryMetrics", "getGlobalSettings"}, Reads)

MetricsController ==
  AllAre({"getPrometheusMetrics", "getMetricsSummary", "getTopFailures", "getHealth"}, Reads)
SettingsController == AllAre({"update"}, Checks("own")) @@ AllAre({"get"}, Reads)
FlakyTestController == AllAre({"getFlakyTests", "getTestFlakiness"}, Reads)
getDashboardMetrics == Reads
getImpactedTests == Reads
-----------------------------------------------------------------------------
\* Routers, in the order of their layers
AuthRoutes ==
  <<POST(<<"register">>, <<Validate>>, Changes("own")),
    POST(<<"login">>, <<Validate>>, Reads),
    POST(<<"logout">>, <<Authenticate>>, Changes("own")),
    \* jwt.sign refuses the claims of the token that it is to renew
    POST(<<"refresh">>, <<Guard("refuses", "all")>>, Changes("own")),
    GET(<<"me">>, <<Authenticate>>, Reads),
    PUT(<<"password">>, <<Authenticate, Validate>>, Changes("own")),
    GET(<<"login", "sso", "saml">>, <<Signed("saml")>>, Reads),
    POST(<<"login", "sso", "saml", "callback">>, <<Signed("saml")>>, Changes("own"))>>

DashboardRoutes == <<Use(<<Authenticate>>), GET(<<>>, <<>>, getDashboardMetrics)>>

PipelineRoutes ==
  <<Use(<<Authenticate>>),
    GET(<<>>, <<>>, Reads),
    GET(<<":">>, <<>>, Reads),
    POST(<<>>, <<Editors, Validate>>, Changes("shared")),
    PUT(<<":">>, <<Editors, Validate>>, Changes("shared")),
    DELETE(<<":">>, <<Editors>>, Changes("shared")),
    POST(<<":", "start">>, <<Editors>>, Changes("shared")),
    GET(<<":", "test-runs">>, <<>>, Reads)>>

PipelineTests ==
  <<POST(<<":", "schedule">>, <<Editors, Validate>>, Changes("shared")),
    GET(<<":", "failed-tests">>, <<>>, Reads),
    GET(<<":", "flakey-tests">>, <<>>, Reads),
    POST(<<"validate-config">>, <<>>, Reads),
    Use(<<Admins>>)>>

TestRunRoutes ==
  <<GET(<<>>, <<Authenticate>>, Reads), GET(<<":">>, <<Authenticate>>, Reads)>>

NotificationRoutes ==
  LET c == NotificationController IN
  <<GET(<<>>, <<Authenticate>>, c.getUserNotifications),
    GET(<<"undelivered">>, <<Authenticate>>, c.getUndeliveredNotifications),
    GET(<<"unread">>, <<Authenticate>>, c.getUndeliveredNotifications),
    POST(<<"mark-all-read">>, <<Authenticate>>, c.markAllAsRead),
    PATCH(<<":", "delivered">>, <<Authenticate>>, c.markAsDelivered),
    PATCH(<<":", "read">>, <<Authenticate>>, c.markAsDelivered),
    DELETE(<<":">>, <<Authenticate>>, c.deleteNotification),
    DELETE(<<>>, <<Authenticate>>, c.deleteAllNotifications),
    GET(<<"preferences">>, <<Authenticate>>, c.getPreferences)>>

NotificationSettings ==
  LET c == NotificationController IN
  <<PUT(<<"preferences">>, <<Authenticate, Validate>>, c.updatePreferences),
    POST(<<"test">>, <<Authenticate>>, c.sendTestNotification),
    GET(<<"channels">>, <<Authenticate>>, c.getAvailableChannels),
    POST(<<"channels", "verify">>, <<Authenticate, Validate>>, c.verifyChannel),
    GET(<<"history">>, <<Authenticate>>, c.getNotificationHistory),
    Use(<<Admins>>),
    GET(<<"metrics">>, <<>>, c.getDeliveryMetrics),
    POST(<<"broadcast">>, <<Validate>>, c.sendBroadcastNotification),
    GET(<<"settings">>, <<>>, c.getGlobalSettings),
    PUT(<<"settings">>, <<Validate>>, c.updateGlobalSettings)>>

JiraRoutes ==
  <<Use(<<Authenticate>>),
    POST(<<"issues">>, <<>>, Parses("shared")),
    PUT(<<"issues", ":">>, <<>>, Parses("shared")),
    GET(<<"issues", ":">>, <<>>, Reads),
    POST(<<"issues", ":", "link">>, <<>>, Parses("shared")),
    OnErrors>>

\* Xray answers 503 before it looks at the input
XrayReads ==
  LET when(misfit) == Handler(misfit, "none", "next", {"503"}) IN
  <<Use(<<Authenticate>>),
    GET(<<"test-connection">>, <<Admins>>, when("free")),
    GET(<<"test-cases">>, <<>>, when("throws")),
    GET(<<"test-plans">>, <<>>, when("throws")),
    GET(<<"test-plans", ":">>, <<>>, when("throws")),
    GET(<<"test-cases", ":", "history">>, <<>>, when("throws"))>>

XrayRoutes ==
  <<POST(<<"sync", ":">>, <<Editors>>, Handler("throws", "shared", "next", {"503"})),
    PATCH(<<"config">>, <<Admins>>, Parses("shared")),
    GET(<<"config">>, <<>>, Reads),
    GET(<<"syncs">>, <<>>, Parses("none")),
    GET(<<"syncs", ":">>, <<>>, Parses("none")),
    OnErrors>>

FailureArchiveRoutes ==
  LET c == FailureArchiveController @@ FailureCollaboration @@ PredictionController IN
  <<Use(<<Authenticate>>),
    POST(<<>>, <<Editors>>, c.createFailure),
    GET(<<"search">>, <<>>, c.searchFailures),
    GET(<<"insights">>, <<>>, c.getInsights),
    POST(<<"find-similar">>, <<>>, c.findSimilar),
    GET(<<"trends">>, <<>>, c.getTrends),
    GET(<<"predictions">>, <<>>, c.getPredictions),
    GET(<<"anomalies">>, <<>>, c.getAnomalies),
    GET(<<":">>, <<>>, c.getById),
    PUT(<<":", "document-rca">>, <<Editors>>, c.documentRCA),
    PUT(<<":", "resolve">>, <<Editors>>, c.markResolved),
    GET(<<":", "revisions">>, <<>>, c.getRevisions),
    POST(<<":", "comments">>, <<Editors>>, c.addComment),
    GET(<<":", "comments">>, <<>>, c.getComments),
    DELETE(<<":", "comments", ":">>, <<Editors>>, c.deleteComment),
    GET(<<":", "activity">>, <<>>, c.getActivityFeed)>>

MondayRoutes ==
  LET c == MondayItems @@ MondayUpdates IN
  <<Use(<<Authenticate>>),
    GET(<<"boards">>, <<>>, c.getBoards),
    GET(<<"boards", ":">>, <<>>, c.getBoard),
    GET(<<"boards", ":", "items">>, <<>>, c.getItems),
    GET(<<"boards", ":", "search">>, <<>>, c.searchItems),
    POST(<<"items">>, <<Validate>>, c.createItem),
    PUT(<<"items", ":">>, <<Validate>>, c.updateItem),
    POST(<<"items", ":", "updates">>, <<Validate>>, c.createUpdate),
    POST(<<"test-failures">>, <<Validate>>, c.createItemFromTestFailure),
    GET(<<"test-connection">>, <<>>, c.testConnection)>>

MetricsRoutes ==
  LET c == MetricsController IN
  <<Use(<<Authenticate>>),
    GET(<<"summary">>, <<>>, c.getMetricsSummary),
    GET(<<"top-failures">>, <<>>, c.getTopFailures),
    GET(<<"health">>, <<>>, c.getHealth)>>

FlakyTestRoutes ==
  <<Use(<<Authenticate>>),
    GET(<<"flaky">>, <<>>, FlakyTestController.getFlakyTests),
    GET(<<":", "flaky-history">>, <<>>, FlakyTestController.getTestFlakiness)>>

TestImpactRoutes ==
  <<Use(<<CiAuthenticate>>),
    POST(<<"smart-select">>, <<Validate>>, getImpactedTests),
    GET(<<"smart-select", "accuracy">>, <<>>, Reads),
    GET(<<"smart-select", "regressions">>, <<>>, Reads),
    GET(<<"smart-select", "recall-health">>, <<>>, Reads),
    POST(<<"smart-select", "regressions", ":", "confirm">>, <<>>, Changes("shared")),
    POST(<<"smart-select", "regressions", ":", "false-positive">>, <<>>, Changes("shared"))>>

TeamRoutes ==
  LET c == TeamController @@ TeamScopes IN
  <<Use(<<Authenticate>>),
    POST(<<>>, <<Editors>>, c.createTeam),
    GET(<<>>, <<>>, c.listTeams),
    GET(<<":">>, <<>>, c.getTeam),
    PUT(<<":">>, <<Editors>>, c.updateTeam),
    DELETE(<<":">>, <<Admins>>, c.deleteTeam),
    GET(<<":", "members">>, <<>>, c.getMembers),
    POST(<<":", "members">>, <<Editors>>, c.addMember),
    DELETE(<<":", "members", ":">>, <<Editors>>, c.removeMember),
    PUT(<<":", "members", ":", "role">>, <<Editors>>, c.updateMemberRole),
    GET(<<":", "pipelines">>, <<>>, c.getTeamPipelines),
    POST(<<":", "pipelines", ":">>, <<Editors>>, c.assignPipeline),
    GET(<<":", "dashboards">>, <<>>, c.listDashboards),
    POST(<<":", "dashboards">>, <<Editors>>, c.createDashboard),
    PUT(<<":", "dashboards", ":">>, <<Editors>>, c.updateDashboard),
    DELETE(<<":", "dashboards", ":">>, <<Editors>>, c.deleteDashboard)>>

\* The routers of AI are one: what its parts share is that a user is needed
AiConfigRoutes ==
  <<GET(<<"health">>, <<>>, Tells("free", "none")),
    GET(<<"personas">>, <<>>, Reads),
    GET(<<"autonomy">>, <<>>, Tells("free", "none")),
    PUT(<<"autonomy">>, <<Validate>>, Tells("answers", "own")),
    GET(<<"config">>, <<>>, Tells("free", "none")),
    PUT(<<"config">>, <<Admins, Validate>>, Tells("answers", "shared")),
    POST(<<"config", "test">>, <<>>, Tells("answers", "none"))>>

MyConfigRoutes ==
  <<GET(<<"my-config">>, <<>>, Tells("free", "none")),
    PUT(<<"my-config">>, <<>>, Tells("answers", "own")),
    POST(<<"my-config", "test">>, <<>>, Tells("answers", "none")),
    DELETE(<<"my-config">>, <<>>, Tells("free", "own"))>>

\* 403 when the feature is off
AnalysisRoutes ==
  LET ifOn(alters) == Handler("answers", alters, "answers", {"403"}) IN
  <<POST(<<"rca", "similar">>, <<>>, ifOn("none")),
    POST(<<"rca", "store">>, <<>>, ifOn("shared")),
    PUT(<<"rca", ":", "resolve">>, <<>>, ifOn("shared")),
    POST(<<"categorize">>, <<>>, ifOn("none"))>>

AnalysisReports ==
  LET ifOn(alters) == Handler("answers", alters, "answers", {"403"}) IN
  <<POST(<<"summarize">>, <<>>, ifOn("none")),
    POST(<<"enrich">>, <<>>, Tells("answers", "none")),
    GET(<<"costs">>, <<>>, Tells("free", "none")),
    GET(<<"stats">>, <<>>, Tells("free", "none"))>>

\* A failure of a chat is an event of its stream, one of a confirmation a 400
ChatRoutes ==
  <<POST(<<"chat">>, <<Validate>>, Tells("answers", "own")),
    GET(<<"sessions">>, <<>>, Tells("free", "none")),
    GET(<<"sessions", ":">>, <<>>, Tells("free", "none")),
    POST(<<"sessions">>, <<>>, Tells("free", "own")),
    DELETE(<<"sessions", ":">>, <<>>, Tells("free", "own"))>>

ConfirmRoutes ==
  <<POST(<<"confirm">>, <<Validate>>, Tells("answers", "own")),
    GET(<<"sessions", ":", "pending">>, <<>>, Tells("free", "none"))>>

StarterPromptRoutes ==
  <<GET(<<"starter-prompts">>, <<>>, Tells("free", "none")),
    GET(<<"starter-prompts", "catalog">>, <<>>, Tells("free", "none")),
    PATCH(<<"starter-prompts", "pins">>, <<>>, Tells("answers", "own")),
    DELETE(<<"starter-prompts", "pins">>, <<>>, Tells("free", "own"))>>

ChannelRoutes ==
  <<POST(<<"slack", "events">>, <<Signed("slack")>>, Tells("free", "own")),
    POST(<<"teams", "messages">>, <<Signed("teams")>>, Tells("free", "own"))>>

ShareRoutes ==
  <<POST(<<>>, <<Authenticate, Validate>>, Tells("answers", "own")),
    GET(<<":">>, <<>>, Tells("free", "none")),
    POST(<<":", "email">>, <<Authenticate, Validate>>, Tells("answers", "own"))>>

HealingRoutes ==
  LET c == HealingRules @@ HealingLists IN
  <<Use(<<Authenticate>>),
    GET(<<"rules">>, <<>>, c.getRules),
    GET(<<"rules", ":">>, <<>>, c.getRule),
    POST(<<"rules">>, <<Editors>>, c.createRule),
    PUT(<<"rules", ":">>, <<Editors>>, c.updateRule),
    PATCH(<<"rules", ":", "toggle">>, <<Editors>>, c.toggleRule),
    DELETE(<<"rules", ":">>, <<Admins>>, c.deleteRule),
    POST(<<"evaluate">>, <<Editors>>, c.evaluate),
    POST(<<"execute">>, <<Editors>>, c.execute),
    GET(<<"events">>, <<>>, c.getEvents),
    GET(<<"stats">>, <<>>, c.getStats),
    GET(<<"quarantine">>, <<>>, c.getQuarantinedTests),
    POST(<<"quarantine">>, <<Editors>>, c.quarantineTest),
    PATCH(<<"quarantine", ":", "reinstate">>, <<Editors>>, c.reinstateTest),
    DELETE(<<"quarantine", ":">>, <<Admins>>, c.deleteQuarantinedTest),
    GET(<<"quarantine", "stats">>, <<>>, c.getQuarantineStats),
    GET(<<"fix-suggestions">>, <<>>, c.getFixSuggestions),
    POST(<<"seed">>, <<Admins>>, c.seedRules)>>

WebhookRoutes == <<POST(<<"github">>, <<Signed("github")>>, Tells("answers", "shared"))>>

SettingsRoutes ==
  <<Use(<<Authenticate>>), GET(<<>>, <<>>, SettingsController.get),
    PUT(<<>>, <<>>, SettingsController.update)>>

\* Azure DevOps: a number is checked and answered, a schema throws to the application
AzurePipelines ==
  <<Use(<<Authenticate>>),
    GET(<<"status">>, <<>>, Reads),
    GET(<<"pipelines">>, <<>>, Reads),
    GET(<<"pipelines", ":">>, <<>>, Checks("none")),
    POST(<<"pipelines", ":", "run">>, <<>>, Parses("shared")),
    GET(<<"pipelines", ":", "runs">>, <<>>, Checks("none")),
    GET(<<"builds">>, <<>>, Reads),
    GET(<<"builds", ":">>, <<>>, Checks("none")),
    GET(<<"builds", ":", "timeline">>, <<>>, Checks("none"))>>

AzureWorkItems ==
  <<POST(<<"work-items", "query">>, <<>>, Parses("none")),
    GET(<<"work-items", "search">>, <<>>, Reads),
    GET(<<"work-items", ":">>, <<>>, Checks("none")),
    POST(<<"work-items">>, <<>>, Parses("shared")),
    PATCH(<<"work-items", ":">>, <<>>, Parses("shared")),
    GET(<<"wikis">>, <<>>, Reads),
    GET(<<"wikis", ":", "pages">>, <<>>, Reads),
    PUT(<<"wikis", ":", "pages">>, <<>>, Parses("shared"))>>

AzureRepos ==
  <<GET(<<"repos">>, <<>>, Reads),
    GET(<<"repos", ":", "pull-requests">>, <<>>, Reads),
    GET(<<"repos", ":", "pull-requests", ":">>, <<>>, Checks("none")),
    GET(<<"repos", ":", "pull-requests", ":", "threads">>, <<>>, Checks("none")),
    GET(<<"test-runs">>, <<>>, Reads),
    GET(<<"test-runs", ":", "results">>, <<>>, Checks("none")),
    GET(<<"project">>, <<>>, Reads),
    GET(<<"teams">>, <<>>, Reads),
    GET(<<"iterations", "current">>, <<>>, Reads)>>
-----------------------------------------------------------------------------
\* The checks of health.controller; nothing of Redis, Weaviate or AI is checked unless
\* it is in use, and an API key is looked for instead of the provider
checkDatabase == {"up", "down"}
checkRedis == {"unused", "up", "down"}
checkWeaviate == {"unused", "up", "down"}
checkAI == {"unused", "up", "down"}
StatusCode(services) == IF "down" \in services THEN "503" ELSE "200"

healthCheckFull ==
  Handler("free", "none", "never",
    {StatusCode({d, r, w, a}) : d \in checkDatabase, r \in checkRedis, w \in checkWeaviate,
                                a \in checkAI})
readinessCheck ==
  Handler("free", "none", "never",
    {StatusCode({d, r}) : d \in checkDatabase, r \in checkRedis})
livenessCheck == Handler("free", "none", "never", {})
-----------------------------------------------------------------------------
\* The chain
V1 == "api/v1"
At(prefix, layers) == [i \in DOMAIN layers |-> [layers[i] EXCEPT !.path = prefix \o @]]
Mount(name, layers) == At(<<V1, name>>, layers)

\* What app.ts has every request go through first
Gates ==
  <<Use(<<Guard("limited", "all")>>)>> \o
  At(<<V1, "auth", "login">>, <<Use(<<Guard("limited", "auth")>>)>>) \o
  At(<<V1, "auth", "register">>, <<Use(<<Guard("limited", "auth")>>)>>) \o
  <<Use(<<Guard("parsed", "body")>>),
    Use(<<Guard("session", "cookie")>>),
    GET(<<V1, "csrf-token">>, <<>>, livenessCheck),
    Use(<<Guard("csrf", "cookie")>>)>>

HealthLayers ==
  <<GET(<<"health">>, <<>>, livenessCheck),
    GET(<<"health", "full">>, <<>>, healthCheckFull),
    GET(<<"health", "live">>, <<>>, livenessCheck),
    GET(<<"health", "ready">>, <<>>, readinessCheck)>>

registerRoutes ==
  <<GET(<<"metrics">>, <<Authenticate>>, MetricsController.getPrometheusMetrics)>> \o
  Mount("auth", AuthRoutes) \o
  Mount("dashboard", DashboardRoutes) \o
  Mount("pipelines", PipelineRoutes \o PipelineTests) \o
  Mount("test-runs", TestRunRoutes) \o
  Mount("notifications", NotificationRoutes \o NotificationSettings) \o
  Mount("jira", JiraRoutes) \o
  Mount("xray", XrayReads \o XrayRoutes) \o
  Mount("failure-archive", FailureArchiveRoutes) \o
  Mount("monday", MondayRoutes) \o
  Mount("metrics", MetricsRoutes) \o
  Mount("tests", FlakyTestRoutes) \o
  Mount("ci", TestImpactRoutes) \o
  Mount("teams", TeamRoutes) \o
  Mount("ai", <<Use(<<Authenticate>>)>> \o AiConfigRoutes \o MyConfigRoutes \o AnalysisRoutes
    \o AnalysisReports \o ChatRoutes \o ConfirmRoutes \o StarterPromptRoutes) \o
  Mount("channels", ChannelRoutes) \o
  Mount("shares", ShareRoutes) \o
  Mount("healing", HealingRoutes) \o
  Mount("webhooks", WebhookRoutes) \o
  Mount("settings", SettingsRoutes) \o
  Mount("azure-devops", AzurePipelines \o AzureWorkItems \o AzureRepos)

\* The handler of errors of the application comes last
Chain == Gates \o HealthLayers \o registerRoutes \o <<OnErrors>>
-----------------------------------------------------------------------------
\* Requests and those who send them
Nobody ==
  [bearer |-> "none", session |-> "none", ci |-> FALSE, csrf |-> FALSE, signs |-> "nothing"]
Caller ==
  {Nobody, [Nobody EXCEPT !.ci = TRUE]} \union
  {[Nobody EXCEPT !.bearer = r, !.csrf = TRUE] :
     r \in {"VIEWER", "BILLING", "EDITOR", "ADMIN"}} \union
  {[Nobody EXCEPT !.session = r, !.csrf = TRUE] : r \in {"VIEWER", "ADMIN"}} \union
  {[Nobody EXCEPT !.signs = s] : s \in {"slack", "teams", "github", "saml"}}

\* Every route is asked for, and one path below each mount that is no route
Routes == {i \in DOMAIN Chain : Chain[i].kind = "route"}
Stray(i) == [method |-> "GET", path |-> SubSeq(Chain[i].path, 1, 2) \o <<"no", "such", "thing">>]
Target ==
  {[method |-> Chain[i].method, path |-> Chain[i].path] : i \in Routes} \union
  {Stray(i) : i \in {j \in Routes : Len(Chain[j].path) > 1}}

VARIABLES
  target,     \* the method and the path; a parameter is ":", which no route spells out
  sender,
  content,    \* "fits", "unfit" for the route, or "garbled": no JSON
  reqUser,    \* req.user: a role, or "none"
  reached,    \* the layer of the chain that the request is in; 0: none yet
  toPass,     \* its guards that are left
  raised,     \* the error given to next(), or "none"
  reply,      \* the status, or "none"
  refusedBy,  \* the kind of the guard that let it not pass, or "none"
  made        \* what the handler has changed

httpVars == <<target, sender, content, reqUser, reached, toPass, raised, reply, refusedBy, made>>

\* The layers that a request of the kind matches
Fits(segment, given) == segment = ":" \/ segment = given
Matches(l, a) ==
  /\ l.method \in {"any", a.method}
  /\ IF l.kind = "route" THEN Len(l.path) = Len(a.path) ELSE Len(l.path) <= Len(a.path)
  /\ \A i \in DOMAIN l.path : Fits(l.path[i], a.path[i])
Way == [a \in Target |-> {i \in DOMAIN Chain : Matches(Chain[i], a)}]

\* The next of them for a request, or for its error
Ahead(kinds) == {i \in Way[target] : i > reached /\ Chain[i].kind \in kinds}
Nearest(layers) == CHOOSE i \in layers : \A j \in layers : i <= j

HttpInit ==
  /\ target \in Target /\ sender \in Caller
  /\ content \in (IF target.method = "GET" THEN {"fits", "unfit"} ELSE {"fits", "unfit", "garbled"})
  /\ reqUser = "none" /\ reached = 0 /\ toPass = <<>>
  /\ raised = "none" /\ reply = "none" /\ refusedBy = "none" /\ made = "none"

Unanswered == reply = "none" /\ raised = "none"
Arrived == Unanswered /\ toPass = <<>> /\ reached > 0
AtRoute == Arrived /\ Chain[reached].kind = "route"
BetweenLayers == Unanswered /\ toPass = <<>> /\ ~AtRoute

EnterLayer ==
  /\ BetweenLayers
  /\ LET ahead == Ahead({"use", "route"}) IN
       /\ ahead # {}
       /\ reached' = Nearest(ahead)
       /\ toPass' = Chain[Nearest(ahead)].guards
  /\ UNCHANGED <<target, sender, content, reqUser, raised, reply, refusedBy, made>>

NotFound ==
  /\ BetweenLayers /\ Ahead({"use", "route"}) = {}
  /\ reply' = "404"
  /\ UNCHANGED <<target, sender, content, reqUser, reached, toPass, raised, refusedBy, made>>

\* A guard is passed, perhaps with a user; raises an error; or answers
LetOn(as) ==
  /\ toPass' = Tail(toPass) /\ reqUser' = as
  /\ UNCHANGED <<target, sender, content, reached, raised, reply, refusedBy, made>>
Raise(what) ==
  /\ raised' = what /\ refusedBy' = Head(toPass).kind
  /\ UNCHANGED <<target, sender, content, reqUser, reached, toPass, reply, made>>
Refuse(status) ==
  /\ reply' = status /\ refusedBy' = Head(toPass).kind
  /\ UNCHANGED <<target, sender, content, reqUser, reached, toPass, raised, made>>

Before(kind) == Unanswered /\ toPass # <<>> /\ Head(toPass).kind = kind

RateLimit == Before("limited") /\ (LetOn(reqUser) \/ Refuse("429"))

ParseBody ==
  /\ Before("parsed")
  /\ IF content = "garbled" THEN Raise("body") ELSE LetOn(reqUser)

\* The session is read from Redis, its user from the database
RestoreSession ==
  /\ Before("session")
  /\ LetOn(sender.session) \/ (sender.session # "none" /\ Raise("failed"))

skipCsrfProtection ==
  \/ target.method = "GET"
  \/ Len(target.path) > 1 /\ target.path[1] = V1 /\ target.path[2] = "channels"
  \/ /\ Len(target.path) > 2 /\ target.path[1] = V1 /\ target.path[2] = "auth"
     /\ target.path[3] \in {"login", "register", "refresh"}

doubleCsrfProtection ==
  /\ Before("csrf")
  /\ IF skipCsrfProtection \/ sender.csrf THEN LetOn(reqUser) ELSE Raise("forbidden")

\* The token is looked up in Redis and its user in the database, which may fail
authenticated == IF sender.bearer = "none" THEN Raise("unknown") ELSE LetOn(sender.bearer)

authenticateUser == Before("authenticate") /\ (authenticated \/ Raise("failed"))

\* The token of CI is checked against the one that is configured, if any is
ciAuthenticate ==
  /\ Before("ciAuthenticate")
  /\ \/ sender.ci /\ (LetOn("VIEWER") \/ Raise("unknown"))
     \/ ~sender.ci /\ (authenticated \/ Raise("failed"))

ROLE_HIERARCHY == [VIEWER |-> 10, BILLING |-> 20, EDITOR |-> 30, ADMIN |-> 40]
\* Mutant: a role must be above the one that is required
hasRoleAbove(held, required) == ROLE_HIERARCHY[held] > ROLE_HIERARCHY[required]
hasRole(held, required) == ROLE_HIERARCHY[held] >= ROLE_HIERARCHY[required]

authorize ==
  /\ Before("authorize")
  /\ IF reqUser = "none" THEN Raise("unknown")
     ELSE IF hasRole(reqUser, Head(toPass).of) THEN LetOn(reqUser) ELSE Raise("forbidden")

validate ==
  /\ Before("validate")
  /\ IF content = "unfit" THEN Raise("validation") ELSE LetOn(reqUser)

\* Who does not sign in with SAML is sent to where this is done
checkSignature ==
  /\ Before("signed")
  /\ LET by == Head(toPass).of IN
       IF by = "saml" THEN IF sender.signs = by THEN LetOn(reqUser) ELSE Refuse("302")
       ELSE Refuse("503") \/ (IF sender.signs = by THEN LetOn(reqUser) ELSE Refuse("401"))

refuseRefresh == Before("refuses") /\ Refuse("401")

Answers(status, effect) ==
  /\ reply' = status /\ made' = effect
  /\ UNCHANGED <<target, sender, content, reqUser, reached, toPass, raised, refusedBy>>
Throws(what, effect) ==
  /\ raised' = what /\ made' = effect
  /\ UNCHANGED <<target, sender, content, reqUser, reached, toPass, reply, refusedBy>>

Mistaken == content = "unfit" /\ Chain[reached].run.input # "free"

\* What a handler asks for fails, before it has changed anything or after
HandlerFails ==
  /\ AtRoute /\ ~Mistaken
  /\ \E effect \in {"none", Chain[reached].run.changes} :
       CASE Chain[reached].run.fails = "next" -> Throws("failed", effect)
         [] Chain[reached].run.fails = "answers" -> Answers("500", effect)
         [] OTHER -> FALSE

Handle ==
  /\ AtRoute
  /\ LET handler == Chain[reached].run IN
       \/ \E status \in handler.off : Answers(status, "none")
       \/ Mistaken /\ handler.input = "answers" /\ Answers("400", "none")
       \/ Mistaken /\ handler.input = "throws" /\ Throws("schema", "none")
       \/ ~Mistaken /\ Answers("200", handler.changes)

\* The routers of Jira and Xray answer what their schemas throw, and hand on the rest;
\* the application answers by the status that an error has, if it has one
StatusOf(what) ==
  CASE what = "unknown" -> "401" [] what = "forbidden" -> "403"
    [] what \in {"body", "validation"} -> "400" [] OTHER -> "500"

HandleError ==
  /\ reply = "none" /\ raised # "none"
  /\ LET to == Nearest(Ahead({"error"})) IN
       /\ reached' = to
       /\ reply' = IF Chain[to].path = <<>> THEN StatusOf(raised)
                    ELSE IF raised = "schema" THEN "400" ELSE "none"
  /\ UNCHANGED <<target, sender, content, reqUser, toPass, raised, refusedBy, made>>

HttpNext ==
  \/ EnterLayer \/ NotFound \/ RateLimit \/ ParseBody \/ RestoreSession \/ doubleCsrfProtection
  \/ authenticateUser \/ ciAuthenticate \/ authorize \/ validate \/ checkSignature \/ refuseRefresh
  \/ Handle \/ HandlerFails \/ HandleError
-----------------------------------------------------------------------------
\* Which part of the API is asked for, and what the route for it says
Under(mount) == Len(target.path) > 1 /\ target.path[1] = V1 /\ target.path[2] = mount
Own == [a \in Target |-> {i \in Routes : Chain[i].method = a.method /\ Chain[i].path = a.path}]
Demands ==
  [a \in Target |->
     UNION {Range(Chain[i].guards) : i \in {k \in Way[a] : \A o \in Own[a] : k <= o}}]

\* The guards of a route are met by what the caller brings along
Meets(g) ==
  CASE g.kind = "authenticate" -> sender.bearer # "none"
    [] g.kind = "ciAuthenticate" -> sender.ci \/ sender.bearer # "none"
    [] g.kind = "authorize" -> sender.bearer \in {"ADMIN", g.of}
    [] g.kind = "signed" -> sender.signs = g.of
    [] OTHER -> TRUE

\* A request never ends in the handler of another route: one with a parameter that was
\* declared before it (failure-archive.routes.ts, azuredevops.controller.ts).
ReachesOwnHandler == reached > 0 /\ Chain[reached].kind = "route" => reached \in Own[target]

\* What others see is changed by editors and by GitHub's signed events alone, except that
\* the routes for Jira, Monday, Azure DevOps, analyses and regressions are open to every
\* user; nobody unknown changes anything but by signing in or up.
OpenToViewers ==
  \/ \E mount \in {"jira", "monday", "azure-devops", "ci"} : Under(mount)
  \/ Under("ai") /\ target.path[3] = "rca"
OnlyEditorsChange ==
  /\ made = "shared" =>
       \/ reqUser \in {"EDITOR", "ADMIN"} \/ sender.signs = "github"
       \/ reqUser # "none" /\ OpenToViewers
  /\ made # "none" => reqUser # "none" \/ sender.signs # "nothing" \/ Under("auth")

\* Who brings what the guards of a route ask for is let in, but for three parts that
\* nobody, or no caller of the kind they are meant for, can use: webhooks and the
\* selection for CI stop at the CSRF check, as they come without a cookie; the routes
\* of notifications for admins ask for a role before they know the user.
ServesWhomItNames ==
  refusedBy \in {"csrf", "authenticate", "authorize"} /\ raised \in {"unknown", "forbidden"} /\
  (\A g \in Demands[target] : Meets(g)) =>
    \/ Under("webhooks")
    \/ Under("ci") /\ sender.ci /\ target.method = "POST"
    \/ Under("notifications") /\ sender.session = "none" /\ Admins \in Demands[target]

\* A request that does not fit changes nothing, and is answered as the caller's mistake
\* but by the two controllers whose schemas throw to the application.
MistakesAreTold ==
  /\ content = "garbled" => made = "none" /\ reply \in {"none", "400", "429"}
  /\ (raised = "validation" \/ raised = "schema") => made = "none"
  /\ raised = "schema" /\ reply = "500" => Under("failure-archive") \/ Under("azure-devops")

\* What the chain of app.ts does with any request to any route is right.
RoutesInv == ReachesOwnHandler /\ OnlyEditorsChange /\ ServesWhomItNames /\ MistakesAreTold

\* Every request is answered.
RequestIsAnswered == reply # "none"
=============================================================================
