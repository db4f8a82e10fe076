---------------------------- MODULE CopilotAdvice ----------------------------
(***************************************************************************)
(* What the copilot offers of itself: the persona that a message is routed *)
(* to (PersonaRouter.ts, with its cache and the model it asks), the four   *)
(* prompts a conversation starts with (StarterPromptResolver.ts) and the   *)
(* suggestion after a tool (ProactiveSuggestionEngine.ts).  They share no  *)
(* state.                                                                  *)
(*                                                                         *)
(* A message is what it begins with, which is all that the cache's key has *)
(* of it, and the rules that match it.  A tool's result has the fields     *)
(* that the rules look at, as the tool fills them in.                      *)
(***************************************************************************)
EXTENDS Integers, FiniteSetsExt, Sequences

CONSTANTS
  Question,     \* requests to route a message
  Message,      \* [start, matches]
  PersonaNamed,        \* what the model may name as persona
  CACHE_TTL,    \* minutes
  CacheLimit,   \* entries above which stale ones are removed
  MinuteBound,  \* bound: minutes
  PinnedLists,  \* lists of prompts that a user may ask to pin
  LoopBound     \* bound: results of one request

\* What is pinned in the lists that are asked for
Pinnable == UNION {{list[i] : i \in DOMAIN list} : list \in PinnedLists}

VARIABLES
  aspect,       \* which of the three is looked at; never changes
  routings,     \* routingCache: per beginning, [persona, age]
  questions,    \* the requests, and what was answered before each
  minutes,
  pins, prompts,\* the user's; the list that is being made, and how far it is
  loop          \* collectedResults, each with what was suggested after it

adviceVars == <<aspect, routings, questions, minutes, pins, prompts, loop>>
-----------------------------------------------------------------------------
PERSONA_RULES ==
  <<"SECURITY_ENGINEER", "AI_ARCHITECT", "DATA_ENGINEER", "UX_DESIGNER", "PERFORMANCE_ENGINEER",
    "TEST_ENGINEER", "DEVOPS_ENGINEER", "AI_PRODUCT_MANAGER">>
DEFAULT_PERSONA == "SENIOR_ENGINEER"
Ruled == {PERSONA_RULES[i] : i \in 1..Len(PERSONA_RULES)}
getAvailablePersonas == Ruled \union {DEFAULT_PERSONA}

ASSUME AdviceAssumption ==
  /\ \A m \in Message : m.matches \subseteq Ruled
  /\ CACHE_TTL \in Nat /\ CacheLimit \in Nat
  /\ PinnedLists \subseteq Seq(Pinnable)

getPersonaInstruction(p) == IF p \in getAvailablePersonas THEN p ELSE DEFAULT_PERSONA

\* The first rule that matches decides
matchKeywordRules(m) == {i \in 1..Len(PERSONA_RULES) : PERSONA_RULES[i] \in m.matches}

\* The model names one, possibly none there is; when it does not, or is not there, the default
classifyWithLLM == PersonaNamed \union {DEFAULT_PERSONA}

Stale(entry) == entry.age > CACHE_TTL
getCachedResult(start) ==
  IF start \in DOMAIN routings /\ ~Stale(routings[start]) THEN {routings[start].persona} ELSE {}

setCachedResult(entries, start, p) ==
  LET kept == IF Cardinality(DOMAIN entries) > CacheLimit
              THEN {s \in DOMAIN entries : ~Stale(entries[s])} ELSE DOMAIN entries IN
  [s \in kept \union {start} |-> IF s = start THEN [persona |-> p, age |-> 0] ELSE entries[s]]

Decided == {q \in Question : questions[q].at = "answered"}
Answer(q, m, p, fresh, earlier, since) ==
  questions' = [questions EXCEPT ![q] =
    [at |-> "answered", message |-> m, persona |-> p, fresh |-> fresh, earlier |-> earlier,
     asked |-> since, answered |-> minutes]]

\* The cache, from which what is stale is deleted when it is looked for; the rules; the model
routeToPersona(q, m) ==
  /\ aspect = "routing" /\ questions[q].at = "new"
  /\ LET cached == getCachedResult(m.start)
         current == [s \in DOMAIN routings \ {r \in {m.start} : cached = {}} |-> routings[s]]
         matching == matchKeywordRules(m)
     IN IF cached # {}
        THEN /\ \A p \in cached : Answer(q, m, p, FALSE, Decided, minutes)
             /\ UNCHANGED routings
        ELSE IF matching # {}
        THEN LET first == PERSONA_RULES[Min(matching)] IN
             /\ Answer(q, m, first, TRUE, Decided, minutes)
             /\ routings' = setCachedResult(current, m.start, first)
        ELSE /\ questions' = [questions EXCEPT ![q] =
                  [at |-> "asking", message |-> m, earlier |-> Decided, asked |-> minutes]]
             /\ routings' = current
  /\ UNCHANGED <<aspect, minutes, pins, prompts, loop>>

ModelAnswers(q) ==
  /\ questions[q].at = "asking"
  /\ \E p \in classifyWithLLM :
       LET asking == questions[q] IN
       /\ Answer(q, asking.message, p, TRUE, asking.earlier, asking.asked)
       /\ routings' = setCachedResult(routings, asking.message.start, p)
  /\ UNCHANGED <<aspect, minutes, pins, prompts, loop>>

MinutePasses ==
  /\ aspect = "routing" /\ minutes < MinuteBound /\ minutes' = minutes + 1
  /\ routings' = [s \in DOMAIN routings |-> [routings[s] EXCEPT !.age = @ + 1]]
  /\ UNCHANGED <<aspect, questions, pins, prompts, loop>>
-----------------------------------------------------------------------------
MAX_PROMPTS == 4
Signals == 1..5

\* Prompts are known by their catalog and their place there
Catalogs == [LEAD |-> 6, QA |-> 6, DEVELOPER |-> 6, PRODUCT |-> 6, GENERIC |-> 4]
getCatalogForRole(userRole) ==
  LET catalog == IF userRole = "ADMIN" THEN "LEAD" ELSE "GENERIC"
  IN [i \in 1..Catalogs[catalog] |-> <<catalog, i>>]
getPromptById(id) == id[1] \in DOMAIN Catalogs /\ id[2] \in 1..Catalogs[id[1]]

\* Five are refused, so that there is nothing left to cut
savePinnedPrompts ==
  /\ aspect = "prompts" /\ prompts.at = "none"
  /\ \E toPin \in PinnedLists : Len(toPin) <= MAX_PROMPTS /\ pins' = toPin
  /\ UNCHANGED <<aspect, routings, questions, minutes, prompts, loop>>

IsIn(id, list) == \E i \in DOMAIN list : list[i].id = id
Place(id, list, source) ==
  IF Len(list) >= MAX_PROMPTS \/ IsIn(id, list) THEN list
  ELSE Append(list, [id |-> id, source |-> source])
From(ids, list, source) ==
  LET filled[n \in 0..Len(ids)] ==
        IF n = 0 THEN list ELSE Place(ids[n], filled[n - 1], source)
  IN filled[Len(ids)]

\* One that is in no catalog is the user's own, named by its place; or the read fails
resolvePins ==
  /\ aspect = "prompts" /\ prompts.at = "none"
  /\ \E userRole \in {"ADMIN", "EDITOR"}, read \in BOOLEAN :
       prompts' = [at |-> "signals", userRole |-> userRole, signal |-> 1, list |->
         IF read
         THEN [i \in 1..Len(pins) |-> [source |-> "pin",
                id |-> IF getPromptById(pins[i]) THEN pins[i] ELSE <<"custom", i>>]]
         ELSE <<>>]
  /\ UNCHANGED <<aspect, routings, questions, minutes, pins, loop>>

\* One query after the other, while there is room; one that fails is not a signal
CheckSignal ==
  /\ prompts.at = "signals" /\ prompts.signal \in Signals /\ Len(prompts.list) < MAX_PROMPTS
  /\ \E holds \in BOOLEAN :
       prompts' = [prompts EXCEPT !.signal = @ + 1, !.list =
                     IF holds THEN Place(<<"context", prompts.signal>>, @, "context") ELSE @]
  /\ UNCHANGED <<aspect, routings, questions, minutes, pins, loop>>

FillWithRole ==
  /\ prompts.at = "signals" /\ (prompts.signal \notin Signals \/ Len(prompts.list) >= MAX_PROMPTS)
  /\ prompts' = [prompts EXCEPT !.at = "done",
                   !.list = From(getCatalogForRole(prompts.userRole), @, "role")]
  /\ UNCHANGED <<aspect, routings, questions, minutes, pins, loop>>
-----------------------------------------------------------------------------
Absent == -1
NoData == [issues |-> Absent, transient |-> Absent, status |-> "", mergeable |-> FALSE, job |-> FALSE]

\* What the tools return: the issues found are the data, not a field of it; predictions have
\* scores; a pipeline's status and name are within a field; any request is called mergeable
ToolResult(tool, hits) ==
  [tool |-> tool, hits |-> hits,
   data |-> IF tool = "github_get_pr" /\ hits > 0 THEN [NoData EXCEPT !.mergeable = TRUE]
            ELSE NoData]
Tools == {"jira_search", "jira_get", "failure_predictions", "jenkins_get_status", "github_get_pr",
          "rca_identify"}

NoSuggestion == [tool |-> "none", labels |-> {}]
Suggests(tool) == [tool |-> tool, labels |-> {}]

buildJiraIssueFromContext(previous) ==
  LET gathered == {previous[i].result.data : i \in {j \in DOMAIN previous : previous[j].success}} IN
  [tool |-> "jira_create_issue",
   labels |-> {"ai-suggested"}
     \union {l \in {"failure-analysis"} : \E data \in gathered : data.transient # Absent}
     \union {l \in {"pipeline-failure"} : \E data \in gathered : data.job}]

\* The first rule that applies; no rule looks at a result that failed
evaluateSuggestion(result, success, previous) ==
  LET Is(tool) == success /\ result.tool = tool IN
  IF Is("jira_search") /\ result.data.issues \in {Absent, 0} THEN buildJiraIssueFromContext(previous)
  ELSE IF Is("failure_predictions") /\ result.data.transient > 0 THEN Suggests("testrun_retry")
  ELSE IF Is("jenkins_get_status") /\ result.data.status = "failed"
       THEN Suggests("jenkins_trigger_build")
  ELSE IF Is("jira_search") /\ result.data.issues >= 2
          /\ \E i \in DOMAIN previous : previous[i].result.tool = "jira_get"
       THEN Suggests("jira_link_issues")
  ELSE IF Is("github_get_pr") /\ result.data.mergeable THEN Suggests("github_merge_pr")
  ELSE NoSuggestion

\* The result is collected first; an analysis that has named a root cause goes its own way
ToolRan ==
  /\ aspect = "suggestions" /\ Len(loop) < LoopBound
  /\ \E tool \in Tools, hits \in 0..2, success \in BOOLEAN :
       LET ran == [result |-> ToolResult(tool, hits), success |-> success]
           chain == tool = "rca_identify" \/ \E i \in DOMAIN loop : loop[i].result.tool = "rca_identify"
       IN loop' = Append(loop, [result |-> ran.result, success |-> success, suggested |->
                    IF chain THEN NoSuggestion
                    ELSE evaluateSuggestion(ran.result, success, Append(loop, ran))])
  /\ UNCHANGED <<aspect, routings, questions, minutes, pins, prompts>>

AdviceInit ==
  /\ aspect \in {"routing", "prompts", "suggestions"}
  /\ routings = <<>> /\ questions = [q \in Question |-> [at |-> "new"]] /\ minutes = 0
  /\ pins = <<>> /\ prompts = [at |-> "none"] /\ loop = <<>>

AdviceNext ==
  \/ \E q \in Question : ModelAnswers(q) \/ \E m \in Message : routeToPersona(q, m)
  \/ MinutePasses
  \/ savePinnedPrompts \/ resolvePins \/ CheckSignal \/ FillWithRole
  \/ ToolRan
-----------------------------------------------------------------------------
\* A question is decided anew, by the model if need be, only if none that begins alike was
\* answered in the last five minutes (PersonaRouter.ts:252), and is otherwise answered as one
\* of those was; when it is the first to be decided of those that begin alike, and a rule
\* matches, the rule decides.  With more entries than the limit and one, none had gone
\* stale when the last was stored (PersonaRouter.ts:267).
RoutesHold ==
  /\ \A q \in Decided : LET a == questions[q]
                             alike == {r \in a.earlier : questions[r].message.start = a.message.start}
                             decided == {r \in alike : questions[r].fresh}
     IN /\ a.fresh => \A r \in decided : a.asked - questions[r].answered > CACHE_TTL
        /\ ~a.fresh => \E r \in decided : questions[r].persona = a.persona
        /\ (alike = {} /\ a.message.matches # {}) =>
             a.persona \in a.message.matches /\ a.asked = a.answered
        /\ getPersonaInstruction(a.persona) \in getAvailablePersonas
  /\ Cardinality(DOMAIN routings) > CacheLimit + 1 =>
       \A s, t \in DOMAIN routings : routings[s].age - routings[t].age <= CACHE_TTL

\* "Always returns exactly 4 prompts" (StarterPromptResolver.ts:5): pins first, then signals,
\* then the role's, and none twice but what the user has pinned twice.
PromptsHold ==
  prompts.at = "done" =>
    LET list == prompts.list
        Rank == [pin |-> 1, context |-> 2, role |-> 3]
    IN /\ Len(list) = MAX_PROMPTS
       /\ \A i, j \in DOMAIN list : i < j =>
            /\ Rank[list[i].source] <= Rank[list[j].source]
            /\ list[i].id = list[j].id => list[j].source = "pin" /\ getPromptById(list[j].id)

\* What is ever suggested: a draft of an issue after any search that succeeded, whether it
\* found issues or not, although specs/AUTONOMOUS_AI_SPEC.md:472 has it for none found; and to
\* merge any pull request that was found.  NoData in an analysis once it has named a root
\* cause.  The other rules look for fields that no tool returns, and so do the labels.
SuggestionsHold ==
  \A i \in DOMAIN loop :
    LET s == loop[i].suggested
        r == loop[i].result
        chain == \E j \in 1..i : loop[j].result.tool = "rca_identify"
    IN /\ s.tool = "jira_create_issue" <=> (~chain /\ loop[i].success /\ r.tool = "jira_search")
       /\ s.tool = "github_merge_pr" <=>
            (~chain /\ loop[i].success /\ r.tool = "github_get_pr" /\ r.hits > 0)
       /\ s.tool \in {"none", "jira_create_issue", "github_merge_pr"}
       /\ s.labels \subseteq {"ai-suggested"}

AdviceInv == RoutesHold /\ PromptsHold /\ SuggestionsHold
=============================================================================
