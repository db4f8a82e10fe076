----------------------------- MODULE ReActLoop -----------------------------
(***************************************************************************)
(* One copilot request: the POST /chat route, prepareChatContext and the   *)
(* ReAct loops of AIChatService.ts, streaming (web) and buffered (Slack,   *)
(* Teams), with the model's answers, the user's autonomy setting and the   *)
(* chat session as environment.  Requests share nothing else.              *)
(*                                                                         *)
(* Abstracted: texts, arguments and results, except whether a comment is   *)
(* marked as a note and whether a build is one of production; tokens;      *)
(* personas; thinking, tool and suggestion events.  A tool call is one     *)
(* step, its result included.                                              *)
(***************************************************************************)
EXTENDS Autonomy, Sequences

CONSTANTS
  Tool,           \* names the model may call, registered or not
  Guarded,        \* those whose calls to other systems all time out
  Role,           \* roles users have
  MaxToolCalls,   \* MAX_TOOL_CALLS
  MaxIterations,  \* MAX_REACT_ITERATIONS
  BatchBound      \* bound: tool calls in one answer of the model

ASSUME ReActAssumption ==
  /\ Guarded \subseteq Tool
  /\ MaxToolCalls \in Nat \ {0}
  /\ MaxIterations \in Nat \ {0}
  /\ BatchBound \in Nat \ {0}

VARIABLES
  pref,           \* User.autonomyLevel
  sessionRow,     \* does the ChatSession row exist?
  pending,        \* PendingAction rows this request created
  req,            \* the request: mode, role, kind of sessionId, do its providers time out?
  pc,             \* where its handler is
  level,          \* req.autonomyLevel, read once
  iteration, toolCallCount,
  calls,          \* tool calls of the current answer still to handle
  unanswered,     \* tool calls in ctx.messages without a tool message
  executed,       \* history: calls executed by the loop
  ran,            \* history: how many
  outcome,        \* how the request ended
  dones           \* 'done' events sent

environment == <<pref, sessionRow>>
loopVars == <<iteration, toolCallCount, calls, unanswered>>
history == <<executed, ran>>
ending == <<pc, outcome, dones>>
vars == <<environment, pending, req, level, loopVars, history, ending>>

Call ==
  {call \in [tool : Tool, note : BOOLEAN, production : BOOLEAN] :
     /\ call.note => call.tool = "jira_comment"
     /\ call.production => call.tool = "jenkins_trigger_build"}

Batch == UNION {[1..n -> Call] : n \in 1..BatchBound}
Streaming == req.mode = "stream"

TypeOK ==
  /\ pref \in Level /\ level \in Level
  /\ sessionRow \in BOOLEAN
  /\ pending \in 0..1
  /\ req \in [mode : {"stream", "buffered"}, role : Role,
              session : {"named", "anonymous", "none"}, timed : BOOLEAN]
  /\ pc \in {"open", "prepare", "think", "call", "ended"}
  /\ iteration \in 0..MaxIterations
  /\ toolCallCount \in Nat
  /\ calls \in Seq(Call)
  /\ unanswered \in Nat
  /\ executed \in SUBSET Call
  /\ ran \in Nat
  /\ outcome \in {"none", "answer", "confirmation", "error", "exhausted", "internal"}
  /\ dones \in 0..1
  /\ pc = "ended" <=> outcome # "none"

\* Slack and Teams requests name a session and carry no autonomy level
Init ==
  /\ pref \in Level
  /\ level = "balanced"
  /\ pending = 0
  /\ req \in [mode : {"stream"}, role : Role, session : {"named", "anonymous", "none"},
              timed : BOOLEAN]
             \union [mode : {"buffered"}, role : Role, session : {"named"}, timed : BOOLEAN]
  /\ sessionRow \in {FALSE, req.session = "named"}
  /\ pc = IF Streaming THEN "open" ELSE "prepare"
  /\ iteration = 0
  /\ toolCallCount = 0
  /\ calls = <<>>
  /\ unanswered = 0
  /\ executed = {}
  /\ ran = 0
  /\ outcome = "none"
  /\ dones = 0
-----------------------------------------------------------------------------
(***************************************************************************)
(* The user changes settings or deletes the session, before or meanwhile.  *)
(***************************************************************************)

SetUserAutonomyLevel ==
  /\ pref' \in Level \ {pref}
  /\ UNCHANGED <<sessionRow, pending, req, level, loopVars, history, ending>>

DeleteSession ==
  /\ sessionRow
  /\ sessionRow' = FALSE
  /\ UNCHANGED <<pref, pending, req, level, loopVars, history, ending>>
-----------------------------------------------------------------------------
(***************************************************************************)
(* The handler.                                                            *)
(***************************************************************************)

\* A last event, then 'done'; a buffered request returns or throws
End(how) ==
  /\ pc' = "ended"
  /\ outcome' = how
  /\ dones' = IF Streaming THEN dones + 1 ELSE dones

\* POST /chat: a read that fails leaves the default
ReadPreference ==
  /\ pc = "open"
  /\ level' \in {pref, "balanced"}
  /\ pc' = "prepare"
  /\ UNCHANGED <<environment, pending, req, loopVars, history, outcome, dones>>

\* prepareChatContext: a session that cannot be ensured is only logged
Prepare ==
  /\ pc = "prepare"
  /\ \/ /\ pc' = "think"
        /\ sessionRow' \in {sessionRow, sessionRow \/ req.session = "named"}
        /\ UNCHANGED <<outcome, dones>>
     \/ /\ End("error")
        /\ UNCHANGED sessionRow
  /\ UNCHANGED <<pref, pending, req, level, loopVars, history>>

\* Mutant: 'continue' without the increment of the for loop
NextIterationUncounted ==
  /\ pc' = "think"
  /\ UNCHANGED <<iteration, outcome, dones>>

\* The for loop: another turn, or its limit is reached
NextIteration ==
  /\ iteration' = iteration + 1
  /\ \/ /\ iteration + 1 < MaxIterations
        /\ pc' = "think"
        /\ UNCHANGED <<outcome, dones>>
     \/ /\ iteration + 1 = MaxIterations
        /\ End("exhausted")

\* provider.chat fails, or answers in words
ProviderEnds ==
  /\ pc = "think"
  /\ \/ End("error")
     \/ End("answer")
  /\ UNCHANGED <<environment, pending, req, level, loopVars, history>>

LimitReached == toolCallCount >= MaxToolCalls

\* appendToolLimitMessages: the model is told to answer now
RefuseCalls ==
  /\ pc = "think"
  /\ LimitReached
  /\ NextIteration
  /\ UNCHANGED <<environment, pending, req, level, toolCallCount, calls, unanswered, history>>

ProposeCalls ==
  /\ pc = "think"
  /\ ~LimitReached
  /\ \E batch \in Batch :
       /\ calls' = batch
       /\ unanswered' = unanswered + Len(batch)
  /\ pc' = "call"
  /\ UNCHANGED <<environment, pending, req, level, iteration, toolCallCount, history,
                 outcome, dones>>

\* The loop passes neither confidence nor environment to classifyTool
LoopContext(call) ==
  [confident |-> FALSE, retriedTwice |-> FALSE, production |-> FALSE, note |-> call.note]

\* Does the call wait for a human?  Every gated one of a buffered request does
Asks(call) ==
  /\ call.tool \in GatedTool
  /\ Streaming => ClassifyTool(call.tool, LoopContext(call), level) >= 2

\* Streaming counts every call, buffered only those it executes
CountsHeldCalls == IF Streaming THEN toolCallCount + 1 ELSE toolCallCount

\* Mutant: the tool message is only pushed for executed calls
AnswerExecutedOnly ==
  /\ unanswered' = IF ran' = ran THEN unanswered ELSE unanswered - 1
  /\ calls' = Tail(calls)
  /\ \/ /\ Tail(calls) # <<>>
        /\ UNCHANGED <<iteration, ending>>
     \/ /\ Tail(calls) = <<>>
        /\ NextIteration

\* The call gets its tool message; after the last one comes the next turn
Answer ==
  /\ unanswered' = unanswered - 1
  /\ calls' = Tail(calls)
  /\ \/ /\ Tail(calls) # <<>>
        /\ UNCHANGED <<iteration, ending>>
     \/ /\ Tail(calls) = <<>>
        /\ NextIteration

\* Unknown tool, missing role, or a confirmation without a session to store it in
Refuse ==
  /\ pc = "call"
  /\ \/ ~MayCall(req.role, Head(calls).tool)
     \/ Asks(Head(calls)) /\ req.session = "none"
  /\ toolCallCount' = CountsHeldCalls
  /\ UNCHANGED <<environment, pending, req, level, history>>
  /\ Answer

\* Mutant: the rest of the batch goes on after the confirmation_request
AskAndGoOn ==
  /\ pc = "call"
  /\ MayCall(req.role, Head(calls).tool)
  /\ Asks(Head(calls)) /\ req.session # "none"
  /\ toolCallCount' = CountsHeldCalls
  /\ sessionRow /\ pending = 0
  /\ pending' = 1
  /\ Answer
  /\ UNCHANGED <<environment, req, level, history>>

\* createConfirmation needs the session row; either way the loop stops
Ask ==
  /\ pc = "call"
  /\ MayCall(req.role, Head(calls).tool)
  /\ Asks(Head(calls)) /\ req.session # "none"
  /\ toolCallCount' = CountsHeldCalls
  /\ \/ /\ sessionRow
        /\ pending' = pending + 1
        /\ End("confirmation")
     \/ /\ End("error")
        /\ UNCHANGED pending
  /\ UNCHANGED <<environment, req, level, iteration, calls, unanswered, history>>

\* Mutant: the counter counts turns
CountsTurns == IF Len(calls) = 1 THEN toolCallCount + 1 ELSE toolCallCount

CountsExecutedCalls == toolCallCount + 1

\* executeTool; truncateJsonStructure may throw on the result, which the route
\* answers with an error event of its own and no 'done'
Execute ==
  LET call == Head(calls) IN
  /\ pc = "call"
  /\ MayCall(req.role, call.tool)
  /\ ~Asks(call)
  /\ toolCallCount' = CountsExecutedCalls
  /\ executed' = executed \union {call}
  /\ ran' = ran + 1
  /\ \/ Answer
     \/ /\ pc' = "ended"
        /\ outcome' = "internal"
        /\ UNCHANGED <<iteration, calls, unanswered, dones>>
  /\ UNCHANGED <<environment, pending, req, level>>

Handle ==
  \/ ReadPreference \/ Prepare
  \/ ProviderEnds \/ RefuseCalls \/ ProposeCalls
  \/ Refuse \/ Ask \/ Execute

Next == SetUserAutonomyLevel \/ DeleteSession \/ Handle

Spec == Init /\ [][Next]_vars

(***************************************************************************)
(* Fairness: the event loop drives the handler on, unless it waits for a   *)
(* call that no timeout ends.  Providers do not go through resilience.ts:  *)
(* the anthropic, openai and openrouter clients are given a timeout, the   *)
(* google, bedrock and azure ones are not.  giphy_search fetches without   *)
(* one (giphy.ts:97).  The user has to do nothing.                         *)
(***************************************************************************)
Executes(call) == MayCall(req.role, call.tool) /\ ~Asks(call)

WaitsUnguarded ==
  \/ pc \in {"prepare", "think"} /\ ~req.timed
  \/ pc = "call" /\ Executes(Head(calls)) /\ Head(calls).tool \notin Guarded

FairSpec == Spec /\ WF_vars(~WaitsUnguarded /\ Handle)
-----------------------------------------------------------------------------
(***************************************************************************)
(* Safety.                                                                 *)
(***************************************************************************)

(***************************************************************************)
(* The tier the documents give a write: specs/AUTONOMOUS_AI_SPEC.md:375-   *)
(* 400, and for the tools it does not know services/ai/tools/index.ts:86-  *)
(* 102.  What they say of transient failures would be tier 1 as well.      *)
(***************************************************************************)
DocumentedTier(call) ==
  CASE call.tool \in {"jira_transition_issue", "github_update_file", "testrun_cancel",
                      "azdo_trigger_pipeline"} -> 3
    [] call.tool = "jenkins_trigger_build" /\ call.production -> 3
    [] call.tool = "github_create_branch" -> 1
    [] call.tool = "jira_comment" /\ call.note -> 1
    [] call.tool \in HousekeepingTool -> 1
    [] OTHER -> 2

\* The highest tier that runs by itself (specs/AUTONOMOUS_AI_SPEC.md:439-441); on a
\* channel nobody chose a level, and every write asks.
RunsUnasked ==
  CASE ~Streaming -> 0
    [] level = "conservative" -> 0
    [] level = "balanced" -> 1
    [] level = "autonomous" -> 2

\* Where the code lets more run than the documents: housekeeping is registered as if it
\* read and never asks; and at the autonomous level the tier table lacks the pipeline
\* trigger, and the loop does not say that a build is one of production.
MoreThanDocumented(call) ==
  \/ call.tool \in HousekeepingTool
  \/ /\ Streaming /\ level = "autonomous"
     /\ \/ call.tool = "azdo_trigger_pipeline"
        \/ call.tool = "jenkins_trigger_build" /\ call.production

\* Whatever the loop executes by itself and changes something with has a documented
\* tier that the user's level, or the channel, lets run unasked, but for those three.
AutonomyRespected ==
  \A call \in executed :
    call.tool \in WriteTool => DocumentedTier(call) <= RunsUnasked \/ MoreThanDocumented(call)

\* tools/types.ts:75-80: a tool that names a role is executed for no lesser role.
RolesRespected ==
  \A call \in executed : call.tool \in EditorTool => LevelOf(req.role) >= 30

\* The client hears of a confirmation exactly when one is stored, and nothing runs
\* or is asked after it: the loop is paused.
PausedByConfirmation ==
  /\ pending = 1 <=> outcome = "confirmation"
  /\ pending = 1 => pc = "ended" /\ req.session # "none"

\* Providers reject a conversation with a tool call that has no tool message: whenever
\* the model is asked again, all of them do.
ConversationIsWellFormed == pc = "think" => unanswered = 0 /\ calls = <<>>

\* The limit is tested between answers, so a request overruns it by at most one batch.
RunsBounded == ran < MaxToolCalls + BatchBound

\* A streaming client sees exactly one 'done', when the request ends, unless the
\* handler itself failed.
DoneIsSentOnce ==
  dones = IF pc = "ended" /\ Streaming /\ outcome # "internal" THEN 1 ELSE 0

\* The loop executes only what role and autonomy level allow.
ToolsAreAllowed == AutonomyRespected /\ RolesRespected

\* A confirmation, like any other end, ends the request once.
LoopPauses == TypeOK /\ PausedByConfirmation /\ DoneIsSentOnce

\* Each request ends, with an answer, a confirmation, an error or at the iteration
\* limit, unless it waits for ever in one call that has no timeout.
RequestEnds == <>(pc = "ended") \/ <>[]WaitsUnguarded
=============================================================================
