--------------------------- MODULE ReActLoopProofs ---------------------------
(***************************************************************************)
(* Proofs about ReActLoop, for all tools, roles, limits and batch sizes.   *)
(***************************************************************************)
EXTENDS ReActLoop, SequenceTheorems, TLAPS

(***************************************************************************)
(* The inductive invariant.  Whether a call asks depends on the level, so  *)
(* the executed calls are remembered with the fact that the level is fixed *)
(* by then; the bound on executed calls needs what the batch still holds.  *)
(***************************************************************************)
BatchInv ==
  /\ pc \in {"open", "prepare", "think"} => calls = <<>> /\ unanswered = 0
  /\ pc = "call" => calls # <<>> /\ unanswered = Len(calls)

CountInv ==
  /\ ran <= toolCallCount
  /\ ran < MaxToolCalls + BatchBound
  /\ pc = "call" => ran + Len(calls) < MaxToolCalls + BatchBound

GateInv ==
  /\ \A call \in executed : MayCall(req.role, call.tool) /\ ~Asks(call)
  /\ pc = "open" => executed = {}

IInv == TypeOK /\ BatchInv /\ CountInv /\ GateInv /\ PausedByConfirmation /\ DoneIsSentOnce

\* What the loop knows of the head and the tail of a batch.
LEMMA BatchFacts ==
  ASSUME NEW S, NEW s \in Seq(S), s # <<>>
  PROVE  /\ Head(s) \in S /\ Tail(s) \in Seq(S)
         /\ Len(s) \in Nat \ {0} /\ Len(Tail(s)) = Len(s) - 1
         /\ Tail(s) = <<>> => Len(s) = 1
  <1>1. Len(s) \in Nat \ {0} /\ Len(<<>>) = 0
    BY EmptySeq
  <1>2. Head(s) \in S /\ Tail(s) \in Seq(S) /\ Len(Tail(s)) = Len(s) - 1
    BY HeadTailProperties
  <1> QED
    BY <1>1, <1>2

\* A batch is a non-empty sequence of calls of bounded length.
LEMMA BatchShape ==
  ASSUME NEW batch \in Batch
  PROVE  batch \in Seq(Call) /\ batch # <<>> /\ Len(batch) \in 1..BatchBound
  <1>1. PICK n \in 1..BatchBound : batch \in [1..n -> Call]
    BY DEF Batch
  <1>2. batch \in Seq(Call) /\ Len(batch) = n
    BY <1>1, ReActAssumption
  <1> QED
    BY <1>1, <1>2

\* The initial states satisfy the invariant.
LEMMA InitInv == Init => IInv
  <1> SUFFICES ASSUME Init PROVE IInv
    OBVIOUS
  <1>1. TypeOK
    <2>1. req \in [mode : {"stream", "buffered"}, role : Role,
                   session : {"named", "anonymous", "none"}, timed : BOOLEAN]
      BY DEF Init
    <2>2. sessionRow \in BOOLEAN
      BY Zenon DEF Init
    <2>3. pc \in {"open", "prepare"}
      BY DEF Init
    <2> QED
      BY <2>1, <2>2, <2>3, ReActAssumption DEF Init, TypeOK, Level
  <1>2. BatchInv /\ CountInv
    BY ReActAssumption DEF Init, BatchInv, CountInv, Streaming
  <1>3. GateInv
    BY DEF Init, GateInv
  <1>4. PausedByConfirmation /\ DoneIsSentOnce
    BY DEF Init, PausedByConfirmation, DoneIsSentOnce, Streaming
  <1> QED
    BY <1>1, <1>2, <1>3, <1>4 DEF IInv

\* Ending, from any state in which the request has not ended.
LEMMA EndStep ==
  ASSUME TypeOK, DoneIsSentOnce, pc # "ended", UNCHANGED req,
         NEW how \in {"answer", "confirmation", "error", "exhausted"}, End(how)
  PROVE  /\ pc' = "ended" /\ outcome' = how /\ dones' \in 0..1
         /\ DoneIsSentOnce'
  BY DEF TypeOK, DoneIsSentOnce, End, Streaming

\* The for loop, from any state in which the request has not ended.
LEMMA IterationStep ==
  ASSUME TypeOK, DoneIsSentOnce, pc # "ended", UNCHANGED req, NextIteration
  PROVE  /\ iteration' \in 0..MaxIterations
         /\ dones' \in 0..1 /\ DoneIsSentOnce'
         /\ \/ pc' = "think" /\ outcome' = outcome
            \/ pc' = "ended" /\ outcome' = "exhausted"
  <1>1. CASE iteration + 1 < MaxIterations /\ pc' = "think" /\ UNCHANGED <<outcome, dones>>
    BY <1>1, ReActAssumption DEF TypeOK, DoneIsSentOnce, NextIteration, Streaming
  <1>2. CASE iteration + 1 = MaxIterations /\ End("exhausted")
    BY <1>2, EndStep, ReActAssumption DEF TypeOK, NextIteration
  <1> QED
    BY <1>1, <1>2 DEF NextIteration

\* A tool message, and what follows the last one of a batch.
LEMMA AnswerStep ==
  ASSUME TypeOK, DoneIsSentOnce, BatchInv, pc = "call", UNCHANGED req, Answer
  PROVE  /\ calls' = Tail(calls) /\ calls' \in Seq(Call)
         /\ Len(calls') = Len(calls) - 1 /\ Len(calls) \in Nat \ {0}
         /\ unanswered' \in Nat /\ iteration' \in 0..MaxIterations
         /\ dones' \in 0..1 /\ DoneIsSentOnce' /\ BatchInv'
         /\ \/ pc' \in {"call", "think"} /\ outcome' = outcome
            \/ pc' = "ended" /\ outcome' = "exhausted"
  <1>1. /\ calls' = Tail(calls) /\ calls' \in Seq(Call) /\ Len(calls') = Len(calls) - 1
        /\ Len(calls) \in Nat \ {0} /\ unanswered' = Len(calls')
        /\ unanswered' \in Nat
        /\ calls' = <<>> => Len(calls) = 1
    BY BatchFacts DEF TypeOK, BatchInv, Answer
  <1>2. CASE Tail(calls) # <<>> /\ UNCHANGED <<iteration, ending>>
    BY <1>1, <1>2 DEF TypeOK, BatchInv, DoneIsSentOnce, Streaming, ending
  <1>3. CASE Tail(calls) = <<>> /\ NextIteration
    <2>1. calls' = <<>> /\ unanswered' = 0
      BY <1>1, <1>3
    <2>2. BatchInv'
      BY <2>1, <1>3, IterationStep DEF BatchInv
    <2> QED
      BY <1>1, <1>3, <2>2, IterationStep
  <1> QED
    BY <1>2, <1>3 DEF Answer

\* Every step preserves the invariant.
LEMMA NextInv == IInv /\ [Next]_vars => IInv'
  <1> SUFFICES ASSUME IInv, [Next]_vars PROVE IInv'
    OBVIOUS
  <1> USE ReActAssumption
  <1>1. CASE SetUserAutonomyLevel
    <2>1. TypeOK'
      BY <1>1 DEF IInv, TypeOK, SetUserAutonomyLevel, loopVars, history, ending
    <2>2. BatchInv' /\ CountInv'
      BY <1>1 DEF IInv, BatchInv, CountInv, SetUserAutonomyLevel, loopVars, history, ending
    <2>3. GateInv'
      BY <1>1 DEF IInv, GateInv, Asks, Streaming, SetUserAutonomyLevel, history, ending
    <2>4. PausedByConfirmation' /\ DoneIsSentOnce'
      BY <1>1 DEF IInv, PausedByConfirmation, DoneIsSentOnce, Streaming, SetUserAutonomyLevel, ending
    <2> QED
      BY <2>1, <2>2, <2>3, <2>4 DEF IInv
  <1>2. CASE DeleteSession
    <2>1. TypeOK'
      BY <1>2 DEF IInv, TypeOK, DeleteSession, loopVars, history, ending
    <2>2. BatchInv' /\ CountInv'
      BY <1>2 DEF IInv, BatchInv, CountInv, DeleteSession, loopVars, history, ending
    <2>3. GateInv'
      BY <1>2 DEF IInv, GateInv, Asks, Streaming, DeleteSession, history, ending
    <2>4. PausedByConfirmation' /\ DoneIsSentOnce'
      BY <1>2 DEF IInv, PausedByConfirmation, DoneIsSentOnce, Streaming, DeleteSession, ending
    <2> QED
      BY <2>1, <2>2, <2>3, <2>4 DEF IInv
  <1>3. CASE ReadPreference
    <2>1. TypeOK'
      BY <1>3 DEF IInv, TypeOK, Level, ReadPreference, environment, loopVars, history
    <2>2. BatchInv' /\ CountInv'
      BY <1>3 DEF IInv, BatchInv, CountInv, ReadPreference, loopVars, history
    <2>3. GateInv'
      BY <1>3 DEF IInv, GateInv, ReadPreference, history
    <2>4. PausedByConfirmation' /\ DoneIsSentOnce'
      BY <1>3 DEF IInv, PausedByConfirmation, DoneIsSentOnce, Streaming, ReadPreference
    <2> QED
      BY <2>1, <2>2, <2>3, <2>4 DEF IInv
  <1>4. CASE Prepare
    <2>1. /\ dones' \in 0..1 /\ DoneIsSentOnce'
          /\ \/ pc' = "think" /\ outcome' = outcome
             \/ pc' = "ended" /\ outcome' = "error"
      <3>1. CASE pc' = "think" /\ UNCHANGED <<outcome, dones>>
        BY <1>4, <3>1 DEF IInv, TypeOK, Prepare, DoneIsSentOnce, Streaming
      <3>2. CASE End("error")
        BY <1>4, <3>2, EndStep DEF IInv, Prepare
      <3> QED
        BY <1>4, <3>1, <3>2 DEF Prepare
    <2>2. sessionRow' \in BOOLEAN
      BY <1>4 DEF IInv, TypeOK, Prepare
    <2>3. TypeOK'
      BY <1>4, <2>1, <2>2 DEF IInv, TypeOK, Prepare, loopVars, history
    <2>4. BatchInv' /\ CountInv'
      BY <1>4, <2>1 DEF IInv, BatchInv, CountInv, Prepare, loopVars, history
    <2>5. GateInv'
      BY <1>4, <2>1 DEF IInv, GateInv, Asks, Streaming, Prepare, history
    <2>6. PausedByConfirmation'
      BY <1>4, <2>1 DEF IInv, TypeOK, PausedByConfirmation, Prepare
    <2> QED
      BY <2>1, <2>3, <2>4, <2>5, <2>6 DEF IInv
  <1>5. CASE ProviderEnds
    <2>1. /\ dones' \in 0..1 /\ DoneIsSentOnce'
          /\ pc' = "ended" /\ outcome' \in {"error", "answer"}
      BY <1>5, EndStep DEF IInv, ProviderEnds
    <2>2. TypeOK'
      BY <1>5, <2>1 DEF IInv, TypeOK, ProviderEnds, environment, loopVars, history
    <2>3. BatchInv' /\ CountInv'
      BY <1>5, <2>1 DEF IInv, BatchInv, CountInv, ProviderEnds, loopVars, history
    <2>4. GateInv'
      BY <1>5, <2>1 DEF IInv, GateInv, Asks, Streaming, ProviderEnds, history
    <2>5. PausedByConfirmation'
      BY <1>5, <2>1 DEF IInv, TypeOK, PausedByConfirmation, ProviderEnds
    <2> QED
      BY <2>1, <2>2, <2>3, <2>4, <2>5 DEF IInv
  <1>6. CASE RefuseCalls
    <2>1. /\ iteration' \in 0..MaxIterations /\ dones' \in 0..1 /\ DoneIsSentOnce'
          /\ \/ pc' = "think" /\ outcome' = outcome
             \/ pc' = "ended" /\ outcome' = "exhausted"
      BY <1>6, IterationStep DEF IInv, RefuseCalls
    <2>2. TypeOK'
      BY <1>6, <2>1 DEF IInv, TypeOK, RefuseCalls, environment, history
    <2>3. BatchInv' /\ CountInv'
      BY <1>6, <2>1 DEF IInv, BatchInv, CountInv, RefuseCalls, history
    <2>4. GateInv'
      BY <1>6, <2>1 DEF IInv, GateInv, Asks, Streaming, RefuseCalls, history
    <2>5. PausedByConfirmation'
      BY <1>6, <2>1 DEF IInv, TypeOK, PausedByConfirmation, RefuseCalls
    <2> QED
      BY <2>1, <2>2, <2>3, <2>4, <2>5 DEF IInv
  <1>7. CASE ProposeCalls
    <2>1. PICK batch \in Batch : calls' = batch /\ unanswered' = unanswered + Len(batch)
      BY <1>7 DEF ProposeCalls
    <2>2. batch \in Seq(Call) /\ batch # <<>> /\ Len(batch) \in 1..BatchBound
      BY BatchShape
    <2>3. pc' = "call" /\ outcome' = outcome /\ dones' = dones /\ ran' = ran
      BY <1>7 DEF ProposeCalls, history
    <2>4. TypeOK'
      BY <1>7, <2>1, <2>2, <2>3 DEF IInv, TypeOK, ProposeCalls, environment, history
    <2>5. BatchInv'
      BY <1>7, <2>1, <2>2, <2>3 DEF IInv, BatchInv, ProposeCalls
    <2>6. CountInv'
      <3>1. ran <= toolCallCount /\ toolCallCount < MaxToolCalls /\ toolCallCount' = toolCallCount
        BY <1>7 DEF IInv, TypeOK, CountInv, ProposeCalls, LimitReached
      <3> QED
        BY <2>1, <2>2, <2>3, <3>1 DEF IInv, TypeOK, CountInv
    <2>7. GateInv'
      BY <1>7, <2>3 DEF IInv, GateInv, Asks, Streaming, ProposeCalls, history
    <2>8. PausedByConfirmation' /\ DoneIsSentOnce'
      BY <1>7, <2>3 DEF IInv, TypeOK, PausedByConfirmation, DoneIsSentOnce, Streaming, ProposeCalls
    <2> QED
      BY <2>4, <2>5, <2>6, <2>7, <2>8 DEF IInv
  <1>8. CASE Refuse
    <2>1. /\ pc = "call" /\ Answer /\ UNCHANGED <<environment, pending, req, level, history>>
          /\ toolCallCount' \in {toolCallCount, toolCallCount + 1}
      BY <1>8 DEF Refuse, CountsHeldCalls
    <2>2. /\ calls' \in Seq(Call) /\ Len(calls') = Len(calls) - 1 /\ Len(calls) \in Nat \ {0}
          /\ unanswered' \in Nat /\ iteration' \in 0..MaxIterations
          /\ dones' \in 0..1 /\ DoneIsSentOnce' /\ BatchInv'
          /\ \/ pc' \in {"call", "think"} /\ outcome' = outcome
             \/ pc' = "ended" /\ outcome' = "exhausted"
      BY <2>1, AnswerStep DEF IInv
    <2>3. TypeOK'
      BY <2>1, <2>2 DEF IInv, TypeOK, environment, history
    <2>4. CountInv'
      BY <2>1, <2>2 DEF IInv, TypeOK, CountInv, history
    <2>5. GateInv'
      BY <2>1, <2>2 DEF IInv, GateInv, Asks, Streaming, history
    <2>6. PausedByConfirmation'
      BY <2>1, <2>2 DEF IInv, TypeOK, PausedByConfirmation
    <2> QED
      BY <2>2, <2>3, <2>4, <2>5, <2>6 DEF IInv
  <1>9. CASE Ask
    <2>1. /\ pc = "call" /\ req.session # "none"
          /\ UNCHANGED <<environment, req, level, iteration, calls, unanswered, history>>
          /\ toolCallCount' \in {toolCallCount, toolCallCount + 1}
      BY <1>9 DEF Ask, CountsHeldCalls
    <2>2. pending = 0
      BY <2>1 DEF IInv, TypeOK, PausedByConfirmation
    <2>3. /\ pc' = "ended" /\ dones' \in 0..1 /\ DoneIsSentOnce'
          /\ \/ pending' = 1 /\ outcome' = "confirmation"
             \/ pending' = 0 /\ outcome' = "error"
      BY <1>9, <2>1, <2>2, EndStep DEF IInv, Ask
    <2>4. TypeOK'
      BY <2>1, <2>3 DEF IInv, TypeOK, environment, history
    <2>5. BatchInv' /\ CountInv'
      BY <2>1, <2>3 DEF IInv, TypeOK, BatchInv, CountInv, history
    <2>6. GateInv'
      BY <2>1, <2>3 DEF IInv, GateInv, Asks, Streaming, history
    <2>7. PausedByConfirmation'
      BY <2>1, <2>3 DEF PausedByConfirmation
    <2> QED
      BY <2>3, <2>4, <2>5, <2>6, <2>7 DEF IInv
  <1>10. CASE Execute
    <2> DEFINE call == Head(calls)
    <2>1. /\ pc = "call" /\ MayCall(req.role, call.tool) /\ ~Asks(call)
          /\ executed' = executed \union {call} /\ ran' = ran + 1
          /\ toolCallCount' = toolCallCount + 1
          /\ UNCHANGED <<environment, pending, req, level>>
      BY <1>10 DEF Execute, CountsExecutedCalls
    <2>2. call \in Call /\ Len(calls) \in Nat \ {0}
      BY <2>1, BatchFacts DEF IInv, TypeOK, BatchInv
    <2>3. /\ calls' \in Seq(Call) /\ unanswered' \in Nat /\ iteration' \in 0..MaxIterations
          /\ dones' \in 0..1 /\ DoneIsSentOnce' /\ BatchInv'
          /\ \/ /\ pc' \in {"call", "think"} /\ outcome' = outcome
                /\ Len(calls') = Len(calls) - 1
             \/ pc' = "ended" /\ outcome' \in {"exhausted", "internal"}
      <3>1. CASE Answer
        BY <2>1, <3>1, AnswerStep DEF IInv
      <3>2. CASE /\ pc' = "ended" /\ outcome' = "internal"
                 /\ UNCHANGED <<iteration, calls, unanswered, dones>>
        BY <2>1, <3>2 DEF IInv, TypeOK, BatchInv, DoneIsSentOnce, Streaming
      <3> QED
        BY <1>10, <3>1, <3>2 DEF Execute
    <2>4. TypeOK'
      BY <2>1, <2>2, <2>3 DEF IInv, TypeOK, environment
    <2>5. CountInv'
      BY <2>1, <2>2, <2>3 DEF IInv, TypeOK, CountInv
    <2>6. GateInv'
      BY <2>1, <2>3 DEF IInv, GateInv, Asks, Streaming
    <2>7. PausedByConfirmation'
      BY <2>1, <2>3 DEF IInv, TypeOK, PausedByConfirmation
    <2> QED
      BY <2>3, <2>4, <2>5, <2>6, <2>7 DEF IInv
  <1>11. CASE UNCHANGED vars
    <2>1. TypeOK' /\ BatchInv' /\ CountInv'
      BY <1>11 DEF IInv, TypeOK, BatchInv, CountInv, vars, environment, loopVars, history, ending
    <2>2. GateInv' /\ PausedByConfirmation' /\ DoneIsSentOnce'
      BY <1>11 DEF IInv, GateInv, Asks, Streaming, PausedByConfirmation, DoneIsSentOnce, vars,
                   environment, history, ending
    <2> QED
      BY <2>1, <2>2 DEF IInv
  <1> QED
    BY <1>1, <1>2, <1>3, <1>4, <1>5, <1>6, <1>7, <1>8, <1>9, <1>10, <1>11 DEF Next, Handle

\* The invariant holds in every reachable state.
THEOREM Invariance == Spec => []IInv
  BY InitInv, NextInv, PTL DEF Spec

\* LoopPauses (ReActLoop.ts:246-290): for all tools, roles and limits, a request stops
\* at its confirmation and ends its stream with one 'done'.
THEOREM PauseTheorem == Spec => []LoopPauses
  <1>1. IInv => LoopPauses
    BY DEF IInv, LoopPauses
  <1> QED
    BY <1>1, Invariance, PTL

\* The model never sees a tool call without its tool message.
THEOREM ConversationTheorem == Spec => []ConversationIsWellFormed
  <1>1. IInv => ConversationIsWellFormed
    BY DEF IInv, BatchInv, ConversationIsWellFormed
  <1> QED
    BY <1>1, Invariance, PTL

\* The tool-call limit is overrun by less than one answer of the model.
THEOREM RunsTheorem == Spec => []RunsBounded
  <1>1. IInv => RunsBounded
    BY DEF IInv, CountInv, RunsBounded
  <1> QED
    BY <1>1, Invariance, PTL

\* A gated call that the loop executes streams, at a tier below 2.
LEMMA GatedCallIsTier1 ==
  ASSUME GateInv, NEW call \in executed, call.tool \in GatedTool
  PROVE  /\ Streaming
         /\ ApplyContextOverrides(call.tool, LoopContext(call)) \in 1..3
         /\ ClassifyTool(call.tool, LoopContext(call), level) < 2
  <1>1. ~Asks(call)
    BY DEF GateInv
  <1>2. BaseTier(call.tool) \in 1..3
    BY DEF BaseTier, TOOL_TIER_MAP
  <1>3. ApplyContextOverrides(call.tool, LoopContext(call)) \in 1..3
    BY <1>2 DEF ApplyContextOverrides
  <1>4. ClassifyTool(call.tool, LoopContext(call), level) \in 1..3
    BY <1>3 DEF ClassifyTool, ApplyUserPreference
  <1> QED
    BY <1>1, <1>3, <1>4 DEF Asks

\* A gated call the documents put in tier 3 is one the code never executes, but for the
\* pipeline trigger, which has no entry, and the production build, which is not told.
LEMMA TopTierAsks ==
  ASSUME TypeOK, GateInv, NEW call \in executed, call.tool \in GatedTool,
         DocumentedTier(call) = 3
  PROVE  \/ call.tool = "azdo_trigger_pipeline"
         \/ call.tool = "jenkins_trigger_build" /\ call.production
  <1>1. call.tool \in {"jira_transition_issue", "github_update_file", "testrun_cancel"}
          => ClassifyTool(call.tool, LoopContext(call), level) = 3
    BY DEF ClassifyTool, ApplyUserPreference, ApplyContextOverrides, BaseTier, TOOL_TIER_MAP
  <1>2. call.tool \notin {"jira_transition_issue", "github_update_file", "testrun_cancel"}
    BY <1>1, GatedCallIsTier1
  <1> QED
    BY <1>2 DEF DocumentedTier

\* At the balanced level what runs is tier 1 in the documents as well.
LEMMA BalancedIsTier1 ==
  ASSUME TypeOK, GateInv, NEW call \in executed, call.tool \in GatedTool, level = "balanced"
  PROVE  DocumentedTier(call) = 1
  <1>1. ApplyContextOverrides(call.tool, LoopContext(call)) = 1
    BY GatedCallIsTier1 DEF ClassifyTool, ApplyUserPreference
  <1>2. /\ ~LoopContext(call).confident /\ ~LoopContext(call).production
        /\ LoopContext(call).note = call.note
    BY DEF LoopContext
  <1>3. call.tool = "github_create_branch" \/ (call.tool = "jira_comment" /\ call.note)
    BY <1>1, <1>2 DEF ApplyContextOverrides, BaseTier, TOOL_TIER_MAP, GatedTool, EditorTool,
                      OpenWriteTool
  <1> QED
    BY <1>3 DEF DocumentedTier

\* The documented tiers against the classifier, level by level.
LEMMA ExecutedCallsAreAllowed ==
  ASSUME TypeOK, GateInv, NEW call \in executed, call.tool \in WriteTool
  PROVE  DocumentedTier(call) <= RunsUnasked \/ MoreThanDocumented(call)
  <1>1. CASE call.tool \in HousekeepingTool
    BY <1>1 DEF MoreThanDocumented
  <1>2. CASE call.tool \in GatedTool
    <2>1. level # "conservative"
      BY <1>2, GatedCallIsTier1 DEF ClassifyTool, ApplyUserPreference
    <2>2. DocumentedTier(call) \in 1..3
      BY DEF DocumentedTier
    <2>3. CASE level = "balanced"
      BY <1>2, <2>3, BalancedIsTier1, GatedCallIsTier1 DEF RunsUnasked
    <2>4. CASE level = "autonomous"
      <3>1. RunsUnasked = 2
        BY <1>2, <2>4, GatedCallIsTier1 DEF RunsUnasked
      <3>2. DocumentedTier(call) = 3 => MoreThanDocumented(call)
        BY <1>2, <2>4, TopTierAsks, GatedCallIsTier1 DEF MoreThanDocumented
      <3> QED
        BY <2>2, <3>1, <3>2
    <2> QED
      BY <2>1, <2>3, <2>4 DEF TypeOK, Level
  <1> QED
    BY <1>1, <1>2 DEF WriteTool

\* For every role, level and sequence of answers: what the loop changes by itself the
\* documents let it change, but for the three cases MoreThanDocumented names, and a
\* tool that names a role runs for no lesser one (chat-helpers.ts:224, AIChatService.ts:79).
THEOREM AutonomyTheorem == Spec => []ToolsAreAllowed
  <1>1. ASSUME IInv PROVE AutonomyRespected
    BY <1>1, ExecutedCallsAreAllowed DEF IInv, AutonomyRespected
  <1>2. ASSUME IInv PROVE RolesRespected
    BY <1>2 DEF IInv, GateInv, RolesRespected, MayCall, HasRequiredRole, LevelOf, RoleLevel
  <1>3. IInv => ToolsAreAllowed
    BY <1>1, <1>2 DEF ToolsAreAllowed
  <1> QED
    BY <1>3, Invariance, PTL
=============================================================================
