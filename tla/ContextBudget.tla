---------------------------- MODULE ContextBudget ----------------------------
(***************************************************************************)
(* What one copilot request sends to the model, in tokens: the messages    *)
(* are cut to a budget before the first call (context-window-manager.ts,   *)
(* token-budget.ts) and a tracker counts what the loop adds to them        *)
(* (AIChatService.ts, chat-helpers.ts).                                    *)
(*                                                                         *)
(* A message is its size.  The unit is the overhead of a message, four     *)
(* tokens; the marker of a cut text and the placeholder for an omitted     *)
(* result are larger.  Abstracted: where a text is cut.                    *)
(***************************************************************************)
EXTENDS Naturals, Sequences, FiniteSetsExt

CONSTANTS
  Budget,      \* budgets of models: input (window less output), system, history,
               \* tool, tools, user
  SizeBound,   \* bound: size of a message before it is cut
  LengthBound, \* bound: messages of history
  PushBound    \* bound: messages the loop adds

ASSUME BudgetAssumption ==
  /\ Budget \subseteq [input : Nat, system : Nat, history : Nat, tool : Nat, tools : Nat, user : Nat]
  /\ SizeBound \in Nat /\ LengthBound \in Nat /\ PushBound \in Nat

Overhead == 1      \* of a message
Conversation == 1  \* overhead of a conversation
Marker == 2        \* what is left of a text that is cut to less
Size == 1..SizeBound
History == UNION {[1..n -> Size] : n \in 0..LengthBound}

VARIABLES
  budget,    \* never changes
  asked,     \* the request: system prompt, history, whether that begins with a
             \* system message of its own, user message; never changes
  prompt,    \* sizes of what is sent: system, history, user, and what the loop added
  recorded,  \* the tracker: system, history, tools, user
  results,   \* history: tool results, and the text in them
  structured,\* history: a result was JSON and was cut
  pushes

budgetVars == <<budget, asked, prompt, recorded, results, structured, pushes>>

Prepared == pushes > 0  \* counts the preparation

Smaller(a, b) == IF a < b THEN a ELSE b
Larger(a, b) == IF a > b THEN a ELSE b
Total(sizes) ==
  LET upTo[n \in 0..Len(sizes)] == IF n = 0 THEN 0 ELSE upTo[n - 1] + sizes[n]
  IN upTo[Len(sizes)]
Suffix(sizes, i) == SubSeq(sizes, i, Len(sizes))

BudgetTypeOK ==
  /\ budget \in Budget
  /\ asked \in [system : Size, history : History, pinned : BOOLEAN, user : Size]
  /\ prompt.history \in Seq(Size) /\ {prompt.system, prompt.user, prompt.loop} \subseteq Nat
  /\ recorded \in [system : Nat, history : Nat, tools : Nat, user : Nat]
  /\ results \in [number : Nat, text : Nat]
  /\ structured \in BOOLEAN /\ pushes \in 0..PushBound + 1

BudgetInit ==
  /\ budget \in Budget
  /\ asked \in [system : Size, history : History, pinned : BOOLEAN, user : Size]
  /\ asked.pinned => asked.history # <<>>
  /\ prompt = [system |-> 0, history |-> <<>>, user |-> 0, loop |-> 0]
  /\ recorded = [system |-> 0, history |-> 0, tools |-> 0, user |-> 0]
  /\ results = [number |-> 0, text |-> 0]
  /\ structured = FALSE
  /\ pushes = 0

totalUsed == recorded.system + recorded.history + recorded.tools + recorded.user
\* Never below zero
Less(a, b) == IF a > b THEN a - b ELSE 0
remaining == Less(budget.input, totalUsed)

availableForNextToolResult ==
  Smaller(Smaller(budget.tool, Less(budget.tools, recorded.tools)), remaining)

\* The message may keep its overhead beyond the limit
Cut(size, limit) == Smaller(size, limit + Overhead)

\* Mutant: a newest message that is too large is dropped too
KeepFitting(rest, limit) ==
  Suffix(rest, Min({i \in 1..Len(rest) + 1 : Total(Suffix(rest, i)) <= limit}))

\* Of the n newest messages, how many are kept and the room that is left, once the n-th
\* has been looked at: the newest is kept whatever its size, and nothing is kept after one
\* that has been dropped
Look(sofar, n, size) ==
  IF sofar.kept < n - 1 \/ (n > 1 /\ size > sofar.room) THEN sofar
  ELSE [kept |-> n, room |-> Less(sofar.room, size)]

\* Backwards from the newest message, while they fit
KeepNewest(rest, limit) ==
  LET back[n \in 0..Len(rest)] ==
        IF n = 0 THEN [kept |-> 0, room |-> limit]
        ELSE Look(back[n - 1], n, rest[Len(rest) + 1 - n])
  IN Suffix(rest, Len(rest) + 1 - back[Len(rest)].kept)

\* A system message at its head is kept apart
pruneHistory(all, pinned, limit) ==
  IF all = <<>> \/ Conversation + Total(all) <= limit THEN all
  ELSE IF pinned THEN <<all[1]>> \o KeepNewest(Tail(all), Less(limit, all[1]))
  ELSE KeepNewest(all, limit)

\* availableForHistory, once the system prompt and the user's message are counted
HistoryLimit ==
  Smaller(budget.history,
          Less(budget.input, Smaller(asked.system, budget.system) + Smaller(asked.user, budget.user)))

prepareMessages ==
  /\ pushes = 0 /\ pushes' = 1
  /\ LET kept == pruneHistory(asked.history, asked.pinned, HistoryLimit)
     IN /\ prompt' = [system |-> Cut(asked.system, budget.system), history |-> kept,
                    user |-> Cut(asked.user, budget.user), loop |-> 0]
        /\ recorded' = [system |-> Smaller(asked.system, budget.system),
                        history |-> Conversation + Total(kept),
                        tools |-> 0, user |-> Smaller(asked.user, budget.user)]
  /\ UNCHANGED <<budget, asked, results, structured>>

Push == pushes \in 1..PushBound /\ pushes' = pushes + 1

\* The model's own message, an error message of a tool, the two of the tool limit:
\* recorded as history, and no limit looks at them
recordLoopOverhead(size) ==
  /\ Push
  /\ prompt' = [prompt EXCEPT !.loop = @ + size]
  /\ recorded' = [recorded EXCEPT !.history = @ + size]
  /\ UNCHANGED <<budget, asked, results, structured>>

\* truncateToolResultForBudget; a cut structure keeps its skeleton, whatever that takes
CutResult(size, json) ==
  LET limit == availableForNextToolResult IN
  IF limit = 0 THEN {Marker}
  ELSE IF size <= limit THEN {size}
  ELSE IF json THEN 0..size
  ELSE {Larger(limit, Marker)}

\* The tool message's own overhead is not recorded
ToolAnswers(size, json) ==
  /\ Push
  /\ \E now \in CutResult(size, json) :
       /\ prompt' = [prompt EXCEPT !.loop = @ + now + Overhead]
       /\ recorded' = [recorded EXCEPT !.tools = @ + now]
       /\ results' = [number |-> results.number + 1, text |-> results.text + now]
  /\ structured' = (structured \/ json)
  /\ UNCHANGED <<budget, asked>>

BudgetNext ==
  \/ prepareMessages
  \/ \E size \in Size : recordLoopOverhead(size) \/ \E json \in BOOLEAN : ToolAnswers(size, json)

BudgetSpec == BudgetInit /\ [][BudgetNext]_budgetVars
-----------------------------------------------------------------------------
\* The history that is sent is the newest part of what was asked, the longest
\* that fits the limit, and the newest message at least.
Rest(all) == IF asked.pinned THEN Tail(all) ELSE all
HistoryIsRecent ==
  LET rest == Rest(asked.history)
      kept == Rest(prompt.history)
      limit == Less(HistoryLimit, IF asked.pinned THEN asked.history[1] ELSE 0)
      fitting == {n \in 1..Len(rest) : Total(Suffix(rest, Len(rest) + 1 - n)) <= limit}
  IN Prepared =>
       /\ kept = Suffix(rest, Len(rest) + 1 - Len(kept))
       /\ Len(kept) = Max(fitting \union {Smaller(1, Len(rest))})
       /\ asked.pinned => prompt.history[1] = asked.history[1]

Actual == prompt.system + Total(prompt.history) + prompt.user + prompt.loop

\* The tracker knows what is sent, up to the overhead of tool messages and of the
\* two messages that are cut.
TrackerFollows ==
  Prepared => Actual \in totalUsed - Conversation..totalUsed - Conversation + Overhead * (results.number + 2)

\* All results of a request together stay within their budget, markers apart.
ResultsAreBounded == ~structured => results.text <= budget.tools + Marker * results.number

BudgetInv == BudgetTypeOK /\ HistoryIsRecent /\ TrackerFollows /\ ResultsAreBounded
=============================================================================
