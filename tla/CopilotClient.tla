---------------------------- MODULE CopilotClient ----------------------------
(***************************************************************************)
(* The copilot panel in the browser (useAICopilot.ts with                  *)
(* copilot/confirmAction.ts and copilot/sseProcessor.ts): messages are     *)
(* sent as requests whose answers stream in, a new request aborts the one  *)
(* in abortRef, and a confirmed action sends a message of its own half a   *)
(* second after its result.                                                *)
(*                                                                         *)
(* A click sees the state as last rendered; a timer calls the sendMessage  *)
(* that was captured when its button was clicked.  Abstracted: texts, all  *)
(* kinds of events but those that change what can happen next, personas.   *)
(***************************************************************************)
EXTENDS Naturals

CONSTANT SendBound  \* bound: messages sent

ASSUME ClientAssumption == SendBound \in Nat

Sent == 1..SendBound

VARIABLES
  sent,        \* messages sent so far
  stream,      \* per message: its request
  aborted,     \* messages whose controller was aborted
  abortRef,    \* the newest message with a controller, 0 for none
  isStreaming,
  answers,     \* messages with a bubble in the list, whole or in part
  confirmation,\* per message: the card asking for a confirmation, if it brought one
  posted,      \* per message: the POST /ai/confirm of that card
  captured,    \* per message: isStreaming when the card's button was clicked
  toolCard,    \* per message: the card of a tool's result
  clearedAt,   \* history: messages sent before the list was last cleared
  overtook     \* history: a message was sent while an earlier request was in flight

requests == <<sent, stream, aborted, abortRef, isStreaming, overtook>>
cards == <<confirmation, posted, captured, toolCard>>
clientVars == <<requests, answers, cards, clearedAt>>

Open == {r \in Sent : stream[r] \in {"asking", "reading"}}
LiveStreams == Open \ aborted

ClientTypeOK ==
  /\ sent \in 0..SendBound
  /\ stream \in [Sent -> {"none", "asking", "reading", "over"}]
  /\ aborted \subseteq Sent
  /\ abortRef \in 0..SendBound
  /\ isStreaming \in BOOLEAN
  /\ answers \subseteq Sent
  /\ confirmation \in [Sent -> {"none", "pending", "approved", "denied"}]
  /\ posted \in [Sent -> {"no", "approving", "denying", "timer", "over"}]
  /\ captured \in [Sent -> BOOLEAN]
  /\ toolCard \in [Sent -> {"none", "idle", "action_pending"}]
  /\ clearedAt \in 0..SendBound
  /\ overtook \in BOOLEAN

ClientInit ==
  /\ sent = 0
  /\ stream = [r \in Sent |-> "none"]
  /\ aborted = {} /\ abortRef = 0
  /\ isStreaming = FALSE
  /\ answers = {}
  /\ confirmation = [r \in Sent |-> "none"]
  /\ posted = [r \in Sent |-> "no"]
  /\ captured = [r \in Sent |-> FALSE]
  /\ toolCard = [r \in Sent |-> "none"]
  /\ clearedAt = 0 /\ overtook = FALSE
-----------------------------------------------------------------------------
\* Nothing happens when the captured isStreaming is true
sendMessage(streamingThen) ==
  IF streamingThen THEN UNCHANGED requests
  ELSE /\ sent < SendBound
       /\ sent' = sent + 1
       /\ isStreaming' = TRUE
       /\ aborted' = aborted \union ({abortRef} \ {0})
       /\ abortRef' = sent'
       /\ stream' = [stream EXCEPT ![sent'] = "asking"]
       /\ overtook' = (overtook \/ Open # {})

TypeAndSend ==
  /\ ~isStreaming
  /\ sendMessage(isStreaming)
  /\ UNCHANGED <<answers, cards, clearedAt>>

\* The token is there and the response is read
ResponseOpens(r) ==
  /\ stream[r] = "asking" /\ r \notin aborted
  /\ stream' = [stream EXCEPT ![r] = "reading"]
  /\ UNCHANGED <<sent, aborted, abortRef, isStreaming, overtook, answers, cards, clearedAt>>

\* An aborted reader yields no further event
processSSEEvent(r) ==
  /\ stream[r] = "reading" /\ r \notin aborted
  /\ \/ /\ answers' = answers \union {r}
        /\ UNCHANGED cards
     \/ /\ confirmation[r] = "none"
        /\ confirmation' = [confirmation EXCEPT ![r] = "pending"]
        /\ UNCHANGED <<answers, posted, captured, toolCard>>
     \/ /\ toolCard' = [toolCard EXCEPT ![r] = "idle"]
        /\ UNCHANGED <<answers, confirmation, posted, captured>>
  /\ UNCHANGED <<requests, clearedAt>>

\* The finally block, of whichever request: done, failed or aborted
Ends(r) ==
  /\ r \in Open
  /\ stream' = [stream EXCEPT ![r] = "over"]
  /\ isStreaming' = FALSE
  /\ UNCHANGED <<sent, aborted, abortRef, overtook, answers, cards, clearedAt>>

\* The session keeps its id, posts and timers go on
clearMessages ==
  /\ aborted' = aborted \union ({abortRef} \ {0})
  /\ isStreaming' = FALSE
  /\ answers' = {}
  /\ confirmation' = [r \in Sent |-> "none"]
  /\ toolCard' = [r \in Sent |-> "none"]
  /\ clearedAt' = sent
  /\ UNCHANGED <<sent, stream, abortRef, overtook, posted, captured>>
-----------------------------------------------------------------------------
\* The card shows the decision before the server has it
confirmAction(r, approved) ==
  /\ confirmation[r] = "pending" /\ posted[r] = "no"
  /\ confirmation' = [confirmation EXCEPT ![r] = IF approved THEN "approved" ELSE "denied"]
  /\ posted' = [posted EXCEPT ![r] = IF approved THEN "approving" ELSE "denying"]
  /\ captured' = [captured EXCEPT ![r] = isStreaming]
  /\ UNCHANGED <<requests, answers, toolCard, clearedAt>>

\* A result makes a card and arms the timer; a denial, or a failure, which
\* leaves the card as it is, does not
ConfirmAnswered(r) ==
  /\ posted[r] \in {"approving", "denying"}
  /\ \/ /\ posted[r] = "approving"
        /\ posted' = [posted EXCEPT ![r] = "timer"]
        /\ toolCard' = [toolCard EXCEPT ![r] = "idle"]
     \/ posted' = [posted EXCEPT ![r] = "over"] /\ UNCHANGED toolCard
  /\ UNCHANGED <<requests, answers, confirmation, captured, clearedAt>>

FollowUp(r) ==
  /\ posted[r] = "timer"
  /\ posted' = [posted EXCEPT ![r] = "over"]
  /\ sendMessage(captured[r])
  /\ UNCHANGED <<answers, confirmation, captured, toolCard, clearedAt>>

\* The card's buttons are off from now on, whether or not the prompt is sent
sendActionPrompt(r) ==
  /\ toolCard[r] = "idle"
  /\ toolCard' = [toolCard EXCEPT ![r] = "action_pending"]
  /\ sendMessage(isStreaming)
  /\ UNCHANGED <<answers, confirmation, posted, captured, clearedAt>>

ClientNext ==
  \/ TypeAndSend \/ clearMessages
  \/ \E r \in Sent :
       \/ ResponseOpens(r) \/ processSSEEvent(r) \/ Ends(r)
       \/ \E approved \in BOOLEAN : confirmAction(r, approved)
       \/ ConfirmAnswered(r) \/ FollowUp(r) \/ sendActionPrompt(r)

ClientSpec == ClientInit /\ [][ClientNext]_clientVars
-----------------------------------------------------------------------------
\* At most one answer streams in: a follow-up that does not see the stream of
\* the day aborts it.
OneLiveStream == LiveStreams \subseteq {abortRef}

\* The panel says that an answer is coming only when one is; and it says so
\* whenever one is, unless some message was sent while an earlier request was
\* still in flight, whose end then clears the flag of the later one.
SpinnerIsTrue ==
  /\ isStreaming => abortRef \in LiveStreams
  /\ LiveStreams # {} => isStreaming \/ overtook

\* What was cleared stays cleared: no late event of an earlier request adds to
\* the list (the result of a confirmation made before still does).
ClearedStaysCleared ==
  \A r \in 1..clearedAt : r \notin answers /\ confirmation[r] = "none"

ClientInv == ClientTypeOK /\ OneLiveStream /\ SpinnerIsTrue /\ ClearedStaysCleared
=============================================================================
