---------------------------- MODULE Confirmation ----------------------------
(***************************************************************************)
(* The human-in-the-loop gate of the copilot: ConfirmationService.ts and   *)
(* the POST /confirm route (routes/ai/chat.ts).  The pending actions are   *)
(* rows of a table shared by every Node process; a confirm request reads   *)
(* the row, updates it by id, runs the tool and saves a chat message, each *)
(* step an await at which other requests, a session delete or a restart    *)
(* may come in between.                                                    *)
(*                                                                         *)
(* Any query may be rejected, at any time; one that is has changed nothing,*)
(* and the database answers every query one way or the other.              *)
(*                                                                         *)
(* Abstracted: parameters and results of tools; the writes of saveMessage  *)
(* are one step, of which the first may be all that was done; all actions  *)
(* belong to one chat session; a request carries one decision.             *)
(***************************************************************************)
EXTENDS Naturals

CONSTANTS
  Action,        \* pending actions of one chat session
  Registered,    \* those whose tool toolRegistry.get finds
  Guarded,       \* those whose tool makes only calls that time out
  Request,       \* POST /confirm requests (a double click is two)
  ActionTTL,     \* ACTION_TTL_MS, in clock units
  Overlap        \* may two confirm requests be in flight together?

ASSUME ConfirmationAssumption ==
  /\ Registered \subseteq Action
  /\ Guarded \subseteq Action
  /\ ActionTTL \in Nat
  /\ Overlap \in BOOLEAN

VARIABLES
  session,    \* the ChatSession row: "open" or "deleted"
  status,     \* PendingAction.status of each row, "none" before, "deleted" after
  age,        \* Date.now() - createdAt, saturated just above the TTL
  resolvedBy, \* PendingAction.resolvedBy: the request, Nobody while null
  pc,         \* where each confirm request is
  req,        \* its body: the action and the decision
  reply,      \* what its client was told
  log,        \* chat messages saved for each action
  approvals,  \* history: requests whose update wrote APPROVED
  runs,       \* history: requests that ran the tool
  unsaved     \* history: requests whose saveMessage was rejected

rowVars == <<session, status, age, resolvedBy>>
requestVars == <<pc, req, reply>>
vars == <<rowVars, requestVars, log, approvals, runs, unsaved>>

Nobody == "nobody"
Status == {"none", "PENDING", "APPROVED", "DENIED", "EXPIRED", "deleted"}
Busy(r) == pc[r] \in {"update", "expire", "execute", "save"}

TypeOK ==
  /\ session \in {"open", "deleted"}
  /\ status \in [Action -> Status]
  /\ age \in [Action -> 0..(ActionTTL + 1)]
  /\ resolvedBy \in [Action -> Request \union {Nobody}]
  /\ pc \in [Request -> {"new", "update", "expire", "execute", "save", "done", "lost"}]
  /\ req \in [Request -> [action : Action, approved : BOOLEAN]]
  /\ reply \in [Request -> {"none", "rejected", "resolved", "toolFailed"}]
  /\ log \in [Action -> SUBSET {"executed", "denied"}]
  /\ approvals \in [Action -> SUBSET Request]
  /\ runs \in [Action -> SUBSET Request]
  /\ unsaved \in SUBSET Request
  /\ \A r \in Request : reply[r] # "none" <=> pc[r] = "done"

Init ==
  /\ session = "open"
  /\ status = [a \in Action |-> "none"]
  /\ age = [a \in Action |-> 0]
  /\ resolvedBy = [a \in Action |-> Nobody]
  /\ pc = [r \in Request |-> "new"]
  /\ req \in [Request -> [action : Action, approved : BOOLEAN]]
  /\ reply = [r \in Request |-> "none"]
  /\ log = [a \in Action |-> {}]
  /\ approvals = [a \in Action |-> {}]
  /\ runs = [a \in Action |-> {}]
  /\ unsaved = {}
-----------------------------------------------------------------------------
(***************************************************************************)
(* The chat handler, the clock, the session owner and the process.         *)
(***************************************************************************)

\* createPendingAction: the ReAct loop pauses on a gated tool
CreatePendingAction(a) ==
  /\ session = "open"
  /\ status[a] = "none"
  /\ status' = [status EXCEPT ![a] = "PENDING"]
  /\ UNCHANGED <<session, age, resolvedBy, requestVars, log, approvals, runs, unsaved>>

\* deleteSession: the schema cascades to messages and pending actions
DeleteSession ==
  /\ session = "open"
  /\ session' = "deleted"
  /\ status' = [a \in Action |-> IF status[a] = "none" THEN "none" ELSE "deleted"]
  /\ log' = [a \in Action |-> {}]
  /\ UNCHANGED <<age, resolvedBy, requestVars, approvals, runs, unsaved>>

Tick ==
  /\ \E a \in Action : status[a] # "none" /\ age[a] <= ActionTTL
  /\ age' = [a \in Action |-> IF status[a] # "none" /\ age[a] <= ActionTTL
                              THEN age[a] + 1 ELSE age[a]]
  /\ UNCHANGED <<session, status, resolvedBy, requestVars, log, approvals, runs, unsaved>>

\* The process stops: requests in flight get no reply, the rows stay
Crash ==
  /\ \E r \in Request : Busy(r)
  /\ pc' = [r \in Request |-> IF Busy(r) THEN "lost" ELSE pc[r]]
  /\ UNCHANGED <<rowVars, req, reply, log, approvals, runs, unsaved>>
-----------------------------------------------------------------------------
(***************************************************************************)
(* One confirm request.                                                    *)
(***************************************************************************)

Finish(r, answer) ==
  /\ pc' = [pc EXCEPT ![r] = "done"]
  /\ reply' = [reply EXCEPT ![r] = answer]

Exists(a) == status[a] \notin {"none", "deleted"}

Expired(a) == age[a] > ActionTTL

\* Mutant: the status test is missing
ResolvableInAnyStatus(a) == Exists(a)

Resolvable(a) == status[a] = "PENDING"

\* resolveAction, first half: findUnique, which may be rejected, then the two tests,
\* without an await
FindAction(r) ==
  LET a == req[r].action IN
  /\ pc[r] = "new"
  /\ Overlap \/ \A s \in Request : ~Busy(s)
  /\ \/ Finish(r, "rejected")
     \/ /\ Resolvable(a)
        /\ pc' = [pc EXCEPT ![r] = IF Expired(a) THEN "expire" ELSE "update"]
        /\ UNCHANGED reply
  /\ UNCHANGED <<rowVars, req, log, approvals, runs, unsaved>>

\* Mutant: the rejected update of a row that is gone is not caught, no reply is sent
UpdateUncaught(r) ==
  /\ pc[r] \in {"expire", "update"}
  /\ Exists(req[r].action)
  /\ Finish(r, "rejected")
  /\ UNCHANGED <<rowVars, req, log, approvals, runs, unsaved>>

\* resolveAction: the update throws, as it must when the row is gone
UpdateThrows(r) ==
  /\ pc[r] \in {"expire", "update"}
  /\ Finish(r, "rejected")
  /\ UNCHANGED <<rowVars, req, log, approvals, runs, unsaved>>

\* Mutant: no throw after the update
MarkExpiredFallsThrough(r) ==
  LET a == req[r].action IN
  /\ pc[r] = "expire"
  /\ Exists(a)
  /\ status' = [status EXCEPT ![a] = "EXPIRED"]
  /\ pc' = [pc EXCEPT ![r] = "update"]
  /\ UNCHANGED <<session, age, resolvedBy, req, reply, log, approvals, runs, unsaved>>

\* resolveAction: too old
MarkExpired(r) ==
  LET a == req[r].action IN
  /\ pc[r] = "expire"
  /\ Exists(a)
  /\ status' = [status EXCEPT ![a] = "EXPIRED"]
  /\ Finish(r, "rejected")
  /\ UNCHANGED <<session, age, resolvedBy, req, log, approvals, runs, unsaved>>

\* resolveAction, second half: update by id, whatever the status is by now; then
\* the route looks the tool up
Decide(r) ==
  LET a == req[r].action IN
  /\ pc[r] = "update"
  /\ Exists(a)
  /\ resolvedBy' = [resolvedBy EXCEPT ![a] = r]
  /\ \/ /\ req[r].approved
        /\ status' = [status EXCEPT ![a] = "APPROVED"]
        /\ approvals' = [approvals EXCEPT ![a] = @ \union {r}]
        /\ \/ /\ a \in Registered
              /\ pc' = [pc EXCEPT ![r] = "execute"]
              /\ UNCHANGED reply
           \/ /\ a \notin Registered
              /\ Finish(r, "resolved")
     \/ /\ ~req[r].approved
        /\ status' = [status EXCEPT ![a] = "DENIED"]
        /\ pc' = [pc EXCEPT ![r] = "save"]
        /\ UNCHANGED <<reply, approvals>>
  /\ UNCHANGED <<session, age, req, log, runs, unsaved>>

\* Mutant: the tool of a denied action runs as well
RunsToolAlways(r) == pc[r] \in {"execute", "save"}

RunsTool(r) == pc[r] = "execute"

\* tool.execute returns, with data or with an error of its own
ToolReturns(r) ==
  /\ RunsTool(r)
  /\ runs' = [runs EXCEPT ![req[r].action] = @ \union {r}]
  /\ pc' = [pc EXCEPT ![r] = "save"]
  /\ UNCHANGED <<rowVars, req, reply, log, approvals, unsaved>>

\* Mutant: the catch swallows the error
ToolThrowsUnreported(r) ==
  /\ RunsTool(r)
  /\ Finish(r, "resolved")
  /\ UNCHANGED <<rowVars, req, log, approvals, runs, unsaved>>

\* tool.execute throws before it has done anything
ToolThrows(r) ==
  /\ RunsTool(r)
  /\ Finish(r, "toolFailed")
  /\ UNCHANGED <<rowVars, req, log, approvals, runs, unsaved>>

Logs(a, r) == log' = [log EXCEPT ![a] = @ \union {IF req[r].approved THEN "executed" ELSE "denied"}]

\* saveMessage after the tool or after a denial
SaveMessage(r) ==
  /\ pc[r] = "save"
  /\ session = "open"
  /\ Logs(req[r].action, r)
  /\ Finish(r, "resolved")
  /\ UNCHANGED <<rowVars, req, approvals, runs, unsaved>>

\* saveMessage is rejected, by the foreign key of a deleted session or otherwise: the
\* message itself, or the title or time of the session after it was stored.  The
\* catch around the tool answers for it
SaveMessageThrows(r) ==
  /\ pc[r] = "save"
  /\ \/ UNCHANGED log
     \/ session = "open" /\ Logs(req[r].action, r)
  /\ unsaved' = unsaved \union {r}
  /\ Finish(r, IF req[r].approved THEN "toolFailed" ELSE "rejected")
  /\ UNCHANGED <<rowVars, req, approvals, runs>>

Confirm(r) ==
  \/ FindAction(r) \/ UpdateThrows(r) \/ MarkExpired(r) \/ Decide(r)
  \/ ToolReturns(r) \/ ToolThrows(r) \/ SaveMessage(r) \/ SaveMessageThrows(r)

Next ==
  \/ \E a \in Action : CreatePendingAction(a)
  \/ DeleteSession \/ Tick \/ Crash
  \/ \E r \in Request : Confirm(r)

Spec == Init /\ [][Next]_vars

(***************************************************************************)
(* Fairness: the clock runs, and a request that has begun is driven to its *)
(* reply by the event loop unless the process stops, or its tool waits for *)
(* a call that no timeout ends, as github_update_file does in the          *)
(* getContent of github.service.ts:367, outside withResilience.  Nobody    *)
(* has to confirm anything, create an action or delete the session.        *)
(***************************************************************************)
WaitsUnguarded(r) == RunsTool(r) /\ req[r].action \notin Guarded

Continue(r) == Busy(r) /\ ~WaitsUnguarded(r) /\ Confirm(r)

FairSpec == Spec /\ WF_vars(Tick) /\ \A r \in Request : WF_vars(Continue(r))
-----------------------------------------------------------------------------
(***************************************************************************)
(* Properties that hold however requests overlap.                          *)
(***************************************************************************)

\* A tool runs only for a request that asked for it and itself wrote APPROVED, with
\* whatever denials, expiries, deletions and restarts in between.
RunsAreApproved ==
  \A a \in Action : \A r \in runs[a] :
    r \in approvals[a] /\ req[r] = [action |-> a, approved |-> TRUE]

\* EXPIRED is written only to actions that are past their TTL.
ExpiredIsOld == \A a \in Action : status[a] = "EXPIRED" => age[a] > ActionTTL

\* Whoever is told "resolved" finds its own decision carried through and on record:
\* the tool ran (when it is registered), or nothing did.
ResolvedRepliesAreTrue ==
  \A r \in Request :
    LET a == req[r].action IN
    reply[r] = "resolved" =>
      IF req[r].approved
      THEN /\ r \in approvals[a]
           /\ a \in Registered => r \in runs[a] /\ (session = "deleted" \/ "executed" \in log[a])
      ELSE session = "deleted" \/ "denied" \in log[a]

\* Whoever approves and is told "rejected" may try again: it has approved nothing and
\* run nothing.
RejectedRepliesAreTrue ==
  \A r \in Request :
    reply[r] = "rejected" /\ req[r].approved =>
      r \notin approvals[req[r].action] \union runs[req[r].action]

\* routes/ai/chat.ts:174, 'Tool execution failed after confirmation': whoever is told
\* so has approved, and the reply is false, the tool having run, in one case only:
\* saving the message was rejected, which the same catch answers for.
FailedRepliesAreTrue ==
  \A r \in Request :
    reply[r] = "toolFailed" =>
      /\ r \in approvals[req[r].action]
      /\ r \in runs[req[r].action] <=> r \in unsaved

\* What the gate guarantees however requests overlap.
ConfirmationInv == TypeOK /\ RunsAreApproved /\ ExpiredIsOld

\* What the person is told is what happened.
RepliesAreTrue == ResolvedRepliesAreTrue /\ RejectedRepliesAreTrue /\ FailedRepliesAreTrue

\* Each confirm request that began gets its reply, is lost in a crash, or waits for
\* ever in a tool that makes a call without a timeout.
RequestsEnd ==
  \A r \in Request : Busy(r) ~> (~Busy(r) \/ []WaitsUnguarded(r))

(***************************************************************************)
(* Properties the code's own documents claim; with overlapping requests    *)
(* they fail; one after the other, the first three hold.                   *)
(***************************************************************************)

\* ConfirmationService.ts:91, "already resolved": two requests never both run the
\* tool of one action.
ExecutedAtMostOnce == \A a \in Action : \A r, s \in runs[a] : r = s

\* specs/SECURITY.md:199, "Audit trail": the row of an action whose tool ran names
\* the request that ran it, as APPROVED.
AuditMatchesExecution ==
  \A a \in Action : \A r \in runs[a] :
    status[a] = "deleted" \/ (status[a] = "APPROVED" /\ resolvedBy[a] = r)

\* specs/SECURITY.md:198, "expired actions cannot be approved".
ExpiredIsFinal ==
  [][\A a \in Action : status[a] = "EXPIRED" => status'[a] \in {"EXPIRED", "deleted"}]_vars

Gate == INSTANCE PendingAction WITH Action <- Action, status <- status

\* The code with confirm requests one after the other implements the gate.
ImplementsGate == Gate!Spec
=============================================================================
