------------------------- MODULE ConfirmationProofs -------------------------
(***************************************************************************)
(* The confirmation gate for any number of actions and requests: what      *)
(* overlapping requests cannot break, and that requests which do not       *)
(* overlap implement the gate of PendingAction.                            *)
(***************************************************************************)
EXTENDS Confirmation, TLAPS

\* A request that approved is past its update, for its own action.
ApproversKnown ==
  \A a \in Action : \A r \in approvals[a] :
    /\ req[r] = [action |-> a, approved |-> TRUE]
    /\ pc[r] \in {"execute", "save", "done", "lost"}

\* A request that ran the tool had approved, and is past the tool.
RunnersKnown ==
  \A a \in Action : \A r \in runs[a] :
    r \in approvals[a] /\ pc[r] \in {"save", "done", "lost"}

\* What each program point has established.
PointsKnown ==
  \A r \in Request :
    /\ pc[r] = "expire" => age[req[r].action] > ActionTTL
    /\ pc[r] = "execute" =>
         req[r].approved /\ r \in approvals[req[r].action] /\ req[r].action \in Registered
    /\ pc[r] = "save" /\ req[r].approved =>
         r \in approvals[req[r].action] /\ r \in runs[req[r].action]

IInv ==
  /\ TypeOK
  /\ ApproversKnown
  /\ RunnersKnown
  /\ PointsKnown
  /\ ExpiredIsOld
  /\ ResolvedRepliesAreTrue

LEMMA InvImpliesApproval == IInv => RunsAreApproved
  BY DEF IInv, ApproversKnown, RunnersKnown, RunsAreApproved

LEMMA InitInv == Init => IInv
<1> SUFFICES ASSUME Init PROVE IInv
  OBVIOUS
<1>1. TypeOK
  BY ConfirmationAssumption DEF Init, TypeOK, Status
<1>2. QED
  BY <1>1 DEF Init, IInv, ApproversKnown, RunnersKnown, PointsKnown,
              ExpiredIsOld, ResolvedRepliesAreTrue

LEMMA StepInv ==
  ASSUME IInv, [Next]_vars
  PROVE  IInv'
<1> USE DEF IInv
<1>1. ASSUME NEW a \in Action, CreatePendingAction(a)
      PROVE  IInv'
  <2>1. TypeOK'
    BY <1>1 DEF CreatePendingAction, requestVars, TypeOK, Status
  <2>2. QED
    BY <1>1, <2>1
    DEF CreatePendingAction, requestVars, TypeOK, ApproversKnown, RunnersKnown,
        PointsKnown, ExpiredIsOld, ResolvedRepliesAreTrue
<1>2. CASE DeleteSession
  <2>1. TypeOK'
    BY <1>2 DEF DeleteSession, requestVars, TypeOK, Status
  <2>2. QED
    BY <1>2, <2>1
    DEF DeleteSession, requestVars, TypeOK, ApproversKnown, RunnersKnown,
        PointsKnown, ExpiredIsOld, ResolvedRepliesAreTrue
<1>3. CASE Tick
  <2>1. age' \in [Action -> 0..(ActionTTL + 1)]
    BY <1>3, ConfirmationAssumption DEF Tick, TypeOK
  <2>2. \A a \in Action : age[a] > ActionTTL => age'[a] > ActionTTL
    BY <1>3, ConfirmationAssumption DEF Tick, TypeOK
  <2>3. TypeOK'
    BY <1>3, <2>1 DEF Tick, requestVars, TypeOK
  <2>4. \A r \in Request : req[r].action \in Action
    BY DEF TypeOK
  <2>5. QED
    BY <1>3, <2>2, <2>3, <2>4
    DEF Tick, requestVars, ApproversKnown, RunnersKnown,
        PointsKnown, ExpiredIsOld, ResolvedRepliesAreTrue
<1>4. CASE Crash
  <2>1. TypeOK'
    BY <1>4 DEF Crash, rowVars, Busy, TypeOK
  <2>2. QED
    BY <1>4, <2>1
    DEF Crash, rowVars, Busy, TypeOK, ApproversKnown, RunnersKnown,
        PointsKnown, ExpiredIsOld, ResolvedRepliesAreTrue
<1>5. ASSUME NEW r \in Request, FindAction(r)
      PROVE  IInv'
  <2>1. TypeOK'
    BY <1>5 DEF FindAction, Finish, rowVars, TypeOK
  <2>2. /\ pc[r] = "new"
        /\ pc'[r] \in {"done", "expire", "update"}
        /\ \A s \in Request \ {r} : pc'[s] = pc[s] /\ reply'[s] = reply[s]
        /\ reply'[r] = reply[r] \/ reply'[r] = "rejected"
        /\ pc'[r] = "expire" => age[req[r].action] > ActionTTL
        /\ UNCHANGED <<session, status, age, resolvedBy, req, log, approvals, runs, unsaved>>
    BY <1>5 DEF FindAction, Finish, Expired, rowVars, TypeOK
  <2>3. ApproversKnown' /\ RunnersKnown'
    <3>1. ASSUME NEW b \in Action, NEW s \in approvals[b]
          PROVE  /\ req[s] = [action |-> b, approved |-> TRUE]
                 /\ pc'[s] \in {"execute", "save", "done", "lost"}
      <4>1. s \in Request /\ pc[s] \in {"execute", "save", "done", "lost"}
        BY DEF TypeOK, ApproversKnown
      <4>2. req[s] = [action |-> b, approved |-> TRUE]
        BY DEF ApproversKnown
      <4>3. QED
        BY <2>2, <4>1, <4>2
    <3>2. ApproversKnown'
      BY <2>2, <3>1 DEF ApproversKnown
    <3>3. RunnersKnown'
      BY <2>2 DEF TypeOK, RunnersKnown
    <3>4. QED
      BY <3>2, <3>3
  <2>4. PointsKnown'
    BY <2>2 DEF TypeOK, PointsKnown
  <2>5. ExpiredIsOld' /\ ResolvedRepliesAreTrue'
    BY <2>2 DEF TypeOK, ExpiredIsOld, ResolvedRepliesAreTrue
  <2>6. QED
    BY <2>1, <2>3, <2>4, <2>5
<1>6. ASSUME NEW r \in Request, UpdateThrows(r)
      PROVE  IInv'
  <2>1. TypeOK'
    BY <1>6 DEF UpdateThrows, Finish, rowVars, TypeOK
  <2>2. QED
    BY <1>6, <2>1
    DEF UpdateThrows, Finish, rowVars, TypeOK, ApproversKnown, RunnersKnown,
        PointsKnown, ExpiredIsOld, ResolvedRepliesAreTrue
<1>7. ASSUME NEW r \in Request, MarkExpired(r)
      PROVE  IInv'
  <2>1. TypeOK'
    BY <1>7 DEF MarkExpired, Finish, TypeOK, Status
  <2>2. QED
    BY <1>7, <2>1
    DEF MarkExpired, Finish, TypeOK, ApproversKnown, RunnersKnown,
        PointsKnown, ExpiredIsOld, ResolvedRepliesAreTrue
<1>8. ASSUME NEW r \in Request, Decide(r)
      PROVE  IInv'
  <2> DEFINE a == req[r].action
  <2>1. a \in Action /\ req[r] = [action |-> a, approved |-> req[r].approved]
        /\ req[r].approved \in BOOLEAN
    BY DEF TypeOK
  <2>2. CASE req[r].approved
    <3>1. /\ resolvedBy' = [resolvedBy EXCEPT ![a] = r]
          /\ status' = [status EXCEPT ![a] = "APPROVED"]
          /\ approvals' = [approvals EXCEPT ![a] = @ \union {r}]
          /\ UNCHANGED <<session, age, req, log, runs, unsaved>>
      BY <1>8, <2>2 DEF Decide
    <3>2. \/ a \in Registered /\ pc' = [pc EXCEPT ![r] = "execute"] /\ reply' = reply
          \/ a \notin Registered /\ Finish(r, "resolved")
      BY <1>8, <2>2 DEF Decide
    <3>3. pc[r] = "update"
      BY <1>8 DEF Decide
    <3>4. TypeOK'
      <4>1. /\ pc \in [Request -> {"new", "update", "expire", "execute", "save", "done", "lost"}]
            /\ reply \in [Request -> {"none", "rejected", "resolved", "toolFailed"}]
            /\ \A s \in Request : reply[s] # "none" <=> pc[s] = "done"
        BY DEF TypeOK
      <4>2. CASE pc' = [pc EXCEPT ![r] = "execute"] /\ reply' = reply
        <5>1. /\ pc' \in [Request -> {"new", "update", "expire", "execute", "save", "done", "lost"}]
              /\ \A s \in Request : reply'[s] # "none" <=> pc'[s] = "done"
          BY <3>3, <4>1, <4>2
        <5>2. QED
          BY <2>1, <3>1, <4>2, <5>1 DEF TypeOK, Status
      <4>3. CASE pc' = [pc EXCEPT ![r] = "done"] /\ reply' = [reply EXCEPT ![r] = "resolved"]
        <5>1. /\ pc' \in [Request -> {"new", "update", "expire", "execute", "save", "done", "lost"}]
              /\ reply' \in [Request -> {"none", "rejected", "resolved", "toolFailed"}]
              /\ \A s \in Request : reply'[s] # "none" <=> pc'[s] = "done"
          BY <3>3, <4>1, <4>3
        <5>2. QED
          BY <2>1, <3>1, <5>1 DEF TypeOK, Status
      <4>4. QED
        BY <3>2, <4>2, <4>3 DEF Finish
    <3>5. /\ pc'[r] \in {"execute", "done"}
          /\ pc'[r] = "execute" => a \in Registered /\ reply'[r] = reply[r]
          /\ pc'[r] = "done" => a \notin Registered
          /\ \A s \in Request \ {r} : pc'[s] = pc[s] /\ reply'[s] = reply[s]
          /\ \A s \in Request : s # r => req[s] = req'[s]
          /\ r \in approvals'[a]
          /\ \A b \in Action : b # a => approvals'[b] = approvals[b]
          /\ approvals'[a] = approvals[a] \union {r}
      BY <2>1, <3>1, <3>2, <3>3 DEF Finish, TypeOK
    <3>6. ApproversKnown'
      <4>1. ASSUME NEW b \in Action, NEW s \in approvals'[b]
            PROVE  /\ req[s] = [action |-> b, approved |-> TRUE]
                   /\ pc'[s] \in {"execute", "save", "done", "lost"}
        <5>1. CASE s = r /\ b = a
          BY <5>1, <2>1, <2>2, <3>5
        <5>2. CASE s \in approvals[b]
          <6>1. s \in Request /\ pc[s] \in {"execute", "save", "done", "lost"}
            BY <5>2 DEF TypeOK, ApproversKnown
          <6>2. req[s] = [action |-> b, approved |-> TRUE]
            BY <5>2 DEF ApproversKnown
          <6>3. QED
            BY <6>1, <6>2, <3>3, <3>5
        <5>3. QED
          BY <5>1, <5>2, <3>5
      <4>2. QED
        BY <4>1, <3>1 DEF ApproversKnown
    <3>7. RunnersKnown'
      BY <2>1, <3>1, <3>3, <3>5 DEF TypeOK, RunnersKnown
    <3>8. PointsKnown'
      BY <2>1, <2>2, <3>1, <3>3, <3>5 DEF TypeOK, PointsKnown
    <3>9. ExpiredIsOld'
      BY <2>1, <3>1 DEF TypeOK, ExpiredIsOld
    <3>10. reply[r] = "none"
      BY <3>3 DEF TypeOK
    <3>11. ResolvedRepliesAreTrue'
      BY <2>1, <2>2, <3>1, <3>5, <3>10 DEF TypeOK, ResolvedRepliesAreTrue
    <3>12. QED
      BY <3>4, <3>6, <3>7, <3>8, <3>9, <3>11
  <2>3. CASE ~req[r].approved
    <3>1. /\ pc[r] = "update"
          /\ resolvedBy' = [resolvedBy EXCEPT ![a] = r]
          /\ status' = [status EXCEPT ![a] = "DENIED"]
          /\ pc' = [pc EXCEPT ![r] = "save"]
          /\ UNCHANGED <<session, age, req, reply, log, approvals, runs, unsaved>>
      BY <1>8, <2>3 DEF Decide
    <3>2. TypeOK'
      BY <2>1, <3>1 DEF TypeOK, Status
    <3>3. QED
      BY <2>1, <2>3, <3>1, <3>2
      DEF TypeOK, ApproversKnown, RunnersKnown,
          PointsKnown, ExpiredIsOld, ResolvedRepliesAreTrue
  <2>4. QED
    BY <2>2, <2>3
<1>9. ASSUME NEW r \in Request, ToolReturns(r)
      PROVE  IInv'
  <2>1. TypeOK'
    BY <1>9 DEF ToolReturns, RunsTool, rowVars, TypeOK
  <2>2. QED
    BY <1>9, <2>1
    DEF ToolReturns, RunsTool, rowVars, TypeOK, ApproversKnown, RunnersKnown,
        PointsKnown, ExpiredIsOld, ResolvedRepliesAreTrue
<1>10. ASSUME NEW r \in Request, ToolThrows(r)
       PROVE  IInv'
  <2>1. TypeOK'
    BY <1>10 DEF ToolThrows, RunsTool, Finish, rowVars, TypeOK
  <2>2. QED
    BY <1>10, <2>1
    DEF ToolThrows, RunsTool, Finish, rowVars, TypeOK, ApproversKnown, RunnersKnown,
        PointsKnown, ExpiredIsOld, ResolvedRepliesAreTrue
<1>11. ASSUME NEW r \in Request, SaveMessage(r)
       PROVE  IInv'
  <2>1. TypeOK'
    BY <1>11 DEF SaveMessage, Logs, Finish, rowVars, TypeOK
  <2>2. QED
    BY <1>11, <2>1
    DEF SaveMessage, Logs, Finish, rowVars, TypeOK, ApproversKnown, RunnersKnown,
        PointsKnown, ExpiredIsOld, ResolvedRepliesAreTrue
<1>12. ASSUME NEW r \in Request, SaveMessageThrows(r)
       PROVE  IInv'
  <2> DEFINE a == req[r].action
             how == IF req[r].approved THEN "toolFailed" ELSE "rejected"
  <2>1. /\ a \in Action
        /\ how \in {"toolFailed", "rejected"}
        /\ pc[r] = "save"
        /\ pc' = [pc EXCEPT ![r] = "done"]
        /\ reply' = [reply EXCEPT ![r] = how]
        /\ unsaved' = unsaved \union {r}
        /\ UNCHANGED <<session, status, age, resolvedBy, req, approvals, runs>>
    BY <1>12 DEF SaveMessageThrows, Finish, rowVars, TypeOK
  <2>2. /\ log' \in [Action -> SUBSET {"executed", "denied"}]
        /\ \A b \in Action : log[b] \subseteq log'[b]
    <3>1. CASE UNCHANGED log
      BY <3>1 DEF TypeOK
    <3>2. CASE Logs(a, r)
      <4>1. PICK line \in {"executed", "denied"} : log' = [log EXCEPT ![a] = log[a] \union {line}]
        BY <3>2 DEF Logs
      <4>2. QED
        BY <2>1, <4>1 DEF TypeOK
    <3>3. QED
      BY <1>12, <3>1, <3>2 DEF SaveMessageThrows
  <2> HIDE DEF a, how
  <2>3. TypeOK'
    BY <2>1, <2>2 DEF TypeOK
  <2>4. ApproversKnown' /\ RunnersKnown' /\ PointsKnown' /\ ExpiredIsOld'
    BY <2>1 DEF TypeOK, ApproversKnown, RunnersKnown, PointsKnown, ExpiredIsOld
  <2>5. ResolvedRepliesAreTrue'
    BY <2>1, <2>2 DEF TypeOK, ResolvedRepliesAreTrue
  <2>6. QED
    BY <2>3, <2>4, <2>5
<1>13. CASE UNCHANGED vars
  BY <1>13 DEF vars, rowVars, requestVars, TypeOK, ApproversKnown, RunnersKnown,
               PointsKnown, ExpiredIsOld, ResolvedRepliesAreTrue
<1>14. QED
  BY <1>1, <1>2, <1>3, <1>4, <1>5, <1>6, <1>7, <1>8, <1>9, <1>10, <1>11, <1>12, <1>13
  DEF Next, Confirm

\* A request whose saveMessage was rejected has its reply.
UnsavedKnown == \A r \in unsaved : pc[r] = "done"

RepliesInv == RejectedRepliesAreTrue /\ FailedRepliesAreTrue /\ UnsavedKnown

\* A step that leaves what is known of the requests alone: replies and histories.
LEMMA RepliesStutter ==
  ASSUME IInv, RepliesInv,
         UNCHANGED <<req, reply, approvals, runs, unsaved>>,
         \A r \in Request : pc[r] = "done" => pc'[r] = "done"
  PROVE  RepliesInv'
BY DEF IInv, TypeOK, RepliesInv, RejectedRepliesAreTrue, FailedRepliesAreTrue, UnsavedKnown

\* A step that replies to one request.
LEMMA RepliesAnswer ==
  ASSUME IInv, RepliesInv, NEW r \in Request,
         pc' = [pc EXCEPT ![r] = "done"],
         NEW answer \in {"rejected", "resolved", "toolFailed"},
         reply' = [reply EXCEPT ![r] = answer],
         UNCHANGED <<req, runs>>,
         \A a \in Action, s \in Request \ {r} : s \in approvals'[a] <=> s \in approvals[a],
         \A s \in Request \ {r} : s \in unsaved' <=> s \in unsaved,
         unsaved' \in SUBSET Request,
         answer = "rejected" /\ req[r].approved =>
           r \notin approvals'[req[r].action] \union runs[req[r].action],
         answer = "toolFailed" =>
           /\ r \in approvals'[req[r].action]
           /\ r \in runs[req[r].action] <=> r \in unsaved'
  PROVE  RepliesInv'
<1>1. /\ pc'[r] = "done" /\ reply'[r] = answer
      /\ \A s \in Request \ {r} : pc'[s] = pc[s] /\ reply'[s] = reply[s]
      /\ \A s \in Request : req[s].action \in Action
  BY DEF IInv, TypeOK
<1>2. RejectedRepliesAreTrue'
  BY <1>1 DEF RepliesInv, RejectedRepliesAreTrue
<1>3. FailedRepliesAreTrue'
  BY <1>1 DEF RepliesInv, FailedRepliesAreTrue
<1>4. UnsavedKnown'
  BY <1>1 DEF RepliesInv, UnsavedKnown
<1>5. QED
  BY <1>2, <1>3, <1>4 DEF RepliesInv

\* The route says 'rejected' before it has approved, and 'failed' in two ways: before
\* the tool has done anything, or when the message of a tool that ran is not saved.
LEMMA RepliesStep ==
  ASSUME IInv, RepliesInv, [Next]_vars
  PROVE  RepliesInv'
<1> USE DEF IInv
<1>1. CASE DeleteSession \/ Tick \/ Crash \/ UNCHANGED vars
  <2>1. /\ UNCHANGED <<req, reply, approvals, runs, unsaved>>
        /\ \A r \in Request : pc[r] = "done" => pc'[r] = "done"
    BY <1>1 DEF DeleteSession, Tick, Crash, Busy, requestVars, rowVars, vars
  <2>2. QED
    BY <2>1, RepliesStutter
<1>2. ASSUME NEW a \in Action, CreatePendingAction(a)
      PROVE  RepliesInv'
  BY <1>2, RepliesStutter DEF CreatePendingAction, requestVars
<1>3. ASSUME NEW r \in Request, FindAction(r) \/ UpdateThrows(r) \/ MarkExpired(r)
      PROVE  RepliesInv'
  <2>1. /\ pc[r] \in {"new", "expire", "update"}
        /\ UNCHANGED <<req, approvals, runs, unsaved>>
    BY <1>3 DEF FindAction, UpdateThrows, MarkExpired, rowVars
  <2>2. r \notin approvals[req[r].action] \union runs[req[r].action]
    BY <2>1 DEF TypeOK, ApproversKnown, RunnersKnown
  <2>3. CASE Finish(r, "rejected")
    BY <2>1, <2>2, <2>3, RepliesAnswer DEF Finish, TypeOK
  <2>4. CASE UNCHANGED reply /\ pc' \in {[pc EXCEPT ![r] = "expire"], [pc EXCEPT ![r] = "update"]}
    <3>1. \A s \in Request : pc[s] = "done" => pc'[s] = "done"
      BY <2>1, <2>4 DEF TypeOK
    <3>2. QED
      BY <2>1, <2>4, <3>1, RepliesStutter
  <2>5. QED
    BY <1>3, <2>3, <2>4 DEF FindAction, UpdateThrows, MarkExpired
<1>4. ASSUME NEW r \in Request, Decide(r)
      PROVE  RepliesInv'
  <2>1. /\ pc[r] = "update" /\ reply[r] = "none" /\ r \notin unsaved
        /\ UNCHANGED <<req, runs, unsaved>>
        /\ \A a \in Action, s \in Request \ {r} : s \in approvals'[a] <=> s \in approvals[a]
    BY <1>4 DEF Decide, TypeOK, RepliesInv, UnsavedKnown
  <2>2. CASE Finish(r, "resolved")
    BY <2>1, <2>2, RepliesAnswer DEF Finish, TypeOK
  <2>3. CASE UNCHANGED reply /\ pc' \in {[pc EXCEPT ![r] = "execute"], [pc EXCEPT ![r] = "save"]}
    <3>1. \A s \in Request : s # r => pc'[s] = pc[s] /\ reply'[s] = reply[s]
      BY <2>3 DEF TypeOK
    <3>2. UnsavedKnown'
      BY <2>1, <3>1 DEF RepliesInv, UnsavedKnown, TypeOK
    <3>3. RejectedRepliesAreTrue' /\ FailedRepliesAreTrue'
      BY <2>1, <2>3, <3>1 DEF RepliesInv, RejectedRepliesAreTrue, FailedRepliesAreTrue, TypeOK
    <3>4. QED
      BY <3>2, <3>3 DEF RepliesInv
  <2>4. QED
    BY <1>4, <2>2, <2>3 DEF Decide
<1>5. ASSUME NEW r \in Request, ToolReturns(r)
      PROVE  RepliesInv'
  <2>1. /\ pc[r] = "execute" /\ reply[r] = "none" /\ r \notin unsaved
        /\ UNCHANGED <<req, reply, approvals, unsaved>>
        /\ \A a \in Action, s \in Request \ {r} : s \in runs'[a] <=> s \in runs[a]
        /\ \A s \in Request : s # r => pc'[s] = pc[s]
    BY <1>5 DEF ToolReturns, RunsTool, rowVars, TypeOK, RepliesInv, UnsavedKnown
  <2>2. UnsavedKnown'
    BY <2>1 DEF RepliesInv, UnsavedKnown, TypeOK
  <2>3. RejectedRepliesAreTrue' /\ FailedRepliesAreTrue'
    BY <2>1 DEF RepliesInv, RejectedRepliesAreTrue, FailedRepliesAreTrue, TypeOK
  <2>4. QED
    BY <2>2, <2>3 DEF RepliesInv
<1>6. ASSUME NEW r \in Request, ToolThrows(r)
      PROVE  RepliesInv'
  <2>1. /\ r \in approvals[req[r].action]
        /\ r \notin runs[req[r].action] /\ r \notin unsaved
        /\ UNCHANGED <<req, approvals, runs, unsaved>>
    BY <1>6 DEF ToolThrows, RunsTool, rowVars, TypeOK, PointsKnown, RunnersKnown,
                RepliesInv, UnsavedKnown
  <2>2. QED
    BY <1>6, <2>1, RepliesAnswer DEF ToolThrows, Finish, TypeOK
<1>7. ASSUME NEW r \in Request, SaveMessage(r)
      PROVE  RepliesInv'
  BY <1>7, RepliesAnswer DEF SaveMessage, Finish, TypeOK
<1>8. ASSUME NEW r \in Request, SaveMessageThrows(r)
      PROVE  RepliesInv'
  <2>1. /\ req[r].approved => r \in approvals[req[r].action] /\ r \in runs[req[r].action]
        /\ UNCHANGED <<req, approvals, runs>>
        /\ unsaved' = unsaved \union {r}
    BY <1>8 DEF SaveMessageThrows, rowVars, PointsKnown
  <2>2. CASE req[r].approved
    <3>1. Finish(r, "toolFailed")
      BY <1>8, <2>2 DEF SaveMessageThrows
    <3>2. QED
      BY <2>1, <2>2, <3>1, RepliesAnswer DEF Finish, TypeOK
  <2>3. CASE ~req[r].approved
    <3>1. Finish(r, "rejected")
      BY <1>8, <2>3 DEF SaveMessageThrows
    <3>2. QED
      BY <2>1, <2>3, <3>1, RepliesAnswer DEF Finish, TypeOK
  <2>4. QED
    BY <2>2, <2>3
<1>9. QED
  BY <1>1, <1>2, <1>3, <1>4, <1>5, <1>6, <1>7, <1>8 DEF Next, Confirm

\* However confirm requests overlap, a tool runs only for a request that asked for it
\* and wrote its approval, and only old actions expire (ConfirmationService.ts:77-126).
THEOREM GateSafety == Spec => []ConfirmationInv
<1>1. IInv /\ [Next]_vars => IInv'
  BY StepInv
<1>2. IInv => ConfirmationInv
  BY InvImpliesApproval DEF IInv, ConfirmationInv
<1>3. QED
  BY InitInv, <1>1, <1>2, PTL DEF Spec

\* However confirm requests overlap, and whichever queries the database rejects,
\* replies tell the truth (routes/ai/chat.ts:136-193), but for 'failed' after a tool
\* that ran whose message was not saved.
THEOREM ReplyTheorem == Spec => []RepliesAreTrue
<1>1. Init => IInv /\ RepliesInv
  BY InitInv DEF Init, RepliesInv, RejectedRepliesAreTrue, FailedRepliesAreTrue, UnsavedKnown
<1>2. IInv /\ RepliesInv /\ [Next]_vars => IInv' /\ RepliesInv'
  BY StepInv, RepliesStep
<1>3. IInv /\ RepliesInv => RepliesAreTrue
  BY DEF IInv, RepliesInv, RepliesAreTrue
<1>4. QED
  BY <1>1, <1>2, <1>3, PTL DEF Spec
-----------------------------------------------------------------------------
(***************************************************************************)
(* Requests one after the other.                                           *)
(***************************************************************************)

\* At most one request is between its read and its reply.
OneBusy == \A r, s \in Request : Busy(r) /\ Busy(s) => r = s

\* What that request read is still so, unless the session is gone.
ReadIsFresh ==
  \A r \in Request :
    pc[r] \in {"update", "expire"} => status[req[r].action] \in {"PENDING", "deleted"}

\* The row tells who approved.
RowTellsApproval ==
  \A a \in Action :
    /\ status[a] \notin {"APPROVED", "deleted"} => approvals[a] = {}
    /\ status[a] = "APPROVED" => resolvedBy[a] \in approvals[a]
    /\ \A r, s \in approvals[a] : r = s

SerialInv == OneBusy /\ ReadIsFresh /\ RowTellsApproval

\* A row that has expired stays so or is deleted with its session.
ExpiredStays ==
  \A a \in Action : status[a] = "EXPIRED" => status'[a] \in {"EXPIRED", "deleted"}

LEMMA SerialInit == Init => SerialInv /\ Gate!Init
  BY DEF Init, SerialInv, OneBusy, ReadIsFresh, RowTellsApproval, Busy, Gate!Init

LEMMA SerialAudit == IInv /\ SerialInv => AuditMatchesExecution
  BY DEF IInv, TypeOK, Status, RunnersKnown, SerialInv, RowTellsApproval,
         AuditMatchesExecution

\* A step that leaves the rows and the histories alone is a stutter of the gate.
LEMMA SerialStutter ==
  ASSUME SerialInv, UNCHANGED <<status, resolvedBy, req, approvals, runs>>,
         \A r \in Request : pc'[r] \in {"update", "expire"} => pc'[r] = pc[r],
         \A r \in Request :
           pc'[r] \in {"update", "expire", "execute", "save"} => Busy(r)
  PROVE  SerialInv' /\ [Gate!Next]_(Gate!vars) /\ ExpiredStays
<1>1. OneBusy'
  BY DEF SerialInv, OneBusy, Busy
<1>2. ReadIsFresh'
  BY DEF SerialInv, ReadIsFresh
<1>3. RowTellsApproval'
  BY DEF SerialInv, RowTellsApproval
<1>4. QED
  BY <1>1, <1>2, <1>3 DEF SerialInv, Gate!vars, ExpiredStays

LEMMA SerialStep ==
  ASSUME ~Overlap, IInv, SerialInv, [Next]_vars
  PROVE  SerialInv' /\ [Gate!Next]_(Gate!vars) /\ ExpiredStays
<1>1. ASSUME NEW a \in Action, CreatePendingAction(a)
      PROVE  SerialInv' /\ [Gate!Next]_(Gate!vars) /\ ExpiredStays
  <2>1. Gate!Propose(a)
    BY <1>1 DEF CreatePendingAction, Gate!Propose
  <2>2. SerialInv'
    BY <1>1
    DEF CreatePendingAction, requestVars, IInv, TypeOK, Status, SerialInv, OneBusy,
        ReadIsFresh, RowTellsApproval, Busy
  <2>3. ExpiredStays
    BY <1>1 DEF CreatePendingAction, ExpiredStays, IInv, TypeOK
  <2>4. QED
    BY <2>1, <2>2, <2>3 DEF Gate!Next
<1>2. CASE DeleteSession
  <2>1. Gate!Discard
    BY <1>2 DEF DeleteSession, Gate!Discard
  <2>2. SerialInv'
    BY <1>2
    DEF DeleteSession, requestVars, IInv, TypeOK, Status, SerialInv, OneBusy,
        ReadIsFresh, RowTellsApproval, Busy
  <2>3. ExpiredStays
    BY <1>2 DEF DeleteSession, ExpiredStays
  <2>4. QED
    BY <2>1, <2>2, <2>3 DEF Gate!Next
<1>3. CASE Tick
  BY <1>3, SerialStutter DEF Tick, requestVars, Busy
<1>4. CASE Crash
  BY <1>4, SerialStutter DEF Crash, rowVars, Busy, IInv, TypeOK
<1>5. ASSUME NEW r \in Request, FindAction(r)
      PROVE  SerialInv' /\ [Gate!Next]_(Gate!vars) /\ ExpiredStays
  <2>1. /\ \A s \in Request : ~Busy(s)
        /\ \A s \in Request \ {r} : pc'[s] = pc[s]
        /\ pc'[r] \in {"update", "expire"} => status[req[r].action] = "PENDING"
        /\ UNCHANGED <<status, resolvedBy, req, approvals, runs>>
    BY <1>5 DEF FindAction, Finish, Resolvable, rowVars, IInv, TypeOK
  <2>2. OneBusy' /\ ReadIsFresh'
    BY <2>1 DEF OneBusy, ReadIsFresh, Busy
  <2>3. RowTellsApproval'
    BY <2>1 DEF SerialInv, RowTellsApproval
  <2>4. QED
    BY <2>1, <2>2, <2>3 DEF SerialInv, Gate!vars, ExpiredStays
<1>6. ASSUME NEW r \in Request,
             UpdateThrows(r) \/ ToolThrows(r) \/ SaveMessage(r) \/ SaveMessageThrows(r)
      PROVE  SerialInv' /\ [Gate!Next]_(Gate!vars) /\ ExpiredStays
  <2>1. /\ pc'[r] = "done"
        /\ \A s \in Request \ {r} : pc'[s] = pc[s]
        /\ UNCHANGED <<status, resolvedBy, req, approvals, runs>>
    BY <1>6 DEF UpdateThrows, ToolThrows, SaveMessage, SaveMessageThrows,
                Finish, rowVars, IInv, TypeOK
  <2>2. QED
    BY <2>1, SerialStutter DEF Busy
<1>7. ASSUME NEW r \in Request, MarkExpired(r)
      PROVE  SerialInv' /\ [Gate!Next]_(Gate!vars) /\ ExpiredStays
  <2> DEFINE a == req[r].action
  <2>1. /\ a \in Action
        /\ status[a] = "PENDING"
        /\ status' = [status EXCEPT ![a] = "EXPIRED"]
        /\ pc' = [pc EXCEPT ![r] = "done"]
        /\ UNCHANGED <<resolvedBy, req, approvals, runs>>
    BY <1>7 DEF MarkExpired, Exists, Finish, IInv, TypeOK, SerialInv, ReadIsFresh
  <2>2. Gate!Close(a)
    BY <2>1 DEF Gate!Close
  <2>3. OneBusy'
    BY <2>1 DEF SerialInv, OneBusy, Busy, IInv, TypeOK
  <2>4. \A s \in Request : pc'[s] \notin {"update", "expire"}
    BY <1>7, <2>1 DEF MarkExpired, SerialInv, OneBusy, Busy, IInv, TypeOK
  <2>5. RowTellsApproval'
    BY <2>1 DEF SerialInv, RowTellsApproval, IInv, TypeOK
  <2>6. ExpiredStays
    BY <2>1 DEF ExpiredStays, IInv, TypeOK
  <2>7. QED
    BY <2>1, <2>2, <2>3, <2>4, <2>5, <2>6 DEF SerialInv, ReadIsFresh, Gate!Next
<1>8. ASSUME NEW r \in Request, Decide(r)
      PROVE  SerialInv' /\ [Gate!Next]_(Gate!vars) /\ ExpiredStays
  <2> DEFINE a == req[r].action
  <2>1. /\ a \in Action
        /\ pc[r] = "update"
        /\ status[a] = "PENDING"
        /\ approvals[a] = {}
        /\ resolvedBy' = [resolvedBy EXCEPT ![a] = r]
        /\ UNCHANGED <<req, runs>>
    BY <1>8 DEF Decide, Exists, IInv, TypeOK, SerialInv, ReadIsFresh, RowTellsApproval
  <2>2. /\ pc'[r] \in {"execute", "save", "done"}
        /\ \A s \in Request \ {r} : pc'[s] = pc[s]
    BY <1>8 DEF Decide, Finish, IInv, TypeOK
  <2>3. OneBusy'
    BY <2>1, <2>2 DEF SerialInv, OneBusy, Busy
  <2>4. ReadIsFresh'
    BY <2>1, <2>2 DEF SerialInv, OneBusy, Busy, ReadIsFresh
  <2>5. CASE req[r].approved
    <3>1. /\ status' = [status EXCEPT ![a] = "APPROVED"]
          /\ approvals' = [approvals EXCEPT ![a] = @ \union {r}]
      BY <1>8, <2>5 DEF Decide
    <3>2. Gate!Approve(a, r)
      BY <2>1, <3>1 DEF Gate!Approve
    <3>3. RowTellsApproval'
      BY <2>1, <3>1 DEF SerialInv, RowTellsApproval, IInv, TypeOK
    <3>4. ExpiredStays
      BY <2>1, <3>1 DEF ExpiredStays, IInv, TypeOK
    <3>5. QED
      BY <2>1, <2>3, <2>4, <3>2, <3>3, <3>4 DEF SerialInv, Gate!Next
  <2>6. CASE ~req[r].approved
    <3>1. status' = [status EXCEPT ![a] = "DENIED"] /\ UNCHANGED approvals
      BY <1>8, <2>6 DEF Decide
    <3>2. Gate!Close(a)
      BY <2>1, <3>1 DEF Gate!Close
    <3>3. RowTellsApproval'
      BY <2>1, <3>1 DEF SerialInv, RowTellsApproval, IInv, TypeOK
    <3>4. ExpiredStays
      BY <2>1, <3>1 DEF ExpiredStays, IInv, TypeOK
    <3>5. QED
      BY <2>1, <2>3, <2>4, <3>2, <3>3, <3>4 DEF SerialInv, Gate!Next
  <2>7. QED
    BY <2>5, <2>6
<1>9. ASSUME NEW r \in Request, ToolReturns(r)
      PROVE  SerialInv' /\ [Gate!Next]_(Gate!vars) /\ ExpiredStays
  <2> DEFINE a == req[r].action
  <2>1. /\ a \in Action
        /\ pc[r] = "execute"
        /\ runs' = [runs EXCEPT ![a] = @ \union {r}]
        /\ pc' = [pc EXCEPT ![r] = "save"]
        /\ UNCHANGED <<status, resolvedBy, req, approvals>>
    BY <1>9 DEF ToolReturns, RunsTool, rowVars, IInv, TypeOK
  <2>2. r \in approvals[a] /\ runs[a] = {}
    BY <2>1 DEF IInv, PointsKnown, RunnersKnown, SerialInv, RowTellsApproval, TypeOK
  <2>3. Gate!CarryOut(a, r)
    BY <2>1, <2>2 DEF Gate!CarryOut
  <2>4. OneBusy' /\ ReadIsFresh'
    BY <2>1 DEF SerialInv, OneBusy, ReadIsFresh, Busy, IInv, TypeOK
  <2>5. RowTellsApproval' /\ ExpiredStays
    BY <2>1 DEF SerialInv, RowTellsApproval, ExpiredStays
  <2>6. QED
    BY <2>1, <2>3, <2>4, <2>5 DEF SerialInv, Gate!Next
<1>10. CASE UNCHANGED vars
  BY <1>10, SerialStutter DEF vars, rowVars, requestVars, Busy
<1>11. QED
  BY <1>1, <1>2, <1>3, <1>4, <1>5, <1>6, <1>7, <1>8, <1>9, <1>10 DEF Next, Confirm

\* When confirm requests do not overlap, the code implements the gate: each action is
\* decided once and carried out at most once, by the request that approved it.
THEOREM SerialImplementsGate ==
  ASSUME ~Overlap
  PROVE  Spec => ImplementsGate
<1>1. IInv /\ SerialInv /\ [Next]_vars => IInv' /\ SerialInv' /\ [Gate!Next]_(Gate!vars)
  BY StepInv, SerialStep
<1>2. Init => IInv /\ SerialInv /\ Gate!Init
  BY InitInv, SerialInit
<1>3. QED
  BY <1>1, <1>2, PTL DEF Spec, ImplementsGate, Gate!Spec

\* ... and then the rows are a true audit trail and expiry is final.
THEOREM SerialAuditTrail ==
  ASSUME ~Overlap
  PROVE  Spec => []AuditMatchesExecution /\ ExpiredIsFinal
<1>1. IInv /\ SerialInv /\ [Next]_vars => IInv' /\ SerialInv'
  BY StepInv, SerialStep
<1>2. IInv /\ SerialInv /\ [Next]_vars
        => [\A a \in Action : status[a] = "EXPIRED"
              => status'[a] \in {"EXPIRED", "deleted"}]_vars
  BY SerialStep DEF ExpiredStays
<1>3. Init => IInv /\ SerialInv
  BY InitInv, SerialInit
<1>4. QED
  BY <1>1, <1>2, <1>3, SerialAudit, PTL DEF Spec, ExpiredIsFinal
=============================================================================
