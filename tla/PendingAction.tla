---------------------------- MODULE PendingAction ----------------------------
(***************************************************************************)
(* What the confirmation gate promises about the write tools of the        *)
(* copilot (specs/AI_TOOLS.md section 4, specs/SECURITY.md section 7.1):   *)
(* an action is proposed, decided once or expired, and an approved action  *)
(* is carried out at most once, by the request that approved it.           *)
(***************************************************************************)
CONSTANTS Action, Request

VARIABLES
  status,    \* "none", PENDING, APPROVED, DENIED, EXPIRED or "deleted"
  approvals, \* the requests that approved each action
  runs       \* the requests that carried each action out

vars == <<status, approvals, runs>>

Init ==
  /\ status = [a \in Action |-> "none"]
  /\ approvals = [a \in Action |-> {}]
  /\ runs = [a \in Action |-> {}]

Propose(a) ==
  /\ status[a] = "none"
  /\ status' = [status EXCEPT ![a] = "PENDING"]
  /\ UNCHANGED <<approvals, runs>>

Approve(a, r) ==
  /\ status[a] = "PENDING"
  /\ status' = [status EXCEPT ![a] = "APPROVED"]
  /\ approvals' = [approvals EXCEPT ![a] = @ \union {r}]
  /\ UNCHANGED runs

Close(a) ==
  /\ status[a] = "PENDING"
  /\ \E s \in {"DENIED", "EXPIRED"} : status' = [status EXCEPT ![a] = s]
  /\ UNCHANGED <<approvals, runs>>

CarryOut(a, r) ==
  /\ r \in approvals[a]
  /\ runs[a] = {}
  /\ runs' = [runs EXCEPT ![a] = {r}]
  /\ UNCHANGED <<status, approvals>>

\* The session goes, and every action proposed in it
Discard ==
  /\ status' = [a \in Action |-> IF status[a] = "none" THEN "none" ELSE "deleted"]
  /\ UNCHANGED <<approvals, runs>>

Next ==
  \/ \E a \in Action : Propose(a) \/ Close(a)
  \/ \E a \in Action, r \in Request : Approve(a, r) \/ CarryOut(a, r)
  \/ Discard

Spec == Init /\ [][Next]_vars
=============================================================================
