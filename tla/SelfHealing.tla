---------------------------- MODULE SelfHealing ----------------------------
(***************************************************************************)
(* POST /healing/execute: a failed run of a pipeline is evaluated against  *)
(* the healing rules and the action of the first match is executed         *)
(* (self-healing.service.ts), while rules and the quarantine change        *)
(* (healing-queries.service.ts).  Every database call is an await;         *)
(* requests interleave between them.                                       *)
(*                                                                         *)
(* Abstracted: patterns, confidences, priorities and disabled rules (any   *)
(* rule that exists may be the first match), texts, occurrence counts,     *)
(* other pipelines and tests; requests take far less than an hour.         *)
(* Reinstating and deleting look the row up before they write; a row that  *)
(* vanishes in between fails either way, so each is one step.              *)
(***************************************************************************)
EXTENDS Naturals, FiniteSets

CONSTANTS
  Req,              \* requests; the event of a request carries its name
  Rule, BuiltIn,    \* healing rules; the ones that cannot be deleted
  ActionOf,         \* the action of each rule
  MaxRetries,       \* MAX_RETRIES_PER_PIPELINE_PER_HOUR
  Slots,            \* bound: requests in flight at once
  DisturbanceBound  \* bound: failed calls and crashes together

NoRule == "no rule"
Action == {"retry", "quarantine", "notify", "fix_pr"}

ASSUME HealingAssumption ==
  /\ IsFiniteSet(Req)
  /\ ActionOf \in [Rule -> Action]
  /\ BuiltIn \subseteq Rule /\ NoRule \notin Rule
  /\ MaxRetries \in Nat /\ Slots \in Nat \ {0} /\ DisturbanceBound \in Nat

VARIABLES
  pc,             \* where each request is
  match,          \* the rule it matched
  level,          \* the autonomy level it read
  seen,           \* the status of the quarantine row it read
  event,          \* status of its HealingEvent
  recent,         \* events created within the hour
  runs,           \* requests whose retry run was created
  deleted,        \* rules that were deleted
  quarantine,     \* status of the QuarantinedTest row of the failing test
  freed,          \* history: requests quarantining it when somebody reinstated or deleted it
  disturbances    \* failed calls and crashes so far

request == <<pc, match, level, seen>>
test == <<quarantine, freed>>
vars == <<request, event, recent, runs, deleted, test, disturbances>>

\* 'autonomous' is treated as 'balanced'
Level == {"conservative", "balanced"}
Open == {"pending", "executing"}
Closed == {"succeeded", "failed", "skipped"}
InTry == {"start", "act", "write", "succeed", "touch"}
Stage == {"new", "execute", "create", "check", "skip", "fail", "over"} \union InTry

TypeOK ==
  /\ pc \in [Req -> Stage]
  /\ match \in [Req -> Rule \union {NoRule}]
  /\ level \in [Req -> Level]
  /\ seen \in [Req -> {"none", "quarantined", "reinstated"}]
  /\ event \in [Req -> {"none"} \union Open \union Closed]
  /\ recent \subseteq {q \in Req : event[q] # "none"}
  /\ runs \subseteq Req
  /\ deleted \subseteq Rule \ BuiltIn
  /\ quarantine \in {"none", "quarantined", "reinstated"}
  /\ freed \subseteq Req
  /\ disturbances \in 0..DisturbanceBound
  /\ \A q \in Req : pc[q] \notin {"new", "over"} => match[q] # NoRule

Init ==
  /\ pc = [q \in Req |-> "new"]
  /\ match = [q \in Req |-> NoRule]
  /\ level = [q \in Req |-> "balanced"]
  /\ seen = [q \in Req |-> "none"]
  /\ event = [q \in Req |-> "none"]
  /\ recent = {} /\ runs = {}
  /\ deleted = {}
  /\ quarantine = "none" /\ freed = {}
  /\ disturbances = 0

InFlight == {q \in Req : pc[q] \notin {"new", "over"}}
Disturb == disturbances < DisturbanceBound /\ disturbances' = disturbances + 1
Go(q, stage) == pc' = [pc EXCEPT ![q] = stage]
Does(q) == ActionOf[match[q]]
-----------------------------------------------------------------------------
(***************************************************************************)
(* evaluate, then execute up to the decision.                              *)
(***************************************************************************)

Matches(q, rule) == match' = [match EXCEPT ![q] = rule]

Evaluate(q) ==
  /\ pc[q] = "new"
  /\ Cardinality(InFlight) < Slots
  /\ \E rule \in Rule \ deleted : Matches(q, rule)
  /\ Go(q, "execute")
  /\ UNCHANGED <<level, seen, event, recent, runs, deleted, test, disturbances>>

\* The level is the user's and may have changed since any earlier request
ReadLevel(q) ==
  /\ pc[q] = "execute"
  /\ \E l \in Level : level' = [level EXCEPT ![q] = l]
  /\ Go(q, "create")
  /\ UNCHANGED <<match, seen, event, recent, runs, deleted, test, disturbances>>

\* The event refers to the rule: if that was deleted the insert fails
CreateEvent(q) ==
  /\ pc[q] = "create"
  /\ IF match[q] \in deleted
     THEN Go(q, "over") /\ UNCHANGED <<event, recent>>
     ELSE /\ event' = [event EXCEPT ![q] = "pending"]
          /\ recent' = recent \union {q}
          /\ Go(q, "check")
  /\ UNCHANGED <<match, level, seen, runs, deleted, test, disturbances>>

\* Mutant: the status the schema's comment names
CountedSuccess == {e \in recent : event[e] = "success" /\ Does(e) = "retry"}

Counted == {e \in recent : event[e] = "succeeded" /\ Does(e) = "retry"}

CanRetry == Cardinality(Counted) < MaxRetries

\* Mutant: the level only holds back retries
ActsConservatively(q) == Does(q) = "retry" => (CanRetry /\ level[q] # "conservative")

Acts(q) == (Does(q) = "retry" => CanRetry) /\ level[q] # "conservative"

Decide(q) ==
  /\ pc[q] = "check"
  /\ Go(q, IF Acts(q) THEN "start" ELSE "skip")
  /\ UNCHANGED <<match, level, seen, event, recent, runs, deleted, test, disturbances>>

Skip(q) ==
  /\ pc[q] = "skip"
  /\ event' = [event EXCEPT ![q] = "skipped"]
  /\ Go(q, "over")
  /\ UNCHANGED <<match, level, seen, recent, runs, deleted, test, disturbances>>

MarkExecuting(q) ==
  /\ pc[q] = "start"
  /\ event' = [event EXCEPT ![q] = "executing"]
  /\ Go(q, "act")
  /\ UNCHANGED <<match, level, seen, recent, runs, deleted, test, disturbances>>
-----------------------------------------------------------------------------
(***************************************************************************)
(* The actions.                                                            *)
(***************************************************************************)

\* executeRetry: a run in state PENDING, named after the original
Retry(q) ==
  /\ pc[q] = "act" /\ Does(q) = "retry"
  /\ runs' = runs \union {q}
  /\ Go(q, "succeed")
  /\ UNCHANGED <<match, level, seen, event, recent, deleted, test, disturbances>>

\* executeNotify only closes the event; executeFixPR looks for a documented failure
\* first, and the event of one that finds none is failed
NotifyOrFix(q) ==
  /\ pc[q] = "act" /\ Does(q) \in {"notify", "fix_pr"}
  /\ \/ Go(q, "succeed")
     \/ Does(q) = "fix_pr" /\ Go(q, "fail")
  /\ UNCHANGED <<match, level, seen, event, recent, runs, deleted, test, disturbances>>

\* executeQuarantine: find, then increment a quarantined row or upsert
FindQuarantined(q) ==
  /\ pc[q] = "act" /\ Does(q) = "quarantine"
  /\ seen' = [seen EXCEPT ![q] = quarantine]
  /\ Go(q, "write")
  /\ UNCHANGED <<match, level, event, recent, runs, deleted, test, disturbances>>

\* Mutant: the status of the row that was found is not looked at
MarkedIfNew(q) == IF seen[q] = "none" THEN "quarantined" ELSE quarantine

\* A row that was found quarantined is only counted up, any other is upserted
Marked(q) == IF seen[q] = "quarantined" THEN quarantine ELSE "quarantined"

QuarantineTest(q) ==
  /\ pc[q] = "write"
  /\ IF seen[q] = "quarantined" /\ quarantine = "none"
     THEN Go(q, "fail") /\ UNCHANGED quarantine
     ELSE Go(q, "succeed") /\ quarantine' = Marked(q)
  /\ seen' = [seen EXCEPT ![q] = "none"]
  /\ UNCHANGED <<match, level, event, recent, runs, deleted, freed, disturbances>>

\* Mutant: only a retry records its success
SucceededRetry(q) ==
  /\ event' = [event EXCEPT ![q] = IF Does(q) = "retry" THEN "succeeded" ELSE @]
  /\ Go(q, IF Does(q) = "retry" THEN "touch" ELSE "over")

Succeeded(q) ==
  /\ event' = [event EXCEPT ![q] = "succeeded"]
  /\ Go(q, IF Does(q) = "retry" THEN "touch" ELSE "over")

Succeed(q) ==
  /\ pc[q] = "succeed"
  /\ Succeeded(q)
  /\ UNCHANGED <<match, level, seen, recent, runs, deleted, test, disturbances>>

\* The rule's updatedAt; a deleted rule makes the update throw
TouchRule(q) ==
  /\ pc[q] = "touch"
  /\ Go(q, IF match[q] \in deleted THEN "fail" ELSE "over")
  /\ UNCHANGED <<match, level, seen, event, recent, runs, deleted, test, disturbances>>

\* The catch of execute, or a fix without a match
Fail(q) ==
  /\ pc[q] = "fail"
  /\ event' = [event EXCEPT ![q] = "failed"]
  /\ Go(q, "over")
  /\ UNCHANGED <<match, level, seen, recent, runs, deleted, test, disturbances>>

\* A database call throws: inside the try the event will be failed, outside it the
\* route answers an error
CallFails(q) ==
  /\ q \in InFlight
  /\ Disturb
  /\ Go(q, IF pc[q] \in InTry THEN "fail" ELSE "over")
  /\ UNCHANGED <<match, level, seen, event, recent, runs, deleted, test>>

Crash ==
  /\ InFlight # {}
  /\ Disturb
  /\ pc' = [q \in Req |-> IF q \in InFlight THEN "over" ELSE pc[q]]
  /\ UNCHANGED <<match, level, seen, event, recent, runs, deleted, test>>
-----------------------------------------------------------------------------
(***************************************************************************)
(* What people change meanwhile, and the hour.                             *)
(***************************************************************************)

DeleteRule ==
  /\ \E rule \in Rule \ (BuiltIn \union deleted) : deleted' = deleted \union {rule}
  /\ UNCHANGED <<request, event, recent, runs, test, disturbances>>

QuarantineByHand ==
  /\ quarantine' = "quarantined"
  /\ UNCHANGED <<request, event, recent, runs, deleted, freed, disturbances>>

\* Reinstated, or the row is deleted
Free ==
  /\ quarantine # "none"
  /\ quarantine' \in {"reinstated", "none"}
  /\ freed' = {q \in InFlight : Does(q) = "quarantine" /\ pc[q] \in InTry}
  /\ UNCHANGED <<request, event, recent, runs, deleted, disturbances>>

HourPasses ==
  /\ InFlight = {} /\ recent # {}
  /\ recent' = {}
  /\ UNCHANGED <<request, event, runs, deleted, test, disturbances>>

Proceed(q) ==
  \/ ReadLevel(q) \/ CreateEvent(q) \/ Decide(q) \/ Skip(q) \/ MarkExecuting(q)
  \/ Retry(q) \/ NotifyOrFix(q) \/ FindQuarantined(q) \/ QuarantineTest(q)
  \/ Succeed(q) \/ TouchRule(q) \/ Fail(q)

Next ==
  \/ \E q \in Req : Evaluate(q) \/ Proceed(q) \/ CallFails(q)
  \/ Crash
  \/ DeleteRule \/ QuarantineByHand \/ Free \/ HourPasses

Spec == Init /\ [][Next]_vars
-----------------------------------------------------------------------------
(***************************************************************************)
(* Properties.                                                             *)
(***************************************************************************)

\* Runs of the hour that canRetry does not count: their event is not (or no longer)
\* succeeded although nobody is going to change it.
Uncounted == {q \in runs \intersect recent : pc[q] = "over" /\ event[q] # "succeeded"}

\* What the limit amounts to: overlapping requests may each pass the check, and every
\* retry whose event a failure or a deleted rule spoiled makes room for another.
RetriesBounded ==
  Cardinality(runs \intersect recent) <= MaxRetries + (Slots - 1) + Cardinality(Uncounted)

\* self-healing.service.ts:398-412: the retries of an hour stay within what the limit
\* amounts to.
HealingInv == TypeOK /\ RetriesBounded

\* A request that read 'conservative' starts no run and leaves the quarantine alone,
\* and its event is never executing or succeeded.
ConservativeOnlySuggests ==
  \A q \in Req : (pc[q] \notin {"new", "execute"} /\ level[q] = "conservative") =>
    /\ q \notin runs
    /\ pc[q] \notin InTry
    /\ event[q] \notin {"executing", "succeeded"}

\* The audit trail: a retry that succeeded has its run; an event that is left open, or
\* failed although its run was created, takes a failed call, a crash or a deleted rule.
EventsTellTheTruth ==
  \A q \in Req : (pc[q] = "over" /\ event[q] # "none") =>
    /\ (Does(q) = "retry" /\ event[q] = "succeeded") => q \in runs
    /\ event[q] \in Open => disturbances > 0
    /\ (q \in runs /\ event[q] # "succeeded") => (disturbances > 0 \/ match[q] \in deleted)

\* A quarantine that is about to report success has left the test quarantined, unless
\* somebody freed the test while the request was under way.
QuarantineTakesEffect ==
  \A q \in Req : (pc[q] = "succeed" /\ Does(q) = "quarantine") =>
    (quarantine = "quarantined" \/ q \in freed)

\* CHANGELOG.md:254, "max 2 retries/pipeline/hour"
RetryLimit == Cardinality(runs \intersect recent) <= MaxRetries
=============================================================================
