----------------------------- MODULE Regressions -----------------------------
(***************************************************************************)
(* Regressions (RegressionDetectionService): a run that has ended is       *)
(* compared with the run before it on its pipeline, tests that started to  *)
(* fail become events, tests that recovered resolve theirs; people confirm *)
(* an event or call it a false positive.  Recordings may overlap: an event *)
(* is looked for and then created, without a lock.                         *)
(*                                                                         *)
(* One test is followed.  Abstracted: commits, pull requests, severity,    *)
(* messages; a write that fails is skipped and logged.                     *)
(***************************************************************************)
EXTENDS Integers, FiniteSets, Sequences

CONSTANTS
  Line,      \* pipelines
  Recorder,  \* evaluations of a run, with the recording that follows
  RunBound,  \* bound: runs
  WordBound, \* bound: verdicts of people
  SkipBound  \* bound: writes that fail

ASSUME RegressionAssumption ==
  /\ IsFiniteSet(Recorder)
  /\ RunBound \in Nat /\ WordBound \in Nat /\ SkipBound \in Nat

VARIABLES
  trail,     \* runs in order of creation: pipeline, whether it has ended, the test's status
  events,    \* RegressionEvent rows, in order of creation
  recorder,  \* each recording: where it is, what it evaluated, what it found, and
             \* (history: looked) the last event there was when it looked
  words, skips

regressionVars == <<trail, events, recorder, words, skips>>

\* SKIPPED stands for every other status
Result == {"PASSED", "FAILED", "SKIPPED", "absent"}
OpenStatus == {"detected", "confirmed"}
Away == [at |-> "idle", run |-> 0, before |-> 0, found |-> FALSE, looked |-> 0]

RegressionTypeOK ==
  /\ trail \in Seq([line : Line, ended : BOOLEAN, result : Result])
  /\ events \in Seq([line : Line, run : 1..RunBound, before : 1..RunBound, recovery : 0..RunBound,
                     status : OpenStatus \cup {"resolved", "false_positive"}, reopened : BOOLEAN,
                     looked : Nat])
  /\ recorder \in [Recorder -> [at : {"idle", "find", "create", "resolve", "over"},
                                run : 0..RunBound, before : 0..RunBound, found : BOOLEAN, looked : Nat]]
  /\ words \in 0..WordBound /\ skips \in 0..SkipBound

RegressionInit ==
  /\ trail = <<>> /\ events = <<>>
  /\ recorder = [r \in Recorder |-> Away]
  /\ words = 0 /\ skips = 0

\* A run is created while it goes on, and ends later, before or after its successor
CreateRun(line) ==
  /\ Len(trail) < RunBound
  /\ trail' = Append(trail, [line |-> line, ended |-> FALSE, result |-> "absent"])
  /\ UNCHANGED <<events, recorder, words, skips>>

EndRun(i, result) ==
  /\ ~trail[i].ended
  /\ trail' = [trail EXCEPT ![i].ended = TRUE, ![i].result = result]
  /\ UNCHANGED <<events, recorder, words, skips>>

Goes(r, at) == recorder' = [recorder EXCEPT ![r].at = at]

\* The latest run of the pipeline created earlier, among those that have ended by
\* now; runs of every branch count
Before(i) ==
  LET earlier == {j \in 1..(i - 1) : trail[j].ended /\ trail[j].line = trail[i].line}
  IN IF earlier = {} THEN 0 ELSE CHOOSE j \in earlier : \A k \in earlier : k <= j

Regressed(i, j) == trail[i].result = "FAILED" /\ trail[j].result \in {"PASSED", "SKIPPED"}
Recovered(i, j) == trail[i].result = "PASSED" /\ trail[j].result = "FAILED"

evaluate(r, i) ==
  LET j == Before(i) IN
  /\ recorder[r].at = "idle" /\ trail[i].ended
  /\ j # 0
  /\ LET next == IF Regressed(i, j) THEN "find" ELSE IF Recovered(i, j) THEN "resolve" ELSE "over"
     IN recorder' = [recorder EXCEPT ![r] =
          [at |-> next, run |-> i, before |-> j, found |-> FALSE, looked |-> 0]]
  /\ UNCHANGED <<trail, events, words, skips>>

\* Mutant: nothing is looked for
FindNone(r) ==
  /\ recorder[r].at = "find"
  /\ recorder' = [recorder EXCEPT ![r].at = "create", ![r].looked = Len(events)]
  /\ UNCHANGED <<trail, events, words, skips>>

FindTracked(r) ==
  /\ recorder[r].at = "find"
  /\ recorder' = [recorder EXCEPT ![r].at = "create",
       ![r].found = \E e \in DOMAIN events :
                      events[e].line = trail[recorder[r].run].line /\ events[e].status \in OpenStatus,
       ![r].looked = Len(events)]
  /\ UNCHANGED <<trail, events, words, skips>>

Skips == skips < SkipBound /\ skips' = skips + 1

CreateRegression(r) ==
  LET me == recorder[r] IN
  /\ me.at = "create" /\ Goes(r, "over")
  /\ \/ me.found /\ UNCHANGED <<events, skips>>
     \/ /\ ~me.found /\ UNCHANGED skips
        /\ events' = Append(events, [line |-> trail[me.run].line, run |-> me.run, before |-> me.before,
                                     recovery |-> 0, status |-> "detected", reopened |-> FALSE,
                                     looked |-> me.looked])
     \/ ~me.found /\ Skips /\ UNCHANGED events
  /\ UNCHANGED <<trail, words>>

\* updateMany by the name of the test: the events of every pipeline
ResolveRecovered(r) ==
  /\ recorder[r].at = "resolve" /\ Goes(r, "over")
  /\ \/ /\ events' = [e \in DOMAIN events |->
              IF events[e].status \in OpenStatus
              THEN [events[e] EXCEPT !.status = "resolved", !.recovery = recorder[r].run]
              ELSE events[e]]
        /\ UNCHANGED skips
     \/ Skips /\ UNCHANGED events
  /\ UNCHANGED <<trail, words>>

\* confirmRegression and markAsFalsePositive set the status whatever it is
Judge(e, verdict) ==
  /\ words < WordBound /\ words' = words + 1
  /\ events' = [events EXCEPT ![e].status = verdict,
       ![e].reopened = @ \/ (verdict = "confirmed" /\ events[e].status \notin OpenStatus)]
  /\ UNCHANGED <<trail, recorder, skips>>

RegressionNext ==
  \/ \E line \in Line : CreateRun(line)
  \/ \E i \in DOMAIN trail : \/ \E result \in Result : EndRun(i, result)
                             \/ \E r \in Recorder : evaluate(r, i)
  \/ \E r \in Recorder : FindTracked(r) \/ CreateRegression(r) \/ ResolveRecovered(r)
  \/ \E e \in DOMAIN events, verdict \in {"confirmed", "false_positive"} : Judge(e, verdict)
-----------------------------------------------------------------------------
\* Every event is about a test that ran without failing in an earlier run of its
\* pipeline and failed in a later one, and one that was resolved, and not by a
\* person, is so because the test passed in some run that followed a failure
\* (RegressionDetectionService.evaluate, recordRegressions).
EventsAreTrue ==
  \A e \in DOMAIN events :
    LET it == events[e] IN
    /\ it.before < it.run
    /\ trail[it.run].line = it.line /\ trail[it.before].line = it.line
    /\ trail[it.run].result = "FAILED" /\ trail[it.before].result \in {"PASSED", "SKIPPED"}
    /\ (it.status = "resolved") => it.recovery # 0
    /\ it.recovery # 0 =>
         /\ trail[it.recovery].result = "PASSED"
         /\ \E i \in 1..(it.recovery - 1) :
              trail[i].line = trail[it.recovery].line /\ trail[i].result = "FAILED"

\* An event that counts: open, and not because a person has confirmed it again
Counts(event, line) == event.line = line /\ event.status \in OpenStatus /\ ~event.reopened

\* A test has a second open event on a pipeline only if its recording looked for one
\* before the first was created, however recordings, verdicts and recoveries interleave,
\* or if a person has confirmed an event that was closed ("avoid duplicates",
\* RegressionDetectionService.ts:204).
TrackedOnce ==
  \A line \in Line : \A e, f \in DOMAIN events :
    e < f /\ Counts(events[e], line) /\ Counts(events[f], line) => events[f].looked < e

\* What is recorded of regressions is true, and twice only what was looked for too early.
RegressionInv == RegressionTypeOK /\ EventsAreTrue /\ TrackedOnce
=============================================================================
