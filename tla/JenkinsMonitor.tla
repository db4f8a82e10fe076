--------------------------- MODULE JenkinsMonitor ---------------------------
(***************************************************************************)
(* Watching one Jenkins build (jenkins.service.ts, monitorBuildProgress):  *)
(* setInterval starts a tick every ten seconds whether or not the last one *)
(* has been answered, which may take thirty; a tick stores the verdict,    *)
(* counts the time, and any error in it marks the run FAILED.  The hour is *)
(* up by the ticks that were counted, so that more may have started, and   *)
(* one of those may store its verdict when it is over.                     *)
(*                                                                         *)
(* Abstracted: the results that fetchTestResults reads and drops, columns  *)
(* other than the status.  The pipeline is there: deleting it would take   *)
(* the row with it.                                                        *)
(***************************************************************************)
EXTENDS Naturals

CONSTANTS
  Hour,       \* ticks that the hour has
  TickBound,  \* bound: ticks
  TroubleBound\* bound: failed calls, failed writes

ASSUME JenkinsAssumption == TickBound \in Nat /\ Hour \in 1..TickBound /\ TroubleBound \in Nat

VARIABLES
  build,      \* the build at Jenkins
  testRun,    \* status of its row
  interval,   \* whether the interval is on
  tick,       \* per tick: where it is
  elapsed,    \* ticks whose time was counted
  trouble,    \* history: failures so far
  jostled  \* history: two ticks were in flight at once

jenkinsVars == <<build, testRun, interval, tick, elapsed, trouble, jostled>>

Tick == 1..TickBound
InFlight == {i \in Tick : tick[i] \notin {"none", "over", "lost"}}

JenkinsTypeOK ==
  /\ build \in {"building", "success", "failure"}
  /\ testRun \in {"RUNNING", "PASSED", "FAILED"}
  /\ interval \in BOOLEAN
  /\ tick \in [Tick -> {"none", "asking", "storing", "counting", "expiring", "failing", "over", "lost"}]
  /\ elapsed \in 0..TickBound
  /\ trouble \in 0..TroubleBound
  /\ jostled \in BOOLEAN

JenkinsInit ==
  /\ build = "building" /\ testRun = "RUNNING"
  /\ interval = TRUE
  /\ tick = [i \in Tick |-> "none"]
  /\ elapsed = 0 /\ trouble = 0
  /\ jostled = FALSE

TickMoves(i, from, to) == tick[i] = from /\ tick' = [tick EXCEPT ![i] = to]
Troubled == trouble < TroubleBound /\ trouble' = trouble + 1

BuildEnds ==
  /\ build = "building"
  /\ build' \in {"success", "failure"}
  /\ UNCHANGED <<testRun, interval, tick, elapsed, trouble, jostled>>

\* The interval fires; nothing asks whether the last tick is done
TickStarts(i) ==
  /\ interval
  /\ \A j \in Tick : j < i => tick[j] # "none"
  /\ TickMoves(i, "none", "asking")
  /\ jostled' = (jostled \/ InFlight # {})
  /\ UNCHANGED <<build, testRun, interval, elapsed, trouble>>

\* The answer: a finished build stops the interval before it is stored
BuildAnswered(i) ==
  /\ IF build = "building"
     THEN TickMoves(i, "asking", "counting") /\ UNCHANGED interval
     ELSE TickMoves(i, "asking", "storing") /\ interval' = FALSE
  /\ UNCHANGED <<build, testRun, elapsed, trouble, jostled>>

\* Mutant: whatever ended has passed
VerdictPassed(i) ==
  /\ TickMoves(i, "storing", "counting")
  /\ testRun' = "PASSED"
  /\ UNCHANGED <<build, interval, elapsed, trouble, jostled>>

processBuildCompletion(i) ==
  /\ TickMoves(i, "storing", "counting")
  /\ testRun' = IF build = "success" THEN "PASSED" ELSE "FAILED"
  /\ UNCHANGED <<build, interval, elapsed, trouble, jostled>>

\* Every tick counts its ten seconds, the one that stored the verdict too
CountTime(i) ==
  /\ tick[i] = "counting"
  /\ elapsed' = elapsed + 1
  /\ IF elapsed' >= Hour
     THEN TickMoves(i, "counting", "expiring") /\ interval' = FALSE
     ELSE TickMoves(i, "counting", "over") /\ UNCHANGED interval
  /\ UNCHANGED <<build, testRun, trouble, jostled>>

Expire(i) ==
  /\ TickMoves(i, "expiring", "over")
  /\ testRun' = "FAILED"
  /\ UNCHANGED <<build, interval, elapsed, trouble, jostled>>

\* A call or a write of the tick fails
TickFails(i) ==
  /\ Troubled
  /\ \E from \in {"asking", "storing", "expiring"} : TickMoves(i, from, "failing")
  /\ interval' = FALSE
  /\ UNCHANGED <<build, testRun, elapsed, jostled>>

\* Mutant: the catch only stops the interval
MarkNothing(i) ==
  /\ TickMoves(i, "failing", "over")
  /\ UNCHANGED <<build, testRun, interval, elapsed, trouble, jostled>>

MarkTickFailed(i) ==
  /\ TickMoves(i, "failing", "over")
  /\ testRun' = "FAILED"
  /\ UNCHANGED <<build, interval, elapsed, trouble, jostled>>

\* ... and so does the write in its catch: the row stays as it is
TickLost(i) ==
  /\ Troubled
  /\ TickMoves(i, "failing", "lost")
  /\ UNCHANGED <<build, testRun, interval, elapsed, jostled>>

TickProceeds(i) ==
  BuildAnswered(i) \/ processBuildCompletion(i) \/ CountTime(i) \/ Expire(i) \/ MarkTickFailed(i)

JenkinsNext ==
  \/ BuildEnds
  \/ \E i \in Tick : TickStarts(i) \/ TickProceeds(i) \/ TickFails(i) \/ TickLost(i)

\* The interval fires and every call has a timeout
JenkinsProgress == \E i \in Tick : TickStarts(i) \/ TickProceeds(i)

JenkinsSpec == JenkinsInit /\ [][JenkinsNext]_jenkinsVars /\ WF_jenkinsVars(JenkinsProgress)
-----------------------------------------------------------------------------
\* A run that says PASSED has passed; one that says FAILED has failed, or a
\* tick had trouble or the hour was over.
VerdictIsTrue ==
  /\ testRun = "PASSED" => build = "success"
  /\ testRun = "FAILED" => build = "failure" \/ trouble > 0 \/ elapsed >= Hour

\* A verdict that a late tick stores after the hour is taken back by that tick: when the
\* hour was counted and no tick is in flight, the run says FAILED, unless the write in a
\* tick's catch failed (jenkins.service.ts:203-218).
TheHourDecides ==
  elapsed >= Hour /\ InFlight = {} /\ (\A i \in Tick : tick[i] # "lost") => testRun = "FAILED"

JenkinsInv == JenkinsTypeOK /\ VerdictIsTrue /\ TheHourDecides

\* Within the hour a stored PASSED stands, however ticks jostle, unless one that asked
\* earlier fails after it was stored.
VerdictStands ==
  [][testRun = "PASSED" /\ (trouble' = 0 \/ ~jostled') /\ elapsed' < Hour
       => testRun' = "PASSED"]_jenkinsVars

\* The run is settled, unless the write in a tick's catch failed.
RunIsSettled == testRun # "RUNNING" \/ \E i \in Tick : tick[i] = "lost"
=============================================================================
