----------------------------- MODULE TestsProofs -----------------------------
(***************************************************************************)
(* What the program does with tests, for any number of requests, files,    *)
(* pipelines and calls: overlapping executions of self-healing rules, the  *)
(* import graph and the selection of tests from it, the regressions on     *)
(* record, and who is signed in.  The parts are proved one after the other *)
(* and put together at the end.                                            *)
(***************************************************************************)
EXTENDS MCTests, FiniteSetTheorems, SequenceTheorems, WellFoundedInduction, TLAPS

(* Induction and recursion along the naturals, with a set for the claim *)

\* A set of naturals with 0, and with n + 1 whenever with n, has them all.
LEMMA NatSetInduction ==
  ASSUME NEW S, 0 \in S, \A n \in Nat : n \in S => n + 1 \in S
  PROVE  Nat \subseteq S
<1> SUFFICES ASSUME Nat \ S # {} PROVE FALSE
  OBVIOUS
<1>1. PICK x \in Nat \ S : \A y \in Nat \ S : ~(<<y, x>> \in OpToRel(<, Nat))
  <2>1. IsWellFoundedOn(OpToRel(<, Nat), Nat)
    BY NatLessThanWellFounded
  <2> HIDE DEF OpToRel, IsWellFoundedOn
  <2>2. QED
    BY <2>1, WFMin
<1>2. x # 0 /\ x - 1 \in Nat /\ x - 1 < x
  OBVIOUS
<1>3. x - 1 \in Nat \ S
  BY <1>2
<1>4. <<x - 1, x>> \in OpToRel(<, Nat)
  BY <1>2 DEF OpToRel
<1>5. QED
  BY <1>1, <1>3, <1>4

\* The same up to a bound.
LEMMA SegmentInduction ==
  ASSUME NEW n \in Nat, NEW S, 0 \in S, \A i \in 0..(n - 1) : i \in S => i + 1 \in S
  PROVE  \A i \in 0..n : i \in S
<1> DEFINE P == {i \in Nat : i <= n => i \in S}
<1>1. 0 \in P
  OBVIOUS
<1>2. \A i \in Nat : i \in P => i + 1 \in P
  OBVIOUS
<1>3. Nat \subseteq P
  <2> HIDE DEF P
  <2> QED BY <1>1, <1>2, NatSetInduction
<1>4. QED
  BY <1>3

\* h begins at base and takes one step after the other.
IsWalk(h, n, base, step) == h[0] = base /\ \A i \in 1..n : h[i] = step[i][h[i - 1]]

\* Whatever the steps are, some function takes them: a recursive function on 0..n has a value.
LEMMA SegmentRecursion ==
  ASSUME NEW n \in Nat, NEW T, NEW base \in T, NEW step \in [1..n -> [T -> T]]
  PROVE  \E h \in [0..n -> T] : IsWalk(h, n, base, step)
<1> USE DEF IsWalk
<1> DEFINE Sol(m) == {h \in [0..m -> T] : h[0] = base /\ \A i \in 1..m : h[i] = step[i][h[i - 1]]}
<1> DEFINE P == {m \in 0..n : Sol(m) # {}}
<1>1. 0 \in P
  <2>1. [i \in 0..0 |-> base] \in Sol(0)
    OBVIOUS
  <2>2. QED
    BY <2>1
<1>2. ASSUME NEW m \in 0..(n - 1), m \in P PROVE m + 1 \in P
  <2>1. PICK h : h \in Sol(m)
    BY <1>2
  <2>2. h \in [0..m -> T] /\ h[0] = base /\ \A i \in 1..m : h[i] = step[i][h[i - 1]]
    BY <2>1
  <2> DEFINE k == [i \in 0..(m + 1) |-> IF i = m + 1 THEN step[m + 1][h[m]] ELSE h[i]]
  <2>3. h[m] \in T /\ m + 1 \in 1..n
    BY <2>2
  <2>4. step[m + 1][h[m]] \in T
    BY <2>3
  <2>5. k \in [0..(m + 1) -> T]
    BY <2>2, <2>4
  <2>6. k[0] = base
    BY <2>2
  <2>7. \A i \in 1..(m + 1) : k[i] = step[i][k[i - 1]]
    <3> TAKE i \in 1..(m + 1)
    <3>1. i - 1 \in 0..m /\ i - 1 # m + 1
      OBVIOUS
    <3>2. k[i - 1] = h[i - 1]
      BY <3>1
    <3>3. CASE i = m + 1
      BY <3>2, <3>3
    <3>4. CASE i # m + 1
      <4>1. i \in 1..m
        BY <3>4
      <4>2. k[i] = h[i]
        BY <4>1
      <4>3. QED
        BY <2>2, <3>2, <4>1, <4>2
    <3>5. QED
      BY <3>3, <3>4
  <2>8. k \in Sol(m + 1)
    BY <2>5, <2>6, <2>7
  <2>9. QED
    BY <2>8
<1>3. n \in P
  <2> HIDE DEF P
  <2>1. \A i \in 0..n : i \in P
    BY <1>1, <1>2, SegmentInduction
  <2>2. QED
    BY <2>1
<1>4. QED
  BY <1>3
-----------------------------------------------------------------------------
(* Self-healing *)

\* Before the event is created nothing has happened.
NothingYet ==
  \A q \in Req : pc[q] \in {"new", "execute", "create"} => event[q] = "none" /\ q \notin runs

\* What a program point tells of the action and its effects.
PointsKnown ==
  \A q \in Req :
    /\ q \in runs => Does(q) = "retry" /\ pc[q] \in {"succeed", "touch", "fail", "over"}
    /\ (pc[q] \in {"succeed", "touch"} /\ Does(q) = "retry") => q \in runs
    /\ pc[q] = "touch" => Does(q) = "retry" /\ event[q] = "succeeded"
    /\ pc[q] = "write" => Does(q) = "quarantine"
    /\ (event[q] = "succeeded" /\ Does(q) = "retry") => q \in runs
    /\ (pc[q] = "fail" /\ q \in runs) => (disturbances > 0 \/ match[q] \in deleted)

\* A quarantine seen is still there unless somebody freed the test.
SeenIsKnown ==
  \A q \in Req : (pc[q] = "write" /\ seen[q] = "quarantined") =>
    (quarantine = "quarantined" \/ q \in freed)

AInv ==
  /\ TypeOK
  /\ NothingYet
  /\ PointsKnown
  /\ SeenIsKnown
  /\ ConservativeOnlySuggests
  /\ EventsTellTheTruth
  /\ QuarantineTakesEffect

LEMMA InitAInv == Init => AInv
<1> SUFFICES ASSUME Init PROVE AInv
  OBVIOUS
<1>1. TypeOK
  BY HealingAssumption DEF Init, TypeOK, Stage, Level
<1>2. QED
  BY <1>1
  DEF Init, AInv, NothingYet, PointsKnown, SeenIsKnown, ConservativeOnlySuggests,
      EventsTellTheTruth, QuarantineTakesEffect

\* The steps of one request.
LEMMA RequestAInv ==
  ASSUME AInv, NEW q \in Req, Evaluate(q) \/ Proceed(q) \/ CallFails(q)
  PROVE  AInv'
<1> USE HealingAssumption DEF AInv, Go, test
<1>1. CASE Evaluate(q)
  <2>1. TypeOK'
    BY <1>1 DEF Evaluate, Matches, TypeOK, Stage, InTry, Open, Closed, Level, InFlight
  <2>2. NothingYet' /\ SeenIsKnown' /\ QuarantineTakesEffect'
    BY <1>1
    DEF Evaluate, Matches, TypeOK, NothingYet, PointsKnown, SeenIsKnown, QuarantineTakesEffect,
        Does, InTry, InFlight
  <2>3. PointsKnown'
    BY <1>1 DEF Evaluate, Matches, TypeOK, NothingYet, PointsKnown, Does, InTry, InFlight
  <2>4. ConservativeOnlySuggests'
    BY <1>1
    DEF Evaluate, Matches, TypeOK, NothingYet, ConservativeOnlySuggests, InTry, InFlight
  <2>5. EventsTellTheTruth'
    BY <1>1
    DEF Evaluate, Matches, TypeOK, NothingYet, PointsKnown, EventsTellTheTruth, Does, InTry, Open,
        InFlight
  <2>6. QED
    BY <2>1, <2>2, <2>3, <2>4, <2>5
<1>2. CASE ReadLevel(q)
  <2>1. TypeOK'
    BY <1>2 DEF ReadLevel, TypeOK, Stage, InTry, Open, Closed, Level, InFlight
  <2>2. NothingYet' /\ SeenIsKnown' /\ QuarantineTakesEffect'
    BY <1>2
    DEF ReadLevel, TypeOK, NothingYet, PointsKnown, SeenIsKnown, QuarantineTakesEffect, Does,
        InTry, InFlight
  <2>3. PointsKnown'
    BY <1>2 DEF ReadLevel, TypeOK, NothingYet, PointsKnown, Does, InTry, InFlight
  <2>4. ConservativeOnlySuggests'
    BY <1>2
    DEF ReadLevel, TypeOK, NothingYet, ConservativeOnlySuggests, InTry, InFlight
  <2>5. EventsTellTheTruth'
    BY <1>2
    DEF ReadLevel, TypeOK, NothingYet, PointsKnown, EventsTellTheTruth, Does, InTry, Open, InFlight
  <2>6. QED
    BY <2>1, <2>2, <2>3, <2>4, <2>5
<1>3. CASE CreateEvent(q)
  <2>1. TypeOK'
    BY <1>3 DEF CreateEvent, TypeOK, Stage, InTry, Open, Closed, Level, InFlight
  <2>2. NothingYet' /\ SeenIsKnown' /\ QuarantineTakesEffect'
    BY <1>3
    DEF CreateEvent, TypeOK, NothingYet, PointsKnown, SeenIsKnown, QuarantineTakesEffect, Does,
        InTry, InFlight
  <2>3. PointsKnown'
    BY <1>3 DEF CreateEvent, TypeOK, NothingYet, PointsKnown, Does, InTry, InFlight
  <2>4. ConservativeOnlySuggests'
    BY <1>3
    DEF CreateEvent, TypeOK, NothingYet, ConservativeOnlySuggests, InTry, InFlight
  <2>5. EventsTellTheTruth'
    BY <1>3
    DEF CreateEvent, TypeOK, NothingYet, PointsKnown, EventsTellTheTruth, Does, InTry, Open,
        InFlight
  <2>6. QED
    BY <2>1, <2>2, <2>3, <2>4, <2>5
<1>4. CASE Decide(q)
  <2>1. TypeOK'
    BY <1>4 DEF Decide, Acts, TypeOK, Stage, InTry, Open, Closed, Level, InFlight
  <2>2. NothingYet' /\ SeenIsKnown' /\ QuarantineTakesEffect'
    BY <1>4
    DEF Decide, Acts, TypeOK, NothingYet, PointsKnown, SeenIsKnown, QuarantineTakesEffect, Does,
        InTry, InFlight
  <2>3. PointsKnown'
    BY <1>4 DEF Decide, Acts, TypeOK, NothingYet, PointsKnown, Does, InTry, InFlight
  <2>4. ConservativeOnlySuggests'
    BY <1>4
    DEF Decide, Acts, TypeOK, NothingYet, ConservativeOnlySuggests, InTry, InFlight
  <2>5. EventsTellTheTruth'
    BY <1>4
    DEF Decide, Acts, TypeOK, NothingYet, PointsKnown, EventsTellTheTruth, Does, InTry, Open,
        InFlight
  <2>6. QED
    BY <2>1, <2>2, <2>3, <2>4, <2>5
<1>5. CASE Skip(q)
  <2>1. TypeOK'
    BY <1>5 DEF Skip, TypeOK, Stage, InTry, Open, Closed, Level, InFlight
  <2>2. NothingYet' /\ SeenIsKnown' /\ QuarantineTakesEffect'
    BY <1>5
    DEF Skip, TypeOK, NothingYet, PointsKnown, SeenIsKnown, QuarantineTakesEffect, Does, InTry,
        InFlight
  <2>3. PointsKnown'
    BY <1>5 DEF Skip, TypeOK, NothingYet, PointsKnown, Does, InTry, InFlight
  <2>4. ConservativeOnlySuggests'
    BY <1>5
    DEF Skip, TypeOK, NothingYet, ConservativeOnlySuggests, InTry, InFlight
  <2>5. EventsTellTheTruth'
    BY <1>5
    DEF Skip, TypeOK, NothingYet, PointsKnown, EventsTellTheTruth, Does, InTry, Open, InFlight
  <2>6. QED
    BY <2>1, <2>2, <2>3, <2>4, <2>5
<1>6. CASE MarkExecuting(q)
  <2>1. TypeOK'
    BY <1>6 DEF MarkExecuting, TypeOK, Stage, InTry, Open, Closed, Level, InFlight
  <2>2. NothingYet' /\ SeenIsKnown' /\ QuarantineTakesEffect'
    BY <1>6
    DEF MarkExecuting, TypeOK, NothingYet, PointsKnown, SeenIsKnown, QuarantineTakesEffect, Does,
        InTry, InFlight
  <2>3. PointsKnown'
    BY <1>6 DEF MarkExecuting, TypeOK, NothingYet, PointsKnown, Does, InTry, InFlight
  <2>4. ConservativeOnlySuggests'
    BY <1>6
    DEF MarkExecuting, TypeOK, NothingYet, ConservativeOnlySuggests, InTry, InFlight
  <2>5. EventsTellTheTruth'
    BY <1>6
    DEF MarkExecuting, TypeOK, NothingYet, PointsKnown, EventsTellTheTruth, Does, InTry, Open,
        InFlight
  <2>6. QED
    BY <2>1, <2>2, <2>3, <2>4, <2>5
<1>7. CASE Retry(q)
  <2>1. TypeOK'
    BY <1>7 DEF Retry, TypeOK, Stage, InTry, Open, Closed, Level, InFlight
  <2>2. NothingYet' /\ SeenIsKnown' /\ QuarantineTakesEffect'
    BY <1>7
    DEF Retry, TypeOK, NothingYet, PointsKnown, SeenIsKnown, QuarantineTakesEffect, Does, InTry,
        InFlight
  <2>3. PointsKnown'
    BY <1>7 DEF Retry, TypeOK, NothingYet, PointsKnown, Does, InTry, InFlight
  <2>4. ConservativeOnlySuggests'
    BY <1>7
    DEF Retry, TypeOK, NothingYet, ConservativeOnlySuggests, InTry, InFlight
  <2>5. EventsTellTheTruth'
    BY <1>7
    DEF Retry, TypeOK, NothingYet, PointsKnown, EventsTellTheTruth, Does, InTry, Open, InFlight
  <2>6. QED
    BY <2>1, <2>2, <2>3, <2>4, <2>5
<1>8. CASE NotifyOrFix(q)
  <2>1. TypeOK'
    BY <1>8 DEF NotifyOrFix, TypeOK, Stage, InTry, Open, Closed, Level, InFlight
  <2>2. NothingYet' /\ SeenIsKnown' /\ QuarantineTakesEffect'
    BY <1>8
    DEF NotifyOrFix, TypeOK, NothingYet, PointsKnown, SeenIsKnown, QuarantineTakesEffect, Does,
        InTry, InFlight
  <2>3. PointsKnown'
    BY <1>8 DEF NotifyOrFix, TypeOK, NothingYet, PointsKnown, Does, InTry, InFlight
  <2>4. ConservativeOnlySuggests'
    BY <1>8
    DEF NotifyOrFix, TypeOK, NothingYet, ConservativeOnlySuggests, InTry, InFlight
  <2>5. EventsTellTheTruth'
    BY <1>8
    DEF NotifyOrFix, TypeOK, NothingYet, PointsKnown, EventsTellTheTruth, Does, InTry, Open,
        InFlight
  <2>6. QED
    BY <2>1, <2>2, <2>3, <2>4, <2>5
<1>9. CASE FindQuarantined(q)
  <2>1. TypeOK'
    BY <1>9 DEF FindQuarantined, TypeOK, Stage, InTry, Open, Closed, Level, InFlight
  <2>2. NothingYet' /\ SeenIsKnown' /\ QuarantineTakesEffect'
    BY <1>9
    DEF FindQuarantined, TypeOK, NothingYet, PointsKnown, SeenIsKnown, QuarantineTakesEffect, Does,
        InTry, InFlight
  <2>3. PointsKnown'
    BY <1>9 DEF FindQuarantined, TypeOK, NothingYet, PointsKnown, Does, InTry, InFlight
  <2>4. ConservativeOnlySuggests'
    BY <1>9
    DEF FindQuarantined, TypeOK, NothingYet, ConservativeOnlySuggests, InTry, InFlight
  <2>5. EventsTellTheTruth'
    BY <1>9
    DEF FindQuarantined, TypeOK, NothingYet, PointsKnown, EventsTellTheTruth, Does, InTry, Open,
        InFlight
  <2>6. QED
    BY <2>1, <2>2, <2>3, <2>4, <2>5
<1>10. CASE QuarantineTest(q)
  <2>1. TypeOK'
    BY <1>10 DEF QuarantineTest, Marked, TypeOK, Stage, InTry, Open, Closed, Level, InFlight
  <2>2. NothingYet' /\ SeenIsKnown' /\ QuarantineTakesEffect'
    BY <1>10
    DEF QuarantineTest, Marked, TypeOK, NothingYet, PointsKnown, SeenIsKnown,
        QuarantineTakesEffect, Does, InTry, InFlight
  <2>3. PointsKnown'
    BY <1>10 DEF QuarantineTest, Marked, TypeOK, NothingYet, PointsKnown, Does, InTry, InFlight
  <2>4. ConservativeOnlySuggests'
    BY <1>10
    DEF QuarantineTest, Marked, TypeOK, NothingYet, ConservativeOnlySuggests, InTry, InFlight
  <2>5. EventsTellTheTruth'
    BY <1>10
    DEF QuarantineTest, Marked, TypeOK, NothingYet, PointsKnown, EventsTellTheTruth, Does, InTry,
        Open, InFlight
  <2>6. QED
    BY <2>1, <2>2, <2>3, <2>4, <2>5
<1>11. CASE Succeed(q)
  <2>1. TypeOK'
    BY <1>11 DEF Succeed, Succeeded, TypeOK, Stage, InTry, Open, Closed, Level, InFlight
  <2>2. NothingYet' /\ SeenIsKnown' /\ QuarantineTakesEffect'
    BY <1>11
    DEF Succeed, Succeeded, TypeOK, NothingYet, PointsKnown, SeenIsKnown, QuarantineTakesEffect,
        Does, InTry, InFlight
  <2>3. PointsKnown'
    BY <1>11 DEF Succeed, Succeeded, TypeOK, NothingYet, PointsKnown, Does, InTry, InFlight
  <2>4. ConservativeOnlySuggests'
    BY <1>11
    DEF Succeed, Succeeded, TypeOK, NothingYet, ConservativeOnlySuggests, InTry, InFlight
  <2>5. EventsTellTheTruth'
    BY <1>11
    DEF Succeed, Succeeded, TypeOK, NothingYet, PointsKnown, EventsTellTheTruth, Does, InTry, Open,
        InFlight
  <2>6. QED
    BY <2>1, <2>2, <2>3, <2>4, <2>5
<1>12. CASE TouchRule(q)
  <2>1. TypeOK'
    BY <1>12 DEF TouchRule, TypeOK, Stage, InTry, Open, Closed, Level, InFlight
  <2>2. NothingYet' /\ SeenIsKnown' /\ QuarantineTakesEffect'
    BY <1>12
    DEF TouchRule, TypeOK, NothingYet, PointsKnown, SeenIsKnown, QuarantineTakesEffect, Does,
        InTry, InFlight
  <2>3. PointsKnown'
    BY <1>12 DEF TouchRule, TypeOK, NothingYet, PointsKnown, Does, InTry, InFlight
  <2>4. ConservativeOnlySuggests'
    BY <1>12
    DEF TouchRule, TypeOK, NothingYet, ConservativeOnlySuggests, InTry, InFlight
  <2>5. EventsTellTheTruth'
    BY <1>12
    DEF TouchRule, TypeOK, NothingYet, PointsKnown, EventsTellTheTruth, Does, InTry, Open, InFlight
  <2>6. QED
    BY <2>1, <2>2, <2>3, <2>4, <2>5
<1>13. CASE Fail(q)
  <2>1. TypeOK'
    BY <1>13 DEF Fail, TypeOK, Stage, InTry, Open, Closed, Level, InFlight
  <2>2. NothingYet' /\ SeenIsKnown' /\ QuarantineTakesEffect'
    BY <1>13
    DEF Fail, TypeOK, NothingYet, PointsKnown, SeenIsKnown, QuarantineTakesEffect, Does, InTry,
        InFlight
  <2>3. PointsKnown'
    BY <1>13 DEF Fail, TypeOK, NothingYet, PointsKnown, Does, InTry, InFlight
  <2>4. ConservativeOnlySuggests'
    BY <1>13
    DEF Fail, TypeOK, NothingYet, ConservativeOnlySuggests, InTry, InFlight
  <2>5. EventsTellTheTruth'
    BY <1>13
    DEF Fail, TypeOK, NothingYet, PointsKnown, EventsTellTheTruth, Does, InTry, Open, InFlight
  <2>6. QED
    BY <2>1, <2>2, <2>3, <2>4, <2>5
<1>14. CASE CallFails(q)
  <2>1. TypeOK'
    BY <1>14 DEF CallFails, Disturb, TypeOK, Stage, InTry, Open, Closed, Level, InFlight
  <2>2. NothingYet' /\ SeenIsKnown' /\ QuarantineTakesEffect'
    BY <1>14
    DEF CallFails, Disturb, TypeOK, NothingYet, PointsKnown, SeenIsKnown, QuarantineTakesEffect,
        Does, InTry, InFlight
  <2>3. PointsKnown'
    BY <1>14 DEF CallFails, Disturb, TypeOK, NothingYet, PointsKnown, Does, InTry, InFlight
  <2>4. ConservativeOnlySuggests'
    BY <1>14
    DEF CallFails, Disturb, TypeOK, NothingYet, ConservativeOnlySuggests, InTry, InFlight
  <2>5. EventsTellTheTruth'
    BY <1>14
    DEF CallFails, Disturb, TypeOK, NothingYet, PointsKnown, EventsTellTheTruth, Does, InTry, Open,
        InFlight
  <2>6. QED
    BY <2>1, <2>2, <2>3, <2>4, <2>5
<1>15. QED
  BY <1>1, <1>2, <1>3, <1>4, <1>5, <1>6, <1>7, <1>8, <1>9, <1>10, <1>11, <1>12, <1>13, <1>14
     DEF Proceed

\* A crash, and what people and the clock do.
LEMMA OtherAInv ==
  ASSUME AInv, Crash \/ DeleteRule \/ QuarantineByHand \/ Free \/ HourPasses
  PROVE  AInv'
<1> USE HealingAssumption DEF AInv, request, test
<1>1. CASE Crash
  <2>1. TypeOK'
    BY <1>1 DEF Crash, Disturb, TypeOK, Stage, InTry, InFlight
  <2>2. QED
    BY <1>1, <2>1
    DEF Crash, Disturb, TypeOK, NothingYet, PointsKnown, SeenIsKnown, ConservativeOnlySuggests,
        EventsTellTheTruth, QuarantineTakesEffect, Does, InTry, InFlight
<1>2. CASE DeleteRule
  <2>1. TypeOK'
    BY <1>2 DEF DeleteRule, TypeOK, Stage, InTry, InFlight
  <2>2. QED
    BY <1>2, <2>1
    DEF DeleteRule, TypeOK, NothingYet, PointsKnown, SeenIsKnown, ConservativeOnlySuggests,
        EventsTellTheTruth, QuarantineTakesEffect, Does, InTry, InFlight
<1>3. CASE QuarantineByHand
  <2>1. TypeOK'
    BY <1>3 DEF QuarantineByHand, TypeOK, Stage, InTry, InFlight
  <2>2. QED
    BY <1>3, <2>1
    DEF QuarantineByHand, TypeOK, NothingYet, PointsKnown, SeenIsKnown, ConservativeOnlySuggests,
        EventsTellTheTruth, QuarantineTakesEffect, Does, InTry, InFlight
<1>4. CASE Free
  <2>1. TypeOK'
    BY <1>4 DEF Free, TypeOK, Stage, InTry, InFlight
  <2>2. QED
    BY <1>4, <2>1
    DEF Free, TypeOK, NothingYet, PointsKnown, SeenIsKnown, ConservativeOnlySuggests,
        EventsTellTheTruth, QuarantineTakesEffect, Does, InTry, InFlight
<1>5. CASE HourPasses
  <2>1. TypeOK'
    BY <1>5 DEF HourPasses, TypeOK, Stage, InTry, InFlight
  <2>2. QED
    BY <1>5, <2>1
    DEF HourPasses, TypeOK, NothingYet, PointsKnown, SeenIsKnown, ConservativeOnlySuggests,
        EventsTellTheTruth, QuarantineTakesEffect, Does, InTry, InFlight
<1>6. QED
  BY <1>1, <1>2, <1>3, <1>4, <1>5

LEMMA StepAInv ==
  ASSUME AInv, [Next]_vars
  PROVE  AInv'
<1>1. CASE UNCHANGED vars
  BY <1>1
  DEF vars, request, test, AInv, TypeOK, NothingYet, PointsKnown, SeenIsKnown,
      ConservativeOnlySuggests, EventsTellTheTruth, QuarantineTakesEffect, Does
<1>2. CASE Next
  BY <1>2, RequestAInv, OtherAInv DEF Next
<1>3. QED
  BY <1>1, <1>2

\* The invariant of the audit trail holds in every behaviour.
THEOREM AuditInvariance == Spec => []AInv
  BY InitAInv, StepAInv, PTL DEF Spec

\* ConservativeOnlySuggests (self-healing.service.ts:188-196): a user whose level is
\* conservative gets suggestions only.
THEOREM ConservativeTheorem == Spec => []ConservativeOnlySuggests
<1>1. AInv => ConservativeOnlySuggests
  BY DEF AInv
<1>2. QED
  BY <1>1, AuditInvariance, PTL

\* EventsTellTheTruth (self-healing.service.ts:161-226): the audit trail lies only
\* after a failed call, a crash or a deleted rule.
THEOREM AuditTheorem == Spec => []EventsTellTheTruth
<1>1. AInv => EventsTellTheTruth
  BY DEF AInv
<1>2. QED
  BY <1>1, AuditInvariance, PTL

\* QuarantineTakesEffect (self-healing.service.ts:309-334): a quarantine that reports
\* success has quarantined the test, unless somebody freed it meanwhile.
THEOREM QuarantineTheorem == Spec => []QuarantineTakesEffect
<1>1. AInv => QuarantineTakesEffect
  BY DEF AInv
<1>2. QED
  BY <1>1, AuditInvariance, PTL
-----------------------------------------------------------------------------
(***************************************************************************)
(* The retry limit.  Acting requests have passed the check and are not     *)
(* counted yet, or may still lose their count; there are at most Slots of  *)
(* them, and the last one to pass found fewer than MaxRetries counted.     *)
(***************************************************************************)

Acting == {q \in Req : Does(q) = "retry" /\ pc[q] \in InTry \union {"fail"}}

SlotsRespected == Cardinality(InFlight) <= Slots

LimitKnown == Cardinality(Counted \union Acting) <= MaxRetries + (Slots - 1)

LInv == AInv /\ SlotsRespected /\ LimitKnown

LEMMA FiniteSets ==
  ASSUME TypeOK
  PROVE  /\ IsFiniteSet(InFlight) /\ IsFiniteSet(Counted) /\ IsFiniteSet(Acting)
         /\ IsFiniteSet(Counted \union Acting)
         /\ Cardinality(InFlight) \in Nat /\ Cardinality(Counted) \in Nat
         /\ Cardinality(Acting) \in Nat /\ Cardinality(Counted \union Acting) \in Nat
<1>1. /\ InFlight \subseteq Req /\ Counted \subseteq Req /\ Acting \subseteq Req
      /\ (Counted \union Acting) \subseteq Req
  BY DEF InFlight, Counted, Acting, TypeOK
<1>2. \A S \in SUBSET Req : IsFiniteSet(S)
  BY HealingAssumption, FS_Subset
<1>3. QED
  BY <1>1, <1>2, FS_CardinalityType

\* A step that lets no request pass the check, counts none that was not acting and
\* begins none.
LEMMA ShrinkingStep ==
  ASSUME LInv, AInv', InFlight' \subseteq InFlight,
         (Counted' \union Acting') \subseteq (Counted \union Acting)
  PROVE  LInv'
<1> USE DEF LInv
<1>1. Cardinality(InFlight') <= Cardinality(InFlight)
  BY FiniteSets, FS_Subset DEF AInv
<1>2. Cardinality(Counted' \union Acting') <= Cardinality(Counted \union Acting)
  BY FiniteSets, FS_Subset DEF AInv
<1>3. /\ Cardinality(InFlight') \in Nat /\ Cardinality(Counted' \union Acting') \in Nat
  <2>1. TypeOK'
    BY DEF AInv
  <2>2. \A S : IsFiniteSet(S) => Cardinality(S) \in Nat
    BY FS_CardinalityType
  <2>3. IsFiniteSet(InFlight') /\ IsFiniteSet(Counted' \union Acting')
    BY FiniteSets, FS_Subset DEF AInv
  <2>4. QED
    BY <2>2, <2>3
<1>4. Cardinality(InFlight) \in Nat /\ Cardinality(Counted \union Acting) \in Nat
  BY FiniteSets DEF AInv
<1>5. QED
  BY <1>1, <1>2, <1>3, <1>4, HealingAssumption DEF SlotsRespected, LimitKnown

\* The check: fewer than MaxRetries are counted, and the request takes a slot of its own.
LEMMA DecideLimit ==
  ASSUME LInv, AInv', NEW q \in Req, Decide(q)
  PROVE  LInv'
<1> USE DEF LInv
<1>1. InFlight' = InFlight
  BY DEF Decide, Go, InFlight, AInv, TypeOK, InTry
<1>2. Counted' = Counted
  BY DEF Decide, Counted, Does, test
<1>3. CASE Acts(q) /\ Does(q) = "retry"
  <2>1. Cardinality(Counted) <= MaxRetries - 1
    BY <1>3, FiniteSets, HealingAssumption DEF Acts, CanRetry, AInv
  <2>2. Acting' \subseteq InFlight
    BY <1>1 DEF Acting, InFlight, InTry
  <2>3. IsFiniteSet(Acting') /\ Cardinality(Acting') <= Slots
        /\ Cardinality(Acting') \in Nat
    <3>1. IsFiniteSet(Acting') /\ Cardinality(Acting') <= Cardinality(InFlight)
      BY <2>2, FiniteSets, FS_Subset DEF AInv
    <3>2. Cardinality(Acting') \in Nat
      BY <3>1, FS_CardinalityType
    <3>3. QED
      BY <3>1, <3>2, FiniteSets, HealingAssumption DEF SlotsRespected, AInv
  <2>4. Cardinality(Counted \union Acting') <= Cardinality(Counted) + Cardinality(Acting')
    <3>1. IsFiniteSet(Counted) /\ IsFiniteSet(Acting')
      BY <2>3, FiniteSets DEF AInv
    <3>2. /\ IsFiniteSet(Counted \intersect Acting')
          /\ Cardinality(Counted \intersect Acting') \in Nat
      <4>1. IsFiniteSet(Counted \intersect Acting')
        BY <3>1, FS_Subset
      <4>2. QED
        BY <4>1, FS_CardinalityType
    <3>3. Cardinality(Counted \union Acting')
            = Cardinality(Counted) + Cardinality(Acting') - Cardinality(Counted \intersect Acting')
      BY <3>1, FS_Union
    <3>4. QED
      BY <3>2, <3>3, <2>3, FiniteSets DEF AInv
  <2>5. Cardinality(Counted \union Acting') \in Nat
    <3>1. IsFiniteSet(Counted \union Acting')
      BY <2>3, FiniteSets, FS_Union DEF AInv
    <3>2. QED
      BY <3>1, FS_CardinalityType
  <2>6. LimitKnown'
    BY <1>2, <2>1, <2>3, <2>4, <2>5, FiniteSets, HealingAssumption DEF LimitKnown, AInv
  <2>7. QED
    BY <1>1, <2>6 DEF SlotsRespected
<1>4. CASE ~(Acts(q) /\ Does(q) = "retry")
  <2>1. Acting' = Acting
    BY <1>4 DEF Decide, Go, Acting, Does, AInv, TypeOK, InTry, test
  <2>2. QED
    BY <1>1, <1>2, <2>1, ShrinkingStep
<1>5. QED
  BY <1>3, <1>4

\* A new request takes a free slot and is not acting yet.
LEMMA EvaluateLimit ==
  ASSUME LInv, AInv', NEW q \in Req, Evaluate(q)
  PROVE  LInv'
<1> USE DEF LInv
<1>1. InFlight' = InFlight \union {q}
  BY DEF Evaluate, Go, InFlight, AInv, TypeOK
<1>2. SlotsRespected'
  <2>1. /\ IsFiniteSet(InFlight \union {q})
        /\ Cardinality(InFlight \union {q})
             = IF q \in InFlight THEN Cardinality(InFlight) ELSE Cardinality(InFlight) + 1
    BY FiniteSets, FS_AddElement DEF AInv
  <2>2. Cardinality(InFlight \union {q}) \in Nat
    BY <2>1, FS_CardinalityType
  <2>3. Cardinality(InFlight) \in Nat /\ Cardinality(InFlight) < Slots
    BY FiniteSets DEF Evaluate, AInv
  <2>4. Cardinality(InFlight \union {q}) <= Slots
    BY <2>1, <2>2, <2>3, HealingAssumption
  <2>5. QED
    BY <1>1, <2>4 DEF SlotsRespected
<1>3. Counted' = Counted
  <2>1. q \notin recent /\ event' = event /\ recent' = recent
    BY DEF Evaluate, AInv, NothingYet, TypeOK
  <2>2. \A e \in recent : Does(e)' = Does(e)
    BY <2>1 DEF Evaluate, Matches, Does, AInv, TypeOK
  <2>3. QED
    BY <2>1, <2>2 DEF Counted
<1>4. Acting' = Acting
  BY DEF Evaluate, Matches, Go, Acting, Does, InTry, AInv, TypeOK
<1>5. QED
  BY <1>2, <1>3, <1>4 DEF LimitKnown

\* All other steps of a request.
LEMMA RequestLimit ==
  ASSUME LInv, AInv', NEW q \in Req, Proceed(q) \/ CallFails(q)
  PROVE  LInv'
<1> USE DEF LInv, AInv, Go, test
<1>1. CASE Decide(q)
  BY <1>1, DecideLimit
<1>2. CASE ReadLevel(q) \/ CreateEvent(q) \/ Skip(q)
  <2>1. InFlight' \subseteq InFlight
    BY <1>2 DEF ReadLevel, CreateEvent, Skip, InFlight, TypeOK
  <2>2. Counted' \subseteq Counted /\ Acting' \subseteq Acting
    BY <1>2 DEF ReadLevel, CreateEvent, Skip, Counted, Acting, Does, InTry, TypeOK
  <2>3. QED
    BY <2>1, <2>2, ShrinkingStep
<1>3. CASE MarkExecuting(q) \/ Retry(q) \/ NotifyOrFix(q) \/ FindQuarantined(q) \/ QuarantineTest(q)
  <2>1. InFlight' \subseteq InFlight
    BY <1>3 DEF MarkExecuting, Retry, NotifyOrFix, FindQuarantined, QuarantineTest, InFlight, TypeOK
  <2>2. Counted' \subseteq Counted /\ Acting' \subseteq Acting
    BY <1>3
    DEF MarkExecuting, Retry, NotifyOrFix, FindQuarantined, QuarantineTest, Counted, Acting,
        Does, InTry, TypeOK
  <2>3. QED
    BY <2>1, <2>2, ShrinkingStep
<1>4. CASE Succeed(q) \/ TouchRule(q)
  <2>1. InFlight' \subseteq InFlight
    BY <1>4 DEF Succeed, Succeeded, TouchRule, InFlight, TypeOK
  <2>2. (Counted' \union Acting') \subseteq (Counted \union Acting)
    BY <1>4 DEF Succeed, Succeeded, TouchRule, Counted, Acting, Does, InTry, TypeOK
  <2>3. QED
    BY <2>1, <2>2, ShrinkingStep
<1>5. CASE Fail(q) \/ CallFails(q)
  <2>1. InFlight' \subseteq InFlight
    BY <1>5 DEF Fail, CallFails, InFlight, TypeOK
  <2>2. Counted' \subseteq Counted /\ Acting' \subseteq Acting
    BY <1>5 DEF Fail, CallFails, Counted, Acting, Does, InTry, InFlight, TypeOK
  <2>3. QED
    BY <2>1, <2>2, ShrinkingStep
<1>6. QED
  BY <1>1, <1>2, <1>3, <1>4, <1>5 DEF Proceed

LEMMA OtherLimit ==
  ASSUME LInv, AInv',
         Crash \/ DeleteRule \/ QuarantineByHand \/ Free \/ HourPasses \/ UNCHANGED vars
  PROVE  LInv'
<1> USE DEF LInv, AInv
<1>1. InFlight' \subseteq InFlight
  BY DEF Crash, DeleteRule, QuarantineByHand, Free, HourPasses, vars, request, InFlight
<1>2. Counted' \subseteq Counted /\ Acting' \subseteq Acting
  BY DEF Crash, DeleteRule, QuarantineByHand, Free, HourPasses, vars, request, InFlight,
         Counted, Acting, Does, InTry
<1>3. QED
  BY <1>1, <1>2, ShrinkingStep

LEMMA InitLInv == Init => LInv
<1> SUFFICES ASSUME Init PROVE LInv
  OBVIOUS
<1>1. InFlight = {} /\ Counted = {} /\ Acting = {}
  BY DEF Init, InFlight, Counted, Acting, InTry
<1>2. Cardinality({}) = 0 /\ {} \union {} = {}
  BY FS_EmptySet
<1>3. QED
  BY <1>1, <1>2, InitAInv, HealingAssumption DEF LInv, SlotsRespected, LimitKnown

LEMMA StepLInv ==
  ASSUME LInv, [Next]_vars
  PROVE  LInv'
<1>1. AInv'
  BY StepAInv DEF LInv
<1>2. CASE UNCHANGED vars
  BY <1>1, <1>2, OtherLimit
<1>3. CASE Next
  BY <1>1, <1>3, EvaluateLimit, RequestLimit, OtherLimit DEF Next
<1>4. QED
  BY <1>2, <1>3

\* Every run of the hour is counted, acting, or spoiled.
LEMMA LimitBoundsRetries == LInv => RetriesBounded
<1> SUFFICES ASSUME LInv PROVE RetriesBounded
  OBVIOUS
<1> USE DEF LInv, AInv
<1>1. (runs \intersect recent) \subseteq ((Counted \union Acting) \union Uncounted)
  BY DEF PointsKnown, Counted, Acting, Uncounted, InTry, TypeOK
<1>2. IsFiniteSet(Uncounted) /\ Cardinality(Uncounted) \in Nat
  <2>1. Uncounted \subseteq Req
    BY DEF Uncounted, TypeOK
  <2>2. QED
    BY <2>1, HealingAssumption, FS_Subset, FS_CardinalityType
<1>3. /\ IsFiniteSet((Counted \union Acting) \union Uncounted)
      /\ Cardinality((Counted \union Acting) \union Uncounted)
           <= Cardinality(Counted \union Acting) + Cardinality(Uncounted)
  <2>1. IsFiniteSet(Counted \union Acting)
    BY FiniteSets
  <2>2. IsFiniteSet((Counted \union Acting) \intersect Uncounted)
    BY <2>1, FS_Subset
  <2>3. Cardinality((Counted \union Acting) \intersect Uncounted) \in Nat
    BY <2>2, FS_CardinalityType
  <2>4. /\ IsFiniteSet((Counted \union Acting) \union Uncounted)
        /\ Cardinality((Counted \union Acting) \union Uncounted)
             = Cardinality(Counted \union Acting) + Cardinality(Uncounted)
                 - Cardinality((Counted \union Acting) \intersect Uncounted)
    BY <2>1, <1>2, FS_Union
  <2>5. QED
    BY <2>3, <2>4, <1>2, FiniteSets
<1>4. Cardinality(runs \intersect recent)
        <= Cardinality((Counted \union Acting) \union Uncounted)
  BY <1>1, <1>3, FS_Subset
<1>5. /\ Cardinality(runs \intersect recent) \in Nat
      /\ Cardinality((Counted \union Acting) \union Uncounted) \in Nat
  BY <1>1, <1>3, FS_Subset, FS_CardinalityType
<1>6. QED
  BY <1>2, <1>3, <1>4, <1>5, FiniteSets, HealingAssumption DEF LimitKnown, RetriesBounded

\* HealingInv (self-healing.service.ts:175-176, 404-410): what the circuit breaker
\* guarantees when executions overlap and events are spoiled.
THEOREM RetryTheorem == Spec => []HealingInv
<1>1. Spec => []LInv
  BY InitLInv, StepLInv, PTL DEF Spec
<1>2. LInv => HealingInv
  BY LimitBoundsRetries DEF LInv, AInv, HealingInv
<1>3. QED
  BY <1>1, <1>2, PTL
-----------------------------------------------------------------------------
(* Regressions on record *)

\* The runs are numbered, and one that goes on has no result.
TrailKnown ==
  /\ trail \in Seq([line : Line, ended : BOOLEAN, result : Result]) /\ Len(trail) \in 0..RunBound
  /\ \A i \in 1..Len(trail) : ~trail[i].ended => trail[i].result = "absent"

\* A recording has compared runs that have ended, and their results stand.
RecorderKnown ==
  \A r \in Recorder :
    LET me == recorder[r] IN
    me.at \in {"find", "create", "resolve"} =>
      /\ me.run \in 1..Len(trail) /\ me.before \in 1..(me.run - 1)
      /\ trail[me.before].line = trail[me.run].line
      /\ IF me.at = "resolve" THEN trail[me.run].result = "PASSED" /\ trail[me.before].result = "FAILED"
         ELSE trail[me.run].result = "FAILED" /\ trail[me.before].result \in {"PASSED", "SKIPPED"}

\* One event is true.
IsTrue(it) ==
  /\ it.before < it.run /\ it.run <= Len(trail) /\ it.recovery <= Len(trail)
  /\ trail[it.run].line = it.line /\ trail[it.before].line = it.line
  /\ trail[it.run].result = "FAILED" /\ trail[it.before].result \in {"PASSED", "SKIPPED"}
  /\ (it.status = "resolved") => it.recovery # 0
  /\ it.recovery # 0 =>
       /\ trail[it.recovery].result = "PASSED"
       /\ \E i \in 1..(it.recovery - 1) :
            trail[i].line = trail[it.recovery].line /\ trail[i].result = "FAILED"

EventsKnown == \A e \in DOMAIN events : IsTrue(events[e])

\* A recording that has found nothing is right of the events there were when it looked.
Missed(r, es) ==
  recorder[r].at = "create" /\ ~recorder[r].found =>
    /\ recorder[r].looked <= Len(es)
    /\ \A e \in DOMAIN es : e <= recorder[r].looked => ~Counts(es[e], trail[recorder[r].run].line)

\* An event counts beside an earlier one only if it was looked for before that was there.
Twice(es) ==
  \A line \in Line : \A e, f \in DOMAIN es :
    e < f /\ Counts(es[e], line) /\ Counts(es[f], line) => es[f].looked < e

LookedFirst == Twice(events) /\ \A r \in Recorder : Missed(r, events)

RegressionIInv == RegressionTypeOK /\ TrailKnown /\ RecorderKnown /\ EventsKnown /\ LookedFirst

Event == [line : Line, run : 1..RunBound, before : 1..RunBound, recovery : 0..RunBound,
          status : OpenStatus \cup {"resolved", "false_positive"}, reopened : BOOLEAN,
          looked : Nat]

LEMMA RegressionInvInit == RegressionInit => RegressionIInv
<1> SUFFICES ASSUME RegressionInit PROVE RegressionIInv
  OBVIOUS
<1> USE RegressionAssumption DEF RegressionInit, Away
<1>1. RegressionTypeOK
  BY DEF RegressionTypeOK
<1>2. TrailKnown /\ RecorderKnown
  BY DEF TrailKnown, RecorderKnown
<1>3. EventsKnown /\ LookedFirst
  BY DEF EventsKnown, LookedFirst, Missed, Twice
<1>4. QED
  BY <1>1, <1>2, <1>3 DEF RegressionIInv

LEMMA EventTyped ==
  ASSUME RegressionIInv
  PROVE  /\ events \in Seq(Event) /\ DOMAIN events = 1..Len(events) /\ Len(events) \in Nat
         /\ \A e \in DOMAIN events : events[e] \in Event
<1>1. events \in Seq(Event)
  BY DEF RegressionIInv, RegressionTypeOK, Event
<1>2. QED
  BY <1>1

\* What was said of runs stays said while runs are added and end.
LEMMA TrailGrows ==
  ASSUME RegressionIInv, UNCHANGED <<events, recorder>>,
         TrailKnown', Len(trail) <= Len(trail'),
         \A i \in 1..Len(trail) : /\ trail'[i].line = trail[i].line
                                  /\ trail[i].result # "absent" => trail'[i].result = trail[i].result
  PROVE  RecorderKnown' /\ EventsKnown' /\ LookedFirst'
<1> USE DEF RegressionIInv, TrailKnown
<1>1. RecorderKnown'
  <2> SUFFICES ASSUME NEW r \in Recorder, recorder[r].at \in {"find", "create", "resolve"}
               PROVE  /\ recorder[r].run \in 1..Len(trail') /\ recorder[r].before \in 1..(recorder[r].run - 1)
                      /\ trail'[recorder[r].before].line = trail'[recorder[r].run].line
                      /\ trail'[recorder[r].run].result = trail[recorder[r].run].result
                      /\ trail'[recorder[r].before].result = trail[recorder[r].before].result
    BY DEF RecorderKnown
  <2>1. /\ recorder[r].run \in 1..Len(trail) /\ recorder[r].before \in 1..(recorder[r].run - 1)
        /\ trail[recorder[r].before].line = trail[recorder[r].run].line
        /\ trail[recorder[r].run].result # "absent" /\ trail[recorder[r].before].result # "absent"
    BY DEF RecorderKnown
  <2>2. recorder[r].before \in 1..Len(trail)
    BY <2>1
  <2>3. QED
    BY <2>1, <2>2
<1>2. EventsKnown'
  <2> SUFFICES ASSUME NEW e \in DOMAIN events PROVE IsTrue(events[e])'
    BY DEF EventsKnown
  <2> DEFINE it == events[e]
  <2>1. IsTrue(it) /\ it \in Event
    BY EventTyped DEF EventsKnown
  <2>2. it.run \in 1..Len(trail) /\ it.before \in 1..Len(trail) /\ it.recovery \in 0..Len(trail)
    BY <2>1, RegressionAssumption DEF IsTrue, Event
  <2>3. IsTrue(it)'
    <3> HIDE DEF it
    <3>1. it' = it
      BY DEF it
    <3>2. /\ trail'[it.run].line = it.line /\ trail'[it.before].line = it.line
          /\ trail'[it.run].result = "FAILED" /\ trail'[it.before].result \in {"PASSED", "SKIPPED"}
      BY <2>1, <2>2 DEF IsTrue
    <3>3. it.recovery # 0 =>
            /\ trail'[it.recovery].result = "PASSED"
            /\ \E i \in 1..(it.recovery - 1) :
                 trail'[i].line = trail'[it.recovery].line /\ trail'[i].result = "FAILED"
      <4> SUFFICES ASSUME it.recovery # 0
                   PROVE  /\ trail'[it.recovery].result = "PASSED"
                          /\ \E i \in 1..(it.recovery - 1) :
                               trail'[i].line = trail'[it.recovery].line /\ trail'[i].result = "FAILED"
        OBVIOUS
      <4>1. PICK i \in 1..(it.recovery - 1) :
              trail[i].line = trail[it.recovery].line /\ trail[i].result = "FAILED"
        BY <2>1 DEF IsTrue
      <4>2. i \in 1..Len(trail) /\ it.recovery \in 1..Len(trail)
        BY <2>2
      <4>3. trail'[it.recovery].result = "PASSED"
        BY <2>1, <4>2 DEF IsTrue
      <4>4. trail'[i].line = trail'[it.recovery].line /\ trail'[i].result = "FAILED"
        BY <4>1, <4>2
      <4>5. QED
        BY <4>3, <4>4
    <3>4. QED
      BY <2>1, <2>2, <3>1, <3>2, <3>3 DEF IsTrue
  <2>4. QED
    BY <2>3
<1>3. LookedFirst'
  <2>1. \A r \in Recorder : recorder[r].at = "create" =>
          recorder[r].run \in 1..Len(trail) /\ trail'[recorder[r].run].line = trail[recorder[r].run].line
    BY DEF RecorderKnown
  <2>2. \A r \in Recorder : Missed(r, events)'
    BY <2>1 DEF LookedFirst, Missed, Counts
  <2>3. QED
    BY <2>2 DEF LookedFirst, Twice, Counts
<1>4. QED
  BY <1>1, <1>2, <1>3

LEMMA SmallestOfSome ==
  ASSUME NEW T \in SUBSET Nat, T # {}
  PROVE  \E j \in T : \A k \in T : j <= k
<1> DEFINE Less == {pair \in Nat \X Nat : pair[1] < pair[2]}
<1>1. IsWellFoundedOn(Less, Nat)
  BY NatLessThanWellFounded DEF OpToRel
<1> HIDE DEF Less
<1>2. PICK j \in T : \A k \in T : ~(<<k, j>> \in Less)
  BY <1>1, WFMin
<1>3. ASSUME NEW k \in T PROVE j <= k
  <2>1. ~(<<k, j>> \in {pair \in Nat \X Nat : pair[1] < pair[2]})
    BY <1>2 DEF Less
  <2>2. k \in Nat /\ j \in Nat /\ <<k, j>>[1] = k /\ <<k, j>>[2] = j
    OBVIOUS
  <2>3. ~(k < j)
    BY <2>1, <2>2
  <2>4. QED
    BY <2>2, <2>3
<1>4. QED
  BY <1>3

LEMMA LargestOfSome ==
  ASSUME NEW n \in Nat, NEW S \in SUBSET (0..n), S # {}
  PROVE  \E j \in S : \A k \in S : k <= j
<1> DEFINE Bounds == {m \in Nat : \A k \in S : k <= m}
<1>1. n \in Bounds
  OBVIOUS
<1>2. PICK m \in Bounds : \A l \in Bounds : m <= l
  BY <1>1, SmallestOfSome
<1>3. ASSUME m \notin S PROVE FALSE
  <2>1. \A k \in S : k \in Nat /\ k <= m /\ k # m
    BY <1>2, <1>3
  <2>2. m - 1 \in Nat
    <3>1. PICK k \in S : TRUE
      OBVIOUS
    <3>2. m \in Nat
      BY <1>2
    <3>3. k \in Nat /\ k <= m /\ k # m
      BY <2>1
    <3>4. QED
      BY <3>2, <3>3
  <2>3. ASSUME NEW k \in S PROVE k <= m - 1
    <3>1. m \in Nat
      BY <1>2
    <3>1a. k \in Nat /\ k <= m /\ k # m
      BY <2>1
    <3>2. QED
      BY <3>1, <3>1a
  <2>4. QED
    BY <1>2, <2>2, <2>3
<1>4. QED
  BY <1>2, <1>3

\* The latest of some runs is one of them.
LEMMA LatestOfSome ==
  ASSUME NEW i \in Nat, Before(i) # 0
  PROVE  Before(i) \in 1..(i - 1) /\ trail[Before(i)].line = trail[i].line
<1> DEFINE earlier == {j \in 1..(i - 1) : trail[j].ended /\ trail[j].line = trail[i].line}
<1>1. earlier # {} /\ Before(i) = CHOOSE j \in earlier : \A k \in earlier : k <= j
  BY DEF Before
<1>2. earlier \subseteq 0..i
  OBVIOUS
<1>3. \E j \in earlier : \A k \in earlier : k <= j
  BY <1>1, <1>2, LargestOfSome
<1>4. Before(i) \in earlier
  BY <1>1, <1>3
<1>5. QED
  BY <1>4

LEMMA TrailTyped ==
  ASSUME RegressionIInv
  PROVE  /\ trail \in Seq([line : Line, ended : BOOLEAN, result : Result])
         /\ DOMAIN trail = 1..Len(trail) /\ Len(trail) \in 0..RunBound /\ Len(trail) \in Nat
         /\ \A k \in 1..Len(trail) : trail[k] \in [line : Line, ended : BOOLEAN, result : Result]
<1>1. trail \in Seq([line : Line, ended : BOOLEAN, result : Result]) /\ Len(trail) \in 0..RunBound
  BY DEF RegressionIInv, TrailKnown
<1>2. Len(trail) \in Nat
  BY <1>1, RegressionAssumption
<1>3. trail \in Seq([line : Line, ended : BOOLEAN, result : Result])
  BY <1>1
<1>4. DOMAIN trail = 1..Len(trail)
  BY <1>3
<1>5. \A k \in 1..Len(trail) : trail[k] \in [line : Line, ended : BOOLEAN, result : Result]
  BY <1>3, ElementOfSeq
<1>6. QED
  BY <1>1, <1>2, <1>4, <1>5

LEMMA CreateRunStep ==
  ASSUME RegressionIInv, NEW line \in Line, CreateRun(line) PROVE RegressionIInv'
<1> DEFINE new == [line |-> line, ended |-> FALSE, result |-> "absent"]
           Run == [line : Line, ended : BOOLEAN, result : Result]
<1>1. /\ trail' = Append(trail, new) /\ Len(trail) < RunBound
      /\ UNCHANGED <<events, recorder, words, skips>>
  BY DEF CreateRun
<1>2. new \in Run /\ trail \in Seq(Run) /\ Len(trail) \in Nat
  BY DEF RegressionIInv, TrailKnown, Result
<1>3. new.ended = FALSE /\ new.result = "absent"
  OBVIOUS
<1> HIDE DEF new, Run
<1>4. /\ trail' \in Seq(Run) /\ Len(trail') = Len(trail) + 1
      /\ \A i \in 1..Len(trail) : trail'[i] = trail[i]
      /\ trail'[Len(trail) + 1] = new
  BY <1>1, <1>2, AppendProperties
<1>5. \A i \in 1..Len(trail') : ~trail'[i].ended => trail'[i].result = "absent"
  BY <1>2, <1>3, <1>4 DEF RegressionIInv, TrailKnown
<1>6. TrailKnown'
  BY <1>1, <1>2, <1>4, <1>5, RegressionAssumption DEF TrailKnown, Run
<1>7. RegressionTypeOK'
  BY <1>1, <1>4 DEF RegressionIInv, RegressionTypeOK, Run
<1>8. RecorderKnown' /\ EventsKnown' /\ LookedFirst'
  BY <1>1, <1>2, <1>4, <1>6, TrailGrows
<1>9. QED
  BY <1>6, <1>7, <1>8 DEF RegressionIInv

LEMMA EndRunStep ==
  ASSUME RegressionIInv, NEW i \in DOMAIN trail, NEW result \in Result, EndRun(i, result)
  PROVE  RegressionIInv'
<1> DEFINE Run == [line : Line, ended : BOOLEAN, result : Result]
<1>1. /\ trail' = [trail EXCEPT ![i].ended = TRUE, ![i].result = result] /\ ~trail[i].ended
      /\ UNCHANGED <<events, recorder, words, skips>>
  BY DEF EndRun
<1>2. /\ trail \in Seq(Run) /\ Len(trail) \in Nat /\ DOMAIN trail = 1..Len(trail)
      /\ \A k \in 1..Len(trail) : trail[k] \in Run
  BY TrailTyped
<1>3. /\ DOMAIN trail' = DOMAIN trail
      /\ \A k \in 1..Len(trail) : k # i => trail'[k] = trail[k]
      /\ trail'[i] = [line |-> trail[i].line, ended |-> TRUE, result |-> result]
  BY <1>1, <1>2
<1>4. trail' \in Seq(Run) /\ Len(trail') = Len(trail)
  <2>1. trail' = [trail EXCEPT ![i] = [line |-> trail[i].line, ended |-> TRUE, result |-> result]]
    <3> DEFINE new == [line |-> trail[i].line, ended |-> TRUE, result |-> result]
    <3>1. trail'[i] = new /\ trail' = [k \in DOMAIN trail |-> trail'[k]]
      BY <1>1, <1>3
    <3> HIDE DEF new
    <3>2. trail' = [trail EXCEPT ![i] = new]
      BY <1>2, <1>3, <3>1
    <3>3. QED
      BY <3>2 DEF new
  <2>2. [line |-> trail[i].line, ended |-> TRUE, result |-> result] \in Run
    BY <1>2
  <2>3. QED
    BY <1>2, <2>1, <2>2, ExceptSeq
<1>5. trail[i].result = "absent"
  BY <1>1, <1>2 DEF RegressionIInv, TrailKnown
<1>6. \A k \in 1..Len(trail') : ~trail'[k].ended => trail'[k].result = "absent"
  BY <1>2, <1>3, <1>4 DEF RegressionIInv, TrailKnown
<1>7. \A k \in 1..Len(trail) : /\ trail'[k].line = trail[k].line
                              /\ trail[k].result # "absent" => trail'[k].result = trail[k].result
  BY <1>2, <1>3, <1>5
<1>8. TrailKnown'
  BY <1>4, <1>6 DEF TrailKnown, RegressionIInv
<1>9. RegressionTypeOK'
  BY <1>1, <1>4 DEF RegressionIInv, RegressionTypeOK
<1>10. RecorderKnown' /\ EventsKnown' /\ LookedFirst'
  BY <1>1, <1>2, <1>4, <1>7, <1>8, TrailGrows
<1>11. QED
  BY <1>8, <1>9, <1>10 DEF RegressionIInv

LEMMA EvaluateStep ==
  ASSUME RegressionIInv, NEW r \in Recorder, NEW i \in DOMAIN trail, evaluate(r, i)
  PROVE  RegressionIInv'
<1> DEFINE j == Before(i)
           next == IF Regressed(i, j) THEN "find" ELSE IF Recovered(i, j) THEN "resolve" ELSE "over"
           new == [at |-> next, run |-> i, before |-> j, found |-> FALSE, looked |-> 0]
<1>1. /\ recorder[r].at = "idle" /\ j # 0
      /\ recorder' = [recorder EXCEPT ![r] = new]
      /\ UNCHANGED <<trail, events, words, skips>>
  BY DEF evaluate
<1>2. Len(trail) \in 0..RunBound /\ DOMAIN trail = 1..Len(trail) /\ trail[i].line \in Line
  BY TrailTyped
<1>3. j \in 1..(i - 1) /\ trail[j].line = trail[i].line
  BY <1>1, <1>2, LatestOfSome
<1>4. /\ next \in {"find", "resolve", "over"}
      /\ next = "find" => trail[i].result = "FAILED" /\ trail[j].result \in {"PASSED", "SKIPPED"}
      /\ next = "resolve" => trail[i].result = "PASSED" /\ trail[j].result = "FAILED"
  BY DEF Regressed, Recovered
<1>5. /\ new.at = next /\ new.run = i /\ new.before = j /\ new.found = FALSE
  OBVIOUS
<1>6. /\ DOMAIN recorder = Recorder /\ recorder'[r] = new
      /\ \A s \in Recorder : s # r => recorder'[s] = recorder[s]
  BY <1>1 DEF RegressionIInv, RegressionTypeOK
<1> HIDE DEF j, next, new
<1>7. new \in [at : {"idle", "find", "create", "resolve", "over"}, run : 0..RunBound,
               before : 0..RunBound, found : BOOLEAN, looked : Nat]
  <2>1. i \in 0..RunBound /\ j \in 0..RunBound
    BY <1>2, <1>3, RegressionAssumption
  <2>2. QED
    BY <1>4, <2>1 DEF new
<1>8. RegressionTypeOK' /\ TrailKnown' /\ EventsKnown'
  BY <1>1, <1>2, <1>7 DEF RegressionIInv, RegressionTypeOK, TrailKnown, EventsKnown, IsTrue
<1>9. RecorderKnown'
  BY <1>1, <1>2, <1>3, <1>4, <1>5, <1>6 DEF RegressionIInv, RecorderKnown
<1>10. LookedFirst'
  <2>1. ~(recorder'[r].at = "create")
    BY <1>4, <1>5, <1>6
  <2>2. \A s \in Recorder : Missed(s, events)'
    BY <1>1, <1>6, <2>1 DEF RegressionIInv, LookedFirst, Missed, Counts
  <2>3. QED
    BY <1>1, <2>2 DEF RegressionIInv, LookedFirst, Twice, Counts
<1>11. QED
  BY <1>8, <1>9, <1>10 DEF RegressionIInv

LEMMA FindStep ==
  ASSUME RegressionIInv, NEW r \in Recorder, FindTracked(r)
  PROVE  RegressionIInv'
<1> DEFINE there == \E e \in DOMAIN events :
                     events[e].line = trail[recorder[r].run].line /\ events[e].status \in OpenStatus
<1>1. /\ recorder[r].at = "find"
      /\ recorder' = [recorder EXCEPT ![r].at = "create", ![r].found = there, ![r].looked = Len(events)]
      /\ UNCHANGED <<trail, events, words, skips>>
  BY DEF FindTracked
<1>2. /\ DOMAIN recorder = Recorder /\ recorder'[r].at = "create" /\ recorder'[r].found = there
      /\ recorder'[r].looked = Len(events)
      /\ recorder'[r].run = recorder[r].run /\ recorder'[r].before = recorder[r].before
      /\ \A s \in Recorder : s # r => recorder'[s] = recorder[s]
  BY <1>1 DEF RegressionIInv, RegressionTypeOK
<1>3. there \in BOOLEAN /\ Len(events) \in Nat
  BY EventTyped
<1>4. there = FALSE => \A e \in DOMAIN events : ~Counts(events[e], trail[recorder[r].run].line)
  BY DEF Counts
<1> HIDE DEF there
<1>5. RegressionTypeOK'
  BY <1>1, <1>3 DEF RegressionIInv, RegressionTypeOK
<1>5a. TrailKnown' /\ EventsKnown'
  BY <1>1 DEF RegressionIInv, TrailKnown, EventsKnown, IsTrue
<1>6. RecorderKnown'
  BY <1>1, <1>2 DEF RegressionIInv, RecorderKnown
<1>7. LookedFirst'
  <2>1. Missed(r, events)'
    BY <1>1, <1>2, <1>3, <1>4 DEF Missed, Counts
  <2>2. \A s \in Recorder : s # r => Missed(s, events)'
    BY <1>1, <1>2 DEF RegressionIInv, LookedFirst, Missed, Counts
  <2>3. QED
    BY <1>1, <2>1, <2>2 DEF RegressionIInv, LookedFirst, Twice, Counts
<1>8. QED
  BY <1>5, <1>5a, <1>6, <1>7 DEF RegressionIInv

\* The end of a recording that creates nothing.
LEMMA OverStep ==
  ASSUME RegressionIInv, NEW r \in Recorder, Goes(r, "over"), UNCHANGED trail,
         words' \in 0..WordBound, skips' \in 0..SkipBound,
         events' \in Seq(Event), EventsKnown', Twice(events'),
         \A q \in Recorder \ {r} : Missed(q, events')
  PROVE  RegressionIInv'
<1>1. /\ DOMAIN recorder = Recorder /\ recorder'[r].at = "over"
      /\ \A s \in Recorder : s # r => recorder'[s] = recorder[s]
  BY DEF Goes, RegressionIInv, RegressionTypeOK
<1>2. recorder' \in [Recorder -> [at : {"idle", "find", "create", "resolve", "over"},
                                  run : 0..RunBound, before : 0..RunBound, found : BOOLEAN, looked : Nat]]
  BY DEF Goes, RegressionIInv, RegressionTypeOK
<1>3. RegressionTypeOK' /\ TrailKnown'
  BY <1>2 DEF RegressionIInv, RegressionTypeOK, TrailKnown, Event
<1>4. RecorderKnown'
  BY <1>1 DEF RegressionIInv, RecorderKnown
<1>5. LookedFirst'
  <2>1. \A q \in Recorder : Missed(q, events)'
    BY <1>1 DEF Missed, Counts
  <2>2. QED
    BY <2>1 DEF LookedFirst, Twice, Counts
<1>6. QED
  BY <1>3, <1>4, <1>5 DEF RegressionIInv

\* Skips and failures leave the events as they are.
LEMMA NoEventStep ==
  ASSUME RegressionIInv, NEW r \in Recorder, Goes(r, "over"),
         UNCHANGED <<trail, events, words>>, skips' \in 0..SkipBound
  PROVE  RegressionIInv'
<1>1. events' \in Seq(Event) /\ words' \in 0..WordBound
  BY EventTyped DEF RegressionIInv, RegressionTypeOK
<1>2. EventsKnown'
  BY DEF RegressionIInv, EventsKnown, IsTrue
<1>3. events' = events
  OBVIOUS
<1>4. Twice(events') /\ \A q \in Recorder : Missed(q, events')
  BY <1>3 DEF RegressionIInv, LookedFirst, Missed, Twice, Counts
<1>5. QED
  BY <1>1, <1>2, <1>4, OverStep

LEMMA CreateRegressionStep ==
  ASSUME RegressionIInv, NEW r \in Recorder, CreateRegression(r)
  PROVE  RegressionIInv'
<1> DEFINE me == recorder[r]
           new == [line |-> trail[me.run].line, run |-> me.run, before |-> me.before,
                   recovery |-> 0, status |-> "detected", reopened |-> FALSE, looked |-> me.looked]
<1>1. me.at = "create" /\ Goes(r, "over") /\ UNCHANGED <<trail, words>>
  BY DEF CreateRegression
<1>2. CASE UNCHANGED events
  <2>1. skips' \in 0..SkipBound
    BY <1>2, RegressionAssumption DEF CreateRegression, Skips, RegressionIInv, RegressionTypeOK
  <2>2. QED
    BY <1>1, <1>2, <2>1, NoEventStep
<1>3. CASE ~me.found /\ UNCHANGED skips /\ events' = Append(events, new)
  <2>1. /\ me.run \in 1..Len(trail) /\ me.before \in 1..(me.run - 1)
        /\ trail[me.before].line = trail[me.run].line /\ trail[me.run].line \in Line
        /\ trail[me.run].result = "FAILED" /\ trail[me.before].result \in {"PASSED", "SKIPPED"}
    BY <1>1, TrailTyped DEF RegressionIInv, RecorderKnown
  <2>2. Len(trail) \in 0..RunBound
    BY TrailTyped
  <2>3. new \in Event /\ new.line = trail[me.run].line /\ new.looked = me.looked /\ me.looked \in Nat
    BY <2>1, <2>2, RegressionAssumption DEF Event, OpenStatus, RegressionIInv, RegressionTypeOK
  <2>4. IsTrue(new)
    BY <2>1, <2>2, RegressionAssumption DEF IsTrue
  <2> HIDE DEF new
  <2>5. /\ events' \in Seq(Event) /\ DOMAIN events' = 1..(Len(events) + 1)
        /\ \A e \in 1..Len(events) : events'[e] = events[e]
        /\ events'[Len(events) + 1] = new
    BY <1>3, <2>3, EventTyped, AppendProperties
  <2>6. EventsKnown'
    <3>1. \A e \in DOMAIN events' : IsTrue(events'[e])
      BY <2>4, <2>5, EventTyped DEF RegressionIInv, EventsKnown
    <3>2. QED
      BY <1>1, <3>1 DEF EventsKnown, IsTrue
  <2>7. Twice(events')
    <3> SUFFICES ASSUME NEW line \in Line, NEW e \in DOMAIN events', NEW f \in DOMAIN events', e < f,
                        Counts(events'[e], line), Counts(events'[f], line)
                 PROVE  events'[f].looked < e
      BY DEF Twice
    <3>1. e \in DOMAIN events /\ events'[e] = events[e]
      BY <2>5, EventTyped
    <3>2. CASE f \in DOMAIN events
      BY <2>5, <3>1, <3>2, EventTyped DEF RegressionIInv, LookedFirst, Twice
    <3>3. CASE f = Len(events) + 1
      <4>1. events'[f] = new /\ line = trail[me.run].line
        BY <2>3, <2>5, <3>3 DEF Counts
      <4>2. ~(e <= me.looked)
        BY <1>1, <1>3, <3>1, <4>1 DEF RegressionIInv, LookedFirst, Missed
      <4>3. QED
        BY <2>3, <2>5, <4>1, <4>2, EventTyped
    <3>4. QED
      BY <2>5, <3>2, <3>3, EventTyped
  <2>8. ASSUME NEW q \in Recorder \ {r} PROVE Missed(q, events')
    <3> SUFFICES ASSUME recorder[q].at = "create", ~recorder[q].found
                 PROVE  /\ recorder[q].looked <= Len(events')
                        /\ \A e \in DOMAIN events' : e <= recorder[q].looked =>
                             ~Counts(events'[e], trail[recorder[q].run].line)
      BY DEF Missed
    <3>1. /\ recorder[q].looked \in Nat /\ recorder[q].looked <= Len(events)
          /\ \A e \in DOMAIN events : e <= recorder[q].looked =>
               ~Counts(events[e], trail[recorder[q].run].line)
      BY DEF RegressionIInv, RegressionTypeOK, LookedFirst, Missed
    <3>2. Len(events') = Len(events) + 1
      BY <1>3, <2>3, EventTyped, AppendProperties
    <3>3. QED
      BY <2>5, <3>1, <3>2, EventTyped
  <2>9. words' \in 0..WordBound /\ skips' \in 0..SkipBound
    BY <1>1, <1>3 DEF RegressionIInv, RegressionTypeOK
  <2>10. QED
    BY <1>1, <2>5, <2>6, <2>7, <2>8, <2>9, OverStep
<1>4. QED
  BY <1>2, <1>3 DEF CreateRegression

\* Events that are closed or judged stay true, and none comes to count.
LEMMA EventsChange ==
  ASSUME RegressionIInv, UNCHANGED trail, events' = [e \in DOMAIN events |-> events'[e]],
         \A e \in DOMAIN events : events'[e] \in Event /\ IsTrue(events'[e]),
         \A e \in DOMAIN events : events'[e].looked = events[e].looked,
         \A e \in DOMAIN events : \A line : Counts(events'[e], line) => Counts(events[e], line)
  PROVE  /\ events' \in Seq(Event) /\ EventsKnown' /\ Twice(events')
         /\ \A q \in Recorder : Missed(q, events')
<1>1. EventsKnown'
  BY DEF EventsKnown, IsTrue
<1>2. events' \in Seq(Event)
  <2>1. DOMAIN events' = 1..Len(events) /\ Len(events) \in Nat
    BY EventTyped
  <2>2. \A e \in 1..Len(events) : events'[e] \in Event
    BY <2>1
  <2>3. events' \in [1..Len(events) -> Event]
    BY <2>1, <2>2
  <2>4. QED
    BY <2>1, <2>3, SeqDef
<1>3. Len(events') = Len(events) /\ DOMAIN events' = DOMAIN events
  BY <1>2, EventTyped
<1>3a. Twice(events')
  BY <1>3 DEF RegressionIInv, LookedFirst, Twice
<1>3b. \A q \in Recorder : Missed(q, events')
  BY <1>3 DEF RegressionIInv, LookedFirst, Missed
<1>4. QED
  BY <1>1, <1>2, <1>3a, <1>3b

LEMMA ResolvedEvent ==
  ASSUME NEW it \in Event, NEW i \in 0..RunBound
  PROVE  LET new == [it EXCEPT !.status = "resolved", !.recovery = i] IN
         /\ new \in Event /\ new.status = "resolved" /\ new.recovery = i /\ new.run = it.run
         /\ new.before = it.before /\ new.line = it.line /\ new.looked = it.looked
BY DEF Event

LEMMA ResolveStep ==
  ASSUME RegressionIInv, NEW r \in Recorder, ResolveRecovered(r)
  PROVE  RegressionIInv'
<1> DEFINE me == recorder[r]
           Mended(it) == IF it.status \in OpenStatus
                         THEN [it EXCEPT !.status = "resolved", !.recovery = me.run] ELSE it
<1>1. me.at = "resolve" /\ Goes(r, "over") /\ UNCHANGED <<trail, words>>
  BY DEF ResolveRecovered
<1>2. CASE UNCHANGED events
  <2>1. UNCHANGED skips \/ Skips
    BY DEF ResolveRecovered
  <2>1a. skips' \in 0..SkipBound
    BY <2>1, RegressionAssumption DEF Skips, RegressionIInv, RegressionTypeOK
  <2>2. QED
    BY <1>1, <1>2, <2>1a, NoEventStep
<1>3. CASE UNCHANGED skips /\ events' = [e \in DOMAIN events |-> Mended(events[e])]
  <2>1. /\ me.run \in 1..Len(trail) /\ me.before \in 1..(me.run - 1)
        /\ trail[me.before].line = trail[me.run].line
        /\ trail[me.run].result = "PASSED" /\ trail[me.before].result = "FAILED"
    BY <1>1 DEF RegressionIInv, RecorderKnown
  <2>2. Len(trail) \in 0..RunBound
    BY TrailTyped
  <2>3. ASSUME NEW it \in Event, IsTrue(it)
        PROVE  /\ Mended(it) \in Event /\ IsTrue(Mended(it))
               /\ Mended(it).looked = it.looked
               /\ \A line : Counts(Mended(it), line) => Counts(it, line)
    <3>1. CASE it.status \notin OpenStatus
      BY <2>3, <3>1
    <3>2. CASE it.status \in OpenStatus
      <4> DEFINE new == [it EXCEPT !.status = "resolved", !.recovery = me.run]
      <4>1. me.run \in 1..RunBound
        BY <2>1, <2>2, RegressionAssumption
      <4>1a. me.run \in 0..RunBound
        BY <4>1, RegressionAssumption
      <4>2. new \in Event
        BY <4>1a, ResolvedEvent
      <4>3. /\ new.status = "resolved" /\ new.recovery = me.run /\ new.run = it.run
            /\ new.before = it.before /\ new.line = it.line /\ new.looked = it.looked
        BY <4>1a, ResolvedEvent
      <4>4. Mended(it) = new
        BY <3>2
      <4> HIDE DEF new
      <4>5. IsTrue(new)
        BY <2>1, <2>2, <2>3, <4>1, <4>3, RegressionAssumption DEF IsTrue
      <4>6. \A line : ~Counts(new, line)
        BY <4>3 DEF Counts, OpenStatus
      <4>7. QED
        BY <4>2, <4>3, <4>4, <4>5, <4>6
    <3>3. QED
      BY <3>1, <3>2
  <2>4. /\ DOMAIN events' = DOMAIN events
        /\ events' = [e \in DOMAIN events |-> events'[e]]
        /\ \A e \in DOMAIN events : events'[e] = Mended(events[e])
    BY <1>3
  <2> HIDE DEF Mended
  <2>5. \A e \in DOMAIN events : events[e] \in Event /\ IsTrue(events[e])
    BY EventTyped DEF RegressionIInv, EventsKnown
  <2>6. \A e \in DOMAIN events : events'[e] \in Event /\ IsTrue(events'[e])
    BY <2>3, <2>4, <2>5
  <2>7. \A e \in DOMAIN events :
          /\ events'[e].looked = events[e].looked
          /\ \A line : Counts(events'[e], line) => Counts(events[e], line)
    BY <2>3, <2>4, <2>5
  <2>8. words' \in 0..WordBound /\ skips' \in 0..SkipBound
    BY <1>1, <1>3 DEF RegressionIInv, RegressionTypeOK
  <2>9. QED
    BY <1>1, <2>4, <2>6, <2>7, <2>8, EventsChange, OverStep
<1>4. QED
  BY <1>2, <1>3 DEF ResolveRecovered

LEMMA JudgeStep ==
  ASSUME RegressionIInv, NEW k \in DOMAIN events, NEW verdict \in {"confirmed", "false_positive"},
         Judge(k, verdict)
  PROVE  RegressionIInv'
<1> DEFINE again == events[k].reopened \/ (verdict = "confirmed" /\ events[k].status \notin OpenStatus)
           new == [events[k] EXCEPT !.status = verdict, !.reopened = again]
<1>1. /\ words < WordBound /\ words' = words + 1 /\ UNCHANGED <<trail, recorder, skips>>
      /\ events' = [events EXCEPT ![k].status = verdict, ![k].reopened = again]
  BY DEF Judge
<1>2. events[k] \in Event /\ IsTrue(events[k])
  BY EventTyped DEF RegressionIInv, EventsKnown
<1>3. /\ new \in Event /\ new.status = verdict /\ new.reopened = again /\ new.recovery = events[k].recovery
      /\ new.run = events[k].run /\ new.before = events[k].before /\ new.line = events[k].line
      /\ new.looked = events[k].looked
  BY <1>2 DEF Event, OpenStatus
<1>4. /\ DOMAIN events' = DOMAIN events /\ events'[k] = new
      /\ events' = [e \in DOMAIN events |-> events'[e]]
      /\ \A e \in DOMAIN events : e # k => events'[e] = events[e]
  BY <1>1, EventTyped
<1> HIDE DEF new
<1>5. IsTrue(new)
  BY <1>2, <1>3 DEF IsTrue
<1>6. \A line : Counts(new, line) => Counts(events[k], line)
  BY <1>2, <1>3 DEF Counts, OpenStatus, Event
<1>7. \A e \in DOMAIN events : events'[e] \in Event /\ IsTrue(events'[e])
  BY <1>3, <1>4, <1>5, EventTyped DEF RegressionIInv, EventsKnown
<1>8. \A e \in DOMAIN events :
        /\ events'[e].looked = events[e].looked
        /\ \A line : Counts(events'[e], line) => Counts(events[e], line)
  BY <1>3, <1>4, <1>6
<1>9. /\ events' \in Seq(Event) /\ EventsKnown' /\ Twice(events')
      /\ \A q \in Recorder : Missed(q, events')
  BY <1>1, <1>4, <1>7, <1>8, EventsChange
<1>10. LookedFirst'
  <2>1. \A q \in Recorder : Missed(q, events)'
    BY <1>1, <1>9 DEF Missed, Counts
  <2>2. QED
    BY <1>1, <1>9, <2>1 DEF LookedFirst, Twice, Counts
<1>11. words' \in 0..WordBound
  BY <1>1, RegressionAssumption DEF RegressionIInv, RegressionTypeOK
<1>12. RegressionTypeOK' /\ TrailKnown' /\ RecorderKnown'
  BY <1>1, <1>9, <1>11 DEF RegressionIInv, RegressionTypeOK, TrailKnown, RecorderKnown, Event
<1>13. QED
  BY <1>9, <1>10, <1>12 DEF RegressionIInv

LEMMA RegressionInvStep == RegressionIInv /\ [RegressionNext]_regressionVars => RegressionIInv'
<1> SUFFICES ASSUME RegressionIInv, [RegressionNext]_regressionVars PROVE RegressionIInv'
  OBVIOUS
<1>1. CASE \E line \in Line : CreateRun(line)
  BY <1>1, CreateRunStep
<1>2. CASE \E i \in DOMAIN trail : \/ \E result \in Result : EndRun(i, result)
                                  \/ \E r \in Recorder : evaluate(r, i)
  BY <1>2, EndRunStep, EvaluateStep
<1>3. CASE \E r \in Recorder : FindTracked(r) \/ CreateRegression(r) \/ ResolveRecovered(r)
  BY <1>3, FindStep, CreateRegressionStep, ResolveStep
<1>4. CASE \E e \in DOMAIN events, verdict \in {"confirmed", "false_positive"} : Judge(e, verdict)
  BY <1>4, JudgeStep
<1>5. CASE UNCHANGED regressionVars
  <2>2. RegressionTypeOK' /\ TrailKnown' /\ RecorderKnown'
    BY <1>5 DEF RegressionIInv, regressionVars, RegressionTypeOK, TrailKnown, RecorderKnown
  <2>3. EventsKnown'
    BY <1>5 DEF RegressionIInv, regressionVars, EventsKnown, IsTrue
  <2>4. LookedFirst'
    BY <1>5 DEF RegressionIInv, regressionVars, LookedFirst, Missed, Twice, Counts
  <2>5. QED
    BY <2>2, <2>3, <2>4 DEF RegressionIInv
<1>6. QED
  BY <1>1, <1>2, <1>3, <1>4, <1>5 DEF RegressionNext

LEMMA RegressionInvImplies == RegressionIInv => RegressionInv
<1> SUFFICES ASSUME RegressionIInv PROVE RegressionInv
  OBVIOUS
<1>1. EventsAreTrue
  BY DEF RegressionIInv, EventsKnown, IsTrue, EventsAreTrue
<1>3. TrackedOnce
  BY DEF RegressionIInv, LookedFirst, Twice, TrackedOnce
<1>4. QED
  BY <1>1, <1>3 DEF RegressionIInv, RegressionInv
-----------------------------------------------------------------------------
(* The import graph and the selection of tests *)

\* Where edges are, they have been seen by a scan; what scans have added lately is in
\* memory, and what builds have persisted lately is in the database.
EdgesKnown ==
  /\ graph \subseteq ever /\ stored \subseteq ever /\ fresh \subseteq graph /\ owed \subseteq stored
  /\ \A edges \in loading : edges \subseteq ever

\* The rows that a build is about to insert have been scanned.
Places == {"new", "scan", "clear", "collect", "insert", "over"}
IsBuild(me, upTo) ==
  \E at \in Places : \E todo, rows, due :
    /\ me = BuildAt(at, todo, rows, due)
    /\ rows \subseteq upTo /\ due \subseteq rows
BuildKnown == DOMAIN build = Builder /\ \A b \in Builder : IsBuild(build[b], ever)

GraphIInv == GraphTypeOK /\ EdgesKnown /\ BuildKnown

LEMMA IdleIsBuild ==
  ASSUME NEW at \in {"new", "over"}, NEW upTo
  PROVE  IsBuild(BuildAt(at, <<>>, {}, {}), upTo)
BY DEF IsBuild, Places

LEMMA GraphInvInit == GraphInit \/ GraphOnRecord => GraphIInv
<1> SUFFICES ASSUME GraphInit \/ GraphOnRecord PROVE GraphIInv
  OBVIOUS
<1>1. PICK at \in {"new", "over"} :
        build = [b \in Builder |-> BuildAt(at, <<>>, {}, {})]
  BY DEF GraphInit, GraphOnRecord, NoBuild, BuildOver
<1>2. BuildKnown
  BY <1>1, IdleIsBuild DEF BuildKnown
<1>3. DOMAIN build = Builder
      /\ \A b \in Builder : build[b].at \in {"new", "scan", "clear", "collect", "insert", "over"}
  BY <1>1 DEF BuildAt
<1>4. GraphTypeOK
  BY <1>3, GraphAssumption DEF GraphInit, GraphOnRecord, GraphTypeOK, Codebase
<1>5. EdgesKnown
  BY DEF GraphInit, GraphOnRecord, EdgesKnown
<1>6. QED
  BY <1>2, <1>4, <1>5 DEF GraphIInv

LEMMA MoreIsSeen ==
  ASSUME NEW me, NEW upTo, NEW more, IsBuild(me, upTo), upTo \subseteq more PROVE IsBuild(me, more)
BY DEF IsBuild

\* A step of one build, which has collected nothing that no scan has seen.
LEMMA OneBuild ==
  ASSUME GraphIInv, NEW b \in Builder, NEW new, build' = [build EXCEPT ![b] = new],
         ever \subseteq ever', IsBuild(new, ever')
  PROVE  BuildKnown'
<1>1. /\ DOMAIN build' = Builder /\ build'[b] = new
      /\ \A c \in Builder : c # b => build'[c] = build[c]
  BY DEF GraphIInv, BuildKnown
<1>2. \A c \in Builder : c # b => IsBuild(build'[c], ever')
  BY <1>1, MoreIsSeen DEF GraphIInv, BuildKnown
<1>3. QED
  BY <1>1, <1>2 DEF BuildKnown

LEMMA FaultTyped ==
  ASSUME faults \in 0..FaultBound, NEW fault, May(fault) PROVE faults' \in 0..FaultBound
BY GraphAssumption DEF May

LEMMA EditStep == GraphIInv /\ EditImports => GraphIInv'
<1> SUFFICES ASSUME GraphIInv, EditImports PROVE GraphIInv'
  OBVIOUS
<1>1. imports' \in SUBSET (Codebase \X Source)
  BY GraphAssumption DEF EditImports, Codebase
<1>2. GraphTypeOK' /\ EdgesKnown' /\ BuildKnown'
  BY <1>1 DEF GraphIInv, EditImports, GraphTypeOK, EdgesKnown, BuildKnown
<1>3. QED
  BY <1>2 DEF GraphIInv

\* The types follow from what a build is.
LEMMA BuildTyped ==
  ASSUME GraphIInv, BuildKnown', UNCHANGED <<imports, root>>, faults' \in 0..FaultBound
  PROVE  GraphTypeOK'
<1>1. ASSUME NEW b \in Builder
      PROVE  build'[b].at \in {"new", "scan", "clear", "collect", "insert", "over"}
  <2>1. PICK at \in Places : \E todo, rows, due :
          build'[b] = BuildAt(at, todo, rows, due)
    BY DEF BuildKnown, IsBuild
  <2>2. build'[b].at = at
    BY <2>1 DEF BuildAt
  <2>3. QED
    BY <2>2 DEF Places
<1>2. QED
  BY <1>1 DEF GraphIInv, GraphTypeOK, BuildKnown

LEMMA BuildStep ==
  ASSUME GraphIInv, NEW b \in Builder, buildGraph(b) PROVE GraphIInv'
<1>1. /\ UNCHANGED <<imports, root, graph, stored, loading, faults, ever, fresh, owed>>
      /\ ever \subseteq ever'
  BY DEF buildGraph
<1> DEFINE new == BuildAt("scan", SetToSeq(Codebase), {}, {})
<1>4. IsBuild(new, ever')
  BY DEF IsBuild, Places
<1>5. build' = [build EXCEPT ![b] = new]
  BY DEF buildGraph
<1> HIDE DEF new
<1>6. BuildKnown'
  BY <1>1, <1>4, <1>5, OneBuild
<1>7. EdgesKnown' /\ faults' \in 0..FaultBound
  BY <1>1 DEF GraphIInv, EdgesKnown, GraphTypeOK
<1>8. QED
  BY <1>1, <1>6, <1>7, BuildTyped DEF GraphIInv

LEMMA ScanStep ==
  ASSUME GraphIInv, NEW b \in Builder, ScanFile(b) PROVE GraphIInv'
<1>1. PICK found : \E unreadable \in BOOLEAN :
        /\ May(unreadable)
        /\ graph' = graph \cup found /\ ever' = ever \cup found /\ fresh' = fresh \cup found
        /\ ever \subseteq ever'
        /\ UNCHANGED <<imports, root, stored, loading, owed>>
  BY DEF ScanFile
<1>2. PICK at \in {"clear", "scan"} : at = IF Len(build[b].todo) = 1 THEN "clear" ELSE "scan"
  OBVIOUS
<1> DEFINE new == BuildAt(at, Tail(build[b].todo), {}, {})
<1>4. IsBuild(new, ever')
  BY DEF IsBuild, Places
<1>5. build' = [build EXCEPT ![b] = new]
  BY <1>2 DEF ScanFile
<1> HIDE DEF new
<1>6. BuildKnown'
  BY <1>1, <1>4, <1>5, OneBuild
<1>7. faults' \in 0..FaultBound
  BY <1>1, FaultTyped DEF GraphIInv, GraphTypeOK
<1>8. EdgesKnown'
  BY <1>1 DEF GraphIInv, EdgesKnown
<1>9. QED
  BY <1>1, <1>6, <1>7, <1>8, BuildTyped DEF GraphIInv

LEMMA ClearStep ==
  ASSUME GraphIInv, NEW b \in Builder, ClearStored(b) PROVE GraphIInv'
<1>1. PICK fails \in BOOLEAN :
        /\ May(fails)
        /\ build' = [build EXCEPT ![b] = IF fails THEN BuildOver ELSE BuildAt("collect", <<>>, {}, {})]
        /\ stored' = IF fails THEN stored ELSE {}
        /\ owed' = IF fails THEN owed ELSE {}
        /\ UNCHANGED <<imports, root, graph, loading, ever, fresh>>
        /\ ever \subseteq ever'
  BY DEF ClearStored
<1> DEFINE new == IF fails THEN BuildOver ELSE BuildAt("collect", <<>>, {}, {})
<1>4. IsBuild(new, ever')
  <2>1. CASE fails  BY <2>1 DEF IsBuild, Places, BuildOver
  <2>2. CASE ~fails  BY <2>2 DEF IsBuild, Places
  <2>3. QED BY <2>1, <2>2
<1>5. build' = [build EXCEPT ![b] = new]
  BY <1>1
<1> HIDE DEF new
<1>6. BuildKnown'
  BY <1>1, <1>4, <1>5, OneBuild
<1>7. faults' \in 0..FaultBound
  BY <1>1, FaultTyped DEF GraphIInv, GraphTypeOK
<1>8. EdgesKnown'
  BY <1>1 DEF GraphIInv, EdgesKnown
<1>9. QED
  BY <1>1, <1>6, <1>7, <1>8, BuildTyped DEF GraphIInv

LEMMA CollectStep ==
  ASSUME GraphIInv, NEW b \in Builder, CollectEdges(b) PROVE GraphIInv'
<1>1. /\ UNCHANGED <<imports, root, graph, stored, loading, faults, ever, fresh, owed>>
      /\ ever \subseteq ever'
  BY DEF CollectEdges
<1> DEFINE new == BuildAt("insert", <<>>, graph, fresh)
<1>4. IsBuild(new, ever')
  BY <1>1 DEF IsBuild, Places, GraphIInv, EdgesKnown
<1>5. build' = [build EXCEPT ![b] = new]
  BY DEF CollectEdges
<1> HIDE DEF new
<1>6. BuildKnown'
  BY <1>1, <1>4, <1>5, OneBuild
<1>7. EdgesKnown' /\ faults' \in 0..FaultBound
  BY <1>1 DEF GraphIInv, EdgesKnown, GraphTypeOK
<1>8. QED
  BY <1>1, <1>6, <1>7, BuildTyped DEF GraphIInv

LEMMA InsertStep ==
  ASSUME GraphIInv, NEW b \in Builder, InsertEdges(b) PROVE GraphIInv'
<1>1. /\ UNCHANGED <<imports, root, graph, loading, ever, fresh>>
      /\ ever \subseteq ever'
  BY DEF InsertEdges
<1> DEFINE new == BuildOver
<1>4. IsBuild(new, ever')
  BY DEF IsBuild, Places, BuildOver
<1>5. build' = [build EXCEPT ![b] = new]
  BY DEF InsertEdges
<1> HIDE DEF new
<1>6. BuildKnown'
  BY <1>1, <1>4, <1>5, OneBuild
<1>7. PICK rows, due : /\ build[b].rows = rows /\ build[b].due = due
                       /\ rows \subseteq ever /\ due \subseteq rows
  <2>1. PICK at, todo, rows, due : /\ build[b] = BuildAt(at, todo, rows, due)
                                   /\ rows \subseteq ever /\ due \subseteq rows
    BY DEF GraphIInv, BuildKnown, IsBuild
  <2>2. build[b].rows = rows /\ build[b].due = due
    BY <2>1 DEF BuildAt
  <2>3. QED
    BY <2>1, <2>2
<1>8. PICK some, paid :
        /\ some \subseteq rows /\ paid \subseteq some
        /\ stored' = stored \cup some /\ owed' = owed \cup paid
        /\ faults' \in 0..FaultBound
  <2>1. CASE /\ UNCHANGED faults
             /\ stored' = stored \cup rows /\ owed' = owed \cup due
    BY <1>7, <2>1 DEF GraphIInv, GraphTypeOK
  <2>2. CASE /\ May(rows \cap stored = {}) /\ UNCHANGED owed
             /\ \E some \in SUBSET (rows \ stored) : stored' = stored \cup some
    <3>1. PICK some \in SUBSET (rows \ stored) : stored' = stored \cup some
      BY <2>2
    <3>2. faults' \in 0..FaultBound
      BY <2>2, FaultTyped DEF GraphIInv, GraphTypeOK
    <3> DEFINE paid == {}
    <3>3. owed' = owed \cup paid /\ paid \subseteq some /\ some \subseteq rows
      BY <2>2, <3>1
    <3> HIDE DEF paid
    <3>4. QED
      BY <3>1, <3>2, <3>3
  <2>3. QED
    BY <1>7, <2>1, <2>2 DEF InsertEdges
<1>9. EdgesKnown'
  BY <1>1, <1>7, <1>8 DEF GraphIInv, EdgesKnown
<1>10. QED
  BY <1>1, <1>6, <1>8, <1>9, BuildTyped DEF GraphIInv

LEMMA AskEdgesStep == GraphIInv /\ AskEdges => GraphIInv'
<1> SUFFICES ASSUME GraphIInv, AskEdges PROVE GraphIInv'
  OBVIOUS
<1>1. EdgesKnown'
  BY DEF GraphIInv, AskEdges, EdgesKnown
<1>2. GraphTypeOK' /\ BuildKnown'
  BY DEF GraphIInv, AskEdges, GraphTypeOK, BuildKnown
<1>3. QED
  BY <1>1, <1>2 DEF GraphIInv

LEMMA LoadStep == GraphIInv /\ loadFromDatabase => GraphIInv'
<1> SUFFICES ASSUME GraphIInv, loadFromDatabase PROVE GraphIInv'
  OBVIOUS
<1>1. PICK fails \in BOOLEAN, edges \in loading :
        /\ loading' \in {loading, loading \ {edges}} /\ May(fails)
        /\ graph' = IF fails THEN graph ELSE edges
        /\ fresh' = IF fails THEN fresh ELSE fresh \cap edges
        /\ UNCHANGED <<imports, root, stored, build, ever, owed>>
  BY DEF loadFromDatabase
<1>2. faults' \in 0..FaultBound
  BY <1>1, FaultTyped DEF GraphIInv, GraphTypeOK
<1>3. EdgesKnown'
  BY <1>1 DEF GraphIInv, EdgesKnown
<1>4. GraphTypeOK' /\ BuildKnown'
  BY <1>1, <1>2 DEF GraphIInv, GraphTypeOK, BuildKnown
<1>5. QED
  BY <1>3, <1>4 DEF GraphIInv

LEMMA RestartStep == GraphIInv /\ GraphRestarts => GraphIInv'
<1> SUFFICES ASSUME GraphIInv, GraphRestarts PROVE GraphIInv'
  OBVIOUS
<1>1. /\ graph' = {} /\ loading' = {} /\ fresh' = {}
      /\ UNCHANGED <<imports, root, stored, faults, ever, owed>>
      /\ build' = [b \in Builder |-> IF build[b].at = "new" THEN NoBuild ELSE BuildOver]
  BY DEF GraphRestarts
<1>2. /\ DOMAIN build' = Builder
      /\ \A b \in Builder : \E at \in {"new", "over"} :
           build'[b] = BuildAt(at, <<>>, {}, {})
  BY <1>1 DEF NoBuild, BuildOver
<1>3. BuildKnown'
  BY <1>2, IdleIsBuild DEF BuildKnown
<1>4. EdgesKnown' /\ faults' \in 0..FaultBound
  BY <1>1 DEF GraphIInv, EdgesKnown, GraphTypeOK
<1>5. QED
  BY <1>1, <1>3, <1>4, BuildTyped DEF GraphIInv

LEMMA GraphRestsStep ==
  ASSUME GraphIInv, UNCHANGED <<imports, root, graph, stored, build, loading, ever, fresh, owed>>,
         faults' \in 0..FaultBound
  PROVE  GraphIInv'
BY DEF GraphIInv, GraphTypeOK, EdgesKnown, BuildKnown

LEMMA GraphInvImplies == GraphIInv => GraphTypeOK /\ GraphIsTrue
BY DEF GraphIInv, EdgesKnown, GraphIsTrue

LEMMA GraphStep == GraphIInv /\ GraphNext => GraphIInv'
BY EditStep, BuildStep, ScanStep, ClearStep, CollectStep, InsertStep, AskEdgesStep, LoadStep, RestartStep
   DEF GraphNext
-----------------------------------------------------------------------------
\* The tests that details name.
TestsOf(details) == UNION {d.tests : d \in details}

LEMMA TestsOfBoth == \A D, E : TestsOf(D \cup E) = TestsOf(D) \cup TestsOf(E)
BY DEF TestsOf

\* A changed file that is behind the request has led to its tests.
Handled(f) ==
  /\ f \notin Config
  /\ f \in Suite => f \in asked.selected
  /\ (f \in Source /\ (~asked.options.validate \/ ToSet(Candidate[f]) \cap Suite # {}))
       => \E d \in asked.details : d.file = f /\ d.tests # {}

Searching == {"files", "dependency", "loading", "convention"}

SelectionTypes ==
  /\ coverage \in SUBSET [test : Suite, source : Source, recent : BOOLEAN]
  /\ related \in SUBSET [file : ChangedFile, test : Suite, strong : BOOLEAN]
  /\ cofailing \in SUBSET (Suite \X Suite)
  /\ quarantined \in SUBSET Suite /\ turns \in 0..TurnBound
  /\ asked.at \in Searching \cup {"idle", "exclude", "answered"}

AskedShape ==
  /\ asked = [at |-> asked.at, files |-> asked.files, todo |-> asked.todo, options |-> asked.options,
              details |-> asked.details, selected |-> asked.selected, added |-> asked.added,
              excluded |-> asked.excluded]
  /\ asked.files \in Seq(ChangedFile) /\ asked.todo \in Seq(ChangedFile)

\* Before it is answered, a request has handled its files up to those that are left, and
\* has selected what its details name.
RequestKnown ==
  asked.at \in Searching \cup {"exclude"} =>
    /\ \A f \in ToSet(asked.files) : f \in ToSet(asked.todo) \/ Handled(f)
    /\ ToSet(asked.todo) \subseteq ToSet(asked.files)
    /\ ALL \notin asked.selected /\ asked.excluded = {}
    /\ asked.selected = TestsOf(asked.details) \cup asked.added
    /\ asked.at \in Searching => asked.added = {}
    /\ asked.at = "exclude" => asked.todo = <<>>
    /\ asked.at \in Searching \ {"files"} =>
         asked.todo # <<>> /\ Head(asked.todo) \notin Config \cup Suite

RequestIInv == SelectionTypes /\ AskedShape /\ RequestKnown /\ AnswersAreComplete

LEMMA HeadAndRest ==
  ASSUME NEW S, NEW s \in Seq(S), s # <<>>
  PROVE  Head(s) \in S /\ Tail(s) \in Seq(S) /\ ToSet(s) = {Head(s)} \cup ToSet(Tail(s))
<1>1. Len(s) \in Nat /\ Len(s) >= 1 /\ DOMAIN s = 1..Len(s) /\ Head(s) = s[1] /\ Tail(s) \in Seq(S)
  OBVIOUS
<1>2. /\ DOMAIN Tail(s) = 1..(Len(s) - 1)
      /\ \A i \in 1..(Len(s) - 1) : Tail(s)[i] = s[i + 1]
  BY <1>1
<1>3. ToSet(s) \subseteq {Head(s)} \cup ToSet(Tail(s))
  <2> SUFFICES ASSUME NEW i \in 1..Len(s), i # 1 PROVE s[i] \in ToSet(Tail(s))
    BY <1>1 DEF ToSet
  <2>1. i - 1 \in 1..(Len(s) - 1) /\ s[i] = Tail(s)[i - 1]
    BY <1>1, <1>2
  <2>2. QED
    BY <1>2, <2>1 DEF ToSet
<1>4. {Head(s)} \cup ToSet(Tail(s)) \subseteq ToSet(s)
  <2>1. Head(s) \in ToSet(s)
    BY <1>1 DEF ToSet
  <2>2. ASSUME NEW i \in 1..(Len(s) - 1) PROVE Tail(s)[i] \in ToSet(s)
    <3>1. i + 1 \in 1..Len(s)
      BY <1>1
    <3>2. QED
      BY <1>1, <1>2, <3>1 DEF ToSet
  <2>3. QED
    BY <1>2, <2>1, <2>2 DEF ToSet
<1>5. QED
  BY <1>1, <1>3, <1>4

LEMMA RequestInvInit == SelectionInit => RequestIInv
<1> SUFFICES ASSUME SelectionInit PROVE RequestIInv
  OBVIOUS
<1>1. /\ asked.at = "idle" /\ asked.files = <<>> /\ asked.todo = <<>>
      /\ asked = [at |-> asked.at, files |-> asked.files, todo |-> asked.todo, options |-> asked.options,
              details |-> asked.details, selected |-> asked.selected, added |-> asked.added,
              excluded |-> asked.excluded]
  BY DEF SelectionInit, Idle
<1>2. related \in SUBSET [file : ChangedFile, test : Suite, strong : BOOLEAN]
  BY DEF SelectionInit, buildFileCorrelations
<1>3. cofailing \in SUBSET (Suite \X Suite)
  BY DEF SelectionInit, buildCoFailureMatrix
<1>4. SelectionTypes
  BY <1>1, <1>2, <1>3, SelectionAssumption DEF SelectionInit, SelectionTypes
<1>5. AskedShape /\ RequestKnown /\ AnswersAreComplete
  BY <1>1 DEF AskedShape, RequestKnown, AnswersAreComplete, Answered, Searching
<1>6. QED
  BY <1>4, <1>5 DEF RequestIInv

\* What the request does not move leaves it as it is.
LEMMA AskedRestsStep ==
  ASSUME RequestIInv, UNCHANGED asked, SelectionTypes'
  PROVE  RequestIInv'
BY
   DEF RequestIInv, AskedShape, RequestKnown, Handled, AnswersAreComplete, Answered, RunsAll,
       Details, Correlated

LEMMA WorldStep ==
  ASSUME RequestIInv,
         \/ CoverageAges
         \/ \E t \in Suite : ChangeQuarantine(t) \/ \E f \in Source : storeCoverage(t, f)
         \/ \E changed, failed : RecordRun(changed, failed)
  PROVE  RequestIInv' /\ UNCHANGED graphVars
<1>1. /\ UNCHANGED <<graphVars, related, cofailing, asked>>
      /\ turns < TurnBound /\ turns' = turns + 1
  BY DEF CoverageAges, ChangeQuarantine, storeCoverage, RecordRun, WorldRests, memory, Turns
<1>2. turns' \in 0..TurnBound
  BY <1>1, SelectionAssumption DEF RequestIInv, SelectionTypes
<1>3. coverage' \in SUBSET [test : Suite, source : Source, recent : BOOLEAN]
  <2>1. coverage \in SUBSET [test : Suite, source : Source, recent : BOOLEAN]
    BY DEF RequestIInv, SelectionTypes
  <2>2. CASE CoverageAges
    BY <2>1, <2>2 DEF CoverageAges
  <2>3. CASE \E t \in Suite : ChangeQuarantine(t)
    BY <2>1, <2>3 DEF ChangeQuarantine
  <2>4. CASE \E t \in Suite : \E f \in Source : storeCoverage(t, f)
    <3>1. PICK t \in Suite, f \in Source :
            coverage' = {r \in coverage : <<r.test, r.source>> # <<t, f>>}
                          \cup {[test |-> t, source |-> f, recent |-> TRUE]}
      BY <2>4 DEF storeCoverage
    <3>2. coverage' \subseteq coverage \cup {[test |-> t, source |-> f, recent |-> TRUE]}
      BY <3>1
    <3>3. [test |-> t, source |-> f, recent |-> TRUE] \in [test : Suite, source : Source, recent : BOOLEAN]
      OBVIOUS
    <3>4. QED
      BY <2>1, <3>2, <3>3
  <2>5. CASE \E changed, failed : RecordRun(changed, failed)
    BY <2>1, <2>5 DEF RecordRun
  <2>6. QED
    BY <2>2, <2>3, <2>4, <2>5
<1>4. quarantined' \in SUBSET Suite
  BY DEF RequestIInv, SelectionTypes, CoverageAges, ChangeQuarantine, storeCoverage, RecordRun
<1>5. SelectionTypes'
  BY <1>1, <1>2, <1>3, <1>4 DEF RequestIInv, SelectionTypes
<1>6. QED
  BY <1>1, <1>5, AskedRestsStep

LEMMA AskStep ==
  ASSUME RequestIInv, NEW files \in Requests, NEW options \in Options, Ask(files, options)
  PROVE  RequestIInv' /\ UNCHANGED graphVars
<1>1. /\ asked' = [Idle EXCEPT !.at = "files", !.files = files, !.todo = files, !.options = options]
      /\ UNCHANGED <<graphVars, related, cofailing, coverage, history, quarantined, turns>>
  BY DEF Ask, memory, RequestMoves, world
<1>2. asked' = [at |-> "files", files |-> files, todo |-> files, options |-> options, details |-> {},
               selected |-> {}, added |-> {}, excluded |-> {}]
  BY <1>1 DEF Idle
<1>3. files \in Seq(ChangedFile)
  <2>1. \A f, g \in ChangedFile : <<f>> \in Seq(ChangedFile) /\ <<f, g>> \in Seq(ChangedFile)
    OBVIOUS
  <2>2. Source \subseteq ChangedFile
    BY DEF ChangedFile, Codebase
  <2>3. CASE \E f \in ChangedFile : files = <<f>>
    BY <2>1, <2>3
  <2>4. CASE \E f \in Source : \E g \in ChangedFile \ Source : files = <<f, g>>
    BY <2>1, <2>2, <2>4
  <2>5. QED
    BY <2>3, <2>4 DEF Requests
<1>4. SelectionTypes'
  BY <1>1, <1>2 DEF RequestIInv, SelectionTypes, Searching
<1>5. AskedShape'
  BY <1>2, <1>3 DEF AskedShape
<1>6. RequestKnown' /\ AnswersAreComplete'
  BY <1>2 DEF RequestKnown, AnswersAreComplete, Answered, Searching, TestsOf
<1>7. QED
  BY <1>1, <1>4, <1>5, <1>6 DEF RequestIInv

\* The request turns to another way of finding tests.
LEMMA TurnStep ==
  ASSUME RequestIInv, asked.at \in Searching, NEW next \in Searching \ {"files"},
         asked' = [asked EXCEPT !.at = next],
         asked.todo # <<>>, Head(asked.todo) \notin Config \cup Suite,
         UNCHANGED <<related, cofailing, world>>
  PROVE  RequestIInv'
<1>1. asked' = [at |-> next, files |-> asked.files, todo |-> asked.todo, options |-> asked.options,
               details |-> asked.details, selected |-> asked.selected, added |-> asked.added,
               excluded |-> asked.excluded]
  BY DEF RequestIInv, AskedShape
<1>2. next \in Searching \ {"files"} /\ next # "exclude" /\ next # "answered"
  BY DEF Searching
<1>3. SelectionTypes'
  BY <1>1, <1>2 DEF RequestIInv, SelectionTypes, world
<1>4. AskedShape'
  BY <1>1 DEF RequestIInv, AskedShape
<1>5. \A f : Handled(f)' = Handled(f)
  BY <1>1 DEF Handled
<1>6. RequestKnown'
  BY <1>1, <1>2, <1>5 DEF RequestIInv, RequestKnown
<1>7. AnswersAreComplete'
  BY <1>1, <1>2 DEF AnswersAreComplete, Answered
<1>8. QED
  BY <1>3, <1>4, <1>6, <1>7 DEF RequestIInv

\* The request leaves a file behind with its tests.
LEMMA MappedStep ==
  ASSUME RequestIInv, asked.at \in Searching, NEW tests, NEW strategy, Mapped(tests, strategy, "files"),
         asked.todo # <<>>, Head(asked.todo) \notin Config,
         Head(asked.todo) \in Suite => Head(asked.todo) \in tests,
         (/\ Head(asked.todo) \in Source
          /\ ~asked.options.validate \/ ToSet(Candidate[Head(asked.todo)]) \cap Suite # {})
            => tests # {},
         ALL \notin tests, UNCHANGED <<related, cofailing, world>>
  PROVE  RequestIInv'
<1>0. PICK f : f = Head(asked.todo)
  OBVIOUS
<1> DEFINE new == IF tests = {} THEN {} ELSE {[file |-> f, tests |-> tests, strategy |-> strategy]}
<1>1. asked' = [asked EXCEPT !.todo = Tail(@), !.at = "files", !.selected = @ \cup tests,
                            !.details = @ \cup new]
  BY <1>0 DEF Mapped
<1>2. asked' = [at |-> "files", files |-> asked.files, todo |-> Tail(asked.todo),
               options |-> asked.options, details |-> asked.details \cup new,
               selected |-> asked.selected \cup tests, added |-> asked.added,
               excluded |-> asked.excluded]
  BY <1>1 DEF RequestIInv, AskedShape
<1>3. /\ TestsOf(new) = tests
      /\ tests # {} => \E d \in new : d.file = f /\ d.tests # {}
  <2>1. CASE tests = {}
    BY <2>1 DEF TestsOf
  <2>2. CASE tests # {}
    <3>1. new = {[file |-> f, tests |-> tests, strategy |-> strategy]}
      BY <2>2
    <3> HIDE DEF new
    <3>2. QED
      BY <3>1 DEF TestsOf
  <2>3. QED
    BY <2>1, <2>2
<1> HIDE DEF new
<1>4. /\ Tail(asked.todo) \in Seq(ChangedFile) /\ ToSet(asked.todo) = {f} \cup ToSet(Tail(asked.todo))
  BY <1>0, HeadAndRest DEF RequestIInv, AskedShape
<1>5. SelectionTypes'
  BY <1>2 DEF RequestIInv, SelectionTypes, world, Searching
<1>6. AskedShape'
  BY <1>2, <1>4 DEF RequestIInv, AskedShape
<1>7. Handled(f)'
  BY <1>0, <1>2, <1>3 DEF Handled
<1>8. \A g : Handled(g) => Handled(g)'
  BY <1>2 DEF Handled
<1>9. \A g \in ToSet(asked'.files) : g \in ToSet(asked'.todo) \/ Handled(g)'
  BY <1>2, <1>4, <1>7, <1>8 DEF RequestIInv, RequestKnown
<1>10. asked'.selected = TestsOf(asked'.details) \cup asked'.added
  <2>1. asked.selected = TestsOf(asked.details) \cup asked.added
    BY DEF RequestIInv, RequestKnown
  <2>2. /\ asked'.selected = asked.selected \cup tests /\ asked'.added = asked.added
        /\ asked'.details = asked.details \cup new
    BY <1>2
  <2>3. TestsOf(asked'.details) = TestsOf(asked.details) \cup tests
    BY <1>3, <2>2, TestsOfBoth
  <2>4. QED
    BY <2>1, <2>2, <2>3
<1>11. RequestKnown'
  BY <1>2, <1>4, <1>9, <1>10 DEF RequestIInv, RequestKnown, Searching
<1>12. AnswersAreComplete'
  BY <1>2 DEF AnswersAreComplete, Answered
<1>13. QED
  BY <1>5, <1>6, <1>11, <1>12 DEF RequestIInv

LEMMA RunAllStep ==
  ASSUME RequestIInv, RunAll
  PROVE  RequestIInv' /\ UNCHANGED graphVars
<1> DEFINE f == Head(asked.todo)
<1>1. /\ asked' = [Idle EXCEPT !.at = "answered", !.files = asked.files, !.options = asked.options,
                   !.selected = {ALL}, !.details = {[file |-> f, tests |-> {ALL}, strategy |-> "global"]}]
      /\ asked.at = "files" /\ asked.todo # <<>> /\ f \in Config
      /\ UNCHANGED <<graphVars, related, cofailing, coverage, history, quarantined, turns>>
  BY DEF RunAll, memory, RequestMoves, world
<1>2. asked' = [at |-> "answered", files |-> asked.files, todo |-> <<>>, options |-> asked.options,
               details |-> {[file |-> f, tests |-> {ALL}, strategy |-> "global"]},
               selected |-> {ALL}, added |-> {}, excluded |-> {}]
  BY <1>1 DEF Idle
<1>3. f \in ToSet(asked.files) \cap Config
  BY <1>1, HeadAndRest DEF RequestIInv, AskedShape, RequestKnown, Searching
<1> HIDE DEF f
<1>4. SelectionTypes'
  BY <1>1, <1>2 DEF RequestIInv, SelectionTypes
<1>5. AskedShape'
  BY <1>2 DEF RequestIInv, AskedShape
<1>6. RequestKnown'
  BY <1>2 DEF RequestKnown, Searching
<1>7. AnswersAreComplete'
  BY <1>2, <1>3 DEF AnswersAreComplete, RunsAll
<1>8. QED
  BY <1>1, <1>4, <1>5, <1>6, <1>7 DEF RequestIInv

\* No test bears the name of them all.
LEMMA NamesOfTests ==
  /\ ALL \notin TestName
  /\ \A file : ALL \notin getTestsForFile(file)
  /\ RequestIInv => \A file : ALL \notin getCoverageBasedTests(file)
<1>1. ALL \notin TestName
  BY SelectionAssumption DEF ALL, TestName
<1>2. \A file : ALL \notin getTestsForFile(file)
  BY <1>1 DEF getTestsForFile, isTestFile
<1>3. ASSUME RequestIInv, NEW file PROVE ALL \notin getCoverageBasedTests(file)
  BY <1>3, SelectionAssumption
     DEF RequestIInv, SelectionTypes, getCoverageBasedTests, getTestsForSourceFile
<1>4. QED
  BY <1>1, <1>2, <1>3

LEMMA SelectItselfStep ==
  ASSUME RequestIInv, SelectItself
  PROVE  RequestIInv' /\ UNCHANGED graphVars
<1> DEFINE f == Head(asked.todo)
<1>1. /\ asked.at = "files" /\ asked.todo # <<>> /\ f \in Suite /\ Mapped({f}, "direct", "files")
      /\ UNCHANGED <<graphVars, related, cofailing, world>>
  BY DEF SelectItself, memory, RequestMoves
<1>2. f \notin Config /\ ALL \notin {f}
  BY <1>1, SelectionAssumption DEF Codebase
<1>3. QED
  BY <1>1, <1>2, MappedStep DEF Searching

LEMMA AskCoverageStep ==
  ASSUME RequestIInv, GraphIInv, AskCoverage
  PROVE  RequestIInv' /\ GraphIInv'
<1>1. PICK fails \in BOOLEAN :
        LET found == IF fails \/ ~asked.options.coverage THEN {}
                     ELSE getCoverageBasedTests(Head(asked.todo)) IN
        /\ asked.at = "files" /\ asked.todo # <<>> /\ Head(asked.todo) \notin Config \cup Suite
        /\ May(fails)
        /\ IF found # {} THEN Mapped(found, "coverage", "files")
           ELSE asked' = [asked EXCEPT !.at = "dependency"]
        /\ UNCHANGED <<imports, root, graph, stored, build, loading, ever, fresh, owed>>
        /\ UNCHANGED <<related, cofailing, world>>
  BY DEF AskCoverage, memory, RequestMoves, graphData
<1>2. PICK found : /\ ALL \notin found
                   /\ IF found # {} THEN Mapped(found, "coverage", "files")
                      ELSE asked' = [asked EXCEPT !.at = "dependency"]
  BY <1>1, NamesOfTests
<1>3. GraphIInv'
  BY <1>1, FaultTyped, GraphRestsStep DEF GraphIInv, GraphTypeOK
<1>4. /\ asked.at \in Searching /\ "dependency" \in Searching \ {"files"}
      /\ asked.todo # <<>> /\ Head(asked.todo) \notin Config \cup Suite
      /\ UNCHANGED <<related, cofailing, world>>
  BY <1>1 DEF Searching
<1>5. CASE found # {}
  <2>1. Mapped(found, "coverage", "files")
    BY <1>2, <1>5
  <2>2. Head(asked.todo) \notin Config /\ (Head(asked.todo) \in Suite => Head(asked.todo) \in found)
    BY <1>4
  <2>3. RequestIInv'
    BY <1>2, <1>4, <1>5, <2>1, <2>2, MappedStep
  <2>4. QED
    BY <1>3, <2>3
<1>6. CASE found = {}
  <2>1. asked' = [asked EXCEPT !.at = "dependency"]
    BY <1>2, <1>6
  <2>2. RequestIInv'
    BY <1>4, <2>1, TurnStep
  <2>3. QED
    BY <1>3, <2>2
<1>7. QED
  BY <1>5, <1>6

LEMMA AskGraphStep ==
  ASSUME RequestIInv, GraphIInv, AskGraph
  PROVE  RequestIInv' /\ GraphIInv'
<1>1. PICK found :
      /\ ALL \notin found
      /\ asked.at \in Searching \ {"files"} /\ UNCHANGED <<related, cofailing, world>>
      /\ AskEdges \/ UNCHANGED graphVars
      /\ \/ asked' = [asked EXCEPT !.at = "loading"]
         \/ asked' = [asked EXCEPT !.at = "convention"]
         \/ found # {} /\ Mapped(found, "dependency", "files")
  <2>1. ALL \notin getTestsForFile(Head(asked.todo))
    BY NamesOfTests
  <2> HIDE DEF getTestsForFile
  <2>2. QED
    BY <2>1 DEF AskGraph, memory, RequestMoves, Searching
<1>2. GraphIInv'
  BY <1>1, AskEdgesStep, GraphRestsStep DEF graphVars, graphData, GraphIInv, GraphTypeOK
<1>3. /\ asked.at \in Searching
      /\ "loading" \in Searching \ {"files"} /\ "convention" \in Searching \ {"files"}
      /\ asked.todo # <<>> /\ Head(asked.todo) \notin Config \cup Suite
      /\ UNCHANGED <<related, cofailing, world>>
  BY <1>1 DEF RequestIInv, RequestKnown, Searching
<1>4. CASE asked' = [asked EXCEPT !.at = "loading"]
  <2>1. RequestIInv'
    BY <1>3, <1>4, TurnStep
  <2>2. QED
    BY <1>2, <2>1
<1>5. CASE asked' = [asked EXCEPT !.at = "convention"]
  <2>1. RequestIInv'
    BY <1>3, <1>5, TurnStep
  <2>2. QED
    BY <1>2, <2>1
<1>6. CASE found # {} /\ Mapped(found, "dependency", "files")
  <2>1. Head(asked.todo) \notin Config /\ (Head(asked.todo) \in Suite => Head(asked.todo) \in found)
    BY <1>3
  <2>2. RequestIInv'
    BY <1>1, <1>3, <1>6, <2>1, MappedStep
  <2>3. QED
    BY <1>2, <2>2
<1>7. QED
  BY <1>1, <1>4, <1>5, <1>6

LEMMA ConventionStep ==
  ASSUME RequestIInv, FollowConvention
  PROVE  RequestIInv' /\ UNCHANGED graphVars
<1> DEFINE f == Head(asked.todo)
           tests == mapSourceToTests(f, asked.options)
<1>1. /\ asked.at = "convention" /\ Mapped(tests, "convention", "files")
      /\ UNCHANGED <<graphVars, related, cofailing, world>>
  BY DEF FollowConvention, memory, RequestMoves
<1>2. asked.todo # <<>> /\ f \notin Config \cup Suite
  BY <1>1 DEF RequestIInv, RequestKnown, Searching
<1>3. \A file \in Source : Candidate[file][1] \in ToSet(Candidate[file])
  BY SelectionAssumption DEF ToSet
<1>4. ALL \notin tests
  BY <1>3, SelectionAssumption DEF mapSourceToTests
<1>5. (f \in Source /\ (~asked.options.validate \/ ToSet(Candidate[f]) \cap Suite # {})) => tests # {}
  BY DEF mapSourceToTests
<1> HIDE DEF tests, f
<1>6. QED
  BY <1>1, <1>2, <1>4, <1>5, MappedStep DEF Searching, f

LEMMA CorrelateStep ==
  ASSUME RequestIInv, GraphIInv, Correlate
  PROVE  RequestIInv' /\ GraphIInv'
<1>1. PICK found :
        /\ asked.at = "files" /\ asked.todo = <<>> /\ faults' \in 0..FaultBound /\ ALL \notin found
        /\ related' \in {related, buildFileCorrelations}
        /\ cofailing' \in {cofailing, buildCoFailureMatrix}
        /\ asked' = [asked EXCEPT !.at = "exclude",
                       !.added = IF asked.options.correlation THEN found ELSE {},
                       !.selected = IF asked.options.correlation THEN @ \cup found ELSE @]
        /\ UNCHANGED <<imports, root, graph, stored, build, loading, ever, fresh, owed>>
        /\ UNCHANGED <<coverage, history, quarantined, turns>>
  <2>0. PICK fails \in BOOLEAN :
          LET asks == asked.options.correlation
              byFile == IF related = {} /\ ~fails THEN buildFileCorrelations ELSE related
              byTest == IF cofailing = {} /\ asked.selected # {} /\ ~fails
                        THEN buildCoFailureMatrix ELSE cofailing
              found == getCorrelatedTests(ToSet(asked.files), asked.selected, byFile, byTest)
                         \ asked.selected IN
          /\ asked.at = "files" /\ asked.todo = <<>> /\ May(fails)
          /\ related' = IF asks THEN byFile ELSE related
          /\ cofailing' = IF asks THEN byTest ELSE cofailing
          /\ asked' = [asked EXCEPT !.at = "exclude",
                           !.added = IF asks THEN found ELSE {},
                           !.selected = IF asks THEN @ \cup found ELSE @]
          /\ UNCHANGED <<imports, root, graph, stored, build, loading, ever, fresh, owed>>
          /\ UNCHANGED <<coverage, history, quarantined, turns>>
    BY DEF Correlate, RequestMoves, world, graphData
  <2>1. PICK byFile, byTest, found :
          /\ found = getCorrelatedTests(ToSet(asked.files), asked.selected, byFile, byTest)
                       \ asked.selected
          /\ byFile \in {related, buildFileCorrelations}
          /\ byTest \in {cofailing, buildCoFailureMatrix}
          /\ related' \in {related, byFile} /\ cofailing' \in {cofailing, byTest}
          /\ asked' = [asked EXCEPT !.at = "exclude",
                         !.added = IF asked.options.correlation THEN found ELSE {},
                         !.selected = IF asked.options.correlation THEN @ \cup found ELSE @]
    BY <2>0
  <2>2. byFile \subseteq [file : ChangedFile, test : Suite, strong : BOOLEAN]
    BY <2>1 DEF RequestIInv, SelectionTypes, buildFileCorrelations
  <2>3. byTest \subseteq Suite \X Suite
    BY <2>1 DEF RequestIInv, SelectionTypes, buildCoFailureMatrix
  <2>4. ALL \notin found
    BY <2>1, <2>2, <2>3, SelectionAssumption DEF getCorrelatedTests
  <2>5. related' \in {related, buildFileCorrelations} /\ cofailing' \in {cofailing, buildCoFailureMatrix}
    BY <2>1
  <2>6. faults' \in 0..FaultBound
    BY <2>0, FaultTyped DEF GraphIInv, GraphTypeOK
  <2>7. QED
    BY <2>0, <2>1, <2>4, <2>5, <2>6
<1>2. GraphIInv'
  BY <1>1, GraphRestsStep DEF GraphIInv, GraphTypeOK
<1>3. PICK new : /\ ALL \notin new
                 /\ asked' = [asked EXCEPT !.at = "exclude", !.added = new,
                                           !.selected = @ \cup new]
  <2>1. CASE asked.options.correlation
    BY <1>1, <2>1
  <2>2. CASE ~asked.options.correlation
    <3>1. asked' = [asked EXCEPT !.at = "exclude", !.added = {}, !.selected = @ \cup {}]
      BY <1>1, <2>2
    <3>2. QED
      BY <3>1
  <2>3. QED
    BY <2>1, <2>2
<1>4. asked' = [at |-> "exclude", files |-> asked.files, todo |-> asked.todo,
               options |-> asked.options, details |-> asked.details,
               selected |-> asked.selected \cup new, added |-> new, excluded |-> asked.excluded]
  BY <1>3 DEF RequestIInv, AskedShape
<1>5. related' \subseteq [file : ChangedFile, test : Suite, strong : BOOLEAN]
  BY <1>1 DEF RequestIInv, SelectionTypes, buildFileCorrelations
<1>6. cofailing' \subseteq Suite \X Suite
  BY <1>1 DEF RequestIInv, SelectionTypes, buildCoFailureMatrix
<1>7. SelectionTypes'
  BY <1>1, <1>4, <1>5, <1>6 DEF RequestIInv, SelectionTypes
<1>8. AskedShape'
  BY <1>4 DEF RequestIInv, AskedShape
<1>9. \A f : Handled(f) => Handled(f)'
  BY <1>4 DEF Handled
<1>10. RequestKnown'
  <2>1. asked.at \in Searching /\ "exclude" \notin Searching /\ asked.added = {}
    BY <1>1 DEF RequestIInv, RequestKnown, Searching
  <2>2. asked'.selected = TestsOf(asked'.details) \cup asked'.added
    <3>1. /\ asked'.selected = asked.selected \cup new
          /\ asked'.details = asked.details /\ asked'.added = new
      BY <1>4
    <3>2. asked.selected = TestsOf(asked.details) \cup asked.added
      BY <2>1 DEF RequestIInv, RequestKnown
    <3>3. asked.selected = TestsOf(asked.details)
      BY <2>1, <3>2
    <3>4. QED
      BY <3>1, <3>3
  <2>3. QED
    BY <1>1, <1>3, <1>4, <1>9, <2>1, <2>2 DEF RequestIInv, RequestKnown
<1>11. AnswersAreComplete'
  BY <1>4 DEF AnswersAreComplete, Answered
<1>12. QED
  BY <1>2, <1>7, <1>8, <1>10, <1>11 DEF RequestIInv

LEMMA ExcludeStep ==
  ASSUME RequestIInv, GraphIInv, ExcludeQuarantined
  PROVE  RequestIInv' /\ GraphIInv'
<1>1. PICK out :
        /\ out \subseteq asked.selected /\ asked.at = "exclude" /\ faults' \in 0..FaultBound
        /\ asked' = [asked EXCEPT !.at = "answered", !.selected = @ \ out, !.excluded = out]
        /\ UNCHANGED <<imports, root, graph, stored, build, loading, ever, fresh, owed>>
        /\ UNCHANGED <<related, cofailing, coverage, history, quarantined, turns>>
  <2>1. PICK fails \in BOOLEAN :
          LET out == IF asked.options.exclude /\ ~fails THEN asked.selected \cap quarantined ELSE {} IN
          /\ asked.at = "exclude" /\ May(fails)
          /\ asked' = [asked EXCEPT !.at = "answered", !.selected = @ \ out, !.excluded = out]
          /\ UNCHANGED <<imports, root, graph, stored, build, loading, ever, fresh, owed>>
          /\ UNCHANGED <<related, cofailing, coverage, history, quarantined, turns>>
    BY DEF ExcludeQuarantined, RequestMoves, world, memory, graphData
  <2>2. PICK out :
          /\ out = IF asked.options.exclude /\ ~fails THEN asked.selected \cap quarantined ELSE {}
          /\ asked' = [asked EXCEPT !.at = "answered", !.selected = @ \ out, !.excluded = out]
    BY <2>1
  <2>3. out \subseteq asked.selected
    BY <2>2
  <2>4. faults' \in 0..FaultBound
    BY <2>1, FaultTyped DEF GraphIInv, GraphTypeOK
  <2>5. QED
    BY <2>1, <2>2, <2>3, <2>4
<1>2. GraphIInv'
  BY <1>1, GraphRestsStep DEF GraphIInv, GraphTypeOK
<1>3. asked' = [at |-> "answered", files |-> asked.files, todo |-> asked.todo,
               options |-> asked.options, details |-> asked.details,
               selected |-> asked.selected \ out, added |-> asked.added, excluded |-> out]
  BY <1>1 DEF RequestIInv, AskedShape
<1>4. SelectionTypes'
  BY <1>1, <1>3 DEF RequestIInv, SelectionTypes
<1>5. AskedShape'
  BY <1>3 DEF RequestIInv, AskedShape
<1>6. RequestKnown'
  BY <1>3 DEF RequestKnown, Searching
<1>7. /\ \A f \in ToSet(asked.files) : Handled(f)
      /\ ALL \notin asked.selected
      /\ asked.selected = TestsOf(asked.details) \cup asked.added
  <2>1. asked.todo = <<>> /\ ToSet(asked.todo) = {}
    BY <1>1 DEF RequestIInv, RequestKnown, ToSet
  <2>2. QED
    BY <1>1, <2>1 DEF RequestIInv, RequestKnown
<1>8. TestsOf(Details') = TestsOf(asked.details) \cup asked.added
  <2>1. TestsOf(Correlated') = asked.added
    <3>1. CASE asked.added = {}
      BY <1>3, <3>1 DEF Correlated, TestsOf
    <3>2. CASE asked.added # {}
      <4>1. Correlated' = {[file |-> "correlation", tests |-> asked.added,
                            strategy |-> "correlation"]}
        BY <1>3, <3>2 DEF Correlated
      <4>2. QED
        BY <4>1 DEF TestsOf
    <3>3. QED
      BY <3>1, <3>2
  <2>2. Details' = asked.details \cup Correlated'
    BY <1>3 DEF Details
  <2>3. QED
    BY <2>1, <2>2, TestsOfBoth
<1>9. AnswersAreComplete'
  <2>1. ~RunsAll' /\ ToSet(asked'.files) \cap Config = {}
    BY <1>3, <1>7 DEF RunsAll, Handled
  <2>0. /\ asked'.files = asked.files /\ asked'.options = asked.options
        /\ asked'.details = asked.details
        /\ asked'.selected = asked.selected \ out /\ asked'.excluded = out
    BY <1>3
  <2>2. ToSet(asked'.files) \cap Suite \subseteq asked'.selected \cup asked'.excluded
    <3>1. ToSet(asked.files) \cap Suite \subseteq asked.selected
      BY <1>7 DEF Handled
    <3>2. QED
      BY <2>0, <3>1
  <2>3. \A f \in ToSet(asked'.files) \cap Source :
              (~asked'.options.validate \/ ToSet(Candidate[f]) \cap Suite # {})
                => \E d \in asked'.details : d.file = f /\ d.tests # {}
    BY <1>3, <1>7 DEF Handled
  <2>4. asked'.selected \cup asked'.excluded = TestsOf(Details')
    BY <1>1, <1>3, <1>7, <1>8
  <2>5. asked'.selected \cap asked'.excluded = {}
    BY <1>3
  <2>6. (asked.selected \cup asked.excluded)' = UNION {d.tests : d \in Details'}
    BY <2>4 DEF TestsOf
  <2>7. RunsAll' = (ToSet(asked'.files) \cap Config # {})
    BY <2>1 DEF RunsAll
  <2>8. QED
    BY <2>2, <2>3, <2>5, <2>6, <2>7 DEF AnswersAreComplete
<1>10. QED
  BY <1>2, <1>4, <1>5, <1>6, <1>9 DEF RequestIInv

LEMMA SelectionRestartsStep ==
  ASSUME RequestIInv, GraphIInv, SelectionRestarts
  PROVE  RequestIInv' /\ GraphIInv'
<1>1. /\ GraphRestarts /\ turns < TurnBound /\ turns' = turns + 1
      /\ related' = {} /\ cofailing' = {} /\ asked' = Idle
      /\ UNCHANGED <<coverage, history, quarantined>>
  BY DEF SelectionRestarts, Turns
<1>2. GraphIInv'
  BY <1>1, RestartStep
<1>3. turns' \in 0..TurnBound
  BY <1>1, SelectionAssumption DEF RequestIInv, SelectionTypes
<1>4. asked' = [at |-> "idle", files |-> <<>>, todo |-> <<>>, options |-> NoOption, details |-> {},
               selected |-> {}, added |-> {}, excluded |-> {}]
  BY <1>1 DEF Idle
<1>5. SelectionTypes'
  BY <1>1, <1>3, <1>4 DEF RequestIInv, SelectionTypes
<1>6. AskedShape' /\ RequestKnown' /\ AnswersAreComplete'
  BY <1>4 DEF AskedShape, RequestKnown, AnswersAreComplete, Answered, Searching
<1>7. QED
  BY <1>2, <1>5, <1>6 DEF RequestIInv

\* The graph and the requests together.
SelectionIInv == GraphIInv /\ RequestIInv

LEMMA SelectionStep ==
  ASSUME SelectionIInv,
         [SelectionNext \/ (GraphNext /\ UNCHANGED <<world, memory, asked>>)]_selectionVars
  PROVE  SelectionIInv'
<1>1. ASSUME UNCHANGED <<world, memory, asked>> PROVE RequestIInv'
  <2>1. UNCHANGED <<coverage, related, cofailing, quarantined, turns, asked>>
    BY <1>1 DEF world, memory
  <2>2. SelectionTypes'
    BY <2>1 DEF SelectionIInv, RequestIInv, SelectionTypes
  <2>3. QED
    BY <2>1, <2>2, AskedRestsStep DEF SelectionIInv
<1>2. ASSUME UNCHANGED graphVars PROVE GraphIInv'
  BY <1>2, GraphRestsStep DEF SelectionIInv, GraphIInv, graphVars, graphData, GraphTypeOK
<1>3. CASE GraphNext /\ UNCHANGED <<world, memory, asked>>
  BY <1>1, <1>3, GraphStep DEF SelectionIInv
<1>4. CASE UNCHANGED selectionVars
  BY <1>1, <1>2, <1>4 DEF SelectionIInv, selectionVars, world, memory
<1>5. CASE SelectionNext
  <2>1. CASE CoverageAges
    BY <1>2, <2>1, WorldStep DEF SelectionIInv
  <2>2. CASE SelectionRestarts
    BY <2>2, SelectionRestartsStep DEF SelectionIInv
  <2>3. CASE loadFromDatabase /\ UNCHANGED <<world, memory, asked>>
    BY <1>1, <2>3, LoadStep DEF SelectionIInv
  <2>4. CASE \E t \in Suite : ChangeQuarantine(t) \/ \E f \in Source : storeCoverage(t, f)
    BY <1>2, <2>4, WorldStep DEF SelectionIInv
  <2>5. CASE \E f \in Source, failed \in {Suite} \cup {{t} : t \in Suite} : RecordRun({f}, failed)
    <3>1. \E changed, failed : RecordRun(changed, failed)
      BY <2>5
    <3>2. QED
      BY <1>2, <3>1, WorldStep DEF SelectionIInv
  <2>6. CASE \E files \in Requests, options \in Options : Ask(files, options)
    BY <1>2, <2>6, AskStep DEF SelectionIInv
  <2>7. CASE RunAll \/ SelectItself \/ FollowConvention
    BY <1>2, <2>7, RunAllStep, SelectItselfStep, ConventionStep DEF SelectionIInv
  <2>8. CASE AskCoverage \/ AskGraph \/ Correlate \/ ExcludeQuarantined
    BY <2>8, AskCoverageStep, AskGraphStep, CorrelateStep, ExcludeStep DEF SelectionIInv
  <2>9. QED
    BY <1>5, <2>1, <2>2, <2>3, <2>4, <2>5, <2>6, <2>7, <2>8 DEF SelectionNext
<1>6. QED
  BY <1>3, <1>4, <1>5

LEMMA SelectionInvImplies == SelectionIInv => SelectionInv
<1> SUFFICES ASSUME SelectionIInv PROVE SelectionInv
  OBVIOUS
<1>1. SelectionTypeOK
  BY DEF SelectionIInv, GraphIInv, RequestIInv, SelectionTypes, SelectionTypeOK, Searching
<1>2. QED
  BY <1>1, GraphInvImplies DEF SelectionIInv, RequestIInv, SelectionInv
-----------------------------------------------------------------------------
(* The verdicts on a selection *)

\* What is known of the tests found
FoundInv ==
  /\ IsFiniteSet(asked.details) /\ IsFiniteSet(asked.selected)
  /\ IF RunsAll THEN /\ asked.added = {} /\ asked.details # {}
                     /\ \A d \in asked.details : d.strategy = "global"
     ELSE \A d \in asked.details : d.strategy # "global"

LEMMA NothingFound == asked.details = {} /\ asked.selected = {} => FoundInv
BY FS_EmptySet DEF FoundInv, RunsAll

\* Searching, and until the answer, no selection is of all tests.
LEMMA NotYetAll == RequestIInv /\ asked.at \in Searching \cup {"exclude"} => ~RunsAll
BY DEF RequestIInv, RequestKnown, RunsAll

LEMMA MappedFinds ==
  ASSUME RequestIInv, FoundInv, asked.at \in Searching,
         NEW tests, IsFiniteSet(tests), ALL \notin tests,
         NEW strategy, strategy # "global", NEW next, Mapped(tests, strategy, next)
  PROVE  FoundInv'
<1> DEFINE new == [file |-> Head(asked.todo), tests |-> tests, strategy |-> strategy]
<1>1. /\ asked'.selected = asked.selected \cup tests
      /\ asked'.details = IF tests = {} THEN asked.details ELSE asked.details \cup {new}
  BY DEF Mapped, RequestIInv, AskedShape
<1>2. ~RunsAll /\ \A d \in asked.details : d.strategy # "global"
  BY NotYetAll DEF FoundInv
<1>3. IsFiniteSet(asked'.details)
  BY <1>1, FS_AddElement DEF FoundInv
<1>4. IsFiniteSet(asked'.selected)
  <2>1. IsFiniteSet(asked.selected)
    BY DEF FoundInv
  <2>2. IsFiniteSet(asked.selected \cup tests)
    BY <2>1, FS_Union
  <2>3. QED
    BY <1>1, <2>2
<1>5. ~RunsAll'
  BY <1>1, <1>2 DEF RunsAll
<1>6. \A d \in asked'.details : d.strategy # "global"
  BY <1>1, <1>2
<1>7. QED
  BY <1>3, <1>4, <1>5, <1>6 DEF FoundInv

LEMMA TurnFinds ==
  ASSUME RequestIInv, FoundInv, NEW next, asked' = [asked EXCEPT !.at = next]
  PROVE  FoundInv'
<1>1. asked'.details = asked.details /\ asked'.selected = asked.selected /\ asked'.added = asked.added
  BY DEF RequestIInv, AskedShape
<1>2. RunsAll' = RunsAll
  BY <1>1 DEF RunsAll
<1>3. QED
  BY <1>1, <1>2 DEF FoundInv

\* Every lookup finds finitely many tests.
LEMMA TestNameFinite == IsFiniteSet(TestName)
<1> DEFINE name == [t \in Suite |-> [absolute |-> t]]
<1>1. name \in Surjection(Suite, [absolute : Suite])
  <2>1. name \in [Suite -> [absolute : Suite]]
    OBVIOUS
  <2>2. \A r \in [absolute : Suite] : r.absolute \in Suite /\ name[r.absolute] = r
    OBVIOUS
  <2>3. QED
    BY <2>1, <2>2 DEF Surjection
<1>2. IsFiniteSet([absolute : Suite])
  BY <1>1, FS_Surjection, GraphAssumption
<1>3. QED
  BY <1>2, FS_Union, GraphAssumption DEF TestName

LEMMA LookupsFinite ==
  ASSUME RequestIInv
  PROVE  /\ \A f : IsFiniteSet(getTestsForFile(f)) /\ ALL \notin getTestsForFile(f)
         /\ \A f : IsFiniteSet(getCoverageBasedTests(f)) /\ ALL \notin getCoverageBasedTests(f)
         /\ \A f, options : IsFiniteSet(mapSourceToTests(f, options)) /\ ALL \notin mapSourceToTests(f, options)
<1>1. ASSUME NEW f PROVE IsFiniteSet(getTestsForFile(f))
  <2>1. getTestsForFile(f) \subseteq TestName
    BY DEF getTestsForFile, isTestFile
  <2>2. QED
    BY <2>1, TestNameFinite, FS_Subset
<1>2. ASSUME NEW f PROVE IsFiniteSet(getCoverageBasedTests(f))
  <2>1. getCoverageBasedTests(f) \subseteq Suite
    BY DEF RequestIInv, SelectionTypes, getCoverageBasedTests, getTestsForSourceFile
  <2>2. QED
    BY <2>1, FS_Subset, GraphAssumption
<1>3. ASSUME NEW f, NEW options
      PROVE  IsFiniteSet(mapSourceToTests(f, options)) /\ ALL \notin mapSourceToTests(f, options)
  <2>1. CASE f \notin Source
    BY <2>1, FS_EmptySet DEF mapSourceToTests
  <2>2. CASE f \in Source /\ options.validate
    <3>1. mapSourceToTests(f, options) \subseteq Suite
      BY <2>2 DEF mapSourceToTests
    <3>2. QED
      BY <3>1, FS_Subset, GraphAssumption, SelectionAssumption
  <2>3. CASE f \in Source /\ ~options.validate
    <3>1. mapSourceToTests(f, options) = {Candidate[f][1]}
      BY <2>3 DEF mapSourceToTests
    <3>2. Candidate[f][1] \in ToSet(Candidate[f])
      BY <2>3, SelectionAssumption DEF ToSet
    <3>3. QED
      BY <2>3, <3>1, <3>2, FS_Singleton, SelectionAssumption
  <2>4. QED
    BY <2>1, <2>2, <2>3
<1>4. QED
  BY <1>1, <1>2, <1>3, NamesOfTests

LEMMA FoundStep ==
  ASSUME SelectionIInv, FoundInv,
         [SelectionNext \/ (GraphNext /\ UNCHANGED <<world, memory, asked>>)]_selectionVars
  PROVE  FoundInv'
<1>1. CASE UNCHANGED asked
  BY <1>1 DEF FoundInv, RunsAll
<1>2. CASE asked' = Idle
  BY <1>2, FS_EmptySet DEF FoundInv, RunsAll, Idle
<1>3. CASE \E files \in Requests, options \in Options : Ask(files, options)
  <2>1. asked'.details = {} /\ asked'.selected = {}
    BY <1>3 DEF Ask, Idle
  <2>2. QED
    BY <2>1, FS_EmptySet DEF FoundInv, RunsAll
<1>4. CASE RunAll
  <2>1. /\ asked'.selected = {ALL} /\ asked'.added = {}
        /\ asked'.details = {[file |-> Head(asked.todo), tests |-> {ALL}, strategy |-> "global"]}
    BY <1>4 DEF RunAll, Idle
  <2>2. IsFiniteSet(asked'.details) /\ IsFiniteSet(asked'.selected)
    BY <2>1, FS_Singleton
  <2>3. QED
    BY <2>1, <2>2 DEF FoundInv, RunsAll
<1>5. CASE SelectItself
  <2>1. /\ asked.at \in Searching /\ Mapped({Head(asked.todo)}, "direct", "files")
        /\ Head(asked.todo) \in Suite
    BY <1>5 DEF SelectItself, Searching
  <2>2. IsFiniteSet({Head(asked.todo)}) /\ ALL \notin {Head(asked.todo)}
    BY <2>1, FS_Singleton, SelectionAssumption
  <2>3. QED
    BY <2>1, <2>2, MappedFinds DEF SelectionIInv
<1>6. CASE AskCoverage
  <2>1. PICK found : /\ IsFiniteSet(found) /\ ALL \notin found /\ asked.at \in Searching
                     /\ IF found # {} THEN Mapped(found, "coverage", "files")
                        ELSE asked' = [asked EXCEPT !.at = "dependency"]
    <3>1. PICK fails \in BOOLEAN :
            LET found == IF fails \/ ~asked.options.coverage THEN {}
                         ELSE getCoverageBasedTests(Head(asked.todo)) IN
            /\ asked.at = "files"
            /\ IF found # {} THEN Mapped(found, "coverage", "files")
               ELSE asked' = [asked EXCEPT !.at = "dependency"]
      BY <1>6 DEF AskCoverage
    <3>2. QED
      BY <3>1, LookupsFinite, FS_EmptySet DEF SelectionIInv, Searching
  <2>2. CASE found # {}
    BY <2>1, <2>2, MappedFinds DEF SelectionIInv
  <2>3. CASE found = {}
    BY <2>1, <2>3, TurnFinds DEF SelectionIInv
  <2>4. QED
    BY <2>2, <2>3
<1>7. CASE AskGraph
  <2>1. PICK found : /\ IsFiniteSet(found) /\ ALL \notin found /\ asked.at \in Searching
                     /\ \/ Mapped(found, "dependency", "files")
                        \/ \E next : asked' = [asked EXCEPT !.at = next]
    <3>1. /\ IsFiniteSet(getTestsForFile(Head(asked.todo)))
          /\ ALL \notin getTestsForFile(Head(asked.todo))
      BY LookupsFinite DEF SelectionIInv
    <3> HIDE DEF getTestsForFile
    <3>2. QED
      BY <1>7, <3>1 DEF AskGraph, Searching
  <2>2. QED
    BY <2>1, MappedFinds, TurnFinds DEF SelectionIInv
<1>8. CASE FollowConvention
  <2>1. /\ asked.at \in Searching
        /\ Mapped(mapSourceToTests(Head(asked.todo), asked.options), "convention", "files")
    BY <1>8 DEF FollowConvention, Searching
  <2>2. QED
    BY <2>1, LookupsFinite, MappedFinds DEF SelectionIInv
<1>9. CASE Correlate
  <2>1. PICK found : /\ found \subseteq Suite /\ asked.at \in Searching
                     /\ asked' = [asked EXCEPT !.at = "exclude",
                           !.added = IF asked.options.correlation THEN found ELSE {},
                           !.selected = IF asked.options.correlation THEN @ \cup found ELSE @]
    <3>1. PICK fails \in BOOLEAN :
            LET asks == asked.options.correlation
                byFile == IF related = {} /\ ~fails THEN buildFileCorrelations ELSE related
                byTest == IF cofailing = {} /\ asked.selected # {} /\ ~fails
                          THEN buildCoFailureMatrix ELSE cofailing
                found == getCorrelatedTests(ToSet(asked.files), asked.selected, byFile, byTest)
                           \ asked.selected IN
            /\ asked.at = "files"
            /\ asked' = [asked EXCEPT !.at = "exclude",
                             !.added = IF asks THEN found ELSE {},
                             !.selected = IF asks THEN @ \cup found ELSE @]
      BY <1>9 DEF Correlate
    <3>2. PICK byFile, byTest, found :
          /\ found = getCorrelatedTests(ToSet(asked.files), asked.selected, byFile, byTest)
                       \ asked.selected
          /\ byFile \in {related, buildFileCorrelations}
          /\ byTest \in {cofailing, buildCoFailureMatrix}
          /\ asked.at = "files"
          /\ asked' = [asked EXCEPT !.at = "exclude",
                         !.added = IF asked.options.correlation THEN found ELSE {},
                         !.selected = IF asked.options.correlation THEN @ \cup found ELSE @]
      BY <3>1
    <3>3. byFile \subseteq [file : ChangedFile, test : Suite, strong : BOOLEAN]
      BY <3>2 DEF SelectionIInv, RequestIInv, SelectionTypes, buildFileCorrelations
    <3>4. byTest \subseteq Suite \X Suite
      BY <3>2 DEF SelectionIInv, RequestIInv, SelectionTypes, buildCoFailureMatrix
    <3>5. found \subseteq Suite
      BY <3>2, <3>3, <3>4 DEF getCorrelatedTests
    <3>6. QED
      BY <3>2, <3>5 DEF Searching
  <2>2. IsFiniteSet(found) /\ ALL \notin found
    BY <2>1, FS_Subset, GraphAssumption, SelectionAssumption
  <2>3. ~RunsAll /\ \A d \in asked.details : d.strategy # "global"
    BY <2>1, NotYetAll DEF FoundInv, SelectionIInv
  <2>4. /\ asked'.details = asked.details
        /\ asked'.selected \in {asked.selected, asked.selected \cup found}
    BY <2>1 DEF SelectionIInv, RequestIInv, AskedShape
  <2>5. IsFiniteSet(asked'.selected)
    BY <2>2, <2>4, FS_Union DEF FoundInv
  <2>6. ~RunsAll'
    BY <2>2, <2>3, <2>4 DEF RunsAll
  <2>7. QED
    BY <2>3, <2>4, <2>5, <2>6 DEF FoundInv
<1>10. CASE ExcludeQuarantined
  <2>1. PICK out : /\ asked.at = "exclude"
                   /\ asked' = [asked EXCEPT !.at = "answered", !.selected = @ \ out, !.excluded = out]
    BY <1>10 DEF ExcludeQuarantined
  <2>2. ~RunsAll /\ \A d \in asked.details : d.strategy # "global"
    BY <2>1, NotYetAll DEF FoundInv, SelectionIInv
  <2>3. asked'.details = asked.details /\ asked'.selected = asked.selected \ out
    BY <2>1 DEF SelectionIInv, RequestIInv, AskedShape
  <2>4. IsFiniteSet(asked'.selected)
    BY <2>3, FS_Difference DEF FoundInv
  <2>5. ~RunsAll'
    BY <2>2, <2>3 DEF RunsAll
  <2>6. QED
    BY <2>2, <2>3, <2>4, <2>5 DEF FoundInv
<1>11. QED
  <2>1. CASE SelectionNext
    BY <2>1, <1>1, <1>2, <1>3, <1>4, <1>5, <1>6, <1>7, <1>8, <1>9, <1>10
    DEF SelectionNext, CoverageAges, SelectionRestarts, ChangeQuarantine, storeCoverage, RecordRun,
        WorldRests
  <2>2. QED
    BY <2>1, <1>1 DEF selectionVars
-----------------------------------------------------------------------------
\* What is made of an answer

LEMMA Perfect ==
  ASSUME NEW h \in Nat, NEW m \in Nat, h + m # 0
  PROVE  ((100 * h) \div (h + m) < 100) <=> (m # 0)
<1> DEFINE n == h + m
           q == (100 * h) \div n
<1>1. n \in Nat /\ n > 0
  OBVIOUS
<1>2. q \in Int /\ q * n <= 100 * h /\ 100 * h < (q + 1) * n
  <2> HIDE DEF n
  <2> QED
    BY <1>1
<1>3. ASSUME m = 0 PROVE ~(q < 100)
  <2>1. n = h
    BY <1>3
  <2>2. 100 * h < (q + 1) * h /\ h \in Nat /\ h > 0
    BY <1>1, <1>2, <2>1
  <2>3. SUFFICES ASSUME q + 1 <= 100 PROVE FALSE
    BY <1>2
  <2>4. (q + 1) * h <= 100 * h
    BY <2>2, <2>3, <1>2
  <2>5. QED
    BY <2>2, <2>4, <1>2
<1>4. ASSUME m # 0 PROVE q < 100
  <2>1. SUFFICES ASSUME q >= 100 PROVE FALSE
    BY <1>2
  <2>2. q * n >= 100 * n
    BY <2>1, <1>1, <1>2
  <2>3. 100 * n > 100 * h
    BY <1>4
  <2>4. QED
    BY <1>1, <1>2, <2>2, <2>3
<1>5. QED
  BY <1>3, <1>4

LEMMA RecallTells ==
  ASSUME RequestIInv, FoundInv, NEW failed \in SUBSET (Suite \cup asked.selected)
  PROVE  LET result == evaluateSelection(failed) IN
         /\ (Recall(result) < 100) = (result.missed # {})
         /\ ~RunsAll => failed \ asked.selected = result.missed
<1> DEFINE result == evaluateSelection(failed)
<1>1. IsFiniteSet(failed)
  <2>1. IsFiniteSet(Suite) /\ IsFiniteSet(asked.selected)
    BY GraphAssumption DEF FoundInv
  <2>2. IsFiniteSet(Suite \cup asked.selected)
    BY <2>1, FS_Union
  <2>3. QED
    BY <2>2, FS_Subset
<1>2. IsFiniteSet(result.hit) /\ IsFiniteSet(result.missed)
  BY <1>1, FS_EmptySet, FS_Intersection, FS_Difference DEF evaluateSelection
<1>3. ~RunsAll => failed \ asked.selected = result.missed
  BY DEF evaluateSelection
<1> HIDE DEF result
<1> DEFINE h == Cardinality(result.hit)
           m == Cardinality(result.missed)
<1>4. h \in Nat /\ m \in Nat /\ (m = 0 <=> result.missed = {})
  BY <1>2, FS_CardinalityType, FS_EmptySet
<1>5. Recall(result) = IF h + m = 0 THEN 100 ELSE (100 * h) \div (h + m)
  BY DEF Recall
<1>6. (Recall(result) < 100) <=> (m # 0)
  <2> HIDE DEF h, m
  <2>1. CASE h + m = 0
    BY <1>4, <1>5, <2>1
  <2>2. CASE h + m # 0
    BY <1>4, <1>5, <2>2, Perfect
  <2>3. QED
    BY <2>1, <2>2
<1>7. QED
  BY <1>3, <1>4, <1>6 DEF result

LEMMA Rounded == ASSUME NEW n \in Nat, n # 0 PROVE (2 * (70 * n) + n) \div (2 * n) = 70
<1> DEFINE d == 2 * n
<1>1. d \in Nat /\ d > 0 /\ 2 * (70 * n) + n = 70 * d + n /\ 0 <= n /\ n < d
  OBVIOUS
<1> HIDE DEF d
<1>2. (70 * d + n) \div d = 70
  BY <1>1
<1>3. QED
  BY <1>1, <1>2 DEF d

LEMMA ConventionIsMedium ==
  ASSUME FoundInv, Answered, \A d \in Details : d.strategy = "convention", Details # {}
  PROVE  calculateConfidence = 70 /\ generateRuleBasedSummary.advice = {"upload coverage"}
<1>1. IsFiniteSet(Details)
  <2>1. IsFiniteSet(Correlated)
    BY FS_EmptySet, FS_Singleton DEF Correlated
  <2>2. QED
    BY <2>1, FS_Union DEF Details, FoundInv
<1> DEFINE n == Cardinality(Details)
           By(strategy) == Cardinality({d \in Details : d.strategy = strategy})
<1>2. n \in Nat /\ n # 0
  BY <1>1, FS_CardinalityType, FS_EmptySet
<1>3. By("convention") = n
  <2>1. {d \in Details : d.strategy = "convention"} = Details
    OBVIOUS
  <2>2. QED
    BY <2>1
<1>4. ASSUME NEW s, s # "convention" PROVE By(s) = 0
  <2>1. {d \in Details : d.strategy = s} = {}
    BY <1>4
  <2>2. QED
    BY <2>1, FS_EmptySet
<1>5. /\ By("direct") = 0 /\ By("global") = 0 /\ By("coverage") = 0
      /\ By("dependency") = 0 /\ By("correlation") = 0
  BY <1>4
<1>6. calculateConfidence =
        LET total == 100 * By("direct") + 100 * By("global") + 95 * By("coverage")
                 + 85 * By("dependency") + 80 * By("correlation") + 70 * By("convention")
        IN IF n = 0 THEN 100 ELSE (2 * total + n) \div (2 * n)
  BY DEF calculateConfidence, StrategyWeight
<1> HIDE DEF By, n
<1>7. calculateConfidence = (2 * (70 * n) + n) \div (2 * n)
  BY <1>2, <1>3, <1>5, <1>6
<1>8. calculateConfidence = 70
  BY <1>2, <1>7, Rounded
<1>9. \E d \in Details : d.strategy = "convention"
  OBVIOUS
<1>10. generateRuleBasedSummary.advice = {"upload coverage"}
  <2>1. calculateConfidence = 70 => ~(calculateConfidence < 70) /\ ~(calculateConfidence >= 85)
    OBVIOUS
  <2>2. generateRuleBasedSummary.advice = {} \cup {} \cup {"upload coverage"}
    BY <1>8, <1>9, <2>1 DEF generateRuleBasedSummary
  <2>3. QED
    BY <2>2
<1>11. QED
  BY <1>8, <1>10

LEMMA GlobalRunsAll == ASSUME FoundInv PROVE (primaryStrategy = "global") <=> RunsAll
<1> DEFINE used == {d.strategy : d \in Details}
<1>1. CASE RunsAll
  <2>1. Details = asked.details
    BY <1>1 DEF FoundInv, Details, Correlated
  <2>2. used = {"global"}
    BY <1>1, <2>1 DEF FoundInv
  <2>3. Cardinality(used) = 1
    BY <2>2, FS_Singleton
  <2> HIDE DEF used
  <2>4. primaryStrategy = "global"
    BY <2>2, <2>3 DEF primaryStrategy, used
  <2>5. QED
    BY <1>1, <2>4
<1>2. CASE ~RunsAll
  <2>1. \A d \in Correlated : d.strategy = "correlation"
    BY DEF Correlated
  <2>2. "global" \notin used
    BY <1>2, <2>1 DEF FoundInv, Details
  <2> HIDE DEF used
  <2>3. used # {"global"}
    BY <2>2
  <2>4. primaryStrategy # "global"
    BY <2>3 DEF primaryStrategy, used
  <2>5. QED
    BY <1>2, <2>4
<1>3. QED
  BY <1>1, <1>2

LEMMA VerdictsHold == SelectionIInv /\ FoundInv => VerdictsAgree
BY RecallTells, ConventionIsMedium, GlobalRunsAll DEF SelectionIInv, VerdictsAgree
-----------------------------------------------------------------------------
(* The flakiness of a test *)

PastResult == [status : Status, commit : Commit]

Sofar ==
  [status : {"none"} \cup Status, commit : Commit, flips : Nat, failures : Nat]

\* What one result adds to what is known so far.
LEMMA StepLeads ==
  ASSUME NEW so \in Sofar, NEW r \in PastResult
  PROVE  /\ Step(so, r) \in Sofar
         /\ Step(so, r).status = r.status /\ Step(so, r).commit = r.commit
         /\ r.status = "FAILED" => Step(so, r).failures = so.failures + 1
         /\ r.status # "FAILED" => Step(so, r).failures = so.failures
         /\ (so.status \notin {"none", r.status} /\ so.commit = r.commit) => Step(so, r).flips = so.flips + 1
         /\ ~(so.status \notin {"none", r.status} /\ so.commit = r.commit) => Step(so, r).flips = so.flips
BY DEF Step, Sofar, PastResult

LEMMA StartLeads ==
  Start \in Sofar /\ Start.status = "none" /\ Start.flips = 0 /\ Start.failures = 0
BY FlakyAssumption DEF Start, Sofar

\* The walk is what its definition says.
LEMMA WalkedDefined ==
  ASSUME NEW n \in Nat, past \in [1..n -> PastResult], Len(past) = n
  PROVE  /\ \A i \in 0..n : walked[i] \in Sofar
         /\ walked[0] = Start
         /\ \A i \in 0..(n - 1) : walked[i + 1] = Step(walked[i], past[i + 1])
<1> DEFINE step == [i \in 1..n |-> [so \in Sofar |-> Step(so, past[i])]]
<1>1. \A i \in 1..n : past[i] \in PastResult
  OBVIOUS
<1>2. step \in [1..n -> [Sofar -> Sofar]]
  BY <1>1, StepLeads
<1>3. PICK h \in [0..n -> Sofar] : IsWalk(h, n, Start, step)
  <2> HIDE DEF step
  <2> QED
    BY <1>2, StartLeads, SegmentRecursion
<1>4. ASSUME NEW i \in 1..n PROVE h[i] = Step(h[i - 1], past[i])
  <2>1. h[i] = step[i][h[i - 1]]
    <3> HIDE DEF step
    <3> QED
      BY <1>3 DEF IsWalk
  <2>2. h[i - 1] \in Sofar
    OBVIOUS
  <2>3. QED
    BY <2>1, <2>2
<1>5. h = [i \in 0..Len(past) |-> IF i = 0 THEN Start ELSE Step(h[i - 1], past[i])]
  <2> HIDE DEF step
  <2> QED
    BY <1>3, <1>4 DEF IsWalk
<1>6. walked = [i \in 0..Len(past) |-> IF i = 0 THEN Start ELSE Step(walked[i - 1], past[i])]
  BY <1>5 DEF walked
<1>7. walked[0] = Start
  BY <1>6
<1>8. \A i \in 0..(n - 1) : walked[i + 1] = Step(walked[i], past[i + 1])
  <2> HIDE DEF step
  <2> TAKE i \in 0..(n - 1)
  <2>1. i + 1 \in 0..n /\ i + 1 # 0 /\ (i + 1) - 1 = i
    OBVIOUS
  <2>2. QED
    BY <1>6, <2>1
<1>9. \A i \in 0..n : walked[i] \in Sofar
  <2> DEFINE S == {i \in 0..n : walked[i] \in Sofar}
  <2>1. 0 \in S
    BY <1>7, StartLeads
  <2>2. ASSUME NEW i \in 0..(n - 1), i \in S PROVE i + 1 \in S
    BY <1>1, <1>8, <2>2, StepLeads
  <2>3. \A i \in 0..n : i \in S
    <3> HIDE DEF S
    <3> QED
      BY <2>1, <2>2, SegmentInduction
  <2>4. QED
    BY <2>3
<1>10. QED
  BY <1>7, <1>8, <1>9

\* A walk knows the result it has come from, has counted a flip if and only if two neighbouring
\* results have disagreed, and as many failures as results only if all have failed.
Walks(i) ==
  /\ i = 0 => walked[i].status = "none"
  /\ i # 0 => walked[i].status = past[i].status /\ walked[i].commit = past[i].commit
  /\ walked[i].flips \in Nat /\ walked[i].failures \in 0..i
  /\ walked[i].flips > 0 => \E j \in 1..(i - 1) : Disagree(j)
  /\ walked[i].flips = 0 => \A j \in 1..(i - 1) : ~Disagree(j)
  /\ walked[i].failures = 0 => \A j \in 1..i : past[j].status # "FAILED"
  /\ walked[i].failures = i => \A j \in 1..i : past[j].status = "FAILED"

\* It holds after one more result, and so after all of them.
LEMMA WalkGoesOn ==
  ASSUME NEW n \in Nat, past \in [1..n -> PastResult], Len(past) = n,
         NEW i \in 0..(n - 1), Walks(i)
  PROVE  Walks(i + 1)
<1>1. i + 1 \in 1..n /\ past[i + 1] \in PastResult
  OBVIOUS
<1>2. walked[i] \in Sofar /\ walked[i + 1] = Step(walked[i], past[i + 1])
  BY WalkedDefined
<1> DEFINE so == walked[i]
           r == past[i + 1]
           next == walked[i + 1]
<1>3. /\ next \in Sofar /\ next.status = r.status /\ next.commit = r.commit
      /\ r.status = "FAILED" => next.failures = so.failures + 1
      /\ r.status # "FAILED" => next.failures = so.failures
      /\ (so.status \notin {"none", r.status} /\ so.commit = r.commit) => next.flips = so.flips + 1
      /\ ~(so.status \notin {"none", r.status} /\ so.commit = r.commit) => next.flips = so.flips
  BY <1>1, <1>2, StepLeads
<1>4. r.status \in Status /\ so.flips \in Nat /\ so.failures \in 0..i
  BY <1>1 DEF PastResult, Walks
<1>5. (so.status \notin {"none", r.status} /\ so.commit = r.commit) <=> (i # 0 /\ Disagree(i))
  <2>1. CASE i = 0
    BY <2>1 DEF Walks
  <2>2. CASE i # 0
    <3>1. past[i] \in PastResult
      BY <2>2
    <3>2. past[i].status # "none"
      BY <3>1, FlakyAssumption DEF PastResult
    <3>3. QED
      BY <2>2, <3>2 DEF Walks, Disagree
  <2>3. QED
    BY <2>1, <2>2
<1>6. next.flips \in Nat /\ next.failures \in 0..(i + 1)
  BY <1>3, <1>4
<1>7. next.flips > 0 => \E j \in 1..i : Disagree(j)
  <2>1. CASE i # 0 /\ Disagree(i)
    BY <2>1
  <2>2. CASE ~(i # 0 /\ Disagree(i))
    <3>1. next.flips = so.flips
      BY <2>2, <1>3, <1>5
    <3>2. QED
      BY <3>1 DEF Walks
  <2>3. QED
    BY <2>1, <2>2
<1>8. next.flips = 0 => \A j \in 1..i : ~Disagree(j)
  <2>1. SUFFICES ASSUME next.flips = 0, NEW j \in 1..i PROVE ~Disagree(j)
    OBVIOUS
  <2>2. ~(i # 0 /\ Disagree(i)) /\ so.flips = 0
    BY <2>1, <1>3, <1>4, <1>5
  <2>3. QED
    BY <2>2 DEF Walks
<1>9. next.failures = 0 => \A j \in 1..(i + 1) : past[j].status # "FAILED"
  BY <1>3, <1>4 DEF Walks
<1>10. next.failures = i + 1 => \A j \in 1..(i + 1) : past[j].status = "FAILED"
  BY <1>3, <1>4 DEF Walks
<1>11. (i + 1) - 1 = i /\ i + 1 # 0
  OBVIOUS
<1>12. QED
  BY <1>3, <1>6, <1>7, <1>8, <1>9, <1>10, <1>11 DEF Walks

LEMMA WalkIsTrue ==
  ASSUME NEW n \in Nat, past \in [1..n -> PastResult], Len(past) = n
  PROVE  Walks(n)
<1> DEFINE S == {i \in 0..n : Walks(i)}
<1>1. 0 \in S
  <2>1. walked[0] = Start
    BY WalkedDefined
  <2>2. QED
    BY <2>1, StartLeads DEF Walks
<1>2. ASSUME NEW i \in 0..(n - 1), i \in S PROVE i + 1 \in S
  BY <1>2, WalkGoesOn
<1>3. \A i \in 0..n : i \in S
  <2> HIDE DEF S
  <2> QED
    BY <1>1, <1>2, SegmentInduction
<1>4. QED
  BY <1>3

\* What the history of a test is, for any length of it.
PastTypeOK == past \in Seq(PastResult)

LEMMA FlakyIsTrue == PastTypeOK => FlakyInv
<1> SUFFICES ASSUME PastTypeOK, Len(past) >= 5 PROVE FlakyInv
  BY DEF FlakyInv
<1> DEFINE n == Len(past)
           result == analyzeTest
<1>1. n \in Nat /\ past \in [1..n -> PastResult]
  <2> USE DEF PastTypeOK
  <2> QED OBVIOUS
<1>2. Walks(n)
  BY <1>1, WalkIsTrue
<1> DEFINE flips == walked[n].flips
           failures == walked[n].failures
<1>3. flips \in Nat /\ failures \in 0..n
  BY <1>2 DEF Walks
<1>4. result.flips = flips /\ result.failures = failures
  BY DEF analyzeTest
<1>5. (result.severity # "STABLE") <=> (flips > 0)
  BY <1>1, <1>3 DEF analyzeTest
<1>6. (flips > 0) <=> \E i \in 1..(n - 1) : Disagree(i)
  BY <1>2, <1>3 DEF Walks
<1>7. ASSUME flips > 0
      PROVE  /\ failures < n
             /\ (\A i \in DOMAIN past : past[i].status \in {"PASSED", "FAILED"}) => failures > 0
  <2>1. PICK i \in 1..(n - 1) : Disagree(i)
    BY <1>6, <1>7
  <2>2. past[i].status # past[i + 1].status /\ i \in 1..n /\ i + 1 \in 1..n
    BY <1>1, <2>1 DEF Disagree
  <2>3. failures # n
    BY <1>2, <2>2 DEF Walks
  <2>4. ASSUME \A j \in 1..n : past[j].status \in {"PASSED", "FAILED"} PROVE failures # 0
    BY <1>2, <2>2, <2>4 DEF Walks
  <2>5. DOMAIN past = 1..n
    BY <1>1
  <2>6. QED
    BY <1>1, <1>3, <2>3, <2>4, <2>5
<1>8. result.severity = "HIGH" => flips >= 2
  BY <1>1, <1>3 DEF analyzeTest
<1>9. QED
  BY <1>4, <1>5, <1>6, <1>7, <1>8 DEF FlakyInv
-----------------------------------------------------------------------------
(* Who is signed in *)

Call == [op : {"none", "write", "logout", "login", "register", "sso", "me"},
         at : {"idle", "asks", "reads", "sent", "forbidden", "rejected", "checked", "unauthorized",
               "ok", "failed", "revoked", "creates"},
         who : SUBSET Email, token : Nat, csrf : Nat, cookie : Nat,
         retried : BOOLEAN, gone : BOOLEAN, shaken : BOOLEAN]
Page == [token : Nat, user : SUBSET Email, csrf : Nat, cookie : Nat, checks : 0..1,
         superseded : BOOLEAN]

\* Tokens that are listed somewhere.
Listed == revoked.redis \cup revoked.memory

SessionTypes ==
  /\ accounts \subseteq Email /\ redisUp \in BOOLEAN /\ overtaken \in BOOLEAN
  /\ issued \in Seq([owner : Email, expired : BOOLEAN]) /\ Len(issued) <= TokenBound
  /\ revoked \in [redis : SUBSET AccessToken, memory : SUBSET AccessToken]
  /\ browser \in Page /\ browser.token \in AccessToken \cup {NoToken}
  /\ browser.user = {} \/ \E e \in Email : browser.user = {e}
  /\ began \in 0..BeginBound /\ bother \in 0..TroubleBound

\* What a call knows at each of its stages.
CallInv(c) ==
  LET me == calling[c] IN
  /\ me.token \in AccessToken \cup {NoToken}
  /\ c = PageCheck => IF me.at \in {"idle", "failed"} THEN me.op = "none"
                      ELSE me.op = "me" /\ me.at \in {"sent", "checked", "ok", "unauthorized"}
  /\ me.at = "checked" => ~me.gone /\ (me.op \in Authenticated => me.token # NoToken)
  /\ me.at = "revoked" => me.op = "logout" /\ me.token \in Listed
  /\ me.at = "creates" => me.op \in {"register", "sso"}
  /\ me.op \in {"login", "register", "sso"} => \E e \in Email : me.who = {e}
  /\ (me.op \in {"login", "register", "me"} /\ me.at = "ok")
       => me.token # NoToken /\ me.who = {issued[me.token].owner}
  /\ (me.at = "sent" /\ me.retried /\ ~me.shaken /\ me.op \notin SkipCsrfProtection)
       => me.csrf = me.cookie /\ me.csrf # NoToken
  /\ (me.at = "reads" /\ me.retried /\ ~me.shaken)
       => me.csrf = browser.cookie /\ me.csrf # NoToken
  /\ (me.at \in {"forbidden", "rejected"} /\ me.retried) => me.shaken
  /\ me.at = "rejected" => me.retried

\* The page's check of who is signed in was sent with the token the page holds.
CheckInv ==
  (calling[PageCheck].at \notin {"idle", "failed"} /\ ~overtaken)
    => browser.token \in {calling[PageCheck].token, NoToken}

\* A token whose owner was told is listed, as long as nothing is forgotten.
ToldInv == toldGone \ forgotten \subseteq Listed

SessionIInv ==
  /\ SessionTypes /\ calling \in [PageCalls -> Call] /\ (\A c \in PageCalls : CallInv(c))
  /\ CheckInv /\ ToldInv /\ ShowsTokenOwner

LEMMA SessionInvImplies == SessionIInv => SessionInv
<1> SUFFICES ASSUME SessionIInv PROVE SessionInv
  OBVIOUS
<1>1. SessionTypeOK
  <2>1. Cardinality(browser.user) <= 1
    <3>1. CASE browser.user = {}
      BY <3>1, FS_EmptySet
    <3>2. CASE \E e \in Email : browser.user = {e}
      <4>1. PICK e : browser.user = {e}
        BY <3>2
      <4>2. Cardinality({e}) = 1
        BY FS_Singleton
      <4>3. QED
        BY <4>1, <4>2
    <3>3. QED
      BY <3>1, <3>2 DEF SessionIInv, SessionTypes
  <2>2. QED
    BY <2>1 DEF SessionIInv, SessionTypes, SessionTypeOK, Page
<1>2. SignedOutStaysOut
  BY DEF SessionIInv, CallInv, SignedOutStaysOut
<1>3. DelayedNotLost
  BY DEF SessionIInv, CallInv, DelayedNotLost
<1>4. QED
  BY <1>1, <1>2, <1>3 DEF SessionIInv, SessionInv

LEMMA NoCall ==
  NotCalling \in Call /\ \A at \in {"sent", "failed"} : [NotCalling EXCEPT !.at = at] \in Call
BY DEF NotCalling, Call, NoToken

LEMMA SessionInvInit == SessionInit => SessionIInv
<1> SUFFICES ASSUME SessionInit PROVE SessionIInv
  OBVIOUS
<1>1. PICK e \in Holder, left \in {"none", "valid", "expired"} :
        /\ accounts = {e} /\ redisUp \in BOOLEAN /\ revoked = [redis |-> {}, memory |-> {}]
        /\ issued = IF left = "none" THEN <<>> ELSE <<[owner |-> e, expired |-> left = "expired"]>>
        /\ browser = [token |-> Len(issued), user |-> {}, csrf |-> NoToken, cookie |-> NoToken,
                      checks |-> 0, superseded |-> FALSE]
        /\ calling = [c \in PageCalls |->
             IF c = PageCheck /\ left # "none"
             THEN [NotCalling EXCEPT !.op = "me", !.at = "sent", !.token = 1]
             ELSE NotCalling]
        /\ began = 0 /\ bother = 0 /\ toldGone = {} /\ forgotten = {} /\ overtaken = FALSE
  BY DEF SessionInit
<1>2. e \in Email
  BY <1>1, SessionAssumption
<1>3. /\ issued \in Seq([owner : Email, expired : BOOLEAN])
      /\ Len(issued) = IF left = "none" THEN 0 ELSE 1
  <2>1. CASE left = "none"
    BY <1>1, <2>1
  <2>2. CASE left # "none"
    <3>1. [owner |-> e, expired |-> left = "expired"] \in [owner : Email, expired : BOOLEAN]
      BY <1>2
    <3>2. QED
      BY <1>1, <2>2, <3>1
  <2>3. QED
    BY <2>1, <2>2
<1>4. SessionTypes
  <2>1. browser \in Page /\ browser.token \in AccessToken \cup {NoToken} /\ browser.user = {}
    BY <1>1, <1>3 DEF Page, AccessToken, NoToken
  <2>2. Len(issued) <= TokenBound /\ began \in 0..BeginBound /\ bother \in 0..TroubleBound
    BY <1>1, <1>3, SessionAssumption
  <2>3. QED
    BY <1>1, <1>2, <1>3, <2>1, <2>2 DEF SessionTypes
<1>5. PICK asks :
        /\ asks = [NotCalling EXCEPT !.op = "me", !.at = "sent", !.token = 1]
        /\ calling = [c \in PageCalls |-> IF c = PageCheck /\ left # "none" THEN asks ELSE NotCalling]
  BY <1>1
<1>6. /\ asks = [op |-> "me", at |-> "sent", who |-> {}, token |-> 1, csrf |-> NoToken,
                 cookie |-> NoToken, retried |-> FALSE, gone |-> FALSE, shaken |-> FALSE]
      /\ asks \in Call /\ NotCalling \in Call
  <2>1. asks = [op |-> "me", at |-> "sent", who |-> {}, token |-> 1, csrf |-> NoToken,
                cookie |-> NoToken, retried |-> FALSE, gone |-> FALSE, shaken |-> FALSE]
    BY <1>5 DEF NotCalling
  <2>2. QED
    BY <2>1, NoCall DEF Call, NoToken
<1>7. calling \in [PageCalls -> Call]
  BY <1>5, <1>6
<1>8. ASSUME NEW c \in PageCalls PROVE CallInv(c)
  <2>1. CASE calling[c] = NotCalling /\ (c # PageCheck \/ left = "none")
    BY <2>1 DEF CallInv, NotCalling
  <2>2. CASE calling[c] = asks /\ left # "none" /\ c = PageCheck
    BY <1>3, <1>6, <2>2 DEF CallInv, AccessToken, SkipCsrfProtection
  <2>3. QED
    BY <1>5, <2>1, <2>2
<1>9. CheckInv
  BY <1>1, <1>3, <1>5, <1>6 DEF CheckInv, NotCalling, PageCalls
<1>10. QED
  BY <1>1, <1>4, <1>7, <1>8, <1>9 DEF SessionIInv, ToldInv, ShowsTokenOwner
-----------------------------------------------------------------------------
\* What a step may do without any other call's noticing.
Steady ==
  /\ AccessToken \subseteq AccessToken'
  /\ \A t \in AccessToken : issued'[t].owner = issued[t].owner
  /\ Listed \subseteq Listed' /\ browser'.cookie = browser.cookie

LEMMA CallRests ==
  ASSUME NEW c, CallInv(c), Steady, calling'[c] = calling[c] PROVE CallInv(c)'
<1>1. calling[c].token # NoToken /\ calling[c].token \in AccessToken \cup {NoToken}
        => issued'[calling[c].token].owner = issued[calling[c].token].owner
  BY DEF Steady
<1> DEFINE me == calling[c]
<1>2. calling'[c] = me
  OBVIOUS
<1>3. me.token \in AccessToken' \cup {NoToken}
  BY DEF CallInv, Steady
<1>4. me.at = "revoked" => me.op = "logout" /\ me.token \in Listed'
  BY DEF CallInv, Steady
<1>5. QED
  BY <1>1, <1>3, <1>4 DEF CallInv, Steady

LEMMA CheckRests ==
  ASSUME CheckInv, calling'[PageCheck] = calling[PageCheck], overtaken => overtaken',
         browser'.token \in {browser.token, NoToken}
  PROVE  CheckInv'
BY DEF CheckInv

LEMMA ShownRests ==
  ASSUME ShowsTokenOwner, Steady, UNCHANGED overtaken, browser.token \in AccessToken \cup {NoToken},
         browser'.token \in {browser.token, NoToken}, browser'.user \in {browser.user, {}}
  PROVE  ShowsTokenOwner'
BY DEF ShowsTokenOwner, Steady

\* One call goes on, and only what Steady allows changes around it.
LEMMA CallStep ==
  ASSUME SessionIInv, NEW c \in PageCalls, NEW new \in Call, calling' = [calling EXCEPT ![c] = new],
         Steady, SessionTypes', CallInv(c)', c = PageCheck => CheckInv', ToldInv', UNCHANGED overtaken,
         browser'.token \in {browser.token, NoToken}, ShowsTokenOwner'
  PROVE  SessionIInv'
<1>1. /\ calling' \in [PageCalls -> Call] /\ calling'[c] = new
      /\ \A d \in PageCalls \ {c} : calling'[d] = calling[d]
  BY DEF SessionIInv
<1>2. \A d \in PageCalls : CallInv(d)'
  BY <1>1, CallRests DEF SessionIInv
<1>3. CheckInv'
  BY <1>1, CheckRests DEF SessionIInv, PageCalls
<1>4. QED
  BY <1>1, <1>2, <1>3 DEF SessionIInv

\* One call goes on, and nothing changes around it but the counters.
LEMMA QuietStep ==
  ASSUME SessionIInv, NEW c \in PageCalls, NEW new \in Call, calling' = [calling EXCEPT ![c] = new],
         UNCHANGED <<accounts, issued, revoked, redisUp, browser, overtaken, toldGone, forgotten>>,
         began' \in 0..BeginBound, bother' \in 0..TroubleBound,
         CallInv(c)', c = PageCheck => CheckInv'
  PROVE  SessionIInv'
<1>1. Steady
  BY DEF Steady, AccessToken, Listed
<1>2. SessionTypes' /\ ToldInv'
  BY DEF SessionIInv, SessionTypes, AccessToken, ToldInv, Listed
<1>3. ShowsTokenOwner'
  BY DEF SessionIInv, ShowsTokenOwner
<1>4. QED
  BY <1>1, <1>2, <1>3, CallStep

LEMMA Counters ==
  ASSUME SessionTypes, began' = began \/ (began < BeginBound /\ began' = began + 1),
         UNCHANGED bother \/ SessionTrouble
  PROVE  began' \in 0..BeginBound /\ bother' \in 0..TroubleBound
BY SessionAssumption DEF SessionTypes, SessionTrouble

\* Whether the call is the page's check or another.
LEMMA OtherCalls == \A c \in PageCall : c \in PageCalls /\ c # PageCheck
BY SessionAssumption DEF PageCalls

LEMMA BeginStep ==
  ASSUME SessionIInv, NEW c \in PageCall, NEW op, NEW who,
         \/ op \in {"write", "logout"} /\ who = {}
         \/ op \in {"login", "register", "sso"} /\ \E e \in Email : who = {e},
         BeginCall(c, op, who)
  PROVE  SessionIInv'
<1>1. PICK call : call = [NotCalling EXCEPT !.op = op, !.who = who]
  OBVIOUS
<1>2. /\ calling[c].at = "idle" /\ began < BeginBound /\ began' = began + 1
      /\ calling' = [calling EXCEPT ![c] =
           IF op \in StateChanging /\ browser.csrf = NoToken THEN AskCsrf(call, browser)
           ELSE SendCall(call, browser)]
      /\ UNCHANGED <<browser, bother, overtaken>>
      /\ UNCHANGED <<accounts, issued, revoked, redisUp, toldGone, forgotten>>
  BY <1>1 DEF BeginCall, ServerRests
<1>3. call = [op |-> op, at |-> "idle", who |-> who, token |-> NoToken, csrf |-> NoToken,
              cookie |-> NoToken, retried |-> FALSE, gone |-> FALSE, shaken |-> FALSE]
  BY <1>1 DEF NotCalling
<1>4. browser \in Page /\ browser.token \in AccessToken \cup {NoToken}
  BY DEF SessionIInv, SessionTypes
<1>5. PICK new \in Call :
        /\ calling' = [calling EXCEPT ![c] = new]
        /\ new.op = op /\ new.who = who /\ new.at \in {"asks", "sent"} /\ new.retried = FALSE
        /\ new.token \in AccessToken \cup {NoToken}
  <2>1. CASE op \in StateChanging /\ browser.csrf = NoToken
    <3>1. PICK new : new = AskCsrf(call, browser)
      OBVIOUS
    <3>2. new = [op |-> op, at |-> "asks", who |-> who, token |-> NoToken, csrf |-> NoToken,
                 cookie |-> browser.cookie, retried |-> FALSE, gone |-> FALSE, shaken |-> FALSE]
      BY <1>3, <3>1 DEF AskCsrf
    <3>3. new \in Call
      BY <1>4, <3>2 DEF Call, Page, NoToken
    <3>4. calling' = [calling EXCEPT ![c] = new]
      BY <1>2, <2>1, <3>1
    <3>5. /\ new.op = op /\ new.who = who /\ new.at = "asks" /\ new.retried = FALSE
          /\ new.token = NoToken
      BY <3>2
    <3>6. QED
      BY <3>3, <3>4, <3>5
  <2>2. CASE ~(op \in StateChanging /\ browser.csrf = NoToken)
    <3>1. PICK new : new = SendCall(call, browser)
      OBVIOUS
    <3>2. PICK csrf \in Nat, cookie \in Nat :
            new = [op |-> op, at |-> "sent", who |-> who, token |-> browser.token, csrf |-> csrf,
                   cookie |-> cookie, retried |-> FALSE, gone |-> FALSE, shaken |-> FALSE]
      BY <1>3, <1>4, <3>1 DEF SendCall, Page, NoToken
    <3>3. new \in Call
      BY <1>4, <3>2 DEF Call, Page
    <3>4. calling' = [calling EXCEPT ![c] = new]
      BY <1>2, <2>2, <3>1
    <3>5. /\ new.op = op /\ new.who = who /\ new.at = "sent" /\ new.retried = FALSE
          /\ new.token = browser.token
      BY <3>2
    <3>6. QED
      BY <1>4, <3>3, <3>4, <3>5
  <2>3. QED
    BY <2>1, <2>2
<1>6. calling'[c] = new
  BY <1>5, OtherCalls DEF SessionIInv
<1>7. CallInv(c)'
  BY <1>2, <1>5, <1>6, OtherCalls DEF CallInv, AccessToken
<1>8. began' \in 0..BeginBound /\ bother' \in 0..TroubleBound
  BY <1>2, Counters DEF SessionIInv
<1>9. QED
  BY <1>2, <1>5, <1>7, <1>8, OtherCalls, QuietStep

\* The answers of the server.
LEMMA ReceiveStep == ASSUME SessionIInv, NEW c \in PageCalls, Receive(c) PROVE SessionIInv'
<1>1. PICK me \in Call : me = calling[c]
  BY DEF SessionIInv
<1> DEFINE forbidden == me.op \notin SkipCsrfProtection /\ me.csrf \notin {me.cookie} \ {NoToken}
           refused == me.op \in Authenticated /\ (me.token = NoToken \/ isBlacklisted(me.token))
           at == IF forbidden THEN "forbidden" ELSE IF refused THEN "unauthorized" ELSE "checked"
           gone == /\ me.op \in Authenticated
                   /\ me.token \in toldGone \ forgotten /\ (me.token \in revoked.redis => redisUp)
<1>2. /\ me.at = "sent"
      /\ calling' = [calling EXCEPT ![c].at = at, ![c].csrf = NoToken, ![c].cookie = NoToken,
                                    ![c].gone = gone]
      /\ UNCHANGED <<browser, began, overtaken, bother>>
      /\ UNCHANGED <<accounts, issued, revoked, redisUp, toldGone, forgotten>>
  BY <1>1 DEF Receive, PageRests, ServerRests
<1>3. gone /\ me.token # NoToken => isBlacklisted(me.token)
  BY DEF SessionIInv, ToldInv, Listed, isBlacklisted, ListedAnywhere
<1>4. PICK stage, lost :
        /\ stage \in {"forbidden", "unauthorized", "checked"} /\ lost \in BOOLEAN
        /\ stage = "forbidden" => me.op \notin SkipCsrfProtection /\ me.csrf \notin {me.cookie} \ {NoToken}
        /\ stage = "checked" => ~lost /\ (me.op \in Authenticated => me.token # NoToken)
        /\ calling' = [calling EXCEPT ![c].at = stage, ![c].csrf = NoToken, ![c].cookie = NoToken,
                                      ![c].gone = lost]
  <2>1. at \in {"forbidden", "unauthorized", "checked"} /\ gone \in BOOLEAN
    OBVIOUS
  <2>2. at = "forbidden" => forbidden
    OBVIOUS
  <2>3. at = "checked" => ~gone /\ (me.op \in Authenticated => me.token # NoToken)
    BY <1>3
  <2> HIDE DEF at, gone
  <2>4. QED
    BY <1>2, <2>1, <2>2, <2>3
<1> HIDE DEF at, gone, forbidden, refused
<1>5. PICK new : new = [me EXCEPT !.at = stage, !.csrf = NoToken, !.cookie = NoToken, !.gone = lost]
  OBVIOUS
<1>6. calling' = [calling EXCEPT ![c] = new]
  BY <1>1, <1>4, <1>5 DEF SessionIInv
<1>7. /\ new \in Call /\ new.op = me.op /\ new.at = stage /\ new.who = me.who /\ new.token = me.token
      /\ new.retried = me.retried /\ new.shaken = me.shaken /\ new.gone = lost
  BY <1>4, <1>5 DEF Call, NoToken
<1>8. calling'[c] = new
  BY <1>6 DEF SessionIInv
<1>9. CallInv(c)'
  <2>1. /\ me.token \in AccessToken' \cup {NoToken}
        /\ c = PageCheck => me.op = "me"
        /\ me.op \in {"login", "register", "sso"} => \E e \in Email : me.who = {e}
        /\ (me.retried /\ ~me.shaken /\ me.op \notin SkipCsrfProtection)
             => me.csrf = me.cookie /\ me.csrf # NoToken
    BY <1>1, <1>2 DEF SessionIInv, CallInv, AccessToken
  <2>2. c = PageCheck => stage \in {"checked", "unauthorized"}
    BY <1>4, <2>1 DEF SkipCsrfProtection
  <2>3. (stage = "forbidden" /\ me.retried) => me.shaken
    BY <1>4, <2>1 DEF Call
  <2>4. QED
    BY <1>4, <1>7, <1>8, <2>1, <2>2, <2>3 DEF CallInv
<1>10. c = PageCheck => CheckInv'
  BY <1>1, <1>2, <1>7, <1>8 DEF SessionIInv, CheckInv
<1>11. began' \in 0..BeginBound /\ bother' \in 0..TroubleBound
  BY <1>2, Counters DEF SessionIInv
<1>12. QED
  BY <1>2, <1>6, <1>7, <1>9, <1>10, <1>11, QuietStep

\* A call moves on to another stage.
LEMMA GoesStep ==
  ASSUME SessionIInv, NEW c \in PageCalls, c # PageCheck, NEW stage,
         CallGoes(c, stage), stage \in {"ok", "unauthorized", "rejected", "creates", "revoked"},
         stage = "revoked" => calling[c].op = "logout" /\ calling[c].token \in Listed',
         stage = "creates" => calling[c].op \in {"register", "sso"},
         stage = "ok" => calling[c].op \notin {"login", "register", "me"},
         stage = "rejected" => calling[c].retried /\ calling[c].shaken,
         Steady, SessionTypes', ToldInv', UNCHANGED <<browser, issued, overtaken>>
  PROVE  SessionIInv'
<1>1. PICK me \in Call : me = calling[c]
  BY DEF SessionIInv
<1>2. PICK new : new = [me EXCEPT !.at = stage]
  OBVIOUS
<1>3. calling' = [calling EXCEPT ![c] = new]
  BY <1>1, <1>2 DEF CallGoes, SessionIInv
<1>4. /\ new \in Call /\ new.op = me.op /\ new.at = stage /\ new.who = me.who /\ new.token = me.token
      /\ new.retried = me.retried /\ new.shaken = me.shaken
  BY <1>2 DEF Call
<1>5. calling'[c] = new
  BY <1>3 DEF SessionIInv
<1>6. CallInv(c)'
  <2>1. /\ me.token \in AccessToken' \cup {NoToken}
        /\ me.op \in {"login", "register", "sso"} => \E e \in Email : me.who = {e}
    BY <1>1 DEF SessionIInv, CallInv, Steady
  <2>2. QED
    BY <1>1, <1>4, <1>5, <2>1 DEF CallInv
<1>7. ShowsTokenOwner'
  BY ShownRests DEF SessionIInv, SessionTypes
<1>8. QED
  BY <1>3, <1>4, <1>6, <1>7, CallStep

\* A call comes to its end.
LEMMA EndStep ==
  ASSUME SessionIInv, NEW c \in PageCalls, calling' = CallEnds(c), Steady, SessionTypes', ToldInv',
         UNCHANGED overtaken, browser'.token \in {browser.token, NoToken}, ShowsTokenOwner'
  PROVE  SessionIInv'
<1>1. NotCalling \in Call /\ calling' = [calling EXCEPT ![c] = NotCalling]
  BY NoCall DEF CallEnds
<1>2. calling'[c] = NotCalling
  BY <1>1 DEF SessionIInv
<1>3. CallInv(c)' /\ (c = PageCheck => CheckInv')
  BY <1>2 DEF CallInv, CheckInv, NotCalling
<1>4. QED
  BY <1>1, <1>3, CallStep

\* A call for which an access token is issued.
LEMMA IssueStep ==
  ASSUME SessionIInv, NEW c \in PageCalls, calling[c].op \in {"login", "register"},
         NEW e \in calling[c].who, ~NoMoreTokens, IssueTokens(c, e), PageRests,
         UNCHANGED <<bother, revoked, redisUp, toldGone, forgotten>>, accounts' \subseteq Email
  PROVE  SessionIInv'
<1>1. PICK me \in Call : me = calling[c]
  BY DEF SessionIInv
<1>2. e \in Email /\ me.who = {e}
  BY <1>1 DEF SessionIInv, CallInv
<1>3. PICK row : row = [owner |-> e, expired |-> FALSE]
  OBVIOUS
<1>4. /\ issued' = Append(issued, row) /\ row \in [owner : Email, expired : BOOLEAN] /\ row.owner = e
      /\ issued \in Seq([owner : Email, expired : BOOLEAN]) /\ Len(issued) < TokenBound
  BY <1>2, <1>3, SessionAssumption DEF IssueTokens, SessionIInv, SessionTypes, NoMoreTokens
<1>5. /\ issued' \in Seq([owner : Email, expired : BOOLEAN]) /\ Len(issued') = Len(issued) + 1
      /\ issued'[Len(issued')] = row /\ (\A t \in AccessToken : issued'[t] = issued[t])
      /\ Len(issued) \in Nat /\ Len(issued') <= TokenBound
  BY <1>4, SessionAssumption DEF AccessToken
<1>6. AccessToken \subseteq AccessToken' /\ Len(issued') \in AccessToken' /\ Len(issued') # NoToken
  BY <1>5 DEF AccessToken, NoToken
<1>7. UNCHANGED <<browser, began, overtaken, bother, revoked, redisUp, toldGone, forgotten>>
  BY DEF PageRests
<1>8. Steady
  BY <1>5, <1>6, <1>7 DEF Steady, Listed
<1>9. SessionTypes'
  BY <1>5, <1>6, <1>7 DEF SessionIInv, SessionTypes
<1>10. ToldInv' /\ ShowsTokenOwner'
  BY <1>7, <1>8, ShownRests DEF SessionIInv, SessionTypes, ToldInv, Listed
<1>11. PICK new : new = [me EXCEPT !.at = "ok", !.token = Len(issued')]
  OBVIOUS
<1>12. calling' = [calling EXCEPT ![c] = new]
  BY <1>1, <1>11 DEF IssueTokens, SessionIInv
<1>13. /\ new \in Call /\ new.op = me.op /\ new.at = "ok" /\ new.who = me.who
       /\ new.token = Len(issued')
  <2>1. PICK n \in Nat : n = Len(issued')
    BY <1>5
  <2>2. new = [me EXCEPT !.at = "ok", !.token = n]
    BY <1>11, <2>1
  <2>3. QED
    BY <2>1, <2>2 DEF Call
<1>14. calling'[c] = new
  BY <1>12 DEF SessionIInv
<1>15. c # PageCheck
  BY DEF SessionIInv, CallInv
<1>16. CallInv(c)'
  BY <1>1, <1>2, <1>4, <1>5, <1>6, <1>13, <1>14, <1>15 DEF CallInv
<1>17. QED
  BY <1>7, <1>8, <1>9, <1>10, <1>12, <1>13, <1>15, <1>16, CallStep

\* What holds when nothing but calls moves.
LEMMA Around ==
  ASSUME SessionIInv, PageRests, UNCHANGED <<issued, revoked, redisUp, toldGone, forgotten>>,
         accounts' \subseteq Email, UNCHANGED bother \/ SessionTrouble
  PROVE  /\ Steady /\ SessionTypes' /\ ToldInv' /\ ShowsTokenOwner'
         /\ UNCHANGED <<browser, issued, overtaken>>
<1>1. UNCHANGED <<browser, began, overtaken, issued, revoked, redisUp, toldGone, forgotten>>
  BY DEF PageRests
<1>2. bother' \in 0..TroubleBound
  BY Counters DEF SessionIInv, PageRests
<1>3. Steady /\ ToldInv' /\ ShowsTokenOwner'
  BY <1>1 DEF Steady, Listed, AccessToken, SessionIInv, ToldInv, ShowsTokenOwner
<1>4. SessionTypes'
  BY <1>1, <1>2 DEF SessionIInv, SessionTypes, AccessToken
<1>5. QED
  BY <1>1, <1>3, <1>4

LEMMA WriteStep == ASSUME SessionIInv, NEW c \in PageCalls, WriteChecked(c) PROVE SessionIInv'
<1>1. PICK stage \in {"unauthorized", "ok"} :
        /\ calling[c].op = "write" /\ calling[c].at = "checked" /\ CallGoes(c, stage)
        /\ PageRests /\ UNCHANGED bother /\ ServerRests
  BY DEF WriteChecked
<1>2. c # PageCheck
  BY <1>1 DEF SessionIInv, CallInv
<1>3. accounts' \subseteq Email
  BY <1>1 DEF ServerRests, SessionIInv, SessionTypes
<1>4. /\ Steady /\ SessionTypes' /\ ToldInv' /\ ShowsTokenOwner'
      /\ UNCHANGED <<browser, issued, overtaken>>
  BY <1>1, <1>3, Around DEF ServerRests
<1>5. QED
  BY <1>1, <1>2, <1>4, GoesStep

LEMMA RevokeStep == ASSUME SessionIInv, NEW c \in PageCalls, Revoke(c) PROVE SessionIInv'
<1>1. /\ calling[c].op = "logout" /\ calling[c].at = "checked"
      /\ UNCHANGED <<browser, began, overtaken, bother, accounts, issued, redisUp, toldGone, forgotten>>
      /\ \/ CallGoes(c, "unauthorized") /\ UNCHANGED revoked
         \/ /\ CallGoes(c, "revoked")
            /\ revoked' \in {[revoked EXCEPT !.redis = @ \cup {calling[c].token}],
                             [revoked EXCEPT !.memory = @ \cup {calling[c].token}]}
  BY DEF Revoke, PageRests
<1>2. c # PageCheck /\ calling[c].token \in AccessToken
  BY <1>1 DEF SessionIInv, CallInv, Authenticated
<1>3. PICK stage \in {"unauthorized", "revoked"} :
        /\ CallGoes(c, stage) /\ Listed \subseteq Listed'
        /\ revoked' \in [redis : SUBSET AccessToken, memory : SUBSET AccessToken]
        /\ stage = "revoked" => calling[c].token \in Listed'
  <2>1. revoked \in [redis : SUBSET AccessToken, memory : SUBSET AccessToken]
    BY DEF SessionIInv, SessionTypes
  <2>2. CASE CallGoes(c, "unauthorized") /\ UNCHANGED revoked
    BY <2>1, <2>2 DEF Listed
  <2>3. CASE CallGoes(c, "revoked") /\ revoked' = [revoked EXCEPT !.redis = @ \cup {calling[c].token}]
    BY <1>2, <2>1, <2>3 DEF Listed
  <2>4. CASE CallGoes(c, "revoked") /\ revoked' = [revoked EXCEPT !.memory = @ \cup {calling[c].token}]
    BY <1>2, <2>1, <2>4 DEF Listed
  <2>5. QED
    BY <1>1, <2>2, <2>3, <2>4
<1>4. Steady
  BY <1>1, <1>3 DEF Steady, AccessToken
<1>5. SessionTypes'
  BY <1>1, <1>3 DEF SessionIInv, SessionTypes, AccessToken
<1>6. ToldInv'
  BY <1>1, <1>3 DEF SessionIInv, ToldInv
<1>7. QED
  BY <1>1, <1>2, <1>3, <1>4, <1>5, <1>6, GoesStep

LEMMA LogoutStep == ASSUME SessionIInv, NEW c \in PageCalls, LogoutEnds(c) PROVE SessionIInv'
<1>1. /\ calling[c].at = "revoked" /\ calling[c].op = "logout" /\ c # PageCheck
      /\ calling[c].token \in Listed
  BY DEF LogoutEnds, SessionIInv, CallInv
<1>2. accounts' \subseteq Email
  BY DEF LogoutEnds, SessionIInv, SessionTypes
<1>3. CASE /\ calling' = CallEnds(c) /\ SessionTrouble /\ UNCHANGED toldGone
           /\ PageRests /\ UNCHANGED <<accounts, issued, revoked, redisUp, forgotten>>
  <2>1. /\ Steady /\ SessionTypes' /\ ToldInv' /\ ShowsTokenOwner'
        /\ UNCHANGED <<browser, issued, overtaken>>
    BY <1>2, <1>3, Around
  <2>2. QED
    BY <1>3, <2>1, EndStep
<1>4. CASE /\ CallGoes(c, "ok") /\ toldGone' = toldGone \cup {calling[c].token} /\ UNCHANGED bother
           /\ PageRests /\ UNCHANGED <<accounts, issued, revoked, redisUp, forgotten>>
  <2>1. UNCHANGED <<browser, began, overtaken, bother, accounts, issued, revoked, redisUp, forgotten>>
    BY <1>4 DEF PageRests
  <2>2. Steady
    BY <2>1 DEF Steady, AccessToken, Listed
  <2>3. SessionTypes'
    BY <2>1 DEF SessionIInv, SessionTypes, AccessToken
  <2>4. ToldInv'
    BY <1>1, <1>4, <2>1 DEF SessionIInv, ToldInv, Listed
  <2>5. QED
    BY <1>1, <1>4, <2>1, <2>2, <2>3, <2>4, GoesStep
<1>5. QED
  BY <1>3, <1>4 DEF LogoutEnds

LEMMA LoginStep == ASSUME SessionIInv, NEW c \in PageCalls, login(c) PROVE SessionIInv'
<1>1. PICK e \in calling[c].who :
        /\ calling[c].op = "login"
        /\ \/ ~NoMoreTokens /\ IssueTokens(c, e)
           \/ CallGoes(c, "unauthorized") /\ UNCHANGED issued
        /\ PageRests /\ UNCHANGED <<bother, accounts, revoked, redisUp, toldGone, forgotten>>
  BY DEF login
<1>2. c # PageCheck /\ accounts' \subseteq Email
  BY <1>1 DEF SessionIInv, SessionTypes, CallInv
<1>3. CASE ~NoMoreTokens /\ IssueTokens(c, e)
  BY <1>1, <1>2, <1>3, IssueStep
<1>4. CASE CallGoes(c, "unauthorized") /\ UNCHANGED issued
  <2>1. /\ Steady /\ SessionTypes' /\ ToldInv' /\ UNCHANGED <<browser, issued, overtaken>>
    BY <1>1, <1>2, <1>4, Around
  <2>2. QED
    BY <1>2, <1>4, <2>1, GoesStep
<1>5. QED
  BY <1>1, <1>3, <1>4

LEMMA FindAccountStep == ASSUME SessionIInv, NEW c \in PageCalls, FindAccount(c) PROVE SessionIInv'
<1>1. /\ calling[c].op \in {"register", "sso"}
      /\ \/ \E stage \in {"creates", "unauthorized"} : CallGoes(c, stage)
         \/ calling' = CallEnds(c)
      /\ PageRests /\ UNCHANGED <<bother, accounts, issued, revoked, redisUp, toldGone, forgotten>>
  BY DEF FindAccount
<1>2. c # PageCheck /\ accounts' \subseteq Email
  BY <1>1 DEF SessionIInv, SessionTypes, CallInv
<1>3. /\ Steady /\ SessionTypes' /\ ToldInv' /\ ShowsTokenOwner'
      /\ UNCHANGED <<browser, issued, overtaken>>
  BY <1>1, <1>2, Around
<1>4. CASE \E stage \in {"creates", "unauthorized"} : CallGoes(c, stage)
  BY <1>1, <1>2, <1>3, <1>4, GoesStep
<1>5. CASE calling' = CallEnds(c)
  BY <1>3, <1>5, EndStep
<1>6. QED
  BY <1>1, <1>4, <1>5

LEMMA CreateStep == ASSUME SessionIInv, NEW c \in PageCalls, CreateAccount(c) PROVE SessionIInv'
<1>1. PICK e \in calling[c].who :
        /\ calling[c].at = "creates" /\ accounts' \subseteq accounts \cup {e}
        /\ \/ calling' = CallEnds(c) /\ UNCHANGED issued
           \/ calling[c].op # "sso" /\ ~NoMoreTokens /\ IssueTokens(c, e)
        /\ PageRests /\ UNCHANGED <<bother, revoked, redisUp, toldGone, forgotten>>
  BY DEF CreateAccount
<1>2. calling[c].op \in {"register", "sso"} /\ calling[c].who \subseteq Email
  BY <1>1 DEF SessionIInv, CallInv, Call
<1>3. accounts' \subseteq Email
  BY <1>1, <1>2 DEF SessionIInv, SessionTypes
<1>4. CASE calling' = CallEnds(c) /\ UNCHANGED issued
  <2>1. /\ Steady /\ SessionTypes' /\ ToldInv' /\ ShowsTokenOwner'
        /\ UNCHANGED <<browser, issued, overtaken>>
    BY <1>1, <1>3, <1>4, Around
  <2>2. QED
    BY <1>4, <2>1, EndStep
<1>5. CASE calling[c].op # "sso" /\ ~NoMoreTokens /\ IssueTokens(c, e)
  BY <1>1, <1>2, <1>3, <1>5, IssueStep
<1>6. QED
  BY <1>1, <1>4, <1>5

LEMMA OwnersAreKnown == ASSUME SessionIInv, NEW t \in AccessToken PROVE issued[t].owner \in Email
<1>1. issued \in Seq([owner : Email, expired : BOOLEAN]) /\ t \in 1..Len(issued)
  BY DEF SessionIInv, SessionTypes, AccessToken
<1>2. issued[t] \in [owner : Email, expired : BOOLEAN]
  BY <1>1, ElementOfSeq
<1>3. QED
  BY <1>2

LEMMA CurrentUserStep == ASSUME SessionIInv, GetCurrentUser PROVE SessionIInv'
<1>1. PICK me \in Call : me = calling[PageCheck] /\ PageCheck \in PageCalls
  BY DEF SessionIInv, PageCalls
<1>2. PICK stage \in {"unauthorized", "ok"} :
        /\ me.at = "checked"
        /\ calling' = [calling EXCEPT ![PageCheck].at = stage,
                                      ![PageCheck].who = {issued[me.token].owner}]
        /\ UNCHANGED <<browser, began, overtaken, bother>>
        /\ UNCHANGED <<accounts, issued, revoked, redisUp, toldGone, forgotten>>
  BY <1>1 DEF GetCurrentUser, PageRests, ServerRests
<1>3. me.op = "me" /\ me.token \in AccessToken /\ me.token # NoToken
  BY <1>1, <1>2 DEF SessionIInv, CallInv, Authenticated
<1>4. PICK owner \in Email : owner = issued[me.token].owner
  BY <1>3, OwnersAreKnown
<1>5. PICK new : new = [me EXCEPT !.at = stage, !.who = {owner}]
  OBVIOUS
<1>6. calling' = [calling EXCEPT ![PageCheck] = new]
  BY <1>1, <1>2, <1>4, <1>5 DEF SessionIInv
<1>7. /\ new \in Call /\ new.op = me.op /\ new.at = stage /\ new.who = {owner} /\ new.token = me.token
      /\ new.retried = me.retried /\ new.shaken = me.shaken
  BY <1>5 DEF Call
<1>8. calling'[PageCheck] = new
  BY <1>1, <1>6 DEF SessionIInv
<1>9. CallInv(PageCheck)'
  BY <1>2, <1>3, <1>4, <1>7, <1>8 DEF CallInv, AccessToken
<1>10. CheckInv'
  BY <1>1, <1>2, <1>7, <1>8 DEF SessionIInv, CheckInv
<1>11. began' \in 0..BeginBound /\ bother' \in 0..TroubleBound
  BY <1>2, Counters DEF SessionIInv
<1>12. QED
  BY <1>1, <1>2, <1>6, <1>7, <1>9, <1>10, <1>11, QuietStep
-----------------------------------------------------------------------------
\* The page hears of an answer, and what it holds changes.
LEMMA PageMoves ==
  ASSUME SessionIInv, NEW token \in AccessToken \cup {NoToken}, NEW user \in SUBSET Email,
         NEW checks \in 0..1, NEW superseded \in BOOLEAN,
         browser' = [browser EXCEPT !.token = token, !.user = user, !.checks = checks,
                                    !.superseded = superseded],
         user = {} \/ \E e \in Email : user = {e}, overtaken' \in BOOLEAN,
         UNCHANGED <<began, bother>>, ServerRests
  PROVE  /\ Steady /\ SessionTypes' /\ ToldInv'
         /\ browser'.token = token /\ browser'.user = user
<1>1. browser \in Page /\ AccessToken \subseteq Nat
  BY DEF SessionIInv, SessionTypes, AccessToken
<1>2. token \in Nat
  BY <1>1 DEF NoToken
<1>3. /\ browser' \in Page /\ browser'.token = token /\ browser'.user = user
      /\ browser'.cookie = browser.cookie
  BY <1>1, <1>2 DEF Page
<1>4. UNCHANGED <<accounts, issued, revoked, redisUp, toldGone, forgotten>>
  BY DEF ServerRests
<1>5. Steady /\ ToldInv'
  BY <1>3, <1>4 DEF Steady, AccessToken, Listed, SessionIInv, ToldInv
<1>6. SessionTypes'
  BY <1>1, <1>3, <1>4 DEF SessionIInv, SessionTypes, AccessToken
<1>7. QED
  BY <1>3, <1>5, <1>6

LEMMA PageStep ==
  ASSUME SessionIInv, NEW token \in {browser.token, NoToken}, NEW user \in SUBSET Email,
         NEW checks \in 0..1, NEW superseded \in BOOLEAN,
         browser' = [browser EXCEPT !.token = token, !.user = user, !.checks = checks,
                                    !.superseded = superseded],
         user = {} \/ \E e \in Email : user = {e},
         UNCHANGED <<began, bother, overtaken>>, ServerRests
  PROVE  /\ Steady /\ SessionTypes' /\ ToldInv'
         /\ browser'.token = token /\ browser'.user = user
<1>1. token \in AccessToken \cup {NoToken} /\ overtaken' \in BOOLEAN
  BY DEF SessionIInv, SessionTypes
<1>2. QED
  BY <1>1, PageMoves

\* The page's fields as they are.
LEMMA PageFields ==
  ASSUME SessionIInv
  PROVE  /\ browser.user \in SUBSET Email /\ (browser.user = {} \/ \E e \in Email : browser.user = {e})
         /\ browser.checks \in 0..1 /\ browser.superseded \in BOOLEAN /\ browser \in Page
BY DEF SessionIInv, SessionTypes, Page

LEMMA UnauthorizedStep == ASSUME SessionIInv, NEW c \in PageCalls, Unauthorized(c) PROVE SessionIInv'
<1>1. PICK user \in {{}, browser.user}, checks \in {1, browser.checks} :
        /\ browser' = [browser EXCEPT !.token = NoToken, !.user = user, !.checks = checks]
        /\ calling' = CallEnds(c)
        /\ UNCHANGED <<began, bother, overtaken>> /\ ServerRests
  BY DEF Unauthorized
<1>2. /\ user \in SUBSET Email /\ checks \in 0..1 /\ (user = {} \/ \E e \in Email : user = {e})
      /\ browser.superseded \in BOOLEAN /\ browser \in Page
  BY PageFields
<1>3. browser' = [browser EXCEPT !.token = NoToken, !.user = user, !.checks = checks,
                                 !.superseded = browser.superseded]
  BY <1>1, <1>2 DEF Page
<1>4. /\ Steady /\ SessionTypes' /\ ToldInv' /\ browser'.token = NoToken /\ browser'.user = user
  BY <1>1, <1>2, <1>3, PageStep
<1>5. ShowsTokenOwner'
  BY <1>4 DEF ShowsTokenOwner
<1>6. QED
  BY <1>1, <1>4, <1>5, EndStep

LEMMA CheckFailsStep == ASSUME SessionIInv, CheckFails PROVE SessionIInv'
<1>1. PICK token \in {browser.token, NoToken} :
        /\ browser' = [browser EXCEPT !.user = {}, !.checks = 1, !.token = token]
        /\ calling' = CallEnds(PageCheck)
        /\ UNCHANGED <<began, bother, overtaken>> /\ ServerRests
  BY DEF CheckFails
<1>2. browser \in Page
  BY PageFields
<1>3. PICK checks \in 0..1, user \in SUBSET Email, superseded \in BOOLEAN :
        /\ user = {}
        /\ browser' = [browser EXCEPT !.token = token, !.user = user, !.checks = checks,
                                      !.superseded = superseded]
  <2>1. browser' = [browser EXCEPT !.token = token, !.user = {}, !.checks = 1,
                                   !.superseded = browser.superseded]
    BY <1>1, <1>2 DEF Page
  <2>2. browser.superseded \in BOOLEAN /\ {} \in SUBSET Email /\ 1 \in 0..1
    BY PageFields
  <2>3. QED
    BY <2>1, <2>2
<1>4. /\ Steady /\ SessionTypes' /\ ToldInv' /\ browser'.token = token /\ browser'.user = {}
  <2>1. UNCHANGED <<began, bother, overtaken>> /\ ServerRests
    BY <1>1
  <2>2. /\ Steady /\ SessionTypes' /\ ToldInv' /\ browser'.token = token
        /\ browser'.user = user
    BY <1>1, <1>3, <2>1, PageStep
  <2>3. QED
    BY <1>3, <2>2
<1>5. ShowsTokenOwner' /\ PageCheck \in PageCalls
  BY <1>4 DEF ShowsTokenOwner, PageCalls
<1>6. QED
  BY <1>1, <1>4, <1>5, EndStep

LEMMA SupersededStep == ASSUME SessionIInv, SupersededFails PROVE SessionIInv'
<1>1. PICK token \in {browser.token, NoToken} :
        /\ browser' = [browser EXCEPT !.user = {}, !.token = token, !.superseded = FALSE]
        /\ UNCHANGED <<calling, began, bother, overtaken>> /\ ServerRests
  BY DEF SupersededFails
<1>2. browser \in Page
  BY PageFields
<1>3. PICK checks \in 0..1, user \in SUBSET Email, superseded \in BOOLEAN :
        /\ user = {}
        /\ browser' = [browser EXCEPT !.token = token, !.user = user, !.checks = checks,
                                      !.superseded = superseded]
  <2>1. browser' = [browser EXCEPT !.token = token, !.user = {}, !.checks = browser.checks,
                                   !.superseded = FALSE]
    BY <1>1, <1>2 DEF Page
  <2>2. browser.checks \in 0..1 /\ {} \in SUBSET Email /\ FALSE \in BOOLEAN
    BY PageFields
  <2>3. QED
    BY <2>1, <2>2
<1>4. /\ Steady /\ SessionTypes' /\ ToldInv' /\ browser'.token = token /\ browser'.user = {}
  <2>1. UNCHANGED <<began, bother, overtaken>> /\ ServerRests
    BY <1>1
  <2>2. /\ Steady /\ SessionTypes' /\ ToldInv' /\ browser'.token = token
        /\ browser'.user = user
    BY <1>1, <1>3, <2>1, PageStep
  <2>3. QED
    BY <1>3, <2>2
<1>5. ShowsTokenOwner' /\ CheckInv'
  BY <1>1, <1>4, CheckRests DEF SessionIInv, ShowsTokenOwner
<1>6. \A c \in PageCalls : CallInv(c)'
  BY <1>1, <1>4, CallRests DEF SessionIInv
<1>7. QED
  BY <1>1, <1>4, <1>5, <1>6 DEF SessionIInv

LEMMA ShowStep == ASSUME SessionIInv, ShowUser PROVE SessionIInv'
<1>1. PICK me \in Call : me = calling[PageCheck] /\ PageCheck \in PageCalls
  BY DEF SessionIInv, PageCalls
<1>2. /\ me.at = "ok" /\ browser' = [browser EXCEPT !.user = me.who, !.checks = 1]
      /\ calling' = CallEnds(PageCheck)
      /\ UNCHANGED <<began, bother, overtaken>> /\ ServerRests
  BY <1>1 DEF ShowUser
<1>3. /\ me.token \in AccessToken /\ me.who = {issued[me.token].owner}
      /\ ~overtaken => browser.token \in {me.token, NoToken}
  BY <1>1, <1>2 DEF SessionIInv, CallInv, CheckInv
<1>4. issued[me.token].owner \in Email
  BY <1>3, OwnersAreKnown
<1>5. browser.superseded \in BOOLEAN /\ browser \in Page
  BY PageFields
<1>6. PICK token : token = browser.token
  OBVIOUS
<1>7. PICK user : user = me.who
  OBVIOUS
<1>8. PICK superseded \in BOOLEAN : superseded = browser.superseded
  BY <1>5
<1>9. browser' = [browser EXCEPT !.token = token, !.user = user, !.checks = 1,
                                 !.superseded = superseded]
  <2>1. browser' = [browser EXCEPT !.token = browser.token, !.user = me.who, !.checks = 1,
                                   !.superseded = browser.superseded]
    BY <1>2, <1>5 DEF Page
  <2>2. QED
    BY <1>6, <1>7, <1>8, <2>1
<1>10. /\ user \in SUBSET Email /\ (\E e \in Email : user = {e})
       /\ token \in {browser.token, NoToken}
  BY <1>3, <1>4, <1>6, <1>7
<1>11. /\ Steady /\ SessionTypes' /\ ToldInv' /\ browser'.token = browser.token
       /\ browser'.user = me.who
  <2>1. UNCHANGED <<began, bother, overtaken>> /\ ServerRests /\ 1 \in 0..1
    BY <1>2
  <2>2. /\ Steady /\ SessionTypes' /\ ToldInv' /\ browser'.token = token /\ browser'.user = user
    BY <1>8, <1>9, <1>10, <2>1, PageStep
  <2>3. QED
    BY <1>6, <1>7, <2>2
<1>12. ShowsTokenOwner'
  <2>1. UNCHANGED <<issued, overtaken>>
    BY <1>2 DEF ServerRests
  <2>2. QED
    BY <1>3, <1>11, <2>1 DEF ShowsTokenOwner
<1>13. QED
  BY <1>1, <1>2, <1>11, <1>12, EndStep

LEMMA HeardStep == ASSUME SessionIInv, NEW c \in PageCalls, CallHeard(c) PROVE SessionIInv'
<1>1. calling' = CallEnds(c) /\ PageRests /\ UNCHANGED bother /\ ServerRests
  BY DEF CallHeard
<1>2. accounts' \subseteq Email
  BY <1>1 DEF ServerRests, SessionIInv, SessionTypes
<1>3. /\ Steady /\ SessionTypes' /\ ToldInv' /\ ShowsTokenOwner'
      /\ UNCHANGED <<browser, issued, overtaken>>
  BY <1>1, <1>2, Around DEF ServerRests
<1>4. QED
  BY <1>1, <1>3, EndStep

\* A call that tries again knows of another cookie.
LEMMA ShakenCalls ==
  ASSUME NEW calls \in [PageCalls -> Call], NEW cookie
  PROVE  /\ Shake(cookie, calls) \in [PageCalls -> Call]
         /\ \A c \in PageCalls :
              LET old == calls[c]  new == Shake(cookie, calls)[c] IN
              /\ new.op = old.op /\ new.at = old.at /\ new.who = old.who /\ new.token = old.token
              /\ new.csrf = old.csrf /\ new.cookie = old.cookie /\ new.retried = old.retried
              /\ new.gone = old.gone
              /\ new.shaken = (old.shaken \/ (old.retried /\ cookie # browser.cookie))
<1>1. ASSUME NEW c \in PageCalls
      PROVE  LET old == calls[c]  new == Shake(cookie, calls)[c] IN
              /\ new \in Call
              /\ new.op = old.op /\ new.at = old.at /\ new.who = old.who /\ new.token = old.token
              /\ new.csrf = old.csrf /\ new.cookie = old.cookie /\ new.retried = old.retried
              /\ new.gone = old.gone
              /\ new.shaken = (old.shaken \/ (old.retried /\ cookie # browser.cookie))
  <2>1. PICK old \in Call : old = calls[c]
    OBVIOUS
  <2>2. PICK shaken \in BOOLEAN : shaken = (old.shaken \/ (old.retried /\ cookie # browser.cookie))
    OBVIOUS
  <2>3. Shake(cookie, calls)[c] = [old EXCEPT !.shaken = shaken]
    BY <2>1, <2>2 DEF Shake
  <2>4. QED
    BY <2>1, <2>2, <2>3 DEF Call
<1>2. Shake(cookie, calls) \in [PageCalls -> Call]
  BY <1>1 DEF Shake
<1>3. QED
  BY <1>1, <1>2

LEMMA TwoAreFinite == \A x, y : IsFiniteSet({x, y})
<1>1. \A x, y : {x, y} = {x} \cup {y}
  OBVIOUS
<1>2. \A x, y : IsFiniteSet({x} \cup {y})
  BY FS_Singleton, FS_Union
<1>3. QED
  BY <1>1, <1>2

LEMMA NewTokenIsNew ==
  ASSUME SessionIInv
  PROVE  NewCsrfToken \in Nat \ {0, browser.cookie}
<1> DEFINE both(c) == {calling[c].csrf, calling[c].cookie}
           held == {browser.csrf, browser.cookie} \cup UNION {both(c) : c \in PageCalls}
           room == 1..(Cardinality(held) + 1)
<1>1. IsFiniteSet(PageCalls)
  BY SessionAssumption, FS_AddElement DEF PageCalls
<1>2. IsFiniteSet({both(c) : c \in PageCalls})
  <2> DEFINE pairs == {both(c) : c \in PageCalls}
             pair == [c \in PageCalls |-> both(c)]
  <2>1. pair \in Surjection(PageCalls, pairs)
    BY DEF Surjection
  <2> HIDE DEF pair, pairs
  <2>2. IsFiniteSet(pairs)
    BY <1>1, <2>1, FS_Surjection
  <2>3. QED
    BY <2>2 DEF pairs
<1>3. \A c \in PageCalls : IsFiniteSet(both(c))
  BY TwoAreFinite
<1>4. IsFiniteSet(UNION {both(c) : c \in PageCalls})
  BY <1>2, <1>3, FS_UNION
<1>5. IsFiniteSet({browser.csrf, browser.cookie})
  BY TwoAreFinite
<1>6. IsFiniteSet(held)
  BY <1>4, <1>5, FS_Union
<1>7. Cardinality(held) \in Nat /\ Cardinality(room) = Cardinality(held) + 1
  BY <1>6, FS_CardinalityType, FS_Interval
<1>8. \E t \in room : t \notin held
  <2>1. SUFFICES ASSUME room \subseteq held PROVE FALSE
    OBVIOUS
  <2>2. Cardinality(room) <= Cardinality(held)
    BY <1>6, <2>1, FS_Subset
  <2>3. QED
    BY <1>7, <2>2
<1>9. NewCsrfToken = CHOOSE t \in room : t \notin held
  BY DEF NewCsrfToken
<1>10. NewCsrfToken \in room \ held
  BY <1>8, <1>9
<1>11. QED
  BY <1>7, <1>10

\* The invariant of a call whose shaken field alone has changed, for another cookie.
LEMMA ShakenInv ==
  ASSUME NEW c, CallInv(c), NEW old \in Call, old = calling[c], NEW cookie, browser'.cookie = cookie,
         UNCHANGED <<issued, revoked>>, NEW new \in Call, calling'[c] = new,
         new.op = old.op, new.at = old.at, new.who = old.who, new.token = old.token,
         new.csrf = old.csrf, new.cookie = old.cookie, new.retried = old.retried,
         new.gone = old.gone, new.shaken = (old.shaken \/ (old.retried /\ cookie # browser.cookie))
  PROVE  CallInv(c)'
<1>1. /\ new.token \in AccessToken' \cup {NoToken}
      /\ c = PageCheck => IF new.at \in {"idle", "failed"} THEN new.op = "none"
                          ELSE new.op = "me" /\ new.at \in {"sent", "checked", "ok", "unauthorized"}
      /\ new.at = "checked" => ~new.gone /\ (new.op \in Authenticated => new.token # NoToken)
      /\ new.at = "revoked" => new.op = "logout" /\ new.token \in Listed'
      /\ new.at = "creates" => new.op \in {"register", "sso"}
      /\ new.op \in {"login", "register", "sso"} => \E e \in Email : new.who = {e}
      /\ (new.op \in {"login", "register", "me"} /\ new.at = "ok")
           => new.token # NoToken /\ new.who = {issued'[new.token].owner}
  BY DEF CallInv, AccessToken, Listed
<1>2. /\ (new.at = "sent" /\ new.retried /\ ~new.shaken /\ new.op \notin SkipCsrfProtection)
           => new.csrf = new.cookie /\ new.csrf # NoToken
      /\ (new.at = "reads" /\ new.retried /\ ~new.shaken)
           => new.csrf = browser'.cookie /\ new.csrf # NoToken
      /\ (new.at \in {"forbidden", "rejected"} /\ new.retried) => new.shaken
      /\ new.at = "rejected" => new.retried
  BY DEF CallInv
<1>3. QED
  BY <1>1, <1>2 DEF CallInv

\* The page or the browser gets another cookie.
LEMMA CookieFields ==
  ASSUME SessionIInv, NEW token \in Nat, NEW csrf \in Nat,
         browser' = [browser EXCEPT !.cookie = token, !.csrf = csrf],
         UNCHANGED <<began, accounts, issued, revoked, redisUp, toldGone, forgotten, overtaken>>,
         bother' \in 0..TroubleBound
  PROVE  /\ SessionTypes' /\ ToldInv' /\ ShowsTokenOwner' /\ browser'.cookie = token
         /\ browser'.token = browser.token
<1>1. browser \in Page
  BY PageFields
<1>2. /\ browser' \in Page /\ browser'.token = browser.token /\ browser'.user = browser.user
      /\ browser'.cookie = token
  BY <1>1 DEF Page
<1>3. SessionTypes'
  BY <1>2 DEF SessionIInv, SessionTypes, AccessToken
<1>4. ToldInv' /\ ShowsTokenOwner'
  BY <1>2 DEF SessionIInv, ToldInv, Listed, ShowsTokenOwner
<1>5. QED
  BY <1>2, <1>3, <1>4

LEMMA CookieLostStep == ASSUME SessionIInv, CookieLost PROVE SessionIInv'
<1>1. /\ SessionTrouble /\ browser' = [browser EXCEPT !.cookie = NoToken]
      /\ calling' = Shake(NoToken, calling) /\ UNCHANGED <<began, overtaken>>
      /\ UNCHANGED <<accounts, issued, revoked, redisUp, toldGone, forgotten>>
  BY DEF CookieLost, ServerRests
<1>2. calling \in [PageCalls -> Call] /\ browser \in Page
  BY PageFields DEF SessionIInv
<1>3. bother' \in 0..TroubleBound
  BY <1>1, Counters DEF SessionIInv
<1>4. PICK csrf \in Nat : csrf = browser.csrf
  BY <1>2 DEF Page
<1>5. browser' = [browser EXCEPT !.cookie = NoToken, !.csrf = csrf]
  BY <1>1, <1>2, <1>4 DEF Page
<1>6. /\ SessionTypes' /\ ToldInv' /\ ShowsTokenOwner' /\ browser'.cookie = NoToken
      /\ browser'.token = browser.token
  BY <1>1, <1>3, <1>4, <1>5, CookieFields DEF NoToken
<1>7. calling' \in [PageCalls -> Call]
  BY <1>1, <1>2, ShakenCalls
<1>8. ASSUME NEW c \in PageCalls PROVE CallInv(c)'
  <2>1. PICK old \in Call : old = calling[c]
    BY <1>2
  <2>2. PICK new \in Call : new = calling'[c]
    BY <1>7
  <2>3. /\ new.op = old.op /\ new.at = old.at /\ new.who = old.who /\ new.token = old.token
        /\ new.csrf = old.csrf /\ new.cookie = old.cookie /\ new.retried = old.retried
        /\ new.gone = old.gone
        /\ new.shaken = (old.shaken \/ (old.retried /\ NoToken # browser.cookie))
    BY <1>1, <1>2, <2>1, <2>2, ShakenCalls
  <2>4. CallInv(c) /\ calling'[c] = new /\ UNCHANGED <<issued, revoked>>
    BY <1>1, <2>2 DEF SessionIInv
  <2>5. QED
    BY <1>6, <2>1, <2>3, <2>4, ShakenInv
<1>9. CheckInv'
  <2>1. /\ PageCheck \in PageCalls /\ calling'[PageCheck].at = calling[PageCheck].at
        /\ calling'[PageCheck].token = calling[PageCheck].token
    BY <1>1, <1>2, ShakenCalls DEF PageCalls
  <2>2. QED
    BY <1>1, <1>6, <2>1 DEF SessionIInv, CheckInv
<1>10. QED
  BY <1>6, <1>7, <1>8, <1>9 DEF SessionIInv

LEMMA CsrfAnsweredStep ==
  ASSUME SessionIInv, NEW c \in PageCalls, CsrfAnswered(c) PROVE SessionIInv'
<1>1. PICK me \in Call : me = calling[c]
  BY DEF SessionIInv
<1>2. PICK token \in Nat \ {NoToken} :
        /\ me.at = "asks"
        /\ calling' = Shake(token, [calling EXCEPT ![c].at = "reads", ![c].csrf = token])
        /\ browser' = [browser EXCEPT !.cookie = token]
        /\ UNCHANGED <<began, bother, overtaken>>
        /\ UNCHANGED <<accounts, issued, revoked, redisUp, toldGone, forgotten>>
  BY <1>1, NewTokenIsNew DEF CsrfAnswered, ServerRests, Call, NoToken
<1>3. PICK mine : mine = [me EXCEPT !.at = "reads", !.csrf = token]
  OBVIOUS
<1>4. PICK calls : calls = [calling EXCEPT ![c] = mine]
  OBVIOUS
<1>5. /\ mine \in Call /\ mine.op = me.op /\ mine.at = "reads" /\ mine.csrf = token
      /\ mine.who = me.who /\ mine.token = me.token
  BY <1>3 DEF Call
<1>6. /\ calling \in [PageCalls -> Call] /\ browser \in Page
      /\ calls \in [PageCalls -> Call] /\ calls[c] = mine
      /\ \A d \in PageCalls \ {c} : calls[d] = calling[d]
  BY <1>4, <1>5, PageFields DEF SessionIInv
<1>7. calling' = Shake(token, calls)
  BY <1>1, <1>2, <1>3, <1>4, <1>6
<1>8. PICK csrf \in Nat : csrf = browser.csrf
  BY <1>6 DEF Page
<1>9. browser' = [browser EXCEPT !.cookie = token, !.csrf = csrf]
  BY <1>2, <1>6, <1>8 DEF Page
<1>10. bother' \in 0..TroubleBound
  BY <1>2, Counters DEF SessionIInv
<1>11. /\ SessionTypes' /\ ToldInv' /\ ShowsTokenOwner' /\ browser'.cookie = token
       /\ browser'.token = browser.token
  BY <1>2, <1>8, <1>9, <1>10, CookieFields
<1>12. calling' \in [PageCalls -> Call]
  BY <1>6, <1>7, ShakenCalls
<1>13. c # PageCheck
  BY <1>1, <1>2 DEF SessionIInv, CallInv
<1>14. ASSUME NEW d \in PageCalls, d # c PROVE CallInv(d)'
  <2>1. PICK old \in Call : old = calling[d]
    BY <1>6
  <2>2. PICK new \in Call : new = calling'[d]
    BY <1>12
  <2>3. /\ new.op = old.op /\ new.at = old.at /\ new.who = old.who /\ new.token = old.token
        /\ new.csrf = old.csrf /\ new.cookie = old.cookie /\ new.retried = old.retried
        /\ new.gone = old.gone
        /\ new.shaken = (old.shaken \/ (old.retried /\ token # browser.cookie))
    BY <1>6, <1>7, <1>14, <2>1, <2>2, ShakenCalls
  <2>4. CallInv(d) /\ calling'[d] = new /\ UNCHANGED <<issued, revoked>>
    BY <1>2, <2>2 DEF SessionIInv
  <2>5. QED
    BY <1>11, <2>1, <2>3, <2>4, ShakenInv
<1>15. CallInv(c)'
  <2>1. PICK new \in Call : new = calling'[c]
    BY <1>12
  <2>2. /\ new.op = me.op /\ new.at = "reads" /\ new.who = me.who /\ new.token = me.token
        /\ new.csrf = token
    BY <1>5, <1>6, <1>7, <2>1, ShakenCalls
  <2>3. /\ me.token \in AccessToken' \cup {NoToken}
        /\ me.op \in {"login", "register", "sso"} => \E e \in Email : me.who = {e}
    BY <1>1, <1>2 DEF SessionIInv, CallInv, AccessToken
  <2>4. QED
    BY <1>2, <1>11, <1>13, <2>1, <2>2, <2>3 DEF CallInv
<1>16. CheckInv'
  <2>1. /\ PageCheck \in PageCalls /\ calling'[PageCheck].at = calling[PageCheck].at
        /\ calling'[PageCheck].token = calling[PageCheck].token
    BY <1>6, <1>7, <1>13, ShakenCalls DEF PageCalls
  <2>2. QED
    BY <1>2, <1>11, <2>1 DEF SessionIInv, CheckInv
<1>17. QED
  BY <1>11, <1>12, <1>14, <1>15, <1>16 DEF SessionIInv

LEMMA CsrfReadStep ==
  ASSUME SessionIInv, NEW c \in PageCalls, CsrfRead(c) PROVE SessionIInv'
<1>1. PICK me \in Call : me = calling[c]
  BY DEF SessionIInv
<1>2. PICK page : page = [browser EXCEPT !.csrf = me.csrf]
  OBVIOUS
<1>3. /\ me.at = "reads" /\ browser' = page /\ calling' = [calling EXCEPT ![c] = SendCall(@, page)]
      /\ UNCHANGED <<began, bother, overtaken>>
      /\ UNCHANGED <<accounts, issued, revoked, redisUp, toldGone, forgotten>>
  BY <1>1, <1>2 DEF CsrfRead, ServerRests
<1>4. browser \in Page /\ browser.token \in AccessToken \cup {NoToken}
  BY PageFields DEF SessionIInv, SessionTypes
<1>5. /\ page \in Page /\ page.token = browser.token /\ page.cookie = browser.cookie
      /\ page.csrf = me.csrf
  BY <1>2, <1>4 DEF Call, Page
<1>6. PICK cookie \in Nat : cookie = browser.cookie
  BY <1>4 DEF Page
<1>7. /\ SessionTypes' /\ ToldInv' /\ ShowsTokenOwner' /\ browser'.cookie = browser.cookie
      /\ browser'.token = browser.token
  <2>1. PICK csrf \in Nat : csrf = me.csrf
    BY DEF Call
  <2>2. browser' = [browser EXCEPT !.cookie = cookie, !.csrf = csrf]
    BY <1>2, <1>3, <1>4, <1>6, <2>1 DEF Page
  <2>3. bother' \in 0..TroubleBound
    BY <1>3, Counters DEF SessionIInv
  <2>4. QED
    BY <1>3, <1>6, <2>1, <2>2, <2>3, CookieFields
<1>8. PICK new : new = SendCall(me, page)
  OBVIOUS
<1>9. calling' = [calling EXCEPT ![c] = new]
  BY <1>1, <1>3, <1>8
<1>10. /\ new \in Call /\ new.op = me.op /\ new.at = "sent" /\ new.who = me.who
       /\ new.token = browser.token /\ new.retried = me.retried /\ new.shaken = me.shaken
       /\ me.op \notin SkipCsrfProtection => new.csrf = me.csrf /\ new.cookie = browser.cookie
  <2>1. PICK csrf \in Nat, sent \in Nat, token \in Nat :
          /\ token = browser.token
          /\ new = [me EXCEPT !.token = token, !.csrf = csrf, !.cookie = sent, !.at = "sent"]
          /\ me.op \notin SkipCsrfProtection => csrf = me.csrf /\ sent = browser.cookie
    <3>1. browser.token \in Nat /\ browser.cookie \in Nat /\ me.csrf \in Nat /\ NoToken \in Nat
      BY <1>4 DEF Call, Page, NoToken
    <3>2. CASE me.op \in SkipCsrfProtection
      <4>1. new = [me EXCEPT !.token = browser.token, !.csrf = NoToken, !.cookie = NoToken,
                             !.at = "sent"]
        BY <1>5, <1>8, <3>2 DEF SendCall
      <4>2. QED
        BY <3>1, <3>2, <4>1
    <3>3. CASE me.op \notin SkipCsrfProtection
      <4>1. new = [me EXCEPT !.token = browser.token, !.csrf = me.csrf, !.cookie = browser.cookie,
                             !.at = "sent"]
        BY <1>5, <1>8, <3>3 DEF SendCall
      <4>2. QED
        BY <3>1, <3>3, <4>1
    <3>4. QED
      BY <3>2, <3>3
  <2>2. QED
    BY <2>1 DEF Call
<1>11. Steady
  BY <1>3, <1>7 DEF Steady, AccessToken, Listed
<1>12. calling'[c] = new
  BY <1>9 DEF SessionIInv
<1>13. c # PageCheck
  BY <1>1, <1>3 DEF SessionIInv, CallInv
<1>14. CallInv(c)'
  <2>1. /\ browser.token \in AccessToken' \cup {NoToken}
        /\ me.op \in {"login", "register", "sso"} => \E e \in Email : me.who = {e}
        /\ (me.retried /\ ~me.shaken) => me.csrf = browser.cookie /\ me.csrf # NoToken
    BY <1>1, <1>3, <1>4 DEF SessionIInv, CallInv, AccessToken
  <2>2. QED
    BY <1>10, <1>12, <1>13, <2>1 DEF CallInv
<1>15. QED
  BY <1>3, <1>7, <1>9, <1>10, <1>11, <1>13, <1>14, CallStep

LEMMA ForbiddenStep ==
  ASSUME SessionIInv, NEW c \in PageCalls, CsrfForbidden(c) PROVE SessionIInv'
<1>1. PICK me \in Call : me = calling[c]
  BY DEF SessionIInv
<1>2. /\ me.at = "forbidden" /\ PageRests /\ UNCHANGED bother /\ ServerRests
      /\ \/ me.retried /\ CallGoes(c, "rejected")
         \/ calling' = [calling EXCEPT ![c] = [AskCsrf(@, browser) EXCEPT !.retried = TRUE]]
  BY <1>1 DEF CsrfForbidden, CallGoes
<1>3. c # PageCheck /\ (me.retried => me.shaken)
  BY <1>1, <1>2 DEF SessionIInv, CallInv
<1>4. accounts' \subseteq Email
  BY <1>2 DEF ServerRests, SessionIInv, SessionTypes
<1>5. /\ Steady /\ SessionTypes' /\ ToldInv' /\ ShowsTokenOwner'
      /\ UNCHANGED <<browser, issued, overtaken>>
  BY <1>2, <1>4, Around DEF ServerRests
<1>6. CASE me.retried /\ CallGoes(c, "rejected")
  BY <1>1, <1>3, <1>5, <1>6, GoesStep
<1>7. CASE calling' = [calling EXCEPT ![c] = [AskCsrf(@, browser) EXCEPT !.retried = TRUE]]
  <2>1. PICK cookie \in Nat : cookie = browser.cookie
    BY PageFields DEF Page
  <2>2. PICK new : new = [AskCsrf(me, browser) EXCEPT !.retried = TRUE]
    OBVIOUS
  <2>3. calling' = [calling EXCEPT ![c] = new]
    BY <1>1, <1>7, <2>2
  <2>4. new = [[me EXCEPT !.cookie = cookie, !.at = "asks"] EXCEPT !.retried = TRUE]
    BY <2>1, <2>2 DEF AskCsrf
  <2>5. /\ new \in Call /\ new.op = me.op /\ new.at = "asks" /\ new.who = me.who
        /\ new.token = me.token
    BY <2>4 DEF Call
  <2>6. calling'[c] = new
    BY <2>3 DEF SessionIInv
  <2>7. /\ me.token \in AccessToken' \cup {NoToken}
        /\ me.op \in {"login", "register", "sso"} => \E e \in Email : me.who = {e}
    BY <1>1, <1>5 DEF SessionIInv, CallInv, AccessToken
  <2>8. CallInv(c)'
    BY <1>3, <2>5, <2>6, <2>7 DEF CallInv
  <2>9. QED
    BY <1>3, <1>5, <2>3, <2>5, <2>8, CallStep
<1>8. QED
  BY <1>2, <1>6, <1>7

\* A call ends, and with it the page's check is another, or the one it was.
LEMMA CheckStep ==
  ASSUME SessionIInv, NEW c \in PageCalls, c # PageCheck, NEW check \in Call,
         calling' = [CallEnds(c) EXCEPT ![PageCheck] = check],
         Steady, SessionTypes', ToldInv', ShowsTokenOwner', CallInv(PageCheck)', CheckInv'
  PROVE  SessionIInv'
<1>1. /\ calling' \in [PageCalls -> Call] /\ calling'[c] = NotCalling
      /\ \A d \in PageCalls \ {c, PageCheck} : calling'[d] = calling[d]
  BY NoCall DEF SessionIInv, CallEnds
<1>2. CallInv(c)'
  BY <1>1 DEF CallInv, NotCalling
<1>3. \A d \in PageCalls : CallInv(d)'
  BY <1>1, <1>2, CallRests DEF SessionIInv
<1>4. QED
  BY <1>1, <1>3 DEF SessionIInv

LEMMA SignedInStep == ASSUME SessionIInv, NEW c \in PageCalls, SignedIn(c) PROVE SessionIInv'
<1> DEFINE first == calling[PageCheck].at # "idle" /\ browser.checks = 0
<1>1. PICK user : user = calling[c].who
  OBVIOUS
<1>2. PICK token : token = calling[c].token
  OBVIOUS
<1>3. PICK superseded : superseded = IF first THEN browser.superseded ELSE Superseded
  OBVIOUS
<1>4. PICK page : page = [browser EXCEPT !.token = token, !.user = user, !.superseded = superseded]
  OBVIOUS
<1>5. /\ calling[c].op \in {"login", "register"} /\ calling[c].at = "ok" /\ browser' = page
      /\ calling' = IF first THEN CallEnds(c)
                    ELSE [CallEnds(c) EXCEPT
                            ![PageCheck] = SendCall([NotCalling EXCEPT !.op = "me"], page)]
      /\ overtaken' = (overtaken \/ first)
      /\ UNCHANGED <<began, bother>> /\ ServerRests
  BY <1>1, <1>2, <1>3, <1>4 DEF SignedIn
<1>6. /\ token \in AccessToken /\ token # NoToken /\ user = {issued[token].owner} /\ c # PageCheck
  BY <1>1, <1>2, <1>5 DEF SessionIInv, CallInv
<1>7. user \in SUBSET Email /\ \E e \in Email : user = {e}
  BY <1>6, OwnersAreKnown
<1>8. browser \in Page /\ superseded \in BOOLEAN
  BY <1>3, PageFields DEF Superseded
<1>9. PICK checks \in 0..1 : checks = browser.checks
  BY PageFields
<1>10. browser' = [browser EXCEPT !.token = token, !.user = user, !.checks = checks,
                                  !.superseded = superseded]
  BY <1>4, <1>5, <1>8, <1>9 DEF Page
<1>11. overtaken' \in BOOLEAN
  BY <1>5 DEF SessionIInv, SessionTypes
<1>12. /\ Steady /\ SessionTypes' /\ ToldInv'
       /\ browser'.token = token /\ browser'.user = user
  <2>1. UNCHANGED <<began, bother>> /\ ServerRests
    BY <1>5
  <2>2. token \in AccessToken \cup {NoToken} /\ superseded \in BOOLEAN
    BY <1>6, <1>8
  <2>3. QED
    BY <1>7, <1>10, <1>11, <2>1, <2>2, PageMoves
<1>13. ShowsTokenOwner'
  <2>1. UNCHANGED issued
    BY <1>5 DEF ServerRests
  <2>2. QED
    BY <1>6, <1>12, <2>1 DEF ShowsTokenOwner
<1>14. CASE first
  <2>1. calling' = [calling EXCEPT ![c] = NotCalling] /\ overtaken'
    BY <1>5, <1>14 DEF CallEnds
  <2>2. /\ calling' \in [PageCalls -> Call] /\ calling'[c] = NotCalling
        /\ \A d \in PageCalls \ {c} : calling'[d] = calling[d]
    BY <2>1, NoCall DEF SessionIInv
  <2>3. CallInv(c)'
    BY <2>2 DEF CallInv, NotCalling
  <2>4. \A d \in PageCalls : CallInv(d)'
    BY <1>12, <2>2, <2>3, CallRests DEF SessionIInv
  <2>5. CheckInv'
    BY <2>1 DEF CheckInv
  <2>6. QED
    BY <1>12, <1>13, <2>2, <2>4, <2>5 DEF SessionIInv
<1>15. CASE ~first
  <2>1. PICK check : check = SendCall([NotCalling EXCEPT !.op = "me"], page)
    OBVIOUS
  <2>2. calling' = [CallEnds(c) EXCEPT ![PageCheck] = check]
    BY <1>5, <1>15, <2>1
  <2>3. page.token = token
    BY <1>5, <1>12
  <2>4. PICK me : me = [NotCalling EXCEPT !.op = "me"]
    OBVIOUS
  <2>5. me = [op |-> "me", at |-> "idle", who |-> {}, token |-> NoToken, csrf |-> NoToken,
              cookie |-> NoToken, retried |-> FALSE, gone |-> FALSE, shaken |-> FALSE]
    BY <2>4 DEF NotCalling
  <2>6. check = [op |-> "me", at |-> "sent", who |-> {}, token |-> token, csrf |-> NoToken,
                 cookie |-> NoToken, retried |-> FALSE, gone |-> FALSE, shaken |-> FALSE]
    <3>1. check = [me EXCEPT !.token = token, !.csrf = NoToken, !.cookie = NoToken, !.at = "sent"]
      BY <2>1, <2>3, <2>4, <2>5 DEF SendCall, SkipCsrfProtection
    <3>2. QED
      BY <2>5, <3>1
  <2>7. check \in Call
    BY <1>6, <2>6 DEF Call, AccessToken, NoToken
  <2>8. calling'[PageCheck] = check
    BY <2>2, <2>7, NoCall DEF SessionIInv, CallEnds, PageCalls
  <2>9. CallInv(PageCheck)'
    BY <1>6, <1>12, <2>6, <2>8 DEF CallInv, Steady, SkipCsrfProtection
  <2>10. CheckInv'
    BY <1>12, <2>6, <2>8 DEF CheckInv
  <2>11. QED
    BY <1>6, <1>12, <1>13, <2>2, <2>7, <2>9, <2>10, CheckStep
<1>16. QED
  BY <1>14, <1>15

LEMMA SignedOutStep == ASSUME SessionIInv, NEW c \in PageCalls, SignedOut(c) PROVE SessionIInv'
<1>1. PICK superseded \in BOOLEAN : superseded = Superseded
  BY PageFields DEF Superseded
<1>2. /\ calling[c].op = "logout"
      /\ browser' = [browser EXCEPT !.token = NoToken, !.user = {}, !.checks = 1,
                                    !.superseded = superseded]
      /\ calling' = [CallEnds(c) EXCEPT ![PageCheck] = NotCalling]
      /\ UNCHANGED <<began, bother, overtaken>> /\ ServerRests
  BY <1>1 DEF SignedOut
<1>3. PICK user \in SUBSET Email : user = {}
  OBVIOUS
<1>4. browser' = [browser EXCEPT !.token = NoToken, !.user = user, !.checks = 1,
                                 !.superseded = superseded]
  BY <1>2, <1>3
<1>5. /\ Steady /\ SessionTypes' /\ ToldInv' /\ browser'.token = NoToken
  <2>1. UNCHANGED <<began, bother, overtaken>> /\ ServerRests /\ 1 \in 0..1
    BY <1>2
  <2>2. QED
    BY <1>3, <1>4, <2>1, PageStep
<1>6. ShowsTokenOwner'
  BY <1>5 DEF ShowsTokenOwner
<1>7. calling'[PageCheck] = NotCalling
  BY <1>2, NoCall DEF SessionIInv, CallEnds, PageCalls
<1>8. CallInv(PageCheck)' /\ CheckInv'
  BY <1>7 DEF CallInv, CheckInv, NotCalling
<1>9. c # PageCheck
  BY <1>2 DEF SessionIInv, CallInv
<1>10. QED
  BY <1>2, <1>5, <1>6, <1>8, <1>9, NoCall, CheckStep
-----------------------------------------------------------------------------
\* What happens to them.
LEMMA ExpiresStep == ASSUME SessionIInv, TokenExpires PROVE SessionIInv'
<1>1. PICK t \in AccessToken :
        /\ issued' = [issued EXCEPT ![t].expired = TRUE] /\ SessionTrouble
        /\ UNCHANGED <<browser, began, overtaken, calling>>
        /\ UNCHANGED <<accounts, revoked, redisUp, toldGone, forgotten>>
  BY DEF TokenExpires, PageRests
<1>2. /\ issued \in Seq([owner : Email, expired : BOOLEAN]) /\ t \in 1..Len(issued)
      /\ issued[t] \in [owner : Email, expired : BOOLEAN]
  BY <1>1, ElementOfSeq DEF SessionIInv, SessionTypes, AccessToken
<1>3. PICK row : row = [issued[t] EXCEPT !.expired = TRUE]
  OBVIOUS
<1>4. row \in [owner : Email, expired : BOOLEAN] /\ row.owner = issued[t].owner
  BY <1>2, <1>3
<1>5. issued' = [issued EXCEPT ![t] = row]
  BY <1>1, <1>3
<1>6. /\ issued' \in Seq([owner : Email, expired : BOOLEAN]) /\ Len(issued') = Len(issued)
      /\ \A u \in 1..Len(issued) : issued'[u] = IF u = t THEN row ELSE issued[u]
  BY <1>2, <1>4, <1>5
<1>7. AccessToken' = AccessToken /\ \A u \in AccessToken : issued'[u].owner = issued[u].owner
  BY <1>4, <1>6 DEF AccessToken
<1>8. Steady
  BY <1>1, <1>7 DEF Steady, Listed
<1>9. bother' \in 0..TroubleBound
  BY <1>1, Counters DEF SessionIInv
<1>10. SessionTypes'
  BY <1>1, <1>6, <1>7, <1>9 DEF SessionIInv, SessionTypes
<1>11. ToldInv' /\ ShowsTokenOwner' /\ CheckInv'
  BY <1>1, <1>8, ShownRests, CheckRests DEF SessionIInv, SessionTypes, ToldInv, Listed
<1>12. \A c \in PageCalls : CallInv(c)'
  BY <1>1, <1>8, CallRests DEF SessionIInv
<1>13. QED
  BY <1>1, <1>10, <1>11, <1>12 DEF SessionIInv

LEMMA RedisStep == ASSUME SessionIInv, RedisChanges PROVE SessionIInv'
<1>1. /\ SessionTrouble /\ redisUp' = ~redisUp
      /\ UNCHANGED <<browser, began, overtaken, calling>>
      /\ UNCHANGED <<accounts, issued, revoked, toldGone, forgotten>>
  BY DEF RedisChanges, PageRests
<1>2. bother' \in 0..TroubleBound
  BY <1>1, Counters DEF SessionIInv
<1>3. Steady
  BY <1>1 DEF Steady, AccessToken, Listed
<1>4. SessionTypes' /\ ToldInv' /\ ShowsTokenOwner' /\ CheckInv'
  BY <1>1, <1>2
     DEF SessionIInv, SessionTypes, AccessToken, ToldInv, Listed, ShowsTokenOwner, CheckInv
<1>5. \A c \in PageCalls : CallInv(c)'
  BY <1>1, <1>3, CallRests DEF SessionIInv
<1>6. QED
  BY <1>1, <1>4, <1>5 DEF SessionIInv

\* What a restart leaves of a call does not depend on what it forgets.
LEMMA LeftInv ==
  ASSUME NEW c, CallInv(c), calling[c].at \notin AtServer, calling'[c] = calling[c],
         UNCHANGED <<issued, browser>>
  PROVE  CallInv(c)'
BY DEF CallInv, AtServer, AccessToken

LEMMA ServerRestartsStep == ASSUME SessionIInv, ServerRestarts PROVE SessionIInv'
<1>1. /\ SessionTrouble
      /\ calling' = [c \in PageCalls |-> IF calling[c].at \in AtServer THEN Failed(c)
                                         ELSE calling[c]]
      /\ revoked' = [revoked EXCEPT !.memory = {}]
      /\ forgotten' = forgotten \cup revoked.memory
      /\ UNCHANGED <<browser, began, overtaken, accounts, issued, redisUp, toldGone>>
  BY DEF ServerRestarts, PageRests
<1>2. bother' \in 0..TroubleBound
  BY <1>1, Counters DEF SessionIInv
<1>3. /\ revoked' \in [redis : SUBSET AccessToken, memory : SUBSET AccessToken]
      /\ Listed' = revoked.redis
  BY <1>1 DEF SessionIInv, SessionTypes, Listed
<1>4. SessionTypes'
  BY <1>1, <1>2, <1>3 DEF SessionIInv, SessionTypes, AccessToken
<1>5. ToldInv'
  BY <1>1, <1>3 DEF SessionIInv, ToldInv, Listed
<1>6. ShowsTokenOwner'
  BY <1>1 DEF SessionIInv, ShowsTokenOwner
<1>7. \A c \in PageCalls : Failed(c) \in Call
  BY NoCall DEF Failed
<1>8. calling' \in [PageCalls -> Call]
  BY <1>1, <1>7 DEF SessionIInv
<1>9. ASSUME NEW c \in PageCalls PROVE CallInv(c)'
  <2>1. CASE calling[c].at \in AtServer
    <3>1. calling'[c] = Failed(c)
      BY <1>1, <2>1
    <3>2. PICK left : left = Failed(c)
      OBVIOUS
    <3>3. /\ left.token = NoToken /\ left.op = "none" /\ left.retried = FALSE
          /\ left.at = IF c = PageCheck THEN "failed" ELSE "idle"
      BY <3>2 DEF Failed, NotCalling
    <3>4. calling'[c] = left
      BY <3>1, <3>2
    <3>5. QED
      BY <3>3, <3>4 DEF CallInv
  <2>2. CASE calling[c].at \notin AtServer
    <3>1. calling'[c] = calling[c]
      BY <1>1, <2>2
    <3>2. QED
      BY <1>1, <2>2, <3>1, LeftInv DEF SessionIInv
  <2>3. QED
    BY <2>1, <2>2
<1>10. CheckInv'
  <2>1. PageCheck \in PageCalls
    BY DEF PageCalls
  <2>2. CASE calling[PageCheck].at \in AtServer
    <3>1. calling'[PageCheck] = Failed(PageCheck)
      BY <1>1, <2>1, <2>2
    <3>2. Failed(PageCheck).at = "failed"
      BY DEF Failed, NotCalling
    <3>3. QED
      BY <3>1, <3>2 DEF CheckInv
  <2>3. CASE calling[PageCheck].at \notin AtServer
    <3>1. calling'[PageCheck] = calling[PageCheck]
      BY <1>1, <2>1, <2>3
    <3>2. QED
      BY <1>1, <3>1 DEF SessionIInv, CheckInv
  <2>4. QED
    BY <2>2, <2>3
<1>11. QED
  BY <1>4, <1>5, <1>6, <1>8, <1>9, <1>10 DEF SessionIInv

LEMMA SessionStep == ASSUME SessionIInv, [SessionNext]_sessionVars PROVE SessionIInv'
<1>1. CASE \E c \in PageCall : \/ \E op \in {"write", "logout"} : BeginCall(c, op, {})
                               \/ \E op \in {"login", "register", "sso"}, e \in Email :
                                    BeginCall(c, op, {e})
  <2>1. ASSUME NEW c \in PageCall, NEW op \in {"write", "logout"}, BeginCall(c, op, {})
        PROVE  SessionIInv'
    <3>1. PICK who : who = {}
      OBVIOUS
    <3>2. BeginCall(c, op, who)
      BY <2>1, <3>1
    <3>3. QED
      BY <3>1, <3>2, BeginStep
  <2>2. ASSUME NEW c \in PageCall, NEW op \in {"login", "register", "sso"}, NEW e \in Email,
               BeginCall(c, op, {e})
        PROVE  SessionIInv'
    <3>1. PICK who : who = {e}
      OBVIOUS
    <3>2. BeginCall(c, op, who)
      BY <2>2, <3>1
    <3>3. QED
      BY <3>1, <3>2, BeginStep
  <2>3. QED
    BY <1>1, <2>1, <2>2
<1>2. CASE \E c \in PageCalls : \/ CsrfAnswered(c) \/ CsrfRead(c) \/ CsrfForbidden(c)
                                \/ Unauthorized(c) \/ SignedIn(c) \/ SignedOut(c) \/ CallHeard(c)
  BY <1>2, CsrfAnsweredStep, CsrfReadStep, ForbiddenStep, UnauthorizedStep, SignedInStep,
     SignedOutStep, HeardStep
<1>3. CASE \E c \in PageCalls : \/ Receive(c) \/ WriteChecked(c) \/ Revoke(c) \/ LogoutEnds(c)
                                \/ login(c) \/ FindAccount(c) \/ CreateAccount(c)
  BY <1>3, ReceiveStep, WriteStep, RevokeStep, LogoutStep, LoginStep, FindAccountStep, CreateStep
<1>4. CASE CheckFails \/ SupersededFails \/ ShowUser \/ GetCurrentUser
  BY <1>4, CheckFailsStep, SupersededStep, ShowStep, CurrentUserStep
<1>5. CASE TokenExpires \/ RedisChanges \/ CookieLost \/ ServerRestarts
  BY <1>5, ExpiresStep, RedisStep, CookieLostStep, ServerRestartsStep
<1>6. CASE UNCHANGED sessionVars
  <2>1. UNCHANGED <<accounts, issued, revoked, redisUp, browser, calling, began, bother, toldGone,
                    forgotten, overtaken>>
    BY <1>6 DEF sessionVars
  <2>2. Steady
    BY <2>1 DEF Steady, AccessToken, Listed
  <2>3. \A c \in PageCalls : CallInv(c)'
    BY <2>1, <2>2, CallRests DEF SessionIInv
  <2>4. SessionTypes' /\ ToldInv' /\ ShowsTokenOwner' /\ CheckInv'
    BY <2>1 DEF SessionIInv, SessionTypes, AccessToken, ToldInv, Listed, ShowsTokenOwner, CheckInv
  <2>5. QED
    BY <2>1, <2>3, <2>4 DEF SessionIInv
<1>7. QED
  BY <1>1, <1>2, <1>3, <1>4, <1>5, <1>6 DEF SessionNext
-----------------------------------------------------------------------------
(* The parts together *)

\* Every part begins as it does alone.
LEMMA TestsBegin == TestsInit => SelectionIInv /\ RegressionIInv /\ SessionIInv
<1> SUFFICES ASSUME TestsInit PROVE SelectionIInv /\ RegressionIInv /\ SessionIInv
  OBVIOUS
<1>1. (GraphInit \/ GraphOnRecord) /\ SelectionInit /\ RegressionInit /\ SessionInit
  BY DEF TestsInit
<1>2. QED
  BY <1>1, GraphInvInit, RequestInvInit, RegressionInvInit, SessionInvInit DEF SelectionIInv

\* A step of the project is one of a part, and the other parts rest.
LEMMA TestsMove ==
  ASSUME [TestsNext]_testsVars
  PROVE  /\ [SelectionNext \/ (GraphNext /\ UNCHANGED <<world, memory, asked>>)]_selectionVars
         /\ [RegressionNext]_regressionVars /\ [SessionNext]_sessionVars
<1>1. CASE UNCHANGED testsVars
  BY <1>1 DEF testsVars
<1>2. CASE Healing
  <2>1. part = "healing" /\ Moves("healing")
    BY <1>2 DEF Healing, Moves
  <2>2. UNCHANGED selectionVars /\ UNCHANGED regressionVars /\ UNCHANGED sessionVars
    BY <2>1 DEF Moves, Rests
  <2>3. QED
    BY <2>2
<1>3. CASE Graph
  <2>1. part = "graph" /\ Moves("graph") /\ GraphNext /\ UNCHANGED <<world, memory, asked>>
    BY <1>3 DEF Graph, Moves
  <2>2. UNCHANGED regressionVars /\ UNCHANGED sessionVars
    BY <2>1 DEF Moves, Rests
  <2>3. QED
    BY <2>1, <2>2
<1>4. CASE Selection
  <2>1. part = "selection" /\ Moves("selection") /\ SelectionNext
    BY <1>4 DEF Selection, Moves
  <2>2. UNCHANGED regressionVars /\ UNCHANGED sessionVars
    BY <2>1 DEF Moves, Rests
  <2>3. QED
    BY <2>1, <2>2
<1>5. CASE Regression
  <2>1. part = "regressions" /\ Moves("regressions") /\ RegressionNext
    BY <1>5 DEF Regression, Moves
  <2>2. UNCHANGED selectionVars /\ UNCHANGED sessionVars
    BY <2>1 DEF Moves, Rests
  <2>3. QED
    BY <2>1, <2>2
<1>6. CASE SignIn
  <2>1. part = "sessions" /\ Moves("sessions") /\ SessionNext
    BY <1>6 DEF SignIn, Moves
  <2>2. UNCHANGED selectionVars /\ UNCHANGED regressionVars
    BY <2>1 DEF Moves, Rests
  <2>3. QED
    BY <2>1, <2>2
<1>7. QED
  BY <1>1, <1>2, <1>3, <1>4, <1>5, <1>6 DEF TestsNext

LEMMA TestsStep ==
  ASSUME SelectionIInv /\ RegressionIInv /\ SessionIInv, [TestsNext]_testsVars
  PROVE  (SelectionIInv /\ RegressionIInv /\ SessionIInv)'
BY TestsMove, SelectionStep, RegressionInvStep, SessionStep

LEMMA TestsInvariance == TestsSpec => [](SelectionIInv /\ RegressionIInv /\ SessionIInv)
BY TestsBegin, TestsStep, PTL DEF TestsSpec

\* RecordsInv (DependencyGraphService.ts, TestImpactService.ts, regression-detector.service.ts):
\* the graph knows no import that was never there, an answer of smart selection is complete
\* whatever its lookups run into and whatever changes between them, and the regressions on
\* record are true, and recorded again only by a recording that had looked before the first of
\* them was there.
THEOREM RecordsTheorem == TestsSpec => []RecordsInv
<1>1. SelectionIInv /\ RegressionIInv => RecordsInv
  BY SelectionInvImplies, RegressionInvImplies DEF RecordsInv
<1>2. QED
  BY <1>1, TestsInvariance, PTL

\* SessionInv (tokenBlacklist.service.ts, middleware/auth.ts, AuthContext.tsx, api/client.ts):
\* for any number of overlapping calls, tokens and failures, who was told that he is signed out
\* is, a page shows the owner of the token it holds, and a call is not rejected for a CSRF token
\* that was stale once.
THEOREM SessionTheorem == TestsSpec => []SessionInv
BY SessionInvImplies, TestsInvariance, PTL

\* The tests found are finitely many, and the results of a test stay what they are.
HistoryIInv == FoundInv /\ PastTypeOK

LEMMA HistoryBegin == TestsInit => HistoryIInv
<1> SUFFICES ASSUME TestsInit PROVE HistoryIInv
  OBVIOUS
<1>1. FoundInv
  <2>1. asked.details = {} /\ asked.selected = {}
    BY DEF TestsInit, SelectionInit, Idle
  <2>2. QED
    BY <2>1, NothingFound
<1>2. PastTypeOK
  <2>1. PICK n \in Walk : past \in [1..n -> PastResult]
    BY DEF TestsInit, FlakyInit, PastResult
  <2>2. n \in Nat
    BY FlakyAssumption DEF WINDOW_SIZE
  <2>3. QED
    BY <2>1, <2>2 DEF PastTypeOK
<1>3. QED
  BY <1>1, <1>2 DEF HistoryIInv

LEMMA HistoryStep ==
  ASSUME SelectionIInv, HistoryIInv, [TestsNext]_testsVars
  PROVE  HistoryIInv'
<1>1. FoundInv'
  BY TestsMove, FoundStep DEF HistoryIInv
<1>2. past' = past
  BY DEF testsVars, TestsNext, Healing, Graph, Selection, Regression, SignIn, Moves
<1>3. QED
  BY <1>1, <1>2 DEF HistoryIInv, PastTypeOK

\* HistoryInv (SelectionAccuracyService.ts, SelectionExplainerService.ts, FlakyTestService.ts): for
\* any tests, files and histories of any length and any statuses, what is made of an answer of smart selection
\* agrees with it, and of the tests with a history those and only those are flaky of which two
\* neighbouring runs of one commit disagree.
THEOREM HistoryTheorem == TestsSpec => []HistoryInv
<1>1. SelectionIInv /\ HistoryIInv => HistoryInv
  BY VerdictsHold, FlakyIsTrue DEF HistoryIInv, HistoryInv
<1>2. TestsSpec => []SelectionIInv
  BY TestsInvariance, PTL
<1>3. TestsSpec => []HistoryIInv
  BY <1>2, HistoryBegin, HistoryStep, PTL DEF TestsSpec
<1>4. QED
  BY <1>1, <1>2, <1>3, PTL
=============================================================================
