------------------------------ MODULE Analytics ------------------------------
(***************************************************************************)
(* The figures of the dashboard, the metrics, the insights, the searches   *)
(* and the predictions, all read from the failure archive while failures   *)
(* are reported, recur and are analysed.  A request makes its first        *)
(* queries at once, they are answered in any order, and then one more.     *)
(* What is computed of a series of days, or of judged selections, is a     *)
(* function and looked at by itself.                                       *)
(***************************************************************************)
EXTENDS Integers, SequencesExt

CONSTANTS
  Failures,    \* that are reported: [kind, severity, categorized]
  Series,      \* failures per day, for days that have any
  Judged,      \* selections of tests that were judged: [tp, fp, fn, strategy, week]
  RowBound,    \* failures in the archive
  RepeatBound, \* occurrences, but for the first of each
  DayBound,    \* days
  QueryBound,  \* queries that fail
  BUFFER_SIZE  \* response times that are kept

\* Another severity, or none, weighs as MEDIUM does (prediction-analysis.service.ts:167)
ASSUME AnalyticsAssumption ==
  /\ BUFFER_SIZE \in Nat \ {0}
  /\ \A f \in Failures : f.severity \in {"CRITICAL", "HIGH", "MEDIUM", "LOW"}

VARIABLES
  archived, \* the failures: [kind, severity, categorized, documented, count, first, last]
  today,
  board,    \* the request: what it is for, since when, what its queries brought
  misread,   \* queries that failed
  series, judged,
  durations, totalRequests  \* the responses whose times are kept, and how many there were

analyticsVars == <<archived, today, board, misread, series, judged, durations, totalRequests>>

Mean(sum, n) == (2 * sum + n) \div (2 * n)
SumUp(s) ==
  LET upTo[n \in 0..Len(s)] == IF n = 0 THEN 0 ELSE upTo[n - 1] + s[n] IN upTo[Len(s)]
SumBy(s, Of(_)) == SumUp([i \in DOMAIN s |-> Of(s[i])])
LastOf(s, n) == SubSeq(s, IF Len(s) < n THEN 1 ELSE Len(s) - n + 1, Len(s))
-----------------------------------------------------------------------------
\* Trends, in tenths of a failure and of a percent, hundredths of a failure a day

movingAverage(s, window) ==
  IF s = <<>> THEN 0 ELSE Mean(10 * SumUp(LastOf(s, window)), Len(LastOf(s, window)))

\* Least squares over the days 0, 1, ...: the slope is num / den
linearSlope(s) ==
  LET n == Len(s)
      x == SumUp([i \in 1..n |-> i - 1])
      y == SumUp(s)
      xy == SumUp([i \in 1..n |-> (i - 1) * s[i]])
      xx == SumUp([i \in 1..n |-> (i - 1) * (i - 1)])
  IN IF n < 2 THEN [num |-> 0, den |-> 1] ELSE [num |-> n * xy - x * y, den |-> n * xx - x * x]

calculateTrend(s) ==
  LET slope == linearSlope(LastOf(s, 14))
      week == SumUp(LastOf(s, 7))
      earlier == SumUp(LastOf(s, 14)) - week
  IN [direction |-> IF 10 * slope.num > slope.den THEN "increasing"
                    ELSE IF 10 * slope.num < -slope.den THEN "decreasing" ELSE "stable",
      rateOfChange |-> Mean(100 * slope.num, slope.den),
      movingAverage7d |-> movingAverage(s, 7), movingAverage30d |-> movingAverage(s, 30),
      percentChange7d |-> IF earlier > 0 THEN Mean(1000 * (week - earlier), earlier)
                          ELSE IF week > 0 THEN 1000 ELSE 0]

\* Days farther from the mean than so many deviations
detectAnomalies(s, sensitivity) ==
  LET n == Len(s)
      y == SumUp(s)
      spread == n * SumUp([i \in 1..n |-> s[i] * s[i]]) - y * y
      Off(i) == n * s[i] - y
  IN IF n < 7 \/ spread = 0 THEN {}
     ELSE {i \in 1..n : Off(i) * Off(i) > sensitivity * sensitivity * spread}

SEVERITY_WEIGHTS == [CRITICAL |-> 25, HIGH |-> 18, MEDIUM |-> 12, LOW |-> 5]
\* exp(-d / 14) in thousandths, of a tenth of a day at least
Decay(d) == LET table == <<993, 931, 867, 807, 751, 700, 651, 606>> IN
  table[IF d < 8 THEN d + 1 ELSE 8]

\* Recurrence, severity, recency and frequency of one failure, in thousandths of a point
Risk(f, day) ==
  LET AtMost(n, most) == IF n < most THEN n ELSE most
      span == IF f.last > f.first THEN f.last - f.first ELSE 1
  IN 3000 * AtMost(f.count, 10) + 1000 * SEVERITY_WEIGHTS[f.severity] + 20 * Decay(day - f.last)
     + (25000 * AtMost(f.count, span)) \div span

Score(f, day) == Mean(Risk(f, day), 1000)

Level(score) ==
  IF score >= 75 THEN "critical" ELSE IF score >= 50 THEN "high"
  ELSE IF score >= 25 THEN "medium" ELSE "low"

\* The sets of n, or all, that none of the others surpasses: equal ones are in any order
Tops(S, n, of) ==
  {T \in SUBSET S : /\ Cardinality(T) = IF Cardinality(S) < n THEN Cardinality(S) ELSE n
                    /\ \A t \in T, u \in S \ T : of[u] <= of[t]}

\* The lists that may be given: of twice as many that occurred most often, the riskiest
calculateRiskScores(limit, minOccurrences) ==
  LET often == {i \in DOMAIN archived : archived[i].count >= minOccurrences}
      score == [i \in often |-> Score(archived[i], today)]
      candidates == Tops(often, 2 * limit, [i \in often |-> archived[i].count])
  IN {[i \in T |-> Level(score[i])] : T \in UNION {Tops(C, limit, score) : C \in candidates}}

InOrder(D) ==
  CHOOSE s \in [1..Cardinality(D) -> D] : \A a, b \in DOMAIN s : a < b => s[a] < s[b]

\* Failures by the day they were last seen.  A day without any has no point.
getFailureTimeSeries(days) ==
  LET On(d) == {i \in DOMAIN archived : archived[i].last = d}
      seen == InOrder({d \in 0..today : d >= today - days /\ On(d) # {}})
  IN [k \in DOMAIN seen |-> [date |-> seen[k], count |-> Cardinality(On(seen[k]))]]
-----------------------------------------------------------------------------
\* How good the selections of tests were, in ten-thousandths
Precision(r) == IF r.tp + r.fp > 0 THEN Mean(10000 * r.tp, r.tp + r.fp) ELSE 10000
RecallOf(r) == IF r.tp + r.fn > 0 THEN Mean(10000 * r.tp, r.tp + r.fn) ELSE 10000
Harmonic(p, q) == IF p + q > 0 THEN Mean(2 * p * q, p + q) ELSE 0

Averages(rs) ==
  [count |-> Len(rs), missed |-> Len(SelectSeq(rs, LAMBDA r : r.fn > 0)),
   avgPrecision |-> IF rs = <<>> THEN 0 ELSE Mean(SumBy(rs, Precision), Len(rs)),
   avgRecall |-> IF rs = <<>> THEN 0 ELSE Mean(SumBy(rs, RecallOf), Len(rs))]

\* The F1 of all is the mean of each one's, that of a week is of its averages
getStats ==
  LET Bucket(Of(_)) == [k \in {Of(judged[i]) : i \in DOMAIN judged} |->
                          Averages(SelectSeq(judged, LAMBDA r : Of(r) = k))]
      weeks == Bucket(LAMBDA r : r.week)
      F1(r) == Harmonic(Precision(r), RecallOf(r))
      all == Averages(judged)
  IN [all |-> all, byStrategy |-> Bucket(LAMBDA r : r.strategy), trend |-> weeks,
      avgF1 |-> IF judged = <<>> THEN 0 ELSE Mean(SumBy(judged, F1), all.count),
      weeklyF1 |-> [k \in DOMAIN weeks |-> Harmonic(weeks[k].avgPrecision, weeks[k].avgRecall)],
      missedRegressionRate |-> IF judged = <<>> THEN 0 ELSE Mean(10000 * all.missed, all.count)]

\* No selection at all, or a failed query for them, counts as one that missed nothing
checkRecallHealth(threshold) == judged = <<>> \/ getStats.all.avgRecall >= threshold
-----------------------------------------------------------------------------
Waiting == {}  \* a query not answered; an answer is a singleton

\* What a request asks at first, and what when all that is there
getMetrics == [first |-> {"failures", "categorized", "recent"}, then |-> {"breakdown"}]
exportPrometheusMetrics == [first |-> {"archived", "documented", "recurring"}, then |-> {"top"}]
getInsights == [first |-> {"archived", "documented", "recurring", "top"}, then |-> {}]
getMetricsSummary == getInsights
searchFailures == [first |-> {"page", "archived"}, then |-> {}]

Requests ==
  [dashboard |-> getMetrics, metrics |-> exportPrometheusMetrics, summary |-> getMetricsSummary,
   search |-> searchFailures]

\* Mutant: the most recent failures too are returned without being awaited
CaughtButRecent == {"failures", "breakdown"}
\* Queries whose failure becomes an answer.  The dashboard means to catch that of every
\* query, but returns the promise of one without awaiting it.
Caught == {"failures", "recent", "breakdown"}

getStartDate(range) ==
  today - (CASE range = "1h" -> 0 [] range = "24h" -> 1 [] range = "7d" -> 7 [] OTHER -> 30)

categoryMap(severity) == IF severity \in {"CRITICAL", "HIGH"} THEN "bug_critical" ELSE "bug_minor"

getRecentFailures ==
  LET Shown(i) == [failure |-> i, category |-> categoryMap(archived[i].severity)]
  IN {Shown(i) : i \in {j \in DOMAIN archived : archived[j].categorized}}

\* By what stands between the first and the last part of the test's name
getFailureCategoriesBreakdown(S) ==
  {[category |-> k, count |-> Cardinality({i \in S : archived[i].kind = k})] :
     k \in {archived[i].kind : i \in S}}

Brought(q, since) ==
  LET S == {i \in DOMAIN archived : archived[i].last >= since} IN
  CASE q \in {"failures", "archived"} -> Cardinality(S)
    [] q = "categorized" -> Cardinality({i \in S : archived[i].categorized})
    [] q = "documented" -> Cardinality({i \in S : archived[i].documented})
    [] q = "recurring" -> Cardinality({i \in S : archived[i].count > 1})
    [] q = "recent" -> getRecentFailures
    [] q = "page" -> S
    [] q = "top" -> getFailureCategoriesBreakdown(DOMAIN archived)
    [] OTHER -> getFailureCategoriesBreakdown(S)

Instead(q) == IF q = "failures" THEN 0 ELSE {}

\* The request is what it has been brought, and what it lacks
Closed == [kind |-> "none", since |-> 0, got |-> <<>>, phase |-> "closed", failing |-> {}]

AnalyticsInit ==
  /\ archived = <<>> /\ today = 0 /\ misread = 0 /\ board = Closed
  /\ durations = <<>> /\ totalRequests = 0
  /\ \/ series \in Series /\ judged = <<>>
     \/ series = <<>> /\ judged \in Judged

\* The archive, until the request is answered, and nothing else
OnArchive ==
  /\ series = <<>> /\ judged = <<>> /\ totalRequests = 0 /\ board.phase \in {"closed", "open"}
  /\ UNCHANGED <<series, judged, durations, totalRequests>>

\* Only once the buffer is full is the place of the next one reckoned from their number
recordResponseTime ==
  /\ totalRequests < 3 * BUFFER_SIZE
  /\ <<archived, today, board, series, judged>> = <<<<>>, 0, Closed, <<>>, <<>>>>
  /\ LET n == totalRequests + 1 IN
       /\ totalRequests' = n
       /\ durations' = IF Len(durations) < BUFFER_SIZE THEN Append(durations, n)
                       ELSE [durations EXCEPT ![(n % BUFFER_SIZE) + 1] = n]
  /\ UNCHANGED <<archived, today, board, misread, series, judged>>

ReportFailure ==
  /\ OnArchive /\ Len(archived) < RowBound
  /\ \E f \in Failures :
       archived' = Append(archived,
         [kind |-> f.kind, severity |-> f.severity, categorized |-> f.categorized,
          documented |-> FALSE, count |-> 1, first |-> today, last |-> today])
  /\ UNCHANGED <<today, board, misread>>

FailureRecurs ==
  /\ OnArchive
  /\ \E i \in DOMAIN archived :
       /\ SumBy(archived, LAMBDA f : f.count) < Len(archived) + RepeatBound
       /\ archived' = [archived EXCEPT ![i].count = @ + 1, ![i].last = today]
  /\ UNCHANGED <<today, board, misread>>

AnalysisStored ==
  /\ OnArchive
  /\ \E i \in DOMAIN archived :
       ~archived[i].documented /\ archived' = [archived EXCEPT ![i].documented = TRUE]
  /\ UNCHANGED <<today, board, misread>>

\* No request takes days
DayPasses ==
  /\ OnArchive /\ board.phase = "closed" /\ today < DayBound /\ today' = today + 1
  /\ UNCHANGED <<archived, board, misread>>

\* The dashboard has a range and the others look at all there is
OpenFigures(kind, range) ==
  /\ OnArchive /\ board.phase = "closed"
  /\ board' = [kind |-> kind, since |-> IF kind = "dashboard" THEN getStartDate(range) ELSE 0,
               got |-> [q \in Requests[kind].first |-> Waiting], phase |-> "open", failing |-> {}]
  /\ UNCHANGED <<archived, today, misread>>

\* The last of the first queries lets the next one begin, or the answer be given
Resumes(next) ==
  LET asks == Requests[next.kind]
      done == \A q \in DOMAIN next.got : next.got[q] # Waiting
  IN board' = IF ~done THEN next
              ELSE IF DOMAIN next.got = asks.first \union asks.then
                   THEN [next EXCEPT !.phase = "answered"]
                   ELSE [next EXCEPT !.got = [q \in asks.first \union asks.then |->
                           IF q \in DOMAIN next.got THEN next.got[q] ELSE Waiting]]

FiguresRead(q) ==
  /\ OnArchive /\ board.phase = "open" /\ q \in DOMAIN board.got /\ board.got[q] = Waiting
  /\ Resumes([board EXCEPT !.got[q] = {Brought(q, board.since)}])
  /\ UNCHANGED <<archived, today, misread>>

FiguresFail(q) ==
  /\ OnArchive /\ board.phase = "open" /\ q \in DOMAIN board.got /\ board.got[q] = Waiting
  /\ misread < QueryBound /\ misread' = misread + 1
  /\ IF board.kind = "dashboard" /\ q \in Caught
     THEN Resumes([board EXCEPT !.got[q] = {Instead(q)}, !.failing = @ \union {q}])
     ELSE board' = [board EXCEPT !.phase = "failed", !.failing = @ \union {q}, !.got = <<>>]
  /\ UNCHANGED <<archived, today>>

AnalyticsNext ==
  \/ ReportFailure \/ FailureRecurs \/ AnalysisStored \/ DayPasses
  \/ \E kind \in DOMAIN Requests : \E range \in {"1h", "30d"} : OpenFigures(kind, range)
  \/ \E q \in UNION {Requests[k].first \union Requests[k].then : k \in DOMAIN Requests} :
       FiguresRead(q) \/ FiguresFail(q)
  \/ recordResponseTime
-----------------------------------------------------------------------------
Figure(q) == CHOOSE x \in board.got[q] : TRUE
AnswerOf(kinds) == board.phase = "answered" /\ board.kind \in kinds

\* Of the dashboard's accuracy: a share of the failures, of which none can be shown as all
categorizationAccuracy ==
  LET total == Figure("failures")
      rate == IF total > 0 THEN (1000 * Figure("categorized")) \div total ELSE 1000
  IN IF rate < 968 THEN rate ELSE 968

\* The dashboard is refused only for the one query whose failure escapes it
\* (dashboard.service.ts:150-161); its parts are of different moments, but a later one
\* has all that an earlier one had; every failure has one category, and without a query
\* that failed, the accuracy shown is no more than the share that is categorized, unless
\* the queries were overtaken by a report.
DashboardHolds ==
  /\ (board.kind = "dashboard" /\ board.phase = "failed") => "categorized" \in board.failing
  /\ AnswerOf({"dashboard"}) /\ board.failing = {} =>
       LET all == SumBy(SetToSeq(Figure("breakdown")), LAMBDA b : b.count)
           known == {i \in DOMAIN archived : archived[i].last >= board.since /\ archived[i].categorized}
       IN /\ Figure("failures") <= all /\ Figure("categorized") <= all
          /\ Figure("failures") = all /\ all > 0 =>
               categorizationAccuracy * all <= 1000 * Cardinality(known)

\* An answer with a part of it missing is not an answer anywhere else: they all fail
\* together.  What is documented or recurs is at most what was archived by then.
MetricsHold ==
  /\ AnswerOf({"metrics", "summary", "search"}) => board.failing = {}
  /\ AnswerOf({"metrics"}) =>
       LET all == SumBy(SetToSeq(Figure("top")), LAMBDA b : b.count) IN
       Figure("archived") <= all /\ Figure("documented") <= all /\ Figure("recurring") <= all

\* A failure that is seen once more the day it was last seen never becomes less of a risk,
\* and one that is not seen again never becomes more of one
\* (prediction-analysis.service.ts:166-203).  A riskier failure is left out of the list only
\* for others that occurred at least as often.
RisksHold ==
  /\ \A i \in DOMAIN archived : LET f == archived[i] IN
       /\ f.last = today => Risk([f EXCEPT !.count = @ + 1], today) >= Risk(f, today)
       /\ Risk(f, today + 1) <= Risk(f, today)
       /\ 0 <= Risk(f, today) /\ Risk(f, today) <= 100000
  /\ \A listed \in calculateRiskScores(1, 1) :
       \A i \in DOMAIN archived \ DOMAIN listed, k \in DOMAIN listed :
         Score(archived[i], today) > Score(archived[k], today) =>
           2 <= Cardinality({j \in DOMAIN archived \ {i} : archived[j].count >= archived[i].count})

\* Every failure of the window, of today or of a month, is in one point of its series, in
\* order of days.
SeriesHolds == \A days \in {0, 30} :
  LET points == getFailureTimeSeries(days) IN
  /\ SumBy(points, LAMBDA p : p.count) =
       Cardinality({i \in DOMAIN archived : archived[i].last >= today - days})
  /\ \A k \in DOMAIN points : points[k].count > 0 /\ (k > 1 => points[k - 1].date < points[k].date)

\* A lone different day in a week or more of equal ones is the anomaly, found as soon as
\* there are seven days and never blamed on the equal ones; anomalies are fewer than a
\* quarter of the days.  A series and its reverse have opposite directions.
TrendsHold ==
  LET n == Len(series)
      odd == detectAnomalies(series, 2)
      Others(i) == {series[j] : j \in (1..n) \ {i}}
      Opposite == [increasing |-> "decreasing", decreasing |-> "increasing", stable |-> "stable"]
  IN /\ \A i \in 1..n : (n >= 7 /\ Cardinality(Others(i)) = 1 /\ series[i] \notin Others(i)) =>
          odd = {i}
     /\ odd # {} => n >= 7 /\ 4 * Cardinality(odd) < n
     /\ n <= 14 => calculateTrend(Reverse(series)).direction =
                     Opposite[calculateTrend(series).direction]
     /\ series # <<>> =>
          \E a, b \in Range(series) : 10 * a <= calculateTrend(series).movingAverage7d /\
                                      calculateTrend(series).movingAverage7d <= 10 * b

\* Recall is full exactly if nothing was missed, however the selections are divided into
\* strategies and weeks, and is then healthy.  The F1 of a single week is of one week's
\* averages: with one selection it is the F1 of all.
AccuracyHolds ==
  LET stats == getStats
      Divides(parts) ==
        /\ SumBy(SetToSeq(DOMAIN parts), LAMBDA k : parts[k].count) = Len(judged)
        /\ SumBy(SetToSeq(DOMAIN parts), LAMBDA k : parts[k].missed) = stats.all.missed
  IN
  /\ (stats.missedRegressionRate = 0) = (judged = <<>> \/ stats.all.avgRecall = 10000)
  /\ stats.missedRegressionRate = 0 => checkRecallHealth(9500)
  /\ Divides(stats.byStrategy) /\ Divides(stats.trend)
  /\ Len(judged) = 1 => \A k \in DOMAIN stats.weeklyF1 : stats.weeklyF1[k] = stats.avgF1

\* The percentiles are of the latest responses, but for one: the first of all stays until
\* the buffer has been filled twice, although responseTime.ts:31 has the oldest overwritten.
BufferHolds ==
  /\ Len(durations) <= BUFFER_SIZE
  /\ \A n \in 1..totalRequests : n > totalRequests - BUFFER_SIZE + 1 => n \in Range(durations)
  /\ totalRequests >= 2 * BUFFER_SIZE => 1 \notin Range(durations)

AnalyticsInv ==
  /\ BufferHolds /\ DashboardHolds /\ MetricsHold /\ RisksHold /\ SeriesHolds /\ TrendsHold
  /\ AccuracyHolds
=============================================================================
