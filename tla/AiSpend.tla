------------------------------- MODULE AiSpend -------------------------------
(***************************************************************************)
(* The analyses that the routes under /ai ask of the AI manager            *)
(* (manager.ts and features/), and what they cost: some of them insert a   *)
(* row of usage when they are done, add up the month, and mail one alert   *)
(* when the budget's threshold is passed (cost-tracker.ts).                *)
(*                                                                         *)
(* An analysis is the sequence of its awaits.  Abstracted: prompts,        *)
(* parsing of answers (an answer that makes no sense is an answer), sums   *)
(* of money (one row costs one), the cache, which nothing calls.           *)
(***************************************************************************)
EXTENDS Naturals, Sequences

CONSTANTS
  Analysis,   \* requests for an analysis
  Threshold,  \* rows in a month that reach alertThresholdPercent
  SetbackBound\* bound: failed database or mail calls, and restarts

ASSUME SpendAssumption == Threshold \in Nat \ {0} /\ SetbackBound \in Nat

Month == 1..2  \* bound: months

\* insert, sum of the month, mail
recordUsage == <<"row", "sum", "mail">>

findSimilarFailures == <<"embed", "search", "explain">>
\* The body's timestamp is a string, so the insert throws before it calls
storeFailure == <<"embed", "throw">>
markAsResolved == <<"update">>
categorizeFailure == <<"chat">> \o recordUsage
summarizeLogs == <<"chat">> \o recordUsage
\* Up to four sources are searched at once; none of their failures counts
enrichFailureContext == <<"gather", "chat">> \o recordUsage

Feature ==
  {findSimilarFailures, storeFailure, markAsResolved, categorizeFailure,
   summarizeLogs, enrichFailureContext}

Paying == {"embed", "explain", "chat"}           \* calls of the provider
Required == {"embed", "search", "throw", "update"} \* a failure ends the analysis
Ending == {"new", "done", "failed", "lost"}

VARIABLES
  pool,      \* where the books are: a database, or the stub server.ts passes, which
             \* takes every query and keeps nothing; never changes
  month,
  usage,     \* rows of ai_usage by month
  alertSent, \* of this process
  alerts,    \* history: alerts by the month they are about
  feature,   \* per analysis: its steps, once it has begun
  turn,      \* per analysis: the step it is at, or how it ended
  began,     \* per analysis: the month its row is dated
  paid,      \* history: analyses the provider was paid for
  booked,    \* history: analyses with a row
  wordless,  \* history: analyses whose model answered nothing
  alerted,   \* history: analyses that sent an alert, of this process
  beside,    \* history: analyses that began to reckon while another did
  blind,     \* history: a reckoning failed, was of a later month than its row, or was lost
             \* with its process, or its flag was
  setbacks

accounting == <<pool, month, usage, alertSent, alerts, booked, alerted, beside, blind>>
spendVars == <<accounting, feature, turn, began, paid, wordless, setbacks>>

Reckoning == {a \in Analysis : turn[a] \in {"sum", "mail"}}

SpendTypeOK ==
  /\ pool \in {"postgres", "stub"}
  /\ month \in Month /\ usage \in [Month -> Nat] /\ alerts \in [Month -> Nat]
  /\ alertSent \in BOOLEAN /\ blind \in BOOLEAN
  /\ feature \in [Analysis -> Feature \union {<<>>}]
  /\ \A a \in Analysis : turn[a] \in Ending \union {feature[a][i] : i \in DOMAIN feature[a]}
  /\ began \in [Analysis -> Month]
  /\ \A set \in {paid, booked, wordless, alerted, beside} : set \subseteq Analysis
  /\ setbacks \in 0..SetbackBound

SpendInit ==
  /\ pool \in {"postgres", "stub"}
  /\ month = 1 /\ usage = [m \in Month |-> 0] /\ alerts = [m \in Month |-> 0]
  /\ alertSent = FALSE /\ blind = FALSE
  /\ feature = [a \in Analysis |-> <<>>]
  /\ turn = [a \in Analysis |-> "new"]
  /\ began = [a \in Analysis |-> 1]
  /\ paid = {} /\ booked = {} /\ wordless = {} /\ alerted = {} /\ beside = {}
  /\ setbacks = 0

Comes(a, what) == turn' = [turn EXCEPT ![a] = what]
StepOf(a) == CHOOSE i \in DOMAIN feature[a] : feature[a][i] = turn[a]
ComesNext(a) ==
  Comes(a, IF StepOf(a) = Len(feature[a]) THEN "done" ELSE feature[a][StepOf(a) + 1])
Setback == setbacks < SetbackBound /\ setbacks' = setbacks + 1
-----------------------------------------------------------------------------
\* The feature is off, or the services are not initialized: refused
BeginAnalysis(a) ==
  /\ turn[a] = "new"
  /\ \/ \E f \in Feature : feature' = [feature EXCEPT ![a] = f] /\ Comes(a, f[1])
     \/ Comes(a, "failed") /\ UNCHANGED feature
  /\ UNCHANGED <<accounting, began, paid, wordless, setbacks>>

\* After the chat the row is dated.  An enrichment for which the model has no word is
\* answered as it is; the other features fall back on rules, and record.
ProviderAnswers(a) ==
  /\ turn[a] \in Paying
  /\ paid' = paid \union {a}
  /\ began' = [began EXCEPT ![a] = month]
  /\ \/ ComesNext(a) /\ UNCHANGED wordless
     \/ /\ turn[a] = "chat" /\ feature[a] = enrichFailureContext
        /\ Comes(a, "done") /\ wordless' = wordless \union {a}
  /\ UNCHANGED <<accounting, feature, setbacks>>

\* A chat that fails, paid for or not, is answered with a fallback; an
\* embedding that fails (some providers have none) ends the analysis
ProviderFails(a) ==
  /\ turn[a] \in Paying
  /\ paid' \in {paid, paid \union {a}}
  /\ began' = [began EXCEPT ![a] = month]
  /\ IF turn[a] \in Required THEN Comes(a, "failed") ELSE ComesNext(a)
  /\ UNCHANGED <<accounting, feature, wordless, setbacks>>

\* No match to explain, or no source with anything to say: that is the answer
SearchEnds(a) ==
  /\ turn[a] \in {"search", "gather", "update"}
  /\ ComesNext(a) \/ Comes(a, "done")
  /\ UNCHANGED <<accounting, feature, began, paid, wordless, setbacks>>

VectorFails(a) ==
  /\ turn[a] \in {"search", "update", "throw"}
  /\ Comes(a, "failed")
  /\ UNCHANGED <<accounting, feature, began, paid, wordless, setbacks>>

InsertRow(a) ==
  IF pool = "postgres"
  THEN /\ usage' = [usage EXCEPT ![began[a]] = @ + 1]
       /\ booked' = booked \union {a}
  ELSE UNCHANGED <<usage, booked>>

\* The insert, and the test of the flag that follows it
RecordRow(a) ==
  /\ turn[a] = "row"
  /\ InsertRow(a)
  /\ beside' = IF ~alertSent /\ Reckoning # {} THEN beside \union {a} ELSE beside
  /\ blind' = (blind \/ (~alertSent /\ began[a] # month))
  /\ Comes(a, IF alertSent THEN "done" ELSE "sum")
  /\ UNCHANGED <<pool, month, alertSent, alerts, alerted, feature, began, paid, wordless, setbacks>>

\* getCurrentMonthSummary
SumMonth(a) ==
  /\ turn[a] = "sum"
  /\ began' = [began EXCEPT ![a] = month]
  /\ Comes(a, IF usage[month] >= Threshold THEN "mail" ELSE "done")
  /\ UNCHANGED <<accounting, feature, paid, wordless, setbacks>>

\* Mutant: the flag is not set
SendAndForget(a) ==
  /\ turn[a] = "mail"
  /\ alerts' = [alerts EXCEPT ![began[a]] = @ + 1]
  /\ alerted' = alerted \union {a}
  /\ Comes(a, "done")
  /\ UNCHANGED <<pool, month, usage, alertSent, booked, beside, blind>>
  /\ UNCHANGED <<feature, began, paid, wordless, setbacks>>

\* The flag is set once the alert is out
sendBudgetAlert(a) ==
  /\ turn[a] = "mail"
  /\ alerts' = [alerts EXCEPT ![began[a]] = @ + 1]
  /\ alerted' = alerted \union {a}
  /\ alertSent' = TRUE
  /\ Comes(a, "done")
  /\ UNCHANGED <<pool, month, usage, booked, beside, blind, feature, began, paid, wordless, setbacks>>

\* ... and also when the mail failed, which is only logged
MailFails(a) ==
  /\ turn[a] = "mail"
  /\ Setback
  /\ alertSent' = TRUE
  /\ Comes(a, "done")
  /\ UNCHANGED <<pool, month, usage, alerts, booked, alerted, beside, blind>>
  /\ UNCHANGED <<feature, began, paid, wordless>>

\* The insert or a sum fails: the analysis fails, paid for as it is
AccountingFails(a) ==
  /\ turn[a] \in {"row", "sum"}
  /\ Setback
  /\ blind' = (blind \/ turn[a] = "sum")
  /\ Comes(a, "failed")
  /\ UNCHANGED <<pool, month, usage, alertSent, alerts, booked, alerted, beside>>
  /\ UNCHANGED <<feature, began, paid, wordless>>

\* Nothing resets the flag: resetAlertFlag has no caller
MonthEnds ==
  /\ month = 1 /\ month' = 2
  /\ blind' = (blind \/ Reckoning # {})
  /\ UNCHANGED <<pool, usage, alertSent, alerts, booked, alerted, beside>>
  /\ UNCHANGED <<feature, turn, began, paid, wordless, setbacks>>

ProcessRestarts ==
  /\ Setback
  /\ alertSent' = FALSE /\ alerted' = {}
  /\ blind' = (blind \/ Reckoning # {} \/ alertSent)
  /\ turn' = [a \in Analysis |-> IF turn[a] \in Ending THEN turn[a] ELSE "lost"]
  /\ UNCHANGED <<pool, month, usage, alerts, booked, beside, feature, began, paid, wordless>>

Analyse(a) ==
  \/ BeginAnalysis(a) \/ ProviderAnswers(a) \/ ProviderFails(a) \/ SearchEnds(a) \/ VectorFails(a)
  \/ RecordRow(a) \/ SumMonth(a) \/ sendBudgetAlert(a) \/ MailFails(a) \/ AccountingFails(a)

SpendNext == (\E a \in Analysis : Analyse(a)) \/ MonthEnds \/ ProcessRestarts

SpendSpec == SpendInit /\ [][SpendNext]_spendVars
-----------------------------------------------------------------------------
Reporting == {categorizeFailure, summarizeLogs, enrichFailureContext}

\* What was paid is in the books, unless the analysis failed, was lost, had a model without
\* a word, or is one that keeps none: of those that end well, a search for similar failures
\* and an empty enrichment are paid and unrecorded.  The stub has no books: no alert is
\* ever sent.
PaidIsRecorded ==
  \A a \in Analysis :
    (turn[a] = "done" /\ a \in paid /\ pool = "postgres") =>
      (a \in booked <=> (feature[a] \in Reporting /\ a \notin wordless))

\* An alert is about a month that has passed the threshold.
AlertsAreDue == \A m \in Month : alerts[m] > 0 => usage[m] >= Threshold

\* A process alerts once, in all its months, however many analyses reckon: a second alert is
\* that of an analysis that began to reckon beside another.
OneAlert == \A a, b \in alerted \ beside : a = b

\* When nobody is reckoning, a month past the threshold has set the flag, though reckonings
\* overlap and mails fail, unless a reckoning failed, was of a later month than its row, or
\* was lost with its process, or its flag was.
OverrunIsNoticed ==
  LET over == \E m \in Month : usage[m] >= Threshold IN
  /\ alertSent => over
  /\ (Reckoning = {} /\ over /\ ~blind) => alertSent

SpendInv == SpendTypeOK /\ PaidIsRecorded /\ AlertsAreDue /\ OneAlert /\ OverrunIsNoticed
=============================================================================
