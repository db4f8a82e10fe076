------------------------------- MODULE EditLog -------------------------------
(***************************************************************************)
(* What "collaborative RCA documentation (optimistic locking, revision     *)
(* history)" (ROADMAP.md) promises: the text of a root cause analysis      *)
(* changes by saves, and a save keeps the text it replaces.  The promise   *)
(* is for a strict archive, in which every edit takes part in the version  *)
(* check and transactions are serializable; otherwise a text may be lost.  *)
(***************************************************************************)
EXTENDS Sequences

CONSTANT Text

VARIABLES
  strict,  \* whether the promise is made; never changes
  text,    \* the text of the analysis
  history  \* the texts it replaced, oldest first

logVars == <<strict, text, history>>

LogInit == strict \in BOOLEAN /\ text \in Text /\ history = <<>>

Save == text' \in Text /\ history' = Append(history, text)

Lose ==
  /\ ~strict
  /\ text' \in Text
  /\ history' = history \/ \E t \in Text : history' = Append(history, t)

LogNext == UNCHANGED strict /\ (Save \/ Lose)

LogSpec == LogInit /\ [][LogNext]_logVars
=============================================================================
