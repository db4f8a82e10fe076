--------------------------- MODULE MCSelfHealing ---------------------------
(***************************************************************************)
(* Three requests, two at a time, a limit of one retry, one rule per kind  *)
(* of action of which the retry rule can be deleted, one failed call or    *)
(* crash.                                                                  *)
(***************************************************************************)
EXTENDS SelfHealing, TLC

MCRule == {"retry", "quarantine", "fix_pr"}
\* updateRule may give a built-in rule another action
MCBuiltIn == {"quarantine", "fix_pr"}
MCActionOf == [rule \in MCRule |-> rule]
Symmetry == Permutations(Req)
=============================================================================
