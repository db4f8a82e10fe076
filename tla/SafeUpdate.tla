----------------------------- MODULE SafeUpdate -----------------------------
(***************************************************************************)
(* scripts/safe-update.js: install, verify, repair, suggest or roll back.  *)
(* One process and its working tree; every command may fail, and may have  *)
(* changed something before it did.                                        *)
(*                                                                         *)
(* A lockfile is known by where its content is from.  Abstracted: which    *)
(* packages; the eight verification steps, except what their failures      *)
(* look like: which repairs match, and whether a changed package is named. *)
(***************************************************************************)
EXTENDS Naturals, FiniteSets

CONSTANTS
  Workspace,          \* directories with a lockfile
  MaxAutoFixAttempts  \* MAX_AUTO_FIX_ATTEMPTS

ASSUME UpdateAssumption == MaxAutoFixAttempts \in Nat

\* The last commit's; an edit that is not committed; npm's, by the update or by a repair
Content == {"head", "edited", "updated", "repaired"}
\* npm install may write a lockfile; prisma generate and a clean npm ci write none.  (The
\* pattern for missing types is never reached: that for a missing module matches too.)
Repair == {"install", "no lockfile"}

VARIABLES
  mode,        \* "update", "verify" (--skip-update) or "report"; never changes
  lockfile,    \* per workspace
  before,      \* captureSnapshot, or captureGitSnapshot
  tree,        \* history: the lockfiles when the script was started
  changed,     \* workspaces whose packages changed: lockfileDiffs
  phase,
  verification,\* the last: passed or not, the repairs that match, is a culprit named
  suspected,   \* what the first verification looked like
  attempt,     \* of auto-fix
  untested,    \* history: has a command been run since the last verification?
  unrestored,  \* workspaces whose git checkout failed
  unreported,  \* history: did the script die of a report that could not be written?
  exit         \* exit code, or "none"

updateVars == <<mode, lockfile, before, tree, changed, phase, verification, suspected,
                attempt, untested, unrestored, unreported, exit>>

Verification == [passed : BOOLEAN, matches : SUBSET Repair, named : BOOLEAN]
NotVerified == [passed |-> FALSE, matches |-> {}, named |-> FALSE]

UpdateTypeOK ==
  /\ mode \in {"update", "verify", "report"}
  /\ {lockfile, before, tree} \subseteq [Workspace -> Content]
  /\ changed \subseteq Workspace /\ unrestored \subseteq Workspace
  /\ phase \in {"snapshot", "update", "compare", "verify", "repair", "reverify", "suggest",
                "rollback", "ended"}
  /\ verification \in Verification /\ suspected \in Verification
  /\ attempt \in 0..MaxAutoFixAttempts
  /\ untested \in BOOLEAN /\ unreported \in BOOLEAN
  /\ exit \in {"none", "0", "1", "2", "3"}

UpdateInit ==
  /\ mode \in {"update", "verify", "report"}
  /\ lockfile \in [Workspace -> {"head", "edited"}]
  /\ before = lockfile
  /\ tree = lockfile
  /\ changed = {} /\ unrestored = {}
  /\ phase = "snapshot"
  /\ verification = NotVerified /\ suspected = NotVerified
  /\ attempt = 0 /\ untested = TRUE /\ unreported = FALSE
  /\ exit = "none"

\* The report is written and the script ends with its code; when the file cannot be
\* written, nothing catches what is thrown and node ends it with 1
Exits(code) ==
  /\ phase' = "ended"
  /\ \/ exit' = code /\ UNCHANGED unreported
     \/ exit' = "1" /\ unreported' = TRUE
GoesOn(next) == phase' = next /\ UNCHANGED <<unreported, exit>>

\* Workspaces where npm install wrote a lockfile, before it failed or not
Written(S, by) == [w \in Workspace |-> IF w \in S THEN by ELSE lockfile[w]]

Snapshot ==
  /\ phase = "snapshot"
  /\ IF mode = "update" THEN before' = lockfile /\ GoesOn("update")
     ELSE before' = [w \in Workspace |-> "head"] /\ GoesOn("compare")
  /\ UNCHANGED <<mode, lockfile, tree, changed, verification, suspected, attempt, untested,
                 unrestored>>

\* All workspaces, whether an install fails or not
runUpdate ==
  /\ phase = "update"
  /\ \E S \in SUBSET Workspace : lockfile' = Written(S, "updated")
  /\ GoesOn("compare")
  /\ UNCHANGED <<mode, before, tree, changed, verification, suspected, attempt, untested,
                 unrestored>>

diffLockfiles == {w \in Workspace : lockfile[w] # before[w]}

\* The blast radius; a report ends with it
Compare ==
  /\ phase = "compare"
  /\ changed' = diffLockfiles
  /\ IF mode = "report" THEN Exits("0") ELSE GoesOn("verify")
  /\ UNCHANGED <<mode, lockfile, before, tree, verification, suspected, attempt,
                 untested, unrestored>>

\* A package can only be named if one has changed
Outcomes == {v \in Verification : (v.passed => v.matches = {} /\ ~v.named) /\ (v.named => changed # {})}

Verify ==
  /\ phase = "verify"
  /\ verification' \in Outcomes
  /\ suspected' = verification'
  /\ untested' = FALSE
  /\ IF verification'.passed THEN Exits("0") ELSE GoesOn("repair")
  /\ UNCHANGED <<mode, lockfile, before, tree, changed, attempt, unrestored>>

\* Mutant: a repair is taken for a verification
RepairUnverified ==
  /\ phase = "repair" /\ attempt < MaxAutoFixAttempts /\ suspected.matches # {}
  /\ untested' = TRUE
  /\ \E S \in SUBSET Workspace : lockfile' = Written(S, "repaired")
  /\ Exits("1")
  /\ UNCHANGED <<mode, before, tree, changed, verification, suspected, attempt, unrestored>>

\* The repairs that match the first verification, in workspaces guessed from its
\* output; if one succeeds, everything is verified again
attemptAutoFix ==
  /\ phase = "repair" /\ attempt < MaxAutoFixAttempts /\ suspected.matches # {}
  /\ untested' = TRUE
  /\ IF "install" \in suspected.matches
     THEN \E S \in SUBSET Workspace : lockfile' = Written(S, "repaired")
     ELSE UNCHANGED lockfile
  /\ \/ GoesOn("reverify") /\ attempt' = attempt + 1
     \/ GoesOn("suggest") /\ UNCHANGED attempt
  /\ UNCHANGED <<mode, before, tree, changed, verification, suspected, unrestored>>

\* Nothing matches, or there have been enough attempts
GiveUpRepair ==
  /\ phase = "repair"
  /\ attempt = MaxAutoFixAttempts \/ suspected.matches = {}
  /\ GoesOn("suggest")
  /\ UNCHANGED <<mode, lockfile, before, tree, changed, verification, suspected, attempt, untested,
                 unrestored>>

\* A failure is not looked at: the next attempt is the same repair
Reverify ==
  /\ phase = "reverify"
  /\ verification' \in Outcomes
  /\ untested' = FALSE
  /\ IF verification'.passed THEN Exits("1") ELSE GoesOn("repair")
  /\ UNCHANGED <<mode, lockfile, before, tree, changed, suspected, attempt, unrestored>>

\* A command for every package that the first failure names
suggestFix ==
  /\ phase = "suggest"
  /\ IF suspected.named THEN Exits("2") ELSE GoesOn("rollback")
  /\ UNCHANGED <<mode, lockfile, before, tree, changed, verification, suspected, attempt, untested,
                 unrestored>>

\* git checkout HEAD of every lockfile, whatever the snapshot says; npm ci changes none
rollback ==
  /\ phase = "rollback"
  /\ unrestored' \in SUBSET Workspace
  /\ lockfile' = Written(Workspace \ unrestored', "head")
  /\ untested' = TRUE
  /\ Exits("3")
  /\ UNCHANGED <<mode, before, tree, changed, verification, suspected, attempt>>

main ==
  \/ Snapshot \/ runUpdate \/ Compare \/ Verify
  \/ attemptAutoFix \/ GiveUpRepair \/ Reverify \/ suggestFix \/ rollback

\* Commands have timeouts, and the script goes on whatever they do
UpdateSpec == UpdateInit /\ [][main]_updateVars /\ WF_updateVars(main)
-----------------------------------------------------------------------------
\* Exit code 0 stands for a tree that has passed every check as it is, and so does 1,
\* but where the report could not be written: then 1 says nothing of the tree.
GoodExitsAreVerified ==
  mode # "report" =>
    /\ exit = "0" => verification.passed /\ ~untested
    /\ exit = "1" => unreported \/ (verification.passed /\ ~untested)

\* A report touches nothing, and fails only where it could not be written.  Code 2 leaves
\* the update, code 3 the last commit's lockfiles where git could restore them.
TreeIsWhatTheExitSays ==
  /\ mode = "report" => lockfile = tree /\ (exit \in {"none", "0"} \/ unreported)
  /\ exit = "2" => changed # {}
  /\ exit = "3" => \A w \in Workspace \ unrestored : lockfile[w] = "head"

UpdateInv == UpdateTypeOK /\ GoodExitsAreVerified /\ TreeIsWhatTheExitSays

\* The script has ended.
ScriptIsOver == exit # "none"
=============================================================================
