------------------------------ MODULE Autonomy ------------------------------
(***************************************************************************)
(* Graduated autonomy: the tools the copilot knows (tools/index.ts and the *)
(* tool files), who may use them (tools/types.ts) and the tier             *)
(* AutonomyClassifier.ts puts each call in.  Tier 1 runs, tiers 2 and 3    *)
(* wait for a human.                                                       *)
(***************************************************************************)
EXTENDS Naturals

Level == {"conservative", "balanced", "autonomous"}

\* Tools registered with requiresConfirmation: false that only read
ReadTool ==
  {"jira_search", "jira_get", "github_get_commit", "github_get_pr",
   "confluence_search", "jenkins_get_status", "dashboard_metrics",
   "failure_predictions", "giphy_search", "rca_identify", "xray_search",
   "smart_test_select", "azdo_get_pipeline", "azdo_search_work_items",
   "azdo_get_work_item", "azdo_get_build", "azdo_get_pull_request",
   "azdo_list_wikis", "azdo_get_wiki_page", "azdo_get_test_results"}

\* ... and those that write: they link issues and add labels in Jira
HousekeepingTool == {"jira_link_issues", "jira_add_label"}

\* Tools registered with requiresConfirmation: true and requiredRole: 'EDITOR'
EditorTool ==
  {"github_create_pr", "github_create_branch", "github_update_file",
   "jira_create_issue", "jira_transition_issue", "jira_comment",
   "github_merge_pr", "jenkins_trigger_build", "testrun_cancel",
   "testrun_retry", "github_rerun_workflow"}

\* Tools registered with requiresConfirmation: true and no requiredRole
OpenWriteTool ==
  {"azdo_create_work_item", "azdo_update_work_item", "azdo_create_wiki_page",
   "azdo_trigger_pipeline"}

\* Tools registered with requiresConfirmation: true
GatedTool == EditorTool \union OpenWriteTool

\* Tools that change something
WriteTool == GatedTool \union HousekeepingTool

RegisteredTool == ReadTool \union WriteTool

RoleLevel == [ADMIN |-> 40, EDITOR |-> 30, USER |-> 30, BILLING |-> 20, VIEWER |-> 10]

LevelOf(role) == IF role \in DOMAIN RoleLevel THEN RoleLevel[role] ELSE 0

HasRequiredRole(role, required) == LevelOf(role) >= LevelOf(required)

\* checkToolAccess
MayCall(role, tool) ==
  /\ tool \in RegisteredTool
  /\ tool \in EditorTool => HasRequiredRole(role, "EDITOR")
-----------------------------------------------------------------------------
\* The entries of the tools that write; only those of gated ones are looked up
TOOL_TIER_MAP ==
  [jira_create_issue |-> 2, jira_transition_issue |-> 3, jira_comment |-> 2,
   github_create_pr |-> 2, github_create_branch |-> 1, github_update_file |-> 3,
   github_rerun_workflow |-> 2, jenkins_trigger_build |-> 2,
   testrun_cancel |-> 3, testrun_retry |-> 2, jira_link_issues |-> 1,
   jira_add_label |-> 1, github_merge_pr |-> 2]

\* Mutant: a tool without an entry is tier 1
BaseTierOpen(tool) == IF tool \in DOMAIN TOOL_TIER_MAP THEN TOOL_TIER_MAP[tool] ELSE 1

BaseTier(tool) == IF tool \in DOMAIN TOOL_TIER_MAP THEN TOOL_TIER_MAP[tool] ELSE 2

(***************************************************************************)
(* A context says whether the analysis was confident (> 0.9), the action   *)
(* was retried twice, the target is production, and whether the body of a  *)
(* comment starts with [Auto] or [AI Investigation].                       *)
(***************************************************************************)
ApplyContextOverrides(tool, ctx) ==
  CASE tool = "testrun_retry" /\ ctx.confident /\ ~ctx.retriedTwice -> 1
    [] tool = "github_rerun_workflow" /\ ctx.confident -> 1
    [] tool = "jenkins_trigger_build" /\ ctx.production -> 3
    [] tool = "jira_comment" /\ ctx.note -> 1
    [] OTHER -> BaseTier(tool)

ApplyUserPreference(tier, level) ==
  CASE level = "conservative" -> IF tier < 2 THEN 2 ELSE tier
    [] level = "autonomous" /\ tier = 2 -> 1
    [] OTHER -> tier

ClassifyTool(tool, ctx, level) ==
  ApplyUserPreference(ApplyContextOverrides(tool, ctx), level)
=============================================================================
