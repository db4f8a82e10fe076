\* One request with a tool of each kind the loop tells apart, a name no tool
\* has, two roles, a limit of two calls and three turns.
SPECIFICATION FairSpec
CONSTANTS
  Tool = {"giphy_search", "github_create_branch", "jira_comment", "jira_transition_issue", "jira_link_issues", "azdo_trigger_pipeline", "azdo_create_work_item", "jenkins_trigger_build", "no_such_tool"}
  Guarded = {"github_create_branch", "jira_comment", "jira_transition_issue", "jira_link_issues", "azdo_trigger_pipeline", "azdo_create_work_item", "jenkins_trigger_build"}
  Role = {"EDITOR", "VIEWER"}
  MaxToolCalls = 2
  MaxIterations = 3
  BatchBound = 2
INVARIANTS
  ToolsAreAllowed
  LoopPauses
  ConversationIsWellFormed
  RunsBounded
PROPERTY RequestEnds
