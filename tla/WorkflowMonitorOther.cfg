SPECIFICATION Spec
CONSTANTS
  Run = {1, 2}
  Conclusion = {"success", "failure", "skipped", "cancelled"}
  DisturbanceBound = 2
INVARIANTS
  StartedRowFollowsItsRun
CHECK_DEADLOCK FALSE
