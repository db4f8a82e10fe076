SPECIFICATION FairSpec
CONSTANTS
  Run = {1, 2}
  Conclusion = {"success", "failure", "skipped", "cancelled"}
  DisturbanceBound = 2
INVARIANTS
  MonitorInv
PROPERTIES
  MonitorEnds
CHECK_DEADLOCK FALSE
