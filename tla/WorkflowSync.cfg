SPECIFICATION FairSpec
CONSTANTS
  Run = {1, 2}
  Conclusion = {"success"}
  Sync = {s1, s2}
  Hook = {h1}
  PageSize = 1
  DisturbanceBound = 1
INVARIANTS
  SyncInv
  RowsAreHonest
PROPERTIES
  ConclusionsStand
  RowsConverge
