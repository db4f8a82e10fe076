SPECIFICATION TestsSpec
CONSTANTS
  Req = {q1, q2, q3}
  Rule <- MCRule
  ActionOf <- MCActionOf
  MaxRetries = 1
  Slots = 2
  BuiltIn <- MCBuiltIn
  DisturbanceBound = 1
  fileA = fileA
  fileB = fileB
  testA = testA
  testB = testB
  nowhere = nowhere
  Source = {fileA, fileB}
  Suite = {testA, testB}
  Config = {package}
  Other = {readme}
  Code <- MCCode
  Candidate <- MCCandidate
  Past <- MCPast
  Builder = {b1, b2}
  FaultBound = 1
  TurnBound = 1
  Line = {l1, l2}
  Recorder = {r1, r2}
  RunBound = 4
  WordBound = 1
  SkipBound = 1
  Status = {"PASSED", "FAILED", "SKIPPED"}
  Commit = {c1, unknown}
  NoCommit = unknown
  Walk = {0, 4, 5}
  Email = {u1, u2}
  Holder = {u1}
  PageCall = {p1, p2}
  TokenBound = 2
  BeginBound = 2
  TroubleBound = 1
INVARIANTS
  HealingInv
  ConservativeOnlySuggests
  EventsTellTheTruth
  QuarantineTakesEffect
  RecordsInv
  HistoryInv
  SessionInv
CHECK_DEADLOCK FALSE
SYMMETRY Symmetry
