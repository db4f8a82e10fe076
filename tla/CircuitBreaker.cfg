\* Two overlapping request slots.
SPECIFICATION FairSpec
CONSTANTS
  Caller = {c1, c2}
  failureThreshold = 2
  halfOpenSuccessThreshold = 2
  resetTimeout = 2
  maxRetries = 1
  FailureBound = 5
INVARIANTS
  CountersFitState
  OneOutcomePerCall
PROPERTIES
  TripsOnConsecutiveFailures
  OpenIsTemporary
  RecoveryIsDecided
