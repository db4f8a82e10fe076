SPECIFICATION Spec
CONSTANTS
  Req = {q1, q2, q3}
  Rule <- MCRule
  ActionOf <- MCActionOf
  MaxRetries = 1
  Slots = 2
  BuiltIn <- MCBuiltIn
  DisturbanceBound = 1
INVARIANTS
  RetryLimit
SYMMETRY Symmetry
