SPECIFICATION Spec
CONSTANTS
  Action = {a1}
  Registered = {a1}
  Guarded = {a1}
  Request = {r1, r2}
  ActionTTL = 1
  Overlap = TRUE
INVARIANT ExecutedAtMostOnce
CHECK_DEADLOCK FALSE
