SPECIFICATION Spec
CONSTANTS
  Action = {a1, a2}
  Registered = {a1}
  Guarded = {a1}
  Request = {r1, r2, r3}
  ActionTTL = 1
  Overlap = FALSE
PROPERTY ImplementsGate
INVARIANT AuditMatchesExecution
CHECK_DEADLOCK FALSE
