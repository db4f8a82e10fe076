\* Two overlapping requests on three actions: a tool whose calls time out, one with a
\* call that may hang, and one that is not registered.
SPECIFICATION FairSpec
CONSTANTS
  Action = {a1, a2, a3}
  Registered = {a1, a2}
  Guarded = {a1}
  Request = {r1, r2}
  ActionTTL = 1
  Overlap = TRUE
INVARIANTS
  ConfirmationInv
  RepliesAreTrue
PROPERTY RequestsEnd
CHECK_DEADLOCK FALSE
