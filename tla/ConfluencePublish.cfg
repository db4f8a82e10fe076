SPECIFICATION PublishSpec
CONSTANTS
  Publisher = {p1, p2}
  EditsElsewhere = 1
  MishapBound = 2
INVARIANT AnalysesArePublished
CHECK_DEADLOCK FALSE
