SPECIFICATION Spec
CONSTANT MaxDocs = 4
INVARIANTS
  OriginalsSurvive
  AllOrNothing
  PairRestored
  AwayIsReported
CHECK_DEADLOCK FALSE
