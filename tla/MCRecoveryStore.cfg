SPECIFICATION FairSpec
CONSTANTS
  Earlier = 2
  MaxSessions = 4
  MaxChanges = 4
  MaxRevision = 2
  MaxPending = 2
  DiskFails = TRUE
INVARIANTS
  MarksAreTrue
  KeptUntilAnswered
  OfferIsCurrent
  AnsweredIsRemoved
PROPERTY UnsavedIsRecorded
CHECK_DEADLOCK FALSE
