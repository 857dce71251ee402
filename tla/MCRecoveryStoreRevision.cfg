SPECIFICATION Spec
CONSTANTS
  Earlier = 0
  MaxSessions = 1
  MaxChanges = 2
  MaxRevision = 1
  MaxPending = 1
  DiskFails = FALSE
INVARIANT QueuedRevisionIsCaptured
CHECK_DEADLOCK FALSE
