SPECIFICATION Spec
CONSTANTS
  Cell = {0, 1}
  Header = {h}
  NoHeader = NoHeader
  MinLen = 1
  StartImages <- MCImages
  Batches <- MCBatches
  Strings <- MCStrings
  MaxEdits = 2
INVARIANTS
  FailureRestoresImage
  RollbackNeverRefused
  FinishedPassIsReversible
  PassIsBatch
CHECK_DEADLOCK FALSE
