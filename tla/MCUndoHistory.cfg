SPECIFICATION Spec
CONSTANTS
  Cell = {0, 1}
  Header = {h}
  NoHeader = NoHeader
  MinLen = 1
  FileImage <- MCImage
  Batch <- MCBatch
  BatchFits <- MCFits
  BatchApplied <- MCApplied
  BatchReverts <- MCReverts
  BatchReverted <- MCReverted
  DefaultSnapshotLimit = 3
  MaxSnapshotLimit = 4
INVARIANTS
  UndoChain
  RedoChain
  OfferedStepsAreAccepted
  HistoryIsBounded
  DisabledMeansEmpty
PROPERTY ImplementsUndoLog
