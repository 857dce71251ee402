SPECIFICATION Spec
CONSTANTS
  MaxVersion = 3
  Entries = {native, rest}
  Native = native
INVARIANTS
  SelectedIsComplete
  RollbackReturns
  FailureKeepsSelection
PROPERTY NeverStranded
