SPECIFICATION Spec
CONSTANTS
  MaxVersion = 3
  Entries = {native, rest}
  Native = native
INVARIANT SelectionIsAtomic
