SPECIFICATION Spec
CONSTANTS
  MaxVersion = 3
  MaxEdits = 1
  OsOf <- TwoSystems
INVARIANT
  Recoverable
PROPERTIES
  SwapsItsBase
  NeedsNoNetwork
