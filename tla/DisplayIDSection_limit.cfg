SPECIFICATION Spec
CONSTANTS
  Capacity = 12
  Limit = 11
  NewSize = 3
  Files <- Roomy
  OtherFree <- Nothing
  MaxHistory = 5
INVARIANTS
  PayloadIsReadable
