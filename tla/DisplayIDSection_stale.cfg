SPECIFICATION Spec
CONSTANTS
  Capacity = 14
  Limit = 13
  NewSize = 3
  Files <- Full
  OtherFree <- Nothing
  MaxHistory = 3
INVARIANTS
  GroupsFitBlock
