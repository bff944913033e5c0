SPECIFICATION Spec
CONSTANTS
  Capacity = 14
  Limit = 13
  NewSize = 3
  Files <- ExactPadding
  OtherFree <- Nothing
  MaxHistory = 3
INVARIANTS
  OffsetsMatch
