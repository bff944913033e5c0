SPECIFICATION Spec
CONSTANTS
  Capacity = 15
  Limit = 14
  NewSize = 3
  Files <- Sections
  OtherFree <- AfterCta
  MaxHistory = 3
INVARIANTS
  HistoryApplies
  GroupsFitBlock
  PayloadIsCovered
  PlainOffsetsMatch
  PlainFollowsHistory
PROPERTIES
  BlocksAreATimeline
