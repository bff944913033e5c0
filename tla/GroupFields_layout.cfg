SPECIFICATION Spec
CONSTANTS
  Images <- Timing7
INVARIANT LayoutFollowsBytes
CHECK_DEADLOCK FALSE
