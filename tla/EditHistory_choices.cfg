SPECIFICATION Spec
CONSTANTS
  Fields <- DropdownAndTimings
  TextFields <- None
  LayoutFields <- Dropdown
  TypeFields <- Dropdown
  Values = {0, 1}
  Retyping = {0}
  Refused = {1}
  Unwritable = {}
  Start = {0, 1}
  MaxHistory = 2
INVARIANTS
  PendingIsUnsaved
  NeverBetweenJoined
  SwapsAreWhole
PROPERTIES
  IsTimeline
