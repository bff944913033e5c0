SPECIFICATION Spec
CONSTANTS
  Capacity = 9
  TimingSize = 4
  DataSizes = {3, 5}
  Counts = {1}
  Clocks = {TRUE, FALSE}
  Descriptors = 2
  Files <- Headers
INVARIANTS
  FreeSpaceIsKnown
