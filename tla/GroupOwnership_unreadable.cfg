SPECIFICATION Spec
CONSTANTS
  base = base
  section = section
  Blocks <- TwoBlocks
  Documents <- OneNested
  SubCounts = {0, 1}
  MaxChanged = 1
  MaxGroups = 6
  MaxHistory = 2
INVARIANT ShownIsAlive
CHECK_DEADLOCK FALSE
