SPECIFICATION Spec
CONSTANTS
  base = base
  section = section
  Blocks <- TwoBlocks
  Documents <- NestedAndPadded
  SubCounts = {0, 1}
  MaxChanged = 2
  MaxGroups = 5
  MaxHistory = 2
INVARIANTS OneOwner EntriesAreAlive EntriesApply RefreshIsAlive ShownIsOpen AskedIsOpen
PROPERTIES OnlyDroppingFrees
CHECK_DEADLOCK FALSE
