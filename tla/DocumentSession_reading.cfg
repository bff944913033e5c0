SPECIFICATION Spec
CONSTANTS
  Files <- TwoFiles
  Copies <- NoFile
  Targets <- TwoFiles
  FirstKinds = {"good"}
  MaxEdits = 2
  MaxReads = 1
PROPERTIES
  ChangesDuringReadAreKept
CHECK_DEADLOCK FALSE
