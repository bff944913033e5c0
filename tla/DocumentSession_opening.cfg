SPECIFICATION Spec
CONSTANTS
  Files <- TwoFiles
  Copies <- TwoFiles
  Targets <- NoFile
  FirstKinds = {"good"}
  MaxEdits = 1
  MaxReads = 2
PROPERTIES
  NewestFileWins
  NewestIsAnswered
CHECK_DEADLOCK FALSE
