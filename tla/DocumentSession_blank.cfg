SPECIFICATION Spec
CONSTANTS
  Files <- TwoFiles
  Copies <- NoFile
  Targets <- TwoFiles
  FirstKinds = {"good", "badBase"}
  MaxEdits = 1
  MaxReads = 1
INVARIANTS
  OnlyEdidsAreWritten
CHECK_DEADLOCK FALSE
