SPECIFICATION Spec
CONSTANTS
  Files <- OneFile
  Copies <- NoFile
  Targets <- OneFile
  FirstKinds = {"good"}
  MaxEdits = 1
  MaxReads = 1
INVARIANTS
  UnmodifiedIsOnFile
CHECK_DEADLOCK FALSE
