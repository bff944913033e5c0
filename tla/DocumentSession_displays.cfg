SPECIFICATION Spec
CONSTANTS
  Files <- OneFile
  Copies <- NoFile
  Targets <- OneFile
  FirstKinds = {"good"}
  MaxEdits = 1
  MaxReads = 1
PROPERTIES
  UnsavedIsConfirmedFirst
CHECK_DEADLOCK FALSE
