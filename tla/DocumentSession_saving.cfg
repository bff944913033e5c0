SPECIFICATION Spec
CONSTANTS
  Files <- OneFile
  Copies <- NoFile
  Targets <- OneFile
  FirstKinds = {"miscounted", "badExtension", "badBase", "partial"}
  MaxEdits = 1
  MaxReads = 1
INVARIANTS
  UnmodifiedIsOnItsFile
  ClosedKeepsWork
  CloseIsWanted
PROPERTIES
  CloseIsAnswered
  ReplacedIsOnFile
CHECK_DEADLOCK FALSE
