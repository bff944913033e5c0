SPECIFICATION Spec
CONSTANTS
  Images <- Latencies
PROPERTY UndoTakesBack
CHECK_DEADLOCK FALSE
