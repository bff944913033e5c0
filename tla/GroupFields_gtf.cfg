SPECIFICATION Spec
CONSTANTS
  Images <- GtfRange
PROPERTY GtfMIsInItsBytes
CHECK_DEADLOCK FALSE
