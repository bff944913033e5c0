SPECIFICATION Spec
CONSTANTS
  Images <- ShortFrames
INVARIANT LengthsThatDoNotFitAreRefused
CHECK_DEADLOCK FALSE
