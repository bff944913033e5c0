SPECIFICATION Spec
CONSTANTS
  Fields <- Note
  TextFields <- Note
  LayoutFields <- None
  TypeFields <- None
  Values = {0, 1, 2}
  Retyping = {}
  Refused = {}
  Unwritable = {}
  Start = {0}
  MaxHistory = 3
INVARIANT CleanMeansSaved
