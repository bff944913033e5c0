SPECIFICATION Spec
CONSTANTS
  Fields <- Note
  TextFields <- Note
  LayoutFields <- None
  TypeFields <- None
  Values = {0, 1, 2}
  Retyping = {}
  Refused = {}
  Unwritable = {2}
  Start = {0, 2}
  MaxHistory = 2
INVARIANT UndoAlwaysPossible
