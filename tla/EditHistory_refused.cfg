SPECIFICATION Spec
CONSTANTS
  Fields <- LengthAndSwitch
  TextFields <- Length
  LayoutFields <- Length
  TypeFields <- None
  Values = {0, 1}
  Retyping = {}
  Refused = {1}
  Unwritable = {}
  Start = {0}
  MaxHistory = 3
INVARIANT RefusedValueIsRestored
