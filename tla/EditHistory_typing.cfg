SPECIFICATION Spec
CONSTANTS
  Fields <- ClockAndSwitch
  TextFields <- Clock
  LayoutFields <- Switch
  TypeFields <- Clock
  Values = {0, 1}
  Retyping = {1}
  Refused = {}
  Unwritable = {}
  Start = {1}
  MaxHistory = 2
INVARIANTS
  SavedPositionIntact
  UndoneIsOpened
PROPERTIES
  LeftLayoutIsRebuilt
