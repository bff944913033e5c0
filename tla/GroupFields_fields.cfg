SPECIFICATION Spec
CONSTANTS
  Images <- AllImages
INVARIANTS FieldsFollowBytes CanUndo BytesAreCovered EditedOpensAgain
PROPERTIES UndoRestores ChangesAreRemembered WrittenIsRead EditChangesOneValue
CHECK_DEADLOCK FALSE
