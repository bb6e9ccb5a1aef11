CONSTANTS
  MaxSticks = 2
  MaxChanges = 3
  MaxInvocations = 3
SPECIFICATION InterfaceSpec
INVARIANTS
  InterfaceTypeOK
  AnswerIsOwn
  AddressIsOwn
PROPERTIES
  Recovers
CHECK_DEADLOCK FALSE
