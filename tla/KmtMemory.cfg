SPECIFICATION Spec
CONSTANTS
  NPages = 6
  Sizes <- MCSizes
  MaxVmObj = 3
  Handles <- MCHandles
  Cells <- MCCells
  FreedStartSurvives = FALSE
INVARIANTS
  TypeOK
  LookupFindsOwner
  GuardPageBehindEveryObject
  NoOrphanBufferObject
  NoCallFails
PROPERTIES
  OthersUntouched
  ImplementsPool
CHECK_DEADLOCK FALSE
