SPECIFICATION Spec
CONSTANTS
  NPages = 6
  Sizes <- MCSizes
  MaxVmObj = 3
  Handles <- MCHandles
  Cells <- MCCells
  FreedStartSurvives = TRUE
INVARIANTS
  MapAssertsHold
CHECK_DEADLOCK FALSE
