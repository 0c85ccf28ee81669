SPECIFICATION Spec
CONSTANTS
  NPages = 6
  Sizes <- MCSizes
  MaxVmObj = 3
  Handles <- MCHandles
  Cells <- MCCells
  FreedStartSurvives = FALSE
INVARIANTS
  OverrunOnlyIfFull
CHECK_DEADLOCK FALSE
