\* Three copies fill the ring; the fourth does not fit.
CONSTANTS
  RingDw = 23
  WriteDw = 5
  CopyDw = 7
  MaxCopy = 3
  CountMod = 4
  Cells <- MCCells
  Values = {0, 1}
  Requests <- MCCopies
  Engines = {TRUE, FALSE}
SPECIFICATION Spec
INVARIANTS TypeOK EngineInStep
PROPERTIES ImplementsOrder EveryCallReturns
\* The program ends when an assert fails or the ring is full.
CHECK_DEADLOCK FALSE
