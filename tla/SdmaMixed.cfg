\* Seven writes or five copies fill the ring.  The third write is lost; a copy after
\* two writes hangs; from the fourth write on the engine wraps.
CONSTANTS
  RingDw = 35
  WriteDw = 5
  CopyDw = 7
  MaxCopy = 3
  CountMod = 4
  Cells <- MCWriteCells
  Values = {0, 1}
  Requests <- MCMixed
  Engines = {FALSE}
SPECIFICATION Spec
PROPERTIES WriteLostOnlyIfOutOfStep InStepCallReturns
\* The program ends when an assert fails or the ring is full.
CHECK_DEADLOCK FALSE
