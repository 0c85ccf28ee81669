\* Seven writes fill the ring; the third is lost, and from the fourth on the engine
\* wraps and performs old packets again.
CONSTANTS
  RingDw = 35
  WriteDw = 5
  CopyDw = 7
  MaxCopy = 3
  CountMod = 4
  Cells <- MCWriteCells
  Values = {0, 1}
  Requests <- MCWrites
  Engines = {FALSE}
SPECIFICATION Spec
PROPERTIES WriteReadsBack
\* The program ends when an assert fails or the ring is full.
CHECK_DEADLOCK FALSE
