\* The thread sets and awaits up to three events, and the GPU signals them.
CONSTANTS
  Limit = 3
  Stride = 8
SPECIFICATION Spec
INVARIANT TypeOK
PROPERTIES CompletesOnlyIfTold LostOnlyBehindFirstSlot WaitReturns
\* The program ends when a create fails.
CHECK_DEADLOCK FALSE
