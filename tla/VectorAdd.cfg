CONSTANTS
  Objects <- MCObjects
  Limit = 8
  None = None
  Groups = {1, 2}
  Values = {1, 2}
  ArgSlots = 4
SPECIFICATION Spec
INVARIANTS TypeOK LoadedAsLinked KernelWhereLoaded SpoiltOnlyIfEarly
PROPERTY Ends
\* The program ends.
CHECK_DEADLOCK FALSE
