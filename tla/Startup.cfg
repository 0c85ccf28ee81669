\* Descriptors for up to four starts, and then no more.
CONSTANTS
  Topologies <- MCTopologies
  MaxFiles = 48
  InitLimit = 5
  MaxVmObj = 20
  MaxQueues = 2
  DoorbellBytes = 4
  Doorbells <- MCDoorbells
SPECIFICATION Spec
INVARIANTS TypeOK ReadyAndOff QueuesBacked DoorbellReachesQueue FailsOnlyForWant
PROPERTY InitEnds
\* The program ends when it is torn down for good, or an assert fails.
CHECK_DEADLOCK FALSE
