\* Packets of up to half the ring, more than twice round it.
CONSTANTS
  TwoMeg = 8
  UintMod = 64
  MaxDst = 2
  CopyDw <- MCCopyDw
  FillDw = 1
  Surfaces <- MCSurfaces
  Size = 6
  PacketLimit = 5
  TimeOut = 2
  Callers = {"checks", "waits"}
SPECIFICATION Spec
INVARIANTS TypeOK NoOverrun PerformedInOrder CarriesSurface
PROPERTIES SubmittedPerformed PlacesWithRoom ConsumedWhenTrue
\* The caller stops after PacketLimit packets.
CHECK_DEADLOCK FALSE
