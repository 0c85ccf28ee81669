--------------------------- MODULE RingQueueProps ---------------------------
(***************************************************************************)
(* What must be true of the user-mode queue modelled in RingQueue, and of  *)
(* the packets CopySplit cuts for it.                                      *)
(***************************************************************************)
EXTENDS RingQueue, FiniteSets

Dwords == {NOP} \cup {Dword(i, k, n) : i \in 1 .. PacketLimit,
                                       k \in 0 .. Size - 1, n \in PacketSizes}

\* A caller that waits asks for no room, but a packet and the padding in front of it go
\* into an empty ring.
HalfRing == "waits" \in Callers => \A n \in PacketSizes : 2 * n <= Size

\* The number of packets read; the last one may not have been performed yet.
Read == Len(performed) + IF inflight = << >> THEN 0 ELSE 1

\* Type invariant of the queue object and its registers (BaseQueue.hpp:73-78).
TypeOK ==
  /\ caller \in Callers
  /\ surface \in {<< >>} \cup {<<s>> : s \in Surfaces}
  /\ ring \in [Positions -> Dwords]
  /\ pendingWptr \in Positions
  /\ pendingWptr64 \in Nat /\ wptr \in Nat /\ doorbell \in Nat /\ rptr \in Nat
  /\ placed \in 0 .. PacketLimit /\ submitted \in 0 .. placed
  /\ inflight = << >> \/ \E n \in PacketSizes : inflight \in [1 .. n -> Dwords]
  /\ performed \in Seq(0 .. PacketLimit)
  /\ pc \in {"ready", "placed", "doorbell", "submitted", "wait"}
  /\ timeLeft \in 0 .. TimeOut
  /\ gaveUp \in BOOLEAN /\ crammed \in BOOLEAN

\* As long as each packet was placed where there was room for it, what is placed and not
\* yet read fits in the ring with a slot to spare, so a packet never lands on one the
\* engine has still to read, and equal indices mean that all has been read; the wrapped
\* index follows the one that never wraps (BaseQueue.cpp:151-197).
NoOverrun ==
  ~ crammed => /\ rptr <= pendingWptr64
               /\ pendingWptr64 - rptr < Size
               /\ pendingWptr = pendingWptr64 % Size

\* So long, the engine performs the packets whole, once each and in the order they were
\* placed, wherever the ring ends (BaseQueue.cpp:179-197).
PerformedInOrder == ~ crammed => performed = [i \in 1 .. Len(performed) |-> i]

\* So long, every packet handed over is performed in the end (SDMAQueue.cpp:71-79).
SubmittedPerformed ==
  \A i \in 1 .. PacketLimit : submitted >= i ~> Len(performed) >= i \/ crammed

\* There is room without asking for it as long as each packet is waited for and no wait
\* gives up: the first packet placed without room follows a wait that returned false, which
\* the caller is not told (BaseQueue.cpp:144-149, 174-177).
PlacesWithRoom == [][crammed' /\ ~ crammed => gaveUp]_vars

\* A wait returns true only when the engine has read all that was handed over
\* (BaseQueue.cpp:144-149, SDMAQueue.cpp:62-79).
ConsumedWhenTrue ==
  [][pc = "wait" /\ pc' = "ready" /\ ~ gaveUp' /\ ~ crammed => Read = submitted]_vars

-----------------------------------------------------------------------------
(* The packets of the surface.                                             *)

\* The packets that carry byte k of a surface to its place behind its i-th destination:
\* a copy from its place behind the source, a fill with its place in the dword.
Carriers(s, packets, k, i) ==
  {j \in DOMAIN packets :
     LET p == packets[j]
         at == s.dst[i] + k - p.dst[i]
     IN /\ at \in 0 .. p.count
        /\ IF s.op = "copy" THEN p.src + at = s.src + k
           ELSE p.src = s.src /\ (p.dwords => at % 4 = k % 4)}

\* The loop fills in the packets there is memory for, and they carry each byte once to
\* each destination and none behind the surface, each in no more than the engine takes;
\* a fill of whole dwords at an aligned address has no byte-wise packet, which would
\* repeat the low byte (SDMAPacket.cpp:68-163).
CarriesSurface ==
  \A s \in {surface[j] : j \in DOMAIN surface} :
    LET packets == PacketsOf(s)
    IN /\ Len(packets) = PacketCount(s.size)
       /\ \A i \in DOMAIN s.dst :
            \A k \in 0 .. s.size - 1 : Cardinality(Carriers(s, packets, k, i)) = 1
       /\ \A p \in {packets[j] : j \in DOMAIN packets} :
            /\ p.count < TwoMeg
            /\ \A i \in DOMAIN s.dst : p.dst[i] + p.count < s.dst[i] + s.size
            /\ s.op = "fill" /\ s.size % 4 = 0 /\ s.dst[1] % 4 = 0 => p.dwords

=============================================================================
