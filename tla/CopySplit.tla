------------------------------ MODULE CopySplit ------------------------------
(***************************************************************************)
(* How kmttest/SDMAPacket.cpp cuts a copy or a fill into packets of at     *)
(* most TWO_MEG bytes: memory for the packets is allocated at once, their  *)
(* number computed in 32 bits, and then they are filled in by a loop.      *)
(***************************************************************************)
EXTENDS Naturals, Sequences

CONSTANTS
  TwoMeg,      (* the most bytes one packet moves, TWO_MEG                 *)
  UintMod,     (* an unsigned int holds 0 .. UintMod - 1                   *)
  MaxDst,      (* SDMACopyDataPacket takes this many destinations, 2       *)
  CopyDw,      (* dwords of one copy packet, by number of destinations     *)
  FillDw,      (* dwords of one fill packet                                *)
  Surfaces     (* what is copied or filled: the address of the source, or  *)
               (* the dword to fill with, the destinations and the size    *)

ASSUME CopySplitAssumption ==
  /\ TwoMeg \in Nat \ {0}
  /\ UintMod \in Nat /\ TwoMeg < UintMod
  /\ MaxDst \in Nat \ {0}
  /\ CopyDw \in [1 .. MaxDst -> Nat \ {0}] /\ FillDw \in Nat \ {0}
  /\ \A s \in Surfaces :
       /\ s.op \in {"copy", "fill"}
       /\ s.src \in Nat /\ s.size \in 0 .. UintMod - 1
       /\ s.dst \in Seq(Nat) /\ Len(s.dst) \in 1 .. MaxDst
       /\ s.op = "fill" => Len(s.dst) = 1

\* Fault: a packet is counted for what a whole number of packets leaves.
PacketCount_OneMore(size) == (size % UintMod) \div TwoMeg + 1

\* (surfsize + TWO_MEG - 1) >> BITS, in an unsigned int.
PacketCount(size) == ((size + TwoMeg - 1) % UintMod) \div TwoMeg

\* SizeInDWords of all packets of a surface.
SizeInDWords(s) ==
  PacketCount(s.size) * (IF s.op = "copy" THEN CopyDw[Len(s.dst)] ELSE FillDw)

\* A packet for so many bytes; its count is one less.  A fill is of whole dwords if
\* the size of its packet and the address are, and of bytes otherwise.
Packet(op, src, dst, size) ==
  [op |-> op, src |-> src, dst |-> dst, count |-> size - 1,
   dwords |-> op = "fill" /\ size % 4 = 0 /\ dst[1] % 4 = 0]

\* Fault: the destinations stay where they are.
Turn_DstStays(op, at) ==
  LET size == IF at.left > TwoMeg THEN TwoMeg ELSE at.left
  IN [packets |-> Append(at.packets, Packet(op, at.src, at.dst, size)),
      src     |-> IF op = "copy" THEN at.src + size ELSE at.src,
      dst     |-> at.dst,
      left    |-> at.left - size]

\* One turn of the loop: a packet, and the addresses move on by its size.
Turn(op, at) ==
  LET size == IF at.left > TwoMeg THEN TwoMeg ELSE at.left
  IN [packets |-> Append(at.packets, Packet(op, at.src, at.dst, size)),
      src     |-> IF op = "copy" THEN at.src + size ELSE at.src,
      dst     |-> [i \in DOMAIN at.dst |-> at.dst[i] + size],
      left    |-> at.left - size]

\* The packets the loop fills in, until no byte is left: loop[n] is where it stands
\* after n turns, or when nothing was left before that.
PacketsOf(s) ==
  LET loop[n \in 0 .. s.size] ==
        IF n = 0 THEN [packets |-> << >>, src |-> s.src, dst |-> s.dst, left |-> s.size]
        ELSE LET at == loop[n - 1] IN IF at.left > 0 THEN Turn(s.op, at) ELSE at
  IN loop[s.size].packets

=============================================================================
