---------------------------- MODULE RingQueueProofs ----------------------------
(***************************************************************************)
(* Proofs about RingQueue, for every size of the ring and every packet.    *)
(*                                                                         *)
(* The inductive invariant, RingInv, is about the window of the ring, what *)
(* is placed and not yet read: as long as each packet was placed where     *)
(* there was room, the window is cut into whole packets and NOPs, the      *)
(* doorbell is on a cut, and the packets' numbers go on from the last one  *)
(* read without a gap.  What is placed are the packets of a surface: the   *)
(* last part shows that these carry it, with an invariant of the loop that *)
(* cuts it up.                                                             *)
(***************************************************************************)
EXTENDS RingQueueProps, Integers, LeastNumber, SequenceTheorems, TLAPS

Window == rptr .. pendingWptr64 - 1
Pos(p) == p % Size
Slot(p) == ring[Pos(p)]

\* The caller builds a packet before it submits or waits, and only as many as it may; one
\* that waits does so after each.
CallerInv ==
  surface # << >> => /\ pc \in {"ready", "placed", "submitted"} /\ placed < PacketLimit
                     /\ caller = "waits" => pc = "ready"

\* What the engine has read begins with a packet's dword.
HeadInv == inflight # << >> => inflight[1] # NOP

\* The indices are in order; what a call has put in wptr stays until the next.
IndexInv ==
  /\ rptr <= pendingWptr64 /\ pendingWptr64 - rptr < Size
  /\ pendingWptr = pendingWptr64 % Size
  /\ doorbell \in rptr .. pendingWptr64
  /\ pc \in {"doorbell", "submitted", "wait"} => wptr = pendingWptr64
  /\ pc \in {"submitted", "wait"} => submitted = placed

\* A caller that waits places its next packet when all has been read, unless its wait
\* gave up.
EmptyInv == caller = "waits" /\ pc = "ready" /\ ~ gaveUp => rptr = pendingWptr64

\* A packet of n dwords lies in the window from p on, on one side of the doorbell.
Begins(p, id, n) ==
  /\ rptr <= p /\ p + n <= pendingWptr64
  /\ p < doorbell => p + n <= doorbell
  /\ \A j \in 0 .. n - 1 : Slot(p + j) = Dword(id, j, n)

\* Every dword of the window is a NOP, or one of such a packet.
ContentsInv ==
  \A p \in Window :
    \/ Slot(p) = NOP
    \/ \E id \in 1 .. placed, n \in PacketSizes :
         \E k \in 0 .. n - 1 : Slot(p) = Dword(id, k, n) /\ Begins(p - k, id, n)

\* The packets performed are the first ones.
Ordered == performed = [i \in 1 .. Len(performed) |-> i]

\* The numbers of the packets in the window go on from there, each one's dwords being
\* in one place.
OrderInv ==
  /\ Ordered
  /\ inflight # << >> =>
       \E n \in PacketSizes : inflight = [j \in 1 .. n |-> Dword(Read, j - 1, n)]
  /\ placed = Read \/ \E q \in Window : Slot(q) # NOP /\ Slot(q).id = placed
  /\ \A p \in Window : Slot(p) # NOP =>
       \/ Slot(p).id = Read + 1
       \/ \E q \in rptr .. p - 1 : Slot(q) # NOP /\ Slot(q).id = Slot(p).id - 1
  /\ \A p, q \in Window :
       Slot(p) # NOP /\ Slot(q) # NOP /\ Slot(p).id = Slot(q).id
         => p - Slot(p).k = q - Slot(q).k

StateInv == TypeOK /\ CallerInv /\ HeadInv
WindowInv == IndexInv /\ EmptyInv /\ ContentsInv /\ OrderInv
RingInv == StateInv /\ (~ crammed => WindowInv)
-----------------------------------------------------------------------------
(* Positions in the ring.                                                  *)

\* A number is its quotient and its remainder.
LEMMA DivMod ==
  ASSUME NEW S \in Nat \ {0}, NEW a \in Nat
  PROVE  /\ a = (a \div S) * S + (a % S)
         /\ a \div S \in Nat /\ a % S \in 0 .. S - 1
  OBVIOUS

\* A remainder is found from any quotient.
LEMMA ModUnique ==
  ASSUME NEW S \in Nat \ {0}, NEW q \in Int, NEW r \in 0 .. S - 1
  PROVE  (q * S + r) % S = r
  OBVIOUS

\* Indices less than the ring apart have positions of their own.
LEMMA ModInjective ==
  ASSUME NEW S \in Nat \ {0}, NEW a \in Nat, NEW b \in Nat,
         a <= b, b < a + S, a % S = b % S
  PROVE  a = b
<1> DEFINE p == a \div S
           q == b \div S
<1>1. a = p * S + (a % S) /\ p \in Nat  BY DivMod
<1>2. b = q * S + (b % S) /\ q \in Nat  BY DivMod
<1> HIDE DEF p, q
<1>3. (q - p) * S = b - a  BY <1>1, <1>2
<1>4. q - p >= 1 => (q - p) * S >= S  BY <1>1, <1>2
<1>5. q - p <= -1 => (q - p) * S <= -S  BY <1>1, <1>2
<1>6. q = p  BY <1>1, <1>2, <1>3, <1>4, <1>5
<1> QED  BY <1>1, <1>2, <1>6

\* Before the end of the ring, positions go on with the indices.
LEMMA ModAdvance ==
  ASSUME NEW S \in Nat \ {0}, NEW a \in Nat, NEW n \in Nat, (a % S) + n < S
  PROVE  (a + n) % S = (a % S) + n
<1>1. a + n = (a \div S) * S + ((a % S) + n) /\ a \div S \in Nat  BY DivMod
<1>2. (a % S) + n \in 0 .. S - 1  BY DivMod
<1> QED  BY <1>1, <1>2, ModUnique

\* Behind the end of the ring, they begin again.
LEMMA ModAround ==
  ASSUME NEW S \in Nat \ {0}, NEW a \in Nat, NEW n \in Nat, NEW r \in 0 .. S - 1,
         (a % S) + n = S + r
  PROVE  (a + n) % S = r
<1> DEFINE q == a \div S
           next == q + 1
<1>1. a = q * S + (a % S) /\ q \in Nat  BY DivMod
<1>2. a % S \in 0 .. S - 1  BY DivMod
<1> HIDE DEF q
<1>3. next \in Int /\ next * S = q * S + S  BY <1>1
<1>4. a + n = next * S + r  BY <1>1, <1>2, <1>3
<1> HIDE DEF next
<1> QED  BY <1>3, <1>4, ModUnique

\* What is available is what is left of the ring but for a slot.
LEMMA AvailableIs ==
  ASSUME NEW S \in Nat \ {0}, NEW r \in Nat, NEW w \in Nat, r <= w, w - r < S
  PROVE  ((r % S) + S - 1 - (w % S)) % S = S - 1 - (w - r)
<1> DEFINE a == r \div S
           b == w \div S
           left == S - 1 - (w - r)
<1>1. r = a * S + (r % S) /\ a \in Nat  BY DivMod
<1>2. w = b * S + (w % S) /\ b \in Nat  BY DivMod
<1>3. r % S \in Nat /\ w % S \in Nat  BY DivMod
<1> HIDE DEF a, b
<1>4. (b - a) * S = b * S - a * S  BY <1>1, <1>2
<1>5. (r % S) + S - 1 - (w % S) = (b - a) * S + left  BY <1>1, <1>2, <1>3, <1>4
<1>6. left \in 0 .. S - 1  OBVIOUS
<1>7. b - a \in Int  BY <1>1, <1>2
<1> QED  BY <1>5, <1>6, <1>7, ModUnique

\* The dwords of packets differ from NOPs, and show whose they are.
LEMMA DwordFields ==
  ASSUME NEW id \in Nat, NEW k \in Nat, NEW n \in Nat
  PROVE  /\ Dword(id, k, n) # NOP
         /\ Dword(id, k, n).is = "packet"
         /\ Dword(id, k, n).id = id
         /\ Dword(id, k, n).k = k
         /\ Dword(id, k, n).n = n
<1>1. Dword(id, k, n).is = "packet" /\ NOP.is = "nop"  BY DEF Dword, NOP
<1> QED  BY <1>1 DEF Dword

\* What the theorems assume of the constants.
LEMMA Sizes ==
  /\ Size \in Nat \ {0}
  /\ \A n \in PacketSizes : n \in 1 .. Size
  /\ PacketLimit \in Nat /\ TimeOut \in Nat \ {0}
  BY RingQueueAssumption

\* The same of the positions in the ring.
LEMMA PosRange == \A a \in Nat : Pos(a) \in 0 .. Size - 1
  BY Sizes, DivMod DEF Pos

\* Positions of the first round.
LEMMA PosSelf == Pos(Size) = 0 /\ \A a \in 0 .. Size - 1 : Pos(a) = a
  BY Sizes, ModUnique DEF Pos

\* Short of the end of the ring, positions go on by what is added.
LEMMA PosAdvance == \A a, n \in Nat : Pos(a) + n < Size => Pos(a + n) = Pos(a) + n
  BY Sizes, ModAdvance DEF Pos

\* Positions come round.
LEMMA PosAround ==
  \A a, n \in Nat : \A r \in 0 .. Size - 1 : Pos(a) + n = Size + r => Pos(a + n) = r
  BY Sizes, ModAround DEF Pos

\* Within one round positions are different.
LEMMA PosInjective ==
  \A a, b \in Nat : a <= b /\ b < a + Size /\ Pos(a) = Pos(b) => a = b
  BY Sizes, ModInjective DEF Pos

\* A packet of n dwords behind padding at w is in one piece.
InOnePiece(w, n, pad, start) ==
  /\ start \in 0 .. Size - 1 /\ start + n <= Size
  /\ pad > 0 => start = 0 /\ Pos(w) + pad = Size
  /\ \A j \in 0 .. pad - 1 : Pos(w + j) = Pos(w) + j
  /\ \A j \in 0 .. n - 1 : Pos(w + pad + j) = start + j
  /\ Pos(w + pad + n) = Pos(start + n)

\* Where a packet is placed, and where its padding is.
LEMMA PlacePositions ==
  ASSUME NEW w \in Nat, NEW n \in Nat, NEW pad \in Nat, 1 <= n, n <= Size, pad < Size,
         \/ pad = 0 /\ Pos(w) + n <= Size
         \/ pad > 0 /\ Pos(w) + pad = Size
  PROVE  InOnePiece(w, n, pad, Pos(Pos(w) + pad))
<1> DEFINE start == Pos(Pos(w) + pad)
<1>1. /\ Size \in Nat \ {0} /\ Pos(w) \in 0 .. Size - 1 /\ 0 \in 0 .. Size - 1
      /\ start \in 0 .. Size - 1
  BY Sizes, PosRange
<1>2. CASE pad = 0 /\ Pos(w) + n <= Size
  <2>1. start = Pos(w)  BY <1>1, <1>2, PosSelf
  <2> HIDE DEF start
  <2>2. ASSUME NEW j \in 0 .. n - 1  PROVE Pos(w + pad + j) = start + j
    BY <1>1, <1>2, <2>1, PosAdvance
  <2>3. CASE Pos(w) + n < Size
    <3>1. Pos(w + n) = Pos(w) + n  BY <1>1, <2>3, PosAdvance
    <3>2. Pos(start + n) = start + n  BY <1>1, <2>1, <2>3, PosSelf
    <3>3. w + pad + n = w + n  BY <1>2
    <3>4. Pos(w + pad + n) = Pos(start + n)  BY <2>1, <3>1, <3>2, <3>3
    <3> QED  BY <1>1, <1>2, <2>1, <2>2, <3>4 DEF start, InOnePiece
  <2>4. CASE Pos(w) + n = Size
    <3>1. Pos(w + n) = 0  BY <1>1, <2>4, PosAround
    <3>2. Pos(start + n) = 0  BY <2>1, <2>4, PosSelf
    <3>3. w + pad + n = w + n  BY <1>2
    <3>4. Pos(w + pad + n) = Pos(start + n)  BY <2>1, <3>1, <3>2, <3>3
    <3> QED  BY <1>1, <1>2, <2>1, <2>2, <3>4 DEF start, InOnePiece
  <2> QED  BY <1>1, <1>2, <2>3, <2>4
<1>3. CASE pad > 0 /\ Pos(w) + pad = Size
  <2>1. start = 0  BY <1>3, PosSelf
  <2> HIDE DEF start
  <2>2. ASSUME NEW j \in 0 .. pad - 1  PROVE Pos(w + j) = Pos(w) + j
    BY <1>1, <1>3, PosAdvance
  <2>3. ASSUME NEW j \in 0 .. Size - 1  PROVE Pos(w + pad + j) = j
    <3>1. w + pad + j = w + (pad + j) /\ pad + j \in Nat  BY <1>1
    <3>2. Pos(w) + (pad + j) = Size + j  BY <1>1, <1>3
    <3> QED  BY <1>1, <3>1, <3>2, PosAround
  <2>4. Pos(w + pad + n) = Pos(start + n)
    <3>1. CASE n < Size  BY <1>1, <2>1, <2>3, <3>1, PosSelf
    <3>2. CASE n = Size
      <4>1. Pos(w + pad) = 0 /\ w + pad \in Nat  BY <1>1, <1>3, PosAround
      <4>2. Pos(w + pad) + n = Size + 0  BY <1>1, <3>2, <4>1
      <4>3. Pos(w + pad + n) = 0  BY <1>1, <4>1, <4>2, PosAround
      <4> QED  BY <1>1, <2>1, <3>2, <4>3, PosSelf
    <3> QED  BY <1>1, <3>1, <3>2
  <2>5. start + n <= Size  BY <2>1
  <2>6. ASSUME NEW j \in 0 .. n - 1  PROVE Pos(w + pad + j) = start + j
    BY <1>1, <2>1, <2>3
  <2> QED  BY <1>1, <1>3, <2>1, <2>2, <2>4, <2>5, <2>6 DEF start, InOnePiece
<1> QED  BY <1>2, <1>3

\* The packet of a surface is one of the packets' sizes.
LEMMA SurfaceSize ==
  ASSUME TypeOK, surface # << >>
  PROVE  SizeInDWords(Head(surface)) \in PacketSizes
<1>1. PICK s \in Surfaces : surface = <<s>>  BY DEF TypeOK
<1>2. Head(surface) = s  BY <1>1
<1> QED  BY <1>2 DEF PacketSizes

-----------------------------------------------------------------------------
(* PlacePacket.                                                            *)

\* The room the queue computes is what is left of the ring but for a slot.
LEMMA AvailableHere ==
  ASSUME TypeOK, IndexInv
  PROVE  Available = Size - 1 - (pendingWptr64 - rptr)
<1>1. /\ Size \in Nat \ {0} /\ rptr \in Nat /\ pendingWptr64 \in Nat
      /\ rptr <= pendingWptr64 /\ pendingWptr64 - rptr < Size
      /\ pendingWptr = pendingWptr64 % Size
  BY Sizes DEF TypeOK, IndexInv
<1> QED  BY <1>1, AvailableIs DEF Available, Rptr

\* A packet placed where there is room for it leaves a slot free.
LEMMA PlaceFits ==
  ASSUME TypeOK, IndexInv, NEW n \in PacketSizes, PlacePacket(n), ~ crammed'
  PROVE  /\ Padding(n) \in 0 .. Size - 1
         /\ pendingWptr64 + Required(n) - rptr < Size
<1>1. /\ Size \in Nat \ {0} /\ n \in 1 .. Size
      /\ rptr \in Nat /\ pendingWptr64 \in Nat /\ pendingWptr \in 0 .. Size - 1
      /\ rptr <= pendingWptr64 /\ pendingWptr64 - rptr < Size
  BY Sizes DEF TypeOK, Positions, IndexInv
<1>2. Padding(n) \in 0 .. n - 1  BY <1>1 DEF Padding
<1>3. ~ (Available < Required(n))  BY DEF PlacePacket, Place
<1>4. Available = Size - 1 - (pendingWptr64 - rptr)  BY AvailableHere
<1> QED  BY <1>1, <1>2, <1>3, <1>4 DEF Required

\* What PlacePacket leaves in the ring: the window as it was, NOPs, the packet.
LEMMA PlaceContents ==
  ASSUME TypeOK, IndexInv, CallerInv, surface # << >>,
         NEW n \in PacketSizes, PlacePacket(n), ~ crammed'
  PROVE  LET first == pendingWptr64 + Padding(n)
         IN /\ first \in Nat /\ pendingWptr64' = first + n
            /\ pendingWptr' = Pos(pendingWptr64')
            /\ \A p \in Window : Slot(p)' = Slot(p)
            /\ \A p \in pendingWptr64 .. first - 1 : Slot(p)' = NOP
            /\ \A p \in first .. first + n - 1 : Slot(p)' = Dword(placed + 1, p - first, n)
<1> DEFINE pad == Padding(n)
           first == pendingWptr64 + pad
           start == Start(n)
<1>1. /\ Size \in Nat \ {0} /\ n \in 1 .. Size
      /\ rptr \in Nat /\ pendingWptr64 \in Nat /\ pendingWptr \in 0 .. Size - 1
      /\ rptr <= pendingWptr64 /\ pendingWptr64 - rptr < Size
      /\ pendingWptr = Pos(pendingWptr64)
  BY Sizes DEF TypeOK, Positions, IndexInv, Pos
<1>2. /\ pad \in 0 .. Size - 1
      /\ pendingWptr64 + (n + pad) - rptr < Size
  BY PlaceFits DEF Required
<1>3. /\ pendingWptr64' = first + n
      /\ pendingWptr' = Pos(start + n)
      /\ ring' = [i \in 0 .. Size - 1 |->
                   IF i \in start .. start + n - 1 THEN Dword(placed + 1, i - start, n)
                   ELSE IF pad > 0 /\ i >= pendingWptr THEN NOP
                   ELSE ring[i]]
  BY <1>1, <1>2 DEF PlacePacket, Place, Required, Positions, Pos
<1>4. \/ pad = 0 /\ pendingWptr + n <= Size
      \/ pad > 0 /\ pendingWptr + pad = Size
  BY <1>1 DEF Padding
<1>5. /\ start \in 0 .. Size - 1 /\ start + n <= Size
      /\ pad > 0 => start = 0 /\ pendingWptr + pad = Size
      /\ \A j \in 0 .. pad - 1 : Pos(pendingWptr64 + j) = pendingWptr + j
      /\ \A j \in 0 .. n - 1 : Pos(first + j) = start + j
      /\ Pos(first + n) = Pos(start + n)
  <2>1. start = Pos(Pos(pendingWptr64) + pad)  BY <1>1 DEF Start, Pos
  <2> HIDE DEF pad, start
  <2>2. /\ n \in Nat /\ 1 <= n /\ n <= Size
        /\ pad \in Nat /\ pad < Size
        /\ \/ pad = 0 /\ Pos(pendingWptr64) + n <= Size
           \/ pad > 0 /\ Pos(pendingWptr64) + pad = Size
    BY <1>1, <1>2, <1>4
  <2>3. InOnePiece(pendingWptr64, n, pad, Pos(Pos(pendingWptr64) + pad))
    BY <1>1, <2>2, PlacePositions
  <2>4. InOnePiece(pendingWptr64, n, pad, start)  BY <2>1, <2>3
  <2> QED  BY <1>1, <2>4 DEF InOnePiece
<1> HIDE DEF pad, start
<1>6. first \in Nat  BY <1>1, <1>2
<1>9. pendingWptr' = Pos(pendingWptr64')  BY <1>3, <1>5
<1>10. ASSUME NEW p \in Window  PROVE Slot(p)' = Slot(p)
  <2>1. p \in Nat /\ rptr <= p /\ p < pendingWptr64  BY <1>1 DEF Window
  <2>2. Pos(p) \in 0 .. Size - 1  BY <2>1, PosRange
  <2>3. Pos(p) \notin start .. start + n - 1
    <3>1. SUFFICES ASSUME Pos(p) \in start .. start + n - 1  PROVE FALSE  OBVIOUS
    <3> DEFINE j == Pos(p) - start
    <3>2. j \in 0 .. n - 1 /\ Pos(p) = start + j  BY <1>1, <1>5, <2>2, <3>1
    <3> HIDE DEF j
    <3>3. Pos(p) = Pos(first + j)  BY <1>5, <3>2
    <3>4. p < first + j /\ first + j < p + Size /\ first + j \in Nat
      BY <1>1, <1>2, <1>6, <2>1, <3>2
    <3> HIDE DEF first
    <3> QED  BY <1>1, <2>1, <3>3, <3>4, PosInjective
  <2>4. ~(pad > 0 /\ Pos(p) >= pendingWptr)
    <3>1. SUFFICES ASSUME pad > 0, Pos(p) >= pendingWptr  PROVE FALSE  OBVIOUS
    <3> DEFINE j == Pos(p) - pendingWptr
    <3>2. j \in 0 .. pad - 1 /\ Pos(p) = pendingWptr + j  BY <1>1, <1>2, <1>5, <2>2, <3>1
    <3> HIDE DEF j
    <3>3. Pos(p) = Pos(pendingWptr64 + j)  BY <1>5, <3>2
    <3>4. /\ p < pendingWptr64 + j /\ pendingWptr64 + j < p + Size
          /\ pendingWptr64 + j \in Nat
      BY <1>1, <1>2, <2>1, <3>2
    <3> QED  BY <1>1, <2>1, <3>3, <3>4, PosInjective
  <2> QED  BY <1>3, <2>2, <2>3, <2>4, Sizes DEF Slot
<1>11. ASSUME NEW p \in pendingWptr64 .. first - 1  PROVE Slot(p)' = NOP
  <2>1. p - pendingWptr64 \in 0 .. pad - 1  BY <1>1, <1>2
  <2>2. p = pendingWptr64 + (p - pendingWptr64)  BY <1>1
  <2>3. Pos(p) = pendingWptr + (p - pendingWptr64)  BY <1>5, <2>1, <2>2
  <2>4. pad > 0 /\ start = 0 /\ pendingWptr + pad = Size  BY <1>2, <1>4, <1>5, <2>1
  <2>5. n < pendingWptr  BY <1>1, <1>2, <2>4
  <2>6. /\ Pos(p) \in 0 .. Size - 1 /\ Pos(p) >= pendingWptr
        /\ Pos(p) \notin start .. start + n - 1
    BY <1>1, <1>2, <2>1, <2>3, <2>4, <2>5
  <2> QED  BY <1>3, <2>4, <2>6 DEF Slot
<1>12. ASSUME NEW p \in first .. first + n - 1
       PROVE  Slot(p)' = Dword(placed + 1, p - first, n)
  <2> HIDE DEF first
  <2>1. p - first \in 0 .. n - 1 /\ p = first + (p - first)  BY <1>1, <1>6
  <2>2. Pos(p) = start + (p - first)  BY <1>5, <2>1
  <2>3. /\ Pos(p) \in 0 .. Size - 1 /\ Pos(p) \in start .. start + n - 1
        /\ Pos(p) - start = p - first
    BY <1>1, <1>5, <1>6, <2>1, <2>2
  <2> QED  BY <1>3, <2>3 DEF Slot
<1> QED  BY <1>3, <1>6, <1>9, <1>10, <1>11, <1>12 DEF pad

\* The same of the packet's first dword and its number.
LEMMA PlaceShape ==
  ASSUME TypeOK, IndexInv, CallerInv, surface # << >>,
         NEW n \in PacketSizes, PlacePacket(n), ~ crammed'
  PROVE  \E first, new \in Nat :
           /\ pendingWptr64 <= first /\ pendingWptr64' = first + n
           /\ \A p \in Window : Slot(p)' = Slot(p)
           /\ \A p \in pendingWptr64 .. first - 1 : Slot(p)' = NOP
           /\ \A p \in first .. first + n - 1 : Slot(p)' = Dword(new, p - first, n)
           /\ new = placed + 1
<1>1. Padding(n) \in 0 .. Size - 1  BY PlaceFits
<1>2. pendingWptr64 \in Nat /\ placed \in Nat /\ Size \in Nat  BY Sizes DEF TypeOK
<1>3. pendingWptr64 <= pendingWptr64 + Padding(n)  BY <1>1, <1>2
<1>4. pendingWptr64 + Padding(n) \in Nat /\ placed + 1 \in Nat  BY <1>1, <1>2
<1> USE <1>4
<1> WITNESS pendingWptr64 + Padding(n) \in Nat, placed + 1 \in Nat
<1> QED  BY <1>3, PlaceContents

\* PlacePacket leaves the window cut into whole packets and NOPs.
LEMMA PlaceKeepsContents ==
  ASSUME TypeOK, IndexInv, CallerInv, ContentsInv, surface # << >>,
         NEW n \in PacketSizes, PlacePacket(n), ~ crammed'
  PROVE  ContentsInv'
<1>1. PICK first, new \in Nat :
        /\ pendingWptr64 <= first /\ pendingWptr64' = first + n
        /\ \A p \in Window : Slot(p)' = Slot(p)
        /\ \A p \in pendingWptr64 .. first - 1 : Slot(p)' = NOP
        /\ \A p \in first .. first + n - 1 : Slot(p)' = Dword(new, p - first, n)
        /\ new = placed + 1
  BY PlaceShape
<1>2. /\ rptr \in Nat /\ pendingWptr64 \in Nat /\ rptr <= pendingWptr64
      /\ doorbell \in Nat /\ doorbell <= pendingWptr64
      /\ placed \in Nat /\ placed' = placed + 1 /\ n \in 1 .. Size /\ Size \in Nat
      /\ \A m \in PacketSizes : m \in Nat /\ m > 0
      /\ UNCHANGED <<rptr, doorbell>>
  BY Sizes DEF TypeOK, IndexInv, PlacePacket, Place, engine
<1>3. SUFFICES ASSUME NEW p \in Window'
      PROVE  \/ Slot(p)' = NOP
             \/ \E id \in 1 .. placed', m \in PacketSizes :
                  \E k \in 0 .. m - 1 : Slot(p)' = Dword(id, k, m) /\ Begins(p - k, id, m)'
  BY DEF ContentsInv
<1>4. p \in rptr .. first + n - 1 /\ p \in Nat  BY <1>1, <1>2 DEF Window
<1>5. CASE p < pendingWptr64
  <2>1. p \in Window /\ Slot(p)' = Slot(p)  BY <1>1, <1>2, <1>4, <1>5 DEF Window
  <2>2. CASE Slot(p) # NOP
    <3>1. PICK id \in 1 .. placed, m \in PacketSizes :
            \E k \in 0 .. m - 1 : Slot(p) = Dword(id, k, m) /\ Begins(p - k, id, m)
      BY <2>1, <2>2 DEF ContentsInv
    <3>2. PICK k \in 0 .. m - 1 : Slot(p) = Dword(id, k, m) /\ Begins(p - k, id, m)
      BY <3>1
    <3>3. /\ rptr <= p - k /\ p - k + m <= pendingWptr64
          /\ p - k < doorbell => p - k + m <= doorbell
          /\ \A j \in 0 .. m - 1 : Slot(p - k + j) = Dword(id, j, m)
      BY <3>2 DEF Begins
    <3>4. \A j \in 0 .. m - 1 : p - k + j \in Window  BY <1>2, <1>4, <3>3 DEF Window
    <3>5. \A j \in 0 .. m - 1 : Slot(p - k + j)' = Dword(id, j, m)  BY <1>1, <3>3, <3>4
    <3>6. Begins(p - k, id, m)'  BY <1>1, <1>2, <1>4, <3>3, <3>5 DEF Begins
    <3> QED  BY <1>2, <2>1, <3>2, <3>6
  <2> QED  BY <2>1, <2>2
<1>6. CASE pendingWptr64 <= p /\ p < first  BY <1>1, <1>2, <1>4, <1>6
<1>7. CASE first <= p
  <2>1. PICK k \in 0 .. n - 1 : k = p - first  BY <1>1, <1>2, <1>4, <1>7
  <2>2. Slot(p)' = Dword(new, k, n)  BY <1>1, <1>2, <1>4, <1>7, <2>1
  <2>3. \A j \in 0 .. n - 1 : p - k + j \in first .. first + n - 1 /\ p - k + j - first = j
    BY <1>1, <1>2, <1>4, <2>1
  <2>4. ASSUME NEW j \in 0 .. n - 1  PROVE Slot(p - k + j)' = Dword(new, j, n)
    <3>1. PICK q \in first .. first + n - 1 : q = p - k + j /\ q - first = j  
      BY <1>2, <1>4, <2>1
    <3> QED  BY <1>1, <3>1
  <2>5. rptr' <= p - k /\ p - k + n <= pendingWptr64' /\ ~ (p - k < doorbell')
    BY <1>1, <1>2, <1>4, <2>1
  <2>6. Begins(p - k, new, n)'  BY <1>2, <2>4, <2>5 DEF Begins
  <2>7. new \in 1 .. placed'  BY <1>1, <1>2
  <2> QED  BY <2>2, <2>6, <2>7
<1> QED  BY <1>1, <1>2, <1>4, <1>5, <1>6, <1>7

\* The packet PlacePacket adds has the next number.
LEMMA PlaceKeepsOrder ==
  ASSUME TypeOK, IndexInv, CallerInv, ContentsInv, OrderInv, surface # << >>,
         NEW n \in PacketSizes, PlacePacket(n), ~ crammed'
  PROVE  OrderInv'
<1>1. PICK first, new \in Nat :
        /\ pendingWptr64 <= first /\ pendingWptr64' = first + n
        /\ \A p \in Window : Slot(p)' = Slot(p)
        /\ \A p \in pendingWptr64 .. first - 1 : Slot(p)' = NOP
        /\ \A p \in first .. first + n - 1 : Slot(p)' = Dword(new, p - first, n)
        /\ new = placed + 1
  BY PlaceShape
<1>2. /\ rptr \in Nat /\ pendingWptr64 \in Nat /\ rptr <= pendingWptr64
      /\ placed \in Nat /\ placed' = new /\ n \in Nat /\ n > 0
      /\ \A m \in PacketSizes : m \in Nat /\ m > 0
      /\ UNCHANGED <<rptr, inflight, performed>>
  BY <1>1, Sizes DEF TypeOK, IndexInv, PlacePacket, Place, engine
<1>3. Read' = Read /\ Read \in Nat  BY <1>2 DEF Read, TypeOK
<1>4. ASSUME NEW p \in Window'
      PROVE  \/ p \in Window /\ Slot(p)' = Slot(p)
             \/ p < first /\ Slot(p)' = NOP
             \/ /\ p \in first .. first + n - 1 /\ Slot(p)' # NOP
                /\ Slot(p)'.id = new /\ Slot(p)'.k = p - first
  <2>1. p \in Nat /\ rptr <= p /\ p < first + n  BY <1>1, <1>2 DEF Window
  <2>2. CASE p < pendingWptr64
    <3>1. p \in Window  BY <1>2, <2>1, <2>2 DEF Window
    <3> QED  BY <1>1, <3>1
  <2>3. CASE pendingWptr64 <= p /\ p < first  BY <1>1, <1>2, <2>1, <2>3
  <2>4. CASE first <= p
    <3>1. p \in first .. first + n - 1 /\ p - first \in Nat
      BY <1>2, <2>1, <2>4
    <3>2. Slot(p)' = Dword(new, p - first, n)  BY <1>1, <3>1
    <3> QED  BY <1>2, <3>1, <3>2, DwordFields
  <2> QED  BY <1>1, <1>2, <2>1, <2>2, <2>3, <2>4
<1>5. Window \subseteq Window'  BY <1>1, <1>2 DEF Window
<1>6. ASSUME NEW p \in Window, Slot(p) # NOP  PROVE Slot(p).id \in 1 .. placed
  <2>1. PICK id \in 1 .. placed, m \in PacketSizes :
          \E k \in 0 .. m - 1 : Slot(p) = Dword(id, k, m) /\ Begins(p - k, id, m)
    BY <1>6 DEF ContentsInv
  <2>2. PICK k \in 0 .. m - 1 : Slot(p) = Dword(id, k, m)  BY <2>1
  <2> QED  BY <1>2, <2>2, DwordFields
<1>7. first \in Window' /\ Slot(first)' # NOP /\ Slot(first)'.id = placed'
  <2>1. first \in Window'  BY <1>1, <1>2 DEF Window
  <2>2. first \in first .. first + n - 1 /\ first \notin Window  BY <1>1, <1>2 DEF Window
  <2> QED  BY <1>2, <1>4, <2>1, <2>2
<1>8. Ordered'  BY <1>2 DEF OrderInv, Ordered
<1>9. (inflight # << >> =>
         \E m \in PacketSizes : inflight = [j \in 1 .. m |-> Dword(Read, j - 1, m)])'
  BY <1>2, <1>3 DEF OrderInv
<1>10. ASSUME NEW p \in Window', Slot(p)' # NOP
       PROVE  \/ Slot(p)'.id = Read' + 1
              \/ \E q \in rptr' .. p - 1 : Slot(q)' # NOP /\ Slot(q)'.id = Slot(p)'.id - 1
  <2>1. CASE p \in Window /\ Slot(p)' = Slot(p)
    <3>1. \A q \in rptr .. p - 1 : q \in Window  BY <1>2, <2>1 DEF Window
    <3> QED  BY <1>1, <1>2, <1>3, <1>10, <2>1, <3>1 DEF OrderInv
  <2>2. CASE p \in first .. first + n - 1 /\ Slot(p)'.id = new
    <3>1. CASE placed = Read  BY <1>1, <1>3, <2>2, <3>1
    <3>2. CASE \E q \in Window : Slot(q) # NOP /\ Slot(q).id = placed
      <4>1. PICK q \in Window : Slot(q) # NOP /\ Slot(q).id = placed  BY <3>2
      <4>2. q \in rptr .. p - 1  BY <1>1, <1>2, <2>2 DEF Window
      <4>3. Slot(q)' = Slot(q) /\ new - 1 = placed  BY <1>1, <1>2
      <4> QED  BY <1>2, <2>2, <4>1, <4>2, <4>3
    <3> QED  BY <3>1, <3>2 DEF OrderInv
  <2> QED  BY <1>4, <1>10, <2>1, <2>2
<1>11. ASSUME NEW p \in Window', NEW q \in Window', Slot(p)' # NOP, Slot(q)' # NOP,
              Slot(p)'.id = Slot(q)'.id
       PROVE  p - Slot(p)'.k = q - Slot(q)'.k
  <2>1. CASE p \in Window /\ Slot(p)' = Slot(p) /\ q \in Window /\ Slot(q)' = Slot(q)
    BY <1>11, <2>1 DEF OrderInv
  <2>2. CASE /\ Slot(p)'.k = p - first /\ p \in first .. first + n - 1
             /\ Slot(q)'.k = q - first /\ q \in first .. first + n - 1
    BY <2>2
  <2>3. ASSUME NEW r \in Window', Slot(r)' = Slot(r), r \in Window, Slot(r)' # NOP
        PROVE  Slot(r)'.id # new
    BY <1>1, <1>2, <1>6, <2>3
  <2> QED  BY <1>4, <1>11, <2>1, <2>2, <2>3
<1> QED  BY <1>2, <1>3, <1>7, <1>8, <1>9, <1>10, <1>11 DEF OrderInv

\* PlacePacket keeps the window's invariant where there is room.
LEMMA PlaceStep ==
  ASSUME StateInv, WindowInv, surface # << >>,
         PlacePacket(SizeInDWords(Head(surface))), ~ crammed'
  PROVE  WindowInv'
<1> DEFINE n == SizeInDWords(Head(surface))
<1>1. /\ TypeOK /\ IndexInv /\ CallerInv /\ ContentsInv /\ OrderInv
      /\ n \in PacketSizes /\ PlacePacket(n)
  BY SurfaceSize DEF StateInv, WindowInv
<1> HIDE DEF n
<1>2. /\ Size \in Nat \ {0} /\ n \in 1 .. Size
      /\ rptr \in Nat /\ pendingWptr64 \in Nat /\ doorbell \in Nat
      /\ rptr <= pendingWptr64 /\ doorbell \in rptr .. pendingWptr64
  BY <1>1, Sizes DEF TypeOK, IndexInv
<1>3. /\ pendingWptr64' = pendingWptr64 + Padding(n) + n
      /\ pendingWptr' = Pos(pendingWptr64')
  BY <1>1, PlaceContents
<1>4. Padding(n) \in Nat /\ pendingWptr64 + (n + Padding(n)) - rptr < Size
  BY <1>1, <1>2, PlaceFits DEF Required
<1>5. /\ pc' = "placed"
      /\ UNCHANGED <<caller, wptr, doorbell, rptr>>
  BY <1>1 DEF PlacePacket, Place, engine
<1>6. IndexInv'
  <2>1. rptr' <= pendingWptr64' /\ pendingWptr64' - rptr' < Size
    BY <1>2, <1>3, <1>4, <1>5
  <2>2. pendingWptr' = pendingWptr64' % Size  BY <1>3 DEF Pos
  <2>3. doorbell' \in rptr' .. pendingWptr64'  BY <1>2, <1>3, <1>4, <1>5
  <2> QED  BY <1>5, <2>1, <2>2, <2>3 DEF IndexInv
<1>7. EmptyInv'  BY <1>5 DEF EmptyInv
<1>8. ContentsInv'  BY <1>1, PlaceKeepsContents
<1>9. OrderInv'  BY <1>1, PlaceKeepsOrder
<1> QED  BY <1>6, <1>7, <1>8, <1>9 DEF WindowInv

-----------------------------------------------------------------------------
(* The engine.                                                             *)

\* What is to be read next is a NOP, or a packet from its first dword on that the
\* doorbell has been rung for, with the next number.
LEMMA HeadOfWindow ==
  ASSUME StateInv, WindowInv, rptr < doorbell, inflight = << >>, Slot(rptr) # NOP
  PROVE  \E n \in PacketSizes :
           /\ rptr + n <= doorbell
           /\ Read + 1 \in 1 .. placed
           /\ \A j \in 0 .. n - 1 : Slot(rptr + j) = Dword(Read + 1, j, n)
<1>1. /\ rptr \in Nat /\ pendingWptr64 \in Nat /\ doorbell \in rptr .. pendingWptr64
      /\ placed \in Nat /\ \A n \in PacketSizes : n \in Nat /\ n > 0
  BY Sizes DEF StateInv, WindowInv, TypeOK, IndexInv
<1>2. rptr \in Window  BY <1>1 DEF Window
<1>3. PICK id \in 1 .. placed, n \in PacketSizes :
        \E k \in 0 .. n - 1 : Slot(rptr) = Dword(id, k, n) /\ Begins(rptr - k, id, n)
  BY <1>2 DEF WindowInv, ContentsInv
<1>4. PICK k \in 0 .. n - 1 : Slot(rptr) = Dword(id, k, n) /\ Begins(rptr - k, id, n)
  BY <1>3
<1>5. k = 0 /\ rptr - k = rptr  BY <1>1, <1>4 DEF Begins
<1>6. Slot(rptr).id = id  BY <1>4 DEF Dword
<1>7. Slot(rptr).id = Read + 1
  <2>1. \A q \in rptr .. rptr - 1 : FALSE  BY <1>1
  <2> QED  BY <1>2, <2>1 DEF WindowInv, OrderInv
<1> QED  BY <1>1, <1>4, <1>5, <1>6, <1>7 DEF Begins

\* Reading a NOP keeps the invariant.
LEMMA FetchNopStep ==
  ASSUME StateInv, WindowInv, EngineFetch, Slot(rptr) = NOP
  PROVE  WindowInv'
<1>1. /\ rptr < doorbell /\ inflight = << >> /\ rptr' = rptr + 1
      /\ UNCHANGED <<caller, surface, ring, pendingWptr, pendingWptr64, wptr, doorbell,
                     placed, submitted, inflight, performed, pc, gaveUp>>
  BY DEF EngineFetch, indices, history, Slot, Pos, NOP
<1>2. /\ rptr \in Nat /\ pendingWptr64 \in Nat /\ doorbell \in rptr .. pendingWptr64
      /\ placed \in Nat /\ \A n \in PacketSizes : n \in Nat /\ n > 0
      /\ Size \in Nat /\ pendingWptr64 - rptr < Size
  BY Sizes DEF StateInv, WindowInv, TypeOK, IndexInv
<1>3. \A p : Slot(p)' = Slot(p)  BY <1>1 DEF Slot, Pos
<1>4. Window' = Window \ {rptr}  BY <1>1, <1>2 DEF Window
<1>6. IndexInv'
  BY <1>1, <1>2 DEF StateInv, WindowInv, TypeOK, IndexInv
<1>7. EmptyInv'  BY <1>1, <1>2 DEF WindowInv, EmptyInv
<1>8. ContentsInv'
  <2>1. SUFFICES ASSUME NEW p \in Window', Slot(p)' # NOP
        PROVE  \E id \in 1 .. placed', n \in PacketSizes :
                 \E k \in 0 .. n - 1 : Slot(p)' = Dword(id, k, n) /\ Begins(p - k, id, n)'
    BY DEF ContentsInv
  <2>2. PICK id \in 1 .. placed, n \in PacketSizes :
          \E k \in 0 .. n - 1 : Slot(p) = Dword(id, k, n) /\ Begins(p - k, id, n)
    BY <1>3, <1>4, <2>1 DEF WindowInv, ContentsInv
  <2>3. PICK k \in 0 .. n - 1 : Slot(p) = Dword(id, k, n) /\ Begins(p - k, id, n)
    BY <2>2
  <2>4. p \in Nat  BY <1>2, <1>4 DEF Window
  <2>5. p - k # rptr
    <3>1. SUFFICES ASSUME p - k = rptr  PROVE FALSE  OBVIOUS
    <3>2. 0 \in 0 .. n - 1 /\ p - k + 0 = rptr  BY <1>2, <3>1
    <3>3. Slot(rptr) = Dword(id, 0, n)  BY <2>3, <3>2 DEF Begins
    <3> QED  BY <1>2, <3>3, DwordFields
  <2>6. rptr' <= p - k  BY <1>1, <1>2, <2>3, <2>4, <2>5 DEF Begins
  <2>7. Begins(p - k, id, n)'  BY <1>1, <1>3, <2>3, <2>6 DEF Begins
  <2> QED  BY <1>1, <1>3, <2>3, <2>7
<1>9. OrderInv'
  <2>1. Read' = Read  BY <1>1 DEF Read
  <2>2. \A p \in Window : Slot(p) # NOP => p \in Window' /\ p \in Nat /\ p > rptr
    BY <1>2, <1>4 DEF Window
  <2>3. Ordered'  BY <1>1 DEF WindowInv, OrderInv, Ordered
  <2>4. (placed = Read \/ \E q \in Window : Slot(q) # NOP /\ Slot(q).id = placed)'
    BY <1>1, <1>3, <2>1, <2>2 DEF WindowInv, OrderInv
  <2>5. ASSUME NEW p \in Window', Slot(p)' # NOP
        PROVE  \/ Slot(p)'.id = Read' + 1
               \/ \E q \in rptr' .. p - 1 : Slot(q)' # NOP /\ Slot(q)'.id = Slot(p)'.id - 1
    <3>1. CASE Slot(p).id = Read + 1  BY <1>3, <2>1, <3>1
    <3>2. CASE \E q \in rptr .. p - 1 : Slot(q) # NOP /\ Slot(q).id = Slot(p).id - 1
      <4>1. PICK q \in rptr .. p - 1 : Slot(q) # NOP /\ Slot(q).id = Slot(p).id - 1
        BY <3>2
      <4>2. p \in Nat /\ p < pendingWptr64  BY <1>2, <1>4 DEF Window
      <4>3. q \in Window /\ q \in rptr' .. p - 1
        BY <1>1, <1>2, <4>1, <4>2 DEF Window
      <4> QED  BY <1>3, <4>1, <4>3
    <3> QED  BY <1>3, <1>4, <2>5, <3>1, <3>2 DEF WindowInv, OrderInv
  <2>6. (\A p, q \in Window :
           Slot(p) # NOP /\ Slot(q) # NOP /\ Slot(p).id = Slot(q).id
             => p - Slot(p).k = q - Slot(q).k)'
    BY <1>3, <1>4 DEF WindowInv, OrderInv
  <2> QED  BY <1>1, <2>3, <2>4, <2>5, <2>6 DEF OrderInv
<1> QED  BY <1>6, <1>7, <1>8, <1>9 DEF WindowInv

\* Reading a packet keeps the invariant.
LEMMA FetchPacketStep ==
  ASSUME StateInv, WindowInv, EngineFetch, Slot(rptr) # NOP
  PROVE  WindowInv'
<1> DEFINE id == Read + 1
<1>1. rptr < doorbell /\ inflight = << >>  BY DEF EngineFetch
<1>2. PICK n \in PacketSizes :
        /\ rptr + n <= doorbell
        /\ id \in 1 .. placed
        /\ \A j \in 0 .. n - 1 : Slot(rptr + j) = Dword(id, j, n)
  BY <1>1, HeadOfWindow
<1>3. /\ rptr \in Nat /\ pendingWptr64 \in Nat /\ doorbell \in rptr .. pendingWptr64
      /\ placed \in Nat /\ \A m \in PacketSizes : m \in Nat /\ m > 0
      /\ Size \in Nat /\ n \in 1 .. Size /\ pendingWptr64 - rptr < Size
  BY Sizes DEF StateInv, WindowInv, TypeOK, IndexInv
<1>4. Read = Len(performed) /\ Read \in Nat /\ id \in Nat
  BY <1>1 DEF Read, StateInv, TypeOK
<1> HIDE DEF id
<1>5. Slot(rptr) = Dword(id, 0, n)
  <2>1. 0 \in 0 .. n - 1 /\ rptr + 0 = rptr  BY <1>3
  <2> QED  BY <1>2, <2>1
<1>6. /\ rptr' = rptr + n
      /\ inflight' = [j \in 1 .. n |-> Slot(rptr + j - 1)]
      /\ UNCHANGED <<caller, surface, ring, pendingWptr, pendingWptr64, wptr, doorbell,
                     placed, submitted, performed, pc, gaveUp>>
  <2>1. Slot(rptr).is = "packet" /\ Slot(rptr).n = n  BY <1>3, <1>4, <1>5, DwordFields
  <2> QED  BY <2>1 DEF EngineFetch, indices, history, Slot, Pos
<1>7. inflight' = [j \in 1 .. n |-> Dword(id, j - 1, n)]
  <2>1. ASSUME NEW j \in 1 .. n  PROVE Slot(rptr + j - 1) = Dword(id, j - 1, n)
    <3>1. j - 1 \in 0 .. n - 1 /\ rptr + (j - 1) = rptr + j - 1  BY <1>3
    <3> QED  BY <1>2, <3>1
  <2> QED  BY <1>6, <2>1
<1>8. inflight' # << >> /\ Read' = id
  <2>1. DOMAIN inflight' = 1 .. n /\ 1 \in 1 .. n  BY <1>3, <1>7
  <2>2. DOMAIN << >> = {}  OBVIOUS
  <2>3. inflight' # << >>  BY <2>1, <2>2
  <2> QED  BY <1>4, <1>6, <2>3 DEF Read, id
<1>9. \A p : Slot(p)' = Slot(p)  BY <1>6 DEF Slot, Pos
<1>10. Window' \subseteq Window /\ \A p \in Window' : p \in Nat /\ p >= rptr + n
  BY <1>3, <1>6 DEF Window
\* The other packets of the window begin behind the one that is read.
<1>11. ASSUME NEW p \in Window', Slot(p) # NOP
       PROVE  \E i \in 1 .. placed, m \in PacketSizes : \E k \in 0 .. m - 1 :
                /\ Slot(p) = Dword(i, k, m) /\ Begins(p - k, i, m)
                /\ rptr + n <= p - k
  <2>1. PICK i \in 1 .. placed, m \in PacketSizes :
          \E k \in 0 .. m - 1 : Slot(p) = Dword(i, k, m) /\ Begins(p - k, i, m)
    BY <1>10, <1>11 DEF WindowInv, ContentsInv
  <2>2. PICK k \in 0 .. m - 1 : Slot(p) = Dword(i, k, m) /\ Begins(p - k, i, m)
    BY <2>1
  <2>3. p - k >= rptr /\ p \in Nat /\ m \in Nat /\ m > 0 /\ p >= rptr + n
    BY <1>3, <1>10, <2>2 DEF Begins
  <2>4. SUFFICES ASSUME p - k < rptr + n  PROVE FALSE  BY <1>3, <2>2, <2>3
  <2>5. PICK j \in 0 .. n - 1 : p - k = rptr + j  BY <1>3, <2>3, <2>4
  <2>6. Slot(p - k) = Dword(id, j, n)  BY <1>2, <2>5
  <2>7. Slot(p - k) = Dword(i, 0, m)
    <3>1. 0 \in 0 .. m - 1 /\ p - k + 0 = p - k  BY <2>3
    <3> QED  BY <2>2, <3>1 DEF Begins
  <2>8. j = 0 /\ m = n
    <3>1. j \in Nat /\ n \in Nat /\ m \in Nat /\ i \in Nat /\ id \in Nat  BY <1>3, <1>4, <2>3
    <3>2. /\ Dword(id, j, n).k = j /\ Dword(id, j, n).n = n
          /\ Dword(i, 0, m).k = 0 /\ Dword(i, 0, m).n = m
      BY <3>1, DwordFields
    <3> QED  BY <2>6, <2>7, <3>2
  <2> QED  BY <1>3, <2>3, <2>5, <2>8
<1>13. IndexInv'
  BY <1>2, <1>3, <1>6 DEF StateInv, WindowInv, TypeOK, IndexInv
<1>14. EmptyInv'  BY <1>1, <1>3, <1>6 DEF WindowInv, EmptyInv
<1>15. ContentsInv'
  <2>1. SUFFICES ASSUME NEW p \in Window', Slot(p)' # NOP
        PROVE  \E i \in 1 .. placed', m \in PacketSizes :
                 \E k \in 0 .. m - 1 : Slot(p)' = Dword(i, k, m) /\ Begins(p - k, i, m)'
    BY DEF ContentsInv
  <2>2. PICK i \in 1 .. placed, m \in PacketSizes : \E k \in 0 .. m - 1 :
          /\ Slot(p) = Dword(i, k, m) /\ Begins(p - k, i, m)
          /\ rptr + n <= p - k
    BY <1>9, <1>11, <2>1
  <2>3. PICK k \in 0 .. m - 1 :
          /\ Slot(p) = Dword(i, k, m) /\ Begins(p - k, i, m)
          /\ rptr + n <= p - k
    BY <2>2
  <2>4. Begins(p - k, i, m)'  BY <1>6, <1>9, <2>3 DEF Begins
  <2> QED  BY <1>6, <1>9, <2>3, <2>4
<1>16. OrderInv'
  <2>1. ASSUME NEW p \in Window', Slot(p) # NOP  PROVE Slot(p).id # id
    <3>1. PICK i \in 1 .. placed, m \in PacketSizes : \E k \in 0 .. m - 1 :
            Slot(p) = Dword(i, k, m) /\ rptr + n <= p - k
      BY <1>11, <2>1
    <3>2. PICK k \in 0 .. m - 1 : Slot(p) = Dword(i, k, m) /\ rptr + n <= p - k
      BY <3>1
    <3>3. Slot(p).k = k /\ Slot(rptr).k = 0 /\ Slot(rptr).id = id /\ Slot(rptr) # NOP
      <4>1. i \in Nat /\ k \in Nat /\ m \in Nat /\ n \in Nat  BY <1>3
      <4>2. Slot(p).k = k  BY <3>2, <4>1, DwordFields
      <4>3. Slot(rptr).k = 0 /\ Slot(rptr).id = id  BY <1>5 DEF Dword
      <4>4. Slot(rptr) # NOP  BY <1>4, <1>5, <4>1, DwordFields
      <4> QED  BY <4>2, <4>3, <4>4
    <3>4. rptr \in Window /\ p \in Window /\ p \in Nat  BY <1>2, <1>3, <1>10 DEF Window
    <3>5. Slot(p).id = Slot(rptr).id => p - k = rptr - 0
      BY <2>1, <3>3, <3>4 DEF WindowInv, OrderInv
    <3> QED  BY <1>3, <3>2, <3>3, <3>4, <3>5
  <2>2. ASSUME NEW p \in rptr .. rptr + n - 1  PROVE Slot(p).id = id
    <3>1. PICK j \in 0 .. n - 1 : p = rptr + j  BY <1>3
    <3>2. Slot(p) = Dword(id, j, n) /\ j \in Nat /\ n \in Nat  BY <1>2, <1>3, <3>1
    <3> QED  BY <1>4, <3>2, DwordFields
  <2>3. Ordered'  BY <1>6 DEF WindowInv, OrderInv, Ordered
  <2>4. (inflight # << >> =>
           \E m \in PacketSizes : inflight = [j \in 1 .. m |-> Dword(Read, j - 1, m)])'
    BY <1>7, <1>8
  <2>5. (placed = Read \/ \E q \in Window : Slot(q) # NOP /\ Slot(q).id = placed)'
    <3>1. placed # Read  BY <1>2, <1>4 DEF id
    <3>2. PICK q \in Window : Slot(q) # NOP /\ Slot(q).id = placed
      BY <3>1 DEF WindowInv, OrderInv
    <3>3. CASE q \in Window'  BY <1>6, <1>9, <3>2, <3>3
    <3>4. CASE q \notin Window'
      <4>1. q \in rptr .. rptr + n - 1  BY <1>3, <1>6, <3>4 DEF Window
      <4> QED  BY <1>6, <1>8, <2>2, <3>2, <4>1
    <3> QED  BY <3>3, <3>4
  <2>6. ASSUME NEW p \in Window', Slot(p)' # NOP
        PROVE  \/ Slot(p)'.id = Read' + 1
               \/ \E q \in rptr' .. p - 1 : Slot(q)' # NOP /\ Slot(q)'.id = Slot(p)'.id - 1
    <3>1. p \in Window /\ Slot(p) # NOP /\ Slot(p).id # id  BY <1>9, <1>10, <2>1, <2>6
    <3>2. PICK q \in rptr .. p - 1 : Slot(q) # NOP /\ Slot(q).id = Slot(p).id - 1
      BY <3>1 DEF WindowInv, OrderInv, id
    <3>3. CASE q >= rptr + n
      <4>1. q \in rptr' .. p - 1  BY <1>3, <1>6, <1>10, <3>3
      <4> QED  BY <1>9, <3>2, <4>1
    <3>4. CASE q < rptr + n
      <4>1. Slot(q).id = id
        <5>1. q \in rptr .. rptr + n - 1  BY <1>3, <3>4
        <5> QED  BY <2>2, <5>1
      <4>2. Slot(p).id \in Nat
        <5>1. PICK i \in 1 .. placed, m \in PacketSizes : \E k \in 0 .. m - 1 :
                Slot(p) = Dword(i, k, m)
          BY <1>11, <3>1
        <5> QED  BY <1>3, <5>1, DwordFields
      <4> QED  BY <1>4, <1>8, <1>9, <3>2, <4>1, <4>2
    <3> QED  BY <1>3, <3>3, <3>4
  <2>7. (\A p, q \in Window :
           Slot(p) # NOP /\ Slot(q) # NOP /\ Slot(p).id = Slot(q).id
             => p - Slot(p).k = q - Slot(q).k)'
    BY <1>9, <1>10 DEF WindowInv, OrderInv
  <2> QED  BY <1>6, <2>3, <2>4, <2>5, <2>6, <2>7 DEF OrderInv
<1> QED  BY <1>13, <1>14, <1>15, <1>16 DEF WindowInv

\* Performing a packet keeps the invariant: it is the next one, and whole.
LEMMA PerformStep ==
  ASSUME StateInv, WindowInv, EnginePerform
  PROVE  WindowInv'
<1>1. PICK n \in PacketSizes : inflight = [j \in 1 .. n |-> Dword(Read, j - 1, n)]
  BY DEF EnginePerform, WindowInv, OrderInv
<1>2. n \in Nat /\ n > 0 /\ 1 \in 1 .. n  BY Sizes
<1>3. /\ inflight # << >> /\ Read = Len(performed) + 1
      /\ Len(performed) \in Nat /\ performed \in Seq(0 .. PacketLimit)
  BY DEF EnginePerform, Read, StateInv, TypeOK
<1>4. /\ inflight[1] = Dword(Read, 0, n) /\ inflight[1] \in Dwords
      /\ Head(inflight) = inflight[1]
  <2>1. PICK m \in PacketSizes : inflight \in [1 .. m -> Dwords]
    BY <1>3 DEF StateInv, TypeOK
  <2>2. inflight \in Seq(Dwords)  BY <2>1, Sizes
  <2>3. Head(inflight) = inflight[1]  BY <1>3, <2>2
  <2>4. 1 \in 1 .. m  BY <2>1, Sizes
  <2> QED  BY <1>1, <1>2, <2>1, <2>3, <2>4
<1>5. Head(inflight).id = Read /\ Head(inflight).n = n
  BY <1>2, <1>3, <1>4, DwordFields
<1>6. \A j \in DOMAIN inflight :
        inflight[j] = Dword(Head(inflight).id, j - 1, Head(inflight).n)
  BY <1>1, <1>5
<1>7. /\ performed' = Append(performed, Read) /\ inflight' = << >>
      /\ UNCHANGED <<caller, surface, ring, pendingWptr, pendingWptr64, wptr, doorbell,
                     placed, submitted, rptr, pc, gaveUp>>
  BY <1>5, <1>6 DEF EnginePerform, indices, history
<1>8. Read \in 1 .. PacketLimit
  <2>1. inflight[1] \in Dwords /\ inflight[1] = Dword(Read, 0, n)  BY <1>4
  <2>2. Dword(Read, 0, n) # NOP  BY <1>2, <1>3, DwordFields
  <2>3. PICK i \in 1 .. PacketLimit, k \in 0 .. Size - 1, m \in PacketSizes :
          inflight[1] = Dword(i, k, m)
    BY <2>1, <2>2 DEF Dwords
  <2>4. Dword(i, k, m).id = i  BY DEF Dword
  <2>5. Dword(Read, 0, n).id = Read  BY DEF Dword
  <2> QED  BY <2>1, <2>3, <2>4, <2>5
<1>9. Len(performed') = Read /\ Read' = Read  BY <1>3, <1>7, <1>8 DEF Read
<1>10. \A p : Slot(p)' = Slot(p)  BY <1>7 DEF Slot, Pos
<1>11. Window' = Window  BY <1>7 DEF Window
<1>13. IndexInv'  BY <1>7 DEF WindowInv, IndexInv
<1>14. EmptyInv'  BY <1>7 DEF WindowInv, EmptyInv
<1>15. ContentsInv'  BY <1>7, <1>10, <1>11 DEF WindowInv, ContentsInv, Begins
<1>16. OrderInv'
  <2>1. Ordered'
    BY <1>3, <1>7, <1>9 DEF WindowInv, OrderInv, Ordered
  <2> QED  BY <1>7, <1>9, <1>10, <1>11, <2>1 DEF WindowInv, OrderInv
<1> QED  BY <1>13, <1>14, <1>15, <1>16 DEF WindowInv

-----------------------------------------------------------------------------
(* The caller.                                                             *)

\* What touches neither the ring nor the engine keeps the window, the doorbell being
\* rung for all that is placed.
LEMMA WindowKept ==
  ASSUME StateInv, WindowInv, doorbell' \in {doorbell, pendingWptr64},
         UNCHANGED <<ring, pendingWptr, pendingWptr64, placed, rptr, inflight, performed>>
  PROVE  ContentsInv' /\ OrderInv'
<1>1. \A p : Slot(p)' = Slot(p)  BY DEF Slot, Pos
<1>2. Window' = Window /\ Read' = Read  BY DEF Window, Read
<1>3. ASSUME NEW p, NEW id, NEW n, Begins(p, id, n)  PROVE Begins(p, id, n)'
  BY <1>1, <1>3 DEF Begins
<1>4. ContentsInv'  BY <1>1, <1>2, <1>3 DEF WindowInv, ContentsInv
<1>5. OrderInv'  BY <1>1, <1>2 DEF WindowInv, OrderInv, Ordered
<1> QED  BY <1>4, <1>5

\* Building a packet, submitting and waiting keep the window's invariant.
LEMMA CallerStep ==
  ASSUME StateInv, WindowInv,
         \/ \E s \in Surfaces : BuildPacket(s)
         \/ SubmitWptr \/ SubmitDoorbell \/ Wait4PacketConsumption \/ WaitOnValue
         \/ UNCHANGED vars
  PROVE  WindowInv'
<1>1. TypeOK /\ IndexInv /\ EmptyInv  BY DEF StateInv, WindowInv
<1>2. /\ rptr \in Nat /\ pendingWptr64 \in Nat
      /\ doorbell \in rptr .. pendingWptr64
  BY <1>1 DEF TypeOK, IndexInv
<1>3. ASSUME NEW s \in Surfaces, BuildPacket(s)  PROVE WindowInv'
  <2>1. IndexInv' /\ EmptyInv'
    BY <1>1, <1>3 DEF BuildPacket, IndexInv, EmptyInv, indices, engine, history
  <2> QED  BY <1>3, <2>1, WindowKept DEF BuildPacket, WindowInv, indices, engine
<1>4. CASE SubmitWptr
  <2>1. IndexInv' /\ EmptyInv'
    BY <1>1, <1>4 DEF SubmitWptr, IndexInv, EmptyInv, engine
  <2> QED  BY <1>4, <2>1, WindowKept DEF SubmitWptr, WindowInv, engine
<1>5. CASE SubmitDoorbell
  <2>1. IndexInv' /\ EmptyInv'
    BY <1>1, <1>2, <1>5 DEF SubmitDoorbell, IndexInv, EmptyInv, engine
  <2> QED  BY <1>5, <2>1, WindowKept DEF SubmitDoorbell, WindowInv, engine
<1>6. CASE Wait4PacketConsumption
  <2>1. IndexInv' /\ EmptyInv'
    BY <1>1, <1>6 DEF Wait4PacketConsumption, IndexInv, EmptyInv, indices, engine
  <2> QED  BY <1>6, <2>1, WindowKept DEF Wait4PacketConsumption, WindowInv, indices, engine
<1>7. CASE WaitOnValue
  <2>1. UNCHANGED <<caller, ring, pendingWptr, pendingWptr64, wptr, doorbell,
                    placed, submitted, rptr, inflight, performed>>
    BY <1>7 DEF WaitOnValue, indices, engine
  <2>2. IndexInv' /\ EmptyInv'
    BY <1>1, <1>2, <1>7, <2>1 DEF WaitOnValue, IndexInv, EmptyInv
  <2> QED  BY <2>1, <2>2, WindowKept DEF WindowInv
<1>8. CASE UNCHANGED vars
  <2>1. IndexInv' /\ EmptyInv'
    BY <1>1, <1>8 DEF vars, IndexInv, EmptyInv, indices, engine, history
  <2> QED  BY <1>8, <2>1, WindowKept DEF vars, WindowInv, indices, engine
<1> QED  BY <1>3, <1>4, <1>5, <1>6, <1>7, <1>8

-----------------------------------------------------------------------------
(* Types, which last whether or not a packet had room.                     *)

\* The dwords of packets, in any state of the ring.
LEMMA DwordsAre ==
  ASSUME NEW d \in Dwords, d # NOP
  PROVE  \E id \in 1 .. PacketLimit, k \in 0 .. Size - 1, n \in PacketSizes :
           d = Dword(id, k, n)
  BY DEF Dwords

\* PlacePacket writes NOPs and dwords of its packet.
LEMMA PlaceTypes ==
  ASSUME StateInv, surface # << >>, PlacePacket(SizeInDWords(Head(surface)))
  PROVE  StateInv'
<1> DEFINE n == SizeInDWords(Head(surface))
           start == Start(n)
<1>1. TypeOK /\ CallerInv /\ HeadInv /\ n \in PacketSizes /\ PlacePacket(n)
  BY SurfaceSize DEF StateInv
<1> HIDE DEF n
<1>2. /\ Size \in Nat \ {0} /\ n \in 1 .. Size /\ pendingWptr \in 0 .. Size - 1
      /\ pendingWptr64 \in Nat /\ placed \in Nat /\ placed < PacketLimit
      /\ PacketLimit \in Nat /\ submitted \in 0 .. placed
  BY <1>1, Sizes DEF TypeOK, CallerInv, Positions
<1>3. Padding(n) \in Nat /\ (Padding(n) = 0 => pendingWptr + n <= Size)
      /\ (Padding(n) # 0 => pendingWptr + Padding(n) = Size)
  BY <1>2 DEF Padding
<1>4. start \in 0 .. Size - 1 /\ start + n <= Size
  <2>1. CASE Padding(n) = 0
    <3>1. start = pendingWptr  BY <1>2, <2>1, PosSelf DEF Start, Pos
    <3> QED  BY <1>2, <1>3, <2>1, <3>1
  <2>2. CASE Padding(n) # 0
    <3>1. start = 0  BY <1>3, <2>2, PosSelf DEF Start, Pos
    <3> QED  BY <1>2, <3>1
  <2> QED  BY <2>1, <2>2
<1>5. /\ pendingWptr64' = pendingWptr64 + Required(n) /\ pendingWptr' = (start + n) % Size
      /\ ring' = [i \in Positions |->
                   IF i \in start .. start + n - 1 THEN Dword(placed + 1, i - start, n)
                   ELSE IF Padding(n) > 0 /\ i >= pendingWptr THEN NOP
                   ELSE ring[i]]
      /\ surface' = << >> /\ placed' = placed + 1 /\ pc' = "placed"
      /\ crammed' = (crammed \/ Available < Required(n))
      /\ UNCHANGED <<caller, wptr, doorbell, submitted, rptr, inflight, performed,
                     timeLeft, gaveUp>>
  BY <1>1 DEF PlacePacket, Place, engine
<1> HIDE DEF start
<1>6. ring' \in [Positions -> Dwords]
  <2>1. \A i \in Positions : ring[i] \in Dwords  BY <1>1 DEF TypeOK
  <2>2. NOP \in Dwords  BY DEF Dwords
  <2>3. ASSUME NEW i \in start .. start + n - 1  PROVE Dword(placed + 1, i - start, n) \in Dwords
    <3>1. i - start \in 0 .. Size - 1  BY <1>2, <1>4
    <3>2. placed + 1 \in 1 .. PacketLimit  BY <1>2
    <3> QED  BY <1>1, <3>1, <3>2 DEF Dwords
  <2> QED  BY <1>5, <2>1, <2>2, <2>3
<1>7. pendingWptr' \in Positions
  <2>1. start + n \in Nat  BY <1>2, <1>4
  <2> QED  BY <1>5, <2>1, PosRange DEF Pos, Positions
<1>8. pendingWptr64' \in Nat /\ placed' \in 0 .. PacketLimit /\ submitted' \in 0 .. placed'
  BY <1>2, <1>3, <1>5 DEF Required
<1>9. crammed' \in BOOLEAN  BY <1>5
<1>10. TypeOK'  BY <1>1, <1>5, <1>6, <1>7, <1>8, <1>9 DEF TypeOK
<1>11. CallerInv' /\ HeadInv'  BY <1>1, <1>5 DEF CallerInv, HeadInv
<1> QED  BY <1>10, <1>11 DEF StateInv

\* What the engine reads as a packet are dwords of the ring.
LEMMA FetchTypes ==
  ASSUME StateInv, EngineFetch
  PROVE  StateInv'
<1>1. TypeOK /\ CallerInv /\ HeadInv /\ rptr \in Nat /\ Size \in Nat \ {0}
  BY Sizes DEF StateInv, TypeOK
<1> DEFINE head == ring[rptr % Size]
<1>2. head \in Dwords  BY <1>1, PosRange DEF TypeOK, Pos, Positions
<1>3. /\ UNCHANGED <<caller, surface, ring, pendingWptr, pendingWptr64, wptr, doorbell,
                     placed, submitted, performed, pc, timeLeft, gaveUp, crammed>>
      /\ \/ rptr' = rptr + 1 /\ inflight' = inflight /\ inflight = << >>
         \/ /\ head.is = "packet" /\ rptr' = rptr + head.n
            /\ inflight' = [j \in 1 .. head.n |-> ring[(rptr + j - 1) % Size]]
  BY DEF EngineFetch, indices, history
<1>4. CallerInv'  BY <1>1, <1>3 DEF CallerInv
<1>5. CASE rptr' = rptr + 1 /\ inflight' = inflight /\ inflight = << >>
  <2>1. rptr' \in Nat  BY <1>1, <1>5
  <2>2. TypeOK'  BY <1>1, <1>3, <1>5, <2>1 DEF TypeOK
  <2>3. HeadInv'  BY <1>5 DEF HeadInv
  <2> QED  BY <1>4, <2>2, <2>3 DEF StateInv
<1>6. CASE /\ head.is = "packet" /\ rptr' = rptr + head.n
           /\ inflight' = [j \in 1 .. head.n |-> ring[(rptr + j - 1) % Size]]
  <2>1. head # NOP  BY <1>6 DEF NOP
  <2>2. head.n \in PacketSizes
    <3>1. PICK id \in 1 .. PacketLimit, k \in 0 .. Size - 1, n \in PacketSizes :
            head = Dword(id, k, n)
      BY <1>2, <2>1, DwordsAre
    <3> QED  BY <3>1 DEF Dword
  <2>3. head.n \in 1 .. Size  BY <2>2, Sizes
  <2>4. ASSUME NEW j \in 1 .. head.n  PROVE ring[(rptr + j - 1) % Size] \in Dwords
    <3>1. rptr + j - 1 \in Nat  BY <1>1, <2>3
    <3>2. (rptr + j - 1) % Size \in Positions  BY <3>1, PosRange DEF Pos, Positions
    <3> QED  BY <1>1, <3>2 DEF TypeOK
  <2>5. inflight' \in [1 .. head.n -> Dwords]  BY <1>6, <2>4
  <2>6. inflight'[1] = head
    <3>1. 1 \in 1 .. head.n /\ rptr + 1 - 1 = rptr  BY <1>1, <2>3
    <3> QED  BY <1>6, <3>1
  <2> HIDE DEF head
  <2>7. rptr' \in Nat
    <3>1. head.n \in Nat /\ rptr \in Nat  BY <1>1, <2>3
    <3>2. rptr' = rptr + head.n  BY <1>6
    <3> QED  BY <3>1, <3>2
  <2>8. TypeOK'  BY <1>1, <1>3, <2>2, <2>5, <2>7 DEF TypeOK
  <2>9. HeadInv'  BY <2>1, <2>6 DEF HeadInv
  <2> QED  BY <1>4, <2>8, <2>9 DEF StateInv
<1> QED  BY <1>3, <1>5, <1>6

\* What the engine performs has the number of a packet, or none.
LEMMA PerformTypes ==
  ASSUME StateInv, EnginePerform
  PROVE  StateInv'
<1>1. TypeOK /\ CallerInv /\ HeadInv /\ inflight # << >>
  BY DEF StateInv, EnginePerform
<1>2. PICK n \in PacketSizes : inflight \in [1 .. n -> Dwords]  BY <1>1 DEF TypeOK
<1>3. 1 \in 1 .. n /\ n \in Nat  BY Sizes
<1>4. Head(inflight) = inflight[1] /\ inflight[1] \in Dwords
  <2>1. inflight \in Seq(Dwords)  BY <1>2, <1>3
  <2> QED  BY <1>1, <1>2, <1>3, <2>1
<1>5. Head(inflight).id \in 0 .. PacketLimit
  <2>1. PICK id \in 1 .. PacketLimit, k \in 0 .. Size - 1, m \in PacketSizes :
          inflight[1] = Dword(id, k, m)
    BY <1>1, <1>4, DwordsAre DEF HeadInv
  <2>2. Head(inflight).id = id  BY <1>4, <2>1 DEF Dword
  <2> QED  BY <2>2, Sizes
<1>6. /\ inflight' = << >>
      /\ performed' = Append(performed, Head(inflight).id) \/ performed' = Append(performed, 0)
      /\ UNCHANGED <<caller, surface, ring, pendingWptr, pendingWptr64, wptr, doorbell,
                     placed, submitted, rptr, pc, timeLeft, gaveUp, crammed>>
  BY DEF EnginePerform, indices, history
<1>7. performed' \in Seq(0 .. PacketLimit)
  <2>1. 0 \in 0 .. PacketLimit /\ performed \in Seq(0 .. PacketLimit)
    BY <1>1, Sizes DEF TypeOK
  <2>2. PICK id \in 0 .. PacketLimit : performed' = Append(performed, id)
    BY <1>5, <1>6, <2>1
  <2> QED  BY <2>1, <2>2
<1>8. TypeOK'  BY <1>1, <1>6, <1>7 DEF TypeOK
<1>9. CallerInv' /\ HeadInv'  BY <1>1, <1>6 DEF CallerInv, HeadInv
<1> QED  BY <1>8, <1>9 DEF StateInv

\* The caller's other steps keep the types.
LEMMA CallerTypes ==
  ASSUME StateInv,
         \/ \E s \in Surfaces : BuildPacket(s)
         \/ SubmitWptr \/ SubmitDoorbell \/ Wait4PacketConsumption \/ WaitOnValue
         \/ UNCHANGED vars
  PROVE  StateInv'
<1>1. TypeOK /\ CallerInv /\ HeadInv  BY DEF StateInv
<1>2. /\ placed \in 0 .. PacketLimit /\ PacketLimit \in Nat /\ submitted \in 0 .. placed
      /\ TimeOut \in Nat \ {0} /\ timeLeft \in 0 .. TimeOut
  BY <1>1, Sizes DEF TypeOK
<1>3. ASSUME NEW s \in Surfaces, BuildPacket(s)  PROVE StateInv'
  <2>1. TypeOK' /\ CallerInv' /\ HeadInv'
    BY <1>1, <1>3 DEF BuildPacket, TypeOK, CallerInv, HeadInv, indices, engine, history
  <2> QED  BY <2>1 DEF StateInv
<1>4. CASE SubmitWptr
  <2>1. TypeOK' /\ CallerInv' /\ HeadInv'
    BY <1>1, <1>4 DEF SubmitWptr, TypeOK, CallerInv, HeadInv, engine, history
  <2> QED  BY <2>1 DEF StateInv
<1>5. CASE SubmitDoorbell
  <2>1. TypeOK' /\ CallerInv' /\ HeadInv'
    BY <1>1, <1>2, <1>5
    DEF SubmitDoorbell, TypeOK, CallerInv, HeadInv, engine, history
  <2> QED  BY <2>1 DEF StateInv
<1>6. CASE Wait4PacketConsumption
  <2>1. TypeOK' /\ CallerInv' /\ HeadInv'
    BY <1>1, <1>2, <1>6
    DEF Wait4PacketConsumption, TypeOK, CallerInv, HeadInv, indices, engine, history
  <2> QED  BY <2>1 DEF StateInv
<1>7. CASE WaitOnValue
  <2>1. timeLeft' \in 0 .. TimeOut  BY <1>2, <1>7 DEF WaitOnValue
  <2>2. gaveUp' \in BOOLEAN  BY <1>1, <1>7 DEF WaitOnValue, TypeOK
  <2>3. pc = "wait" /\ pc' \in {"wait", "ready"} /\ surface = << >>
    BY <1>1, <1>7 DEF WaitOnValue, CallerInv
  <2>4. TypeOK' /\ CallerInv' /\ HeadInv'
    BY <1>1, <1>7, <2>1, <2>2, <2>3
    DEF WaitOnValue, TypeOK, CallerInv, HeadInv, indices, engine
  <2> QED  BY <2>4 DEF StateInv
<1>8. CASE UNCHANGED vars
  <2>1. TypeOK' /\ CallerInv' /\ HeadInv'
    BY <1>1, <1>8 DEF vars, TypeOK, CallerInv, HeadInv, indices, engine, history
  <2> QED  BY <2>1 DEF StateInv
<1> QED  BY <1>3, <1>4, <1>5, <1>6, <1>7, <1>8

-----------------------------------------------------------------------------
(* The theorems.                                                           *)

\* At the start the ring is empty.
LEMMA InitRing == Init => RingInv
<1> SUFFICES ASSUME Init  PROVE RingInv  OBVIOUS
<1>1. Window = {} /\ Read = 0 /\ performed = << >> /\ Len(performed) = 0
  BY DEF Init, Window, Read
<1>2. TypeOK  BY Sizes DEF Init, TypeOK, Dwords, Positions
<1>3. Pos(0) = 0  BY PosSelf, Sizes
<1>4. IndexInv  BY <1>3, Sizes DEF Init, IndexInv, Pos
<1>5. CallerInv /\ HeadInv /\ EmptyInv  BY DEF Init, CallerInv, HeadInv, EmptyInv
<1>6. ContentsInv  BY <1>1 DEF ContentsInv
<1>7. Ordered  BY <1>1 DEF Ordered
<1>8. OrderInv  BY <1>1, <1>7 DEF Init, OrderInv
<1> QED  BY <1>2, <1>4, <1>5, <1>6, <1>8 DEF RingInv, StateInv, WindowInv

\* Once a packet had no room, none can have had any: crammed stays.
LEMMA CrammedStays == ASSUME TypeOK, [Next]_vars, ~ crammed'  PROVE ~ crammed
  BY DEF TypeOK, Next, vars, history, BuildPacket, PlacePacket, Place, SubmitWptr, SubmitDoorbell,
         Wait4PacketConsumption, WaitOnValue, EngineFetch, EnginePerform

\* Every step of the caller and of the engine keeps the invariant (BaseQueue.cpp:129-234).
LEMMA NextRing == ASSUME RingInv, [Next]_vars  PROVE RingInv'
<1>1. StateInv  BY DEF RingInv
<1>2. StateInv'
  <2>1. CASE surface # << >> /\ PlacePacket(SizeInDWords(Head(surface)))
    BY <1>1, <2>1, PlaceTypes
  <2>2. CASE \/ \E s \in Surfaces : BuildPacket(s)
             \/ SubmitWptr \/ SubmitDoorbell \/ Wait4PacketConsumption \/ WaitOnValue
             \/ UNCHANGED vars
    BY <1>1, <2>2, CallerTypes
  <2>3. CASE EngineFetch  BY <1>1, <2>3, FetchTypes
  <2>4. CASE EnginePerform  BY <1>1, <2>4, PerformTypes
  <2> QED  BY <2>1, <2>2, <2>3, <2>4 DEF Next
<1>3. ASSUME ~ crammed'  PROVE WindowInv'
  <2>1. WindowInv  BY <1>1, <1>3, CrammedStays DEF RingInv, StateInv
  <2>2. CASE surface # << >> /\ PlacePacket(SizeInDWords(Head(surface)))
    BY <1>1, <1>3, <2>1, <2>2, PlaceStep
  <2>3. CASE \/ \E s \in Surfaces : BuildPacket(s)
             \/ SubmitWptr \/ SubmitDoorbell \/ Wait4PacketConsumption \/ WaitOnValue
             \/ UNCHANGED vars
    BY <1>1, <2>1, <2>3, CallerStep
  <2>4. CASE EngineFetch  BY <1>1, <2>1, <2>4, FetchNopStep, FetchPacketStep
  <2>5. CASE EnginePerform  BY <1>1, <2>1, <2>5, PerformStep
  <2> QED  BY <2>2, <2>3, <2>4, <2>5 DEF Next
<1> QED  BY <1>2, <1>3 DEF RingInv

\* As long as each packet had room, the window of the ring is cut into whole packets and
\* NOPs, and the packets' numbers follow the last one read (BaseQueue.cpp:129-234).
THEOREM RingInvariant == Spec => []RingInv
<1>1. Init => RingInv  BY InitRing
<1>2. RingInv /\ [Next]_vars => RingInv'  BY NextRing
<1> QED  BY <1>1, <1>2, PTL DEF Spec

\* The indices, the ring and the registers keep their types (BaseQueue.hpp:73-78).
THEOREM TypeCorrect == Spec => []TypeOK
<1>1. RingInv => TypeOK  BY DEF RingInv, StateInv
<1> QED  BY <1>1, RingInvariant, PTL

\* A packet placed where the queue computes room for it never lands on one the engine has
\* still to read, and equal indices mean that all has been read (BaseQueue.cpp:151-197).
THEOREM Room == Spec => []NoOverrun
<1>1. RingInv => NoOverrun  BY DEF RingInv, WindowInv, IndexInv, NoOverrun
<1> QED  BY <1>1, RingInvariant, PTL

\* As long as each packet had room, they are performed whole, once each and in the order
\* they were placed, wherever the ring ends (BaseQueue.cpp:179-197).
THEOREM InOrder == Spec => []PerformedInOrder
<1>1. RingInv => PerformedInOrder
  BY DEF RingInv, WindowInv, OrderInv, Ordered, PerformedInOrder
<1> QED  BY <1>1, RingInvariant, PTL

\* Only a packet that is placed can be the first without room.
LEMMA CrammedByPlace ==
  ASSUME TypeOK, [Next]_vars, crammed', ~ crammed
  PROVE  /\ surface # << >> /\ PlacePacket(SizeInDWords(Head(surface)))
         /\ Available < Required(SizeInDWords(Head(surface)))
<1>1. crammed' # crammed  OBVIOUS
<1>2. surface # << >> /\ PlacePacket(SizeInDWords(Head(surface)))
  BY <1>1 DEF Next, vars, history, BuildPacket, SubmitWptr, SubmitDoorbell,
              Wait4PacketConsumption, WaitOnValue, EngineFetch, EnginePerform
<1> QED  BY <1>2 DEF PlacePacket, Place

\* In a ring of at least twice the largest packet, a caller that waits for each packet and
\* asks for no room places none without it, unless its last wait gave up: an empty ring
\* has room for the packet and for padding shorter than it (BaseQueue.cpp:144-149,
\* 164-177).
THEOREM RoomByWaiting == ASSUME HalfRing  PROVE Spec => PlacesWithRoom
<1>1. RingInv /\ [Next]_vars => [crammed' /\ ~ crammed => gaveUp]_vars
  <2> SUFFICES ASSUME RingInv, [Next]_vars, crammed', ~ crammed, ~ gaveUp
               PROVE  FALSE
    BY DEF RingInv, StateInv, TypeOK
  <2> DEFINE n == SizeInDWords(Head(surface))
  <2>1. TypeOK /\ CallerInv /\ IndexInv /\ EmptyInv
    BY DEF RingInv, StateInv, WindowInv
  <2>2. surface # << >> /\ PlacePacket(n) /\ Available < Required(n) /\ n \in PacketSizes
    BY <2>1, CrammedByPlace, SurfaceSize
  <2> HIDE DEF n
  <2>3. /\ Size \in Nat \ {0} /\ n \in 1 .. Size /\ pendingWptr \in 0 .. Size - 1
        /\ rptr \in Nat /\ pendingWptr64 \in Nat
    BY <2>1, <2>2, Sizes DEF TypeOK, Positions
  <2>4. Available = Size - 1 - (pendingWptr64 - rptr)  BY <2>1, AvailableHere
  <2>5. Required(n) \in Nat /\ Required(n) < 2 * n  BY <2>3 DEF Required, Padding
  <2>6. caller = "waits"
    <3>1. caller # "checks"
      <4>1. Available >= Required(n) => ~ (Available < Required(n))
        BY <2>3, <2>4, <2>5
      <4> QED  BY <2>2, <4>1 DEF PlacePacket, Place
    <3> QED  BY <2>1, <3>1, RingQueueAssumption DEF TypeOK
  <2>7. rptr = pendingWptr64  BY <2>1, <2>2, <2>6 DEF CallerInv, EmptyInv
  <2>8. 2 * n <= Size  BY <2>1, <2>2, <2>6 DEF HalfRing, TypeOK
  <2> QED  BY <2>2, <2>3, <2>4, <2>5, <2>7, <2>8
<1> QED  BY <1>1, RingInvariant, PTL DEF Spec, PlacesWithRoom

\* A wait that returns true leaves nothing handed over unread, as long as each packet had
\* room: equal indices leave no window, and the last packet placed is the last one read
\* (BaseQueue.cpp:144-149, SDMAQueue.cpp:62-79).
THEOREM TrueMeansConsumed == Spec => ConsumedWhenTrue
<1>1. RingInv /\ [Next]_vars
        => [pc = "wait" /\ pc' = "ready" /\ ~ gaveUp' /\ ~ crammed => Read = submitted]_vars
  <2> SUFFICES ASSUME RingInv, [Next]_vars,
                      pc = "wait", pc' = "ready", ~ gaveUp', ~ crammed
               PROVE  Read = submitted
    OBVIOUS
  <2>1. WaitOnValue
    <3>1. CASE ~ WaitOnValue
      <4>1. pc' # "ready" \/ pc' = pc \/ pc # "wait"
        BY <3>1 DEF Next, vars, BuildPacket, PlacePacket, Place, SubmitWptr, SubmitDoorbell,
                    Wait4PacketConsumption, EngineFetch, EnginePerform
      <4> QED  BY <4>1
    <3> QED  BY <3>1
  <2>2. rptr = wptr  BY <2>1 DEF WaitOnValue
  <2>3. /\ IndexInv /\ OrderInv /\ rptr \in Nat /\ pendingWptr64 \in Nat
    BY DEF RingInv, StateInv, WindowInv, TypeOK
  <2>4. wptr = pendingWptr64 /\ submitted = placed  BY <2>3 DEF IndexInv
  <2>5. Window = {}  BY <2>2, <2>3, <2>4 DEF Window
  <2>6. placed = Read  BY <2>3, <2>5 DEF OrderInv
  <2> QED  BY <2>4, <2>6
<1> QED  BY <1>1, RingInvariant, PTL DEF Spec, ConsumedWhenTrue

-----------------------------------------------------------------------------
(* The packets of a surface.  The library's induction cannot be used with  *)
(* the provers at hand; the loop is followed to the least turn at which    *)
(* its invariant would fail.                                               *)

\* Where the loop that fills in the packets begins, where a turn takes it, and what it
\* is up to N turns.
First(s) == [packets |-> << >>, src |-> s.src, dst |-> s.dst, left |-> s.size]
After(op, at) == IF at.left > 0 THEN Turn(op, at) ELSE at
IsLoop(s, f, N) == f = [n \in 0 .. N |-> IF n = 0 THEN First(s) ELSE After(s.op, f[n-1])]

\* PacketsOf with these names.
LEMMA PacketsFromLoop ==
  ASSUME NEW s
  PROVE  PacketsOf(s) = (CHOOSE f : IsLoop(s, f, s.size))[s.size].packets
  BY DEF PacketsOf, IsLoop, First, After

\* There is such a function: it has a value for every number of turns.
LEMMA LoopExists ==
  ASSUME NEW s, NEW N \in Nat
  PROVE  \E f : IsLoop(s, f, N)
<1> DEFINE Bad == {m \in 0 .. N : ~ \E f : IsLoop(s, f, m)}
<1> SUFFICES ASSUME Bad # {} PROVE FALSE
  OBVIOUS
<1>1. PICK m \in Bad : \A k \in Bad : m <= k
  <2>1. Bad \in SUBSET (0 .. N)
    OBVIOUS
  <2> HIDE DEF Bad
  <2> QED
    BY <2>1, LeastElement
<1>2. m \in 0 .. N /\ ~ \E f : IsLoop(s, f, m)
  OBVIOUS
<1>3. CASE m = 0
  <2>1. IsLoop(s, [n \in 0 .. 0 |-> First(s)], 0)
    BY DEF IsLoop
  <2> QED
    BY <1>2, <1>3, <2>1
<1>4. CASE m > 0
  <2>1. m - 1 \in 0 .. N /\ m - 1 < m
    BY <1>2, <1>4
  <2>2. m - 1 \notin Bad
    BY <1>1, <2>1
  <2>3. PICK f : IsLoop(s, f, m - 1)
    BY <2>1, <2>2
  <2> DEFINE g == [n \in 0 .. m |-> IF n < m THEN f[n] ELSE After(s.op, f[m-1])]
  <2>4. ASSUME NEW n \in 0 .. m
        PROVE  g[n] = IF n = 0 THEN First(s) ELSE After(s.op, g[n-1])
    BY <1>2, <1>4, <2>3 DEF IsLoop
  <2>5. IsLoop(s, g, m)
    <3>1. g = [n \in 0 .. m |-> g[n]]
      OBVIOUS
    <3> HIDE DEF g
    <3> QED
      BY <2>4, <3>1 DEF IsLoop
  <2> QED
    BY <1>2, <2>5
<1> QED
  BY <1>2, <1>3, <1>4

\* What the assumption on the constants says of a surface.
SurfaceOK(s) ==
  /\ s.op \in {"copy", "fill"}
  /\ s.src \in Nat /\ s.size \in Nat
  /\ s.dst \in Seq(Nat) /\ 1 \in DOMAIN s.dst

\* The bytes that the packets filled in so far are for.
Done(s, at) == s.size - at.left

\* What a packet of the surface looks like, and that it stays within the surface and
\* within what the engine takes.
PacketRecords(s) ==
  [op : {s.op}, src : Nat, dst : [DOMAIN s.dst -> Nat], count : Nat, dwords : BOOLEAN]

PacketFits(s, p) ==
  /\ p.count < TwoMeg
  /\ \A i \in DOMAIN s.dst : p.dst[i] + p.count < s.dst[i] + s.size
  /\ s.op = "fill" /\ s.size % 4 = 0 /\ s.dst[1] % 4 = 0 => p.dwords

\* The addresses have moved on by the bytes done.
LoopTypes(s, at) ==
  /\ at.left \in 0 .. s.size
  /\ at.packets \in Seq(PacketRecords(s))
  /\ at.src = IF s.op = "copy" THEN s.src + Done(s, at) ELSE s.src
  /\ at.dst = [i \in DOMAIN s.dst |-> s.dst[i] + Done(s, at)]

\* Each byte done has one packet that carries it, and the others have none.
Carried(s, at) ==
  \A i \in DOMAIN s.dst :
    /\ \A k \in 0 .. Done(s, at) - 1 :
         \E j \in DOMAIN at.packets : Carriers(s, at.packets, k, i) = {j}
    /\ \A k \in Done(s, at) .. s.size - 1 : Carriers(s, at.packets, k, i) = {}

\* All packets but the last are full ones.
Counted(s, at) ==
  /\ at.left > 0 => Done(s, at) = Len(at.packets) * TwoMeg /\ Done(s, at) % 4 = 0
  /\ at.left = 0 => /\ s.size <= Len(at.packets) * TwoMeg
                    /\ Len(at.packets) * TwoMeg < s.size + TwoMeg

\* The loop's invariant.
LoopInv(s, at) ==
  /\ LoopTypes(s, at) /\ Carried(s, at) /\ Counted(s, at)
  /\ \A j \in DOMAIN at.packets : PacketFits(s, at.packets[j])

\* It holds before the first turn,
LEMMA FirstInv ==
  ASSUME NEW s, SurfaceOK(s)
  PROVE  LoopInv(s, First(s)) /\ First(s).left = s.size
<1> DEFINE at == First(s)
<1>1. /\ at.packets = << >> /\ at.left = s.size /\ at.src = s.src /\ at.dst = s.dst
  BY DEF First
<1> HIDE DEF at
<1>2. s.size \in Nat /\ s.src \in Nat /\ s.dst \in Seq(Nat)
  BY DEF SurfaceOK
<1>3. /\ Done(s, at) = 0 /\ at.packets \in Seq(PacketRecords(s))
      /\ DOMAIN at.packets = {} /\ Len(at.packets) = 0
  BY <1>1, <1>2 DEF Done
<1>4. LoopTypes(s, at)
  <2>1. \A i \in DOMAIN s.dst : s.dst[i] \in Nat
    BY <1>2
  <2>2. s.dst = [i \in DOMAIN s.dst |-> s.dst[i]]
    BY <1>2
  <2>3. [i \in DOMAIN s.dst |-> s.dst[i]] = [i \in DOMAIN s.dst |-> s.dst[i] + 0]
    BY <2>1
  <2> QED
    BY <1>1, <1>2, <1>3, <2>2, <2>3 DEF LoopTypes
<1>5. Carried(s, at)
  <2>1. \A k, i : Carriers(s, at.packets, k, i) = {}
    BY <1>3 DEF Carriers
  <2> QED
    BY <1>3, <2>1 DEF Carried
<1>6. Counted(s, at)
  <2>1. TwoMeg \in Nat \ {0}
    BY CopySplitAssumption
  <2>2. 0 * TwoMeg = 0
    BY <2>1
  <2> QED
    BY <1>1, <1>2, <1>3, <2>1, <2>2 DEF Counted
<1> QED
  BY <1>1, <1>3, <1>4, <1>5, <1>6 DEF LoopInv, at

\* a turn keeps it and leaves fewer bytes,
LEMMA TurnInv ==
  ASSUME NEW s, SurfaceOK(s), TwoMeg % 4 = 0, NEW at, LoopInv(s, at), at.left > 0
  PROVE  LoopInv(s, Turn(s.op, at)) /\ Turn(s.op, at).left < at.left
<1> DEFINE size == IF at.left > TwoMeg THEN TwoMeg ELSE at.left
           next == Turn(s.op, at)
           p == Packet(s.op, at.src, at.dst, size)
           n == Len(at.packets)
           done == Done(s, at)
<1>1. TwoMeg \in Nat \ {0}
  BY CopySplitAssumption
<1>2. s.op \in {"copy", "fill"} /\ s.size \in Nat /\ s.src \in Nat
  BY DEF SurfaceOK
<1>3. 1 \in DOMAIN s.dst /\ \A i \in DOMAIN s.dst : s.dst[i] \in Nat
  BY DEF SurfaceOK
<1>4. /\ at.left \in 0 .. s.size /\ at.packets \in Seq(PacketRecords(s))
      /\ at.src = (IF s.op = "copy" THEN s.src + done ELSE s.src)
      /\ at.dst = [i \in DOMAIN s.dst |-> s.dst[i] + done]
  BY DEF LoopInv, LoopTypes
<1>5. /\ next.packets = Append(at.packets, p) /\ next.left = at.left - size
      /\ next.src = (IF s.op = "copy" THEN at.src + size ELSE at.src)
      /\ next.dst = [i \in DOMAIN at.dst |-> at.dst[i] + size]
  BY DEF Turn
<1>6. /\ p.op = s.op /\ p.src = at.src /\ p.dst = at.dst /\ p.count = size - 1
      /\ p.dwords <=> (s.op = "fill" /\ size % 4 = 0 /\ at.dst[1] % 4 = 0)
  BY DEF Packet
<1>7. p = [op |-> s.op, src |-> at.src, dst |-> at.dst, count |-> size - 1,
           dwords |-> s.op = "fill" /\ size % 4 = 0 /\ at.dst[1] % 4 = 0]
  BY DEF Packet
<1>8. /\ size \in 1 .. TwoMeg /\ size <= at.left
      /\ at.left > TwoMeg => size = TwoMeg
      /\ at.left <= TwoMeg => size = at.left
  BY <1>1, <1>2, <1>4
<1>9. n \in Nat /\ DOMAIN at.packets = 1 .. n
  BY <1>4
<1>10. done = s.size - at.left /\ done \in Nat /\ Done(s, next) = s.size - next.left
  BY <1>2, <1>4 DEF Done
<1>11. done = n * TwoMeg /\ done % 4 = 0
  BY DEF LoopInv, Counted
<1>12. PICK Z \in Nat, L \in Nat, D \in Nat, S \in Nat :
        s.size = Z /\ at.left = L /\ done = D /\ size = S
  BY <1>2, <1>4, <1>8, <1>10
<1> HIDE DEF size, next, p, n, done
<1>13. /\ D = Z - L /\ 0 < L /\ L <= Z /\ 1 <= S /\ S <= TwoMeg /\ S <= L
      /\ (L > TwoMeg => S = TwoMeg) /\ (L <= TwoMeg => S = L)
      /\ D % 4 = 0 /\ next.left = L - S /\ Done(s, next) = Z - (L - S)
      /\ p.count = S - 1
  BY <1>4, <1>5, <1>6, <1>8, <1>10, <1>11, <1>12
<1>14. Done(s, next) = done + size /\ next.left \in 0 .. s.size /\ next.left < at.left
  BY <1>12, <1>13
<1>15. p \in PacketRecords(s)
  <2>1. at.src \in Nat /\ size - 1 \in Nat
    <3>1. D \in Nat /\ S - 1 \in Nat /\ size - 1 = S - 1
      BY <1>12, <1>13
    <3>2. s.src \in Nat /\ at.src = (IF s.op = "copy" THEN s.src + D ELSE s.src)
      BY <1>2, <1>4, <1>12
    <3> QED
      BY <3>1, <3>2
  <2>2. at.dst \in [DOMAIN s.dst -> Nat]
    BY <1>3, <1>4, <1>12
  <2>3. (s.op = "fill" /\ size % 4 = 0 /\ at.dst[1] % 4 = 0) \in BOOLEAN
    OBVIOUS
  <2> QED
    BY <1>7, <2>1, <2>2, <2>3, Zenon DEF PacketRecords
<1>16. next.packets \in Seq(PacketRecords(s)) /\ Len(next.packets) = n + 1
      /\ DOMAIN next.packets = 1 .. n + 1
      /\ next.packets[n + 1] = p /\ \A j \in 1 .. n : next.packets[j] = at.packets[j]
  BY <1>15, <1>4, <1>5, <1>9 DEF n
<1>17. LoopTypes(s, next)
  <2>1. next.src = IF s.op = "copy" THEN s.src + Done(s, next) ELSE s.src
    <3>1. s.src \in Nat /\ at.src = (IF s.op = "copy" THEN s.src + D ELSE s.src)
      BY <1>2, <1>4, <1>12
    <3>2. next.src = (IF s.op = "copy" THEN at.src + S ELSE at.src)
      BY <1>5, <1>12
    <3>3. Done(s, next) = D + S
      BY <1>14, <1>12
    <3> QED
      BY <3>1, <3>2, <3>3
  <2>2. \A i \in DOMAIN s.dst : (s.dst[i] + done) + size = s.dst[i] + Done(s, next)
    BY <1>14, <1>3, <1>8, <1>10
  <2>3. next.dst = [i \in DOMAIN s.dst |-> (s.dst[i] + done) + size]
    BY <1>4, <1>5
  <2>4. next.dst = [i \in DOMAIN s.dst |-> s.dst[i] + Done(s, next)]
    BY <2>2, <2>3
  <2> QED
    BY <1>14, <1>16, <2>1, <2>4 DEF LoopTypes
<1>18. PacketFits(s, p)
  <2>1. p.count < TwoMeg
    BY <1>6, <1>8, <1>1
  <2>2. ASSUME NEW i \in DOMAIN s.dst PROVE p.dst[i] + p.count < s.dst[i] + s.size
    <3>1. p.dst[i] = s.dst[i] + D /\ s.dst[i] \in Nat
      BY <1>3, <1>4, <1>6, <1>12
    <3> QED
      BY <3>1, <1>12, <1>13
  <2>3. ASSUME s.op = "fill", s.size % 4 = 0, s.dst[1] % 4 = 0 PROVE p.dwords
    <3>1. at.dst[1] = s.dst[1] + done
      BY <1>3, <1>4
    <3>2. at.dst[1] % 4 = 0
      BY <3>1, <1>3, <1>12, <1>13, <2>3
    <3>3. L % 4 = 0
      BY <1>12, <1>13, <2>3
    <3>4. size % 4 = 0
      BY <1>1, <1>12, <1>13, <3>3
    <3> QED
      BY <3>2, <3>4, <1>6, <2>3
  <2> QED
    BY <2>1, <2>2, <2>3 DEF PacketFits
<1>19. \A j \in DOMAIN next.packets : PacketFits(s, next.packets[j])
  <2>1. \A j \in 1 .. n : PacketFits(s, at.packets[j])
    BY <1>9 DEF LoopInv
  <2> QED
    BY <1>16, <1>18, <1>9, <2>1
<1>20. Counted(s, next)
  <2>1. (n + 1) * TwoMeg = n * TwoMeg + TwoMeg
    BY <1>9, <1>1
  <2>2. PICK m \in Nat : m = n * TwoMeg
    BY <1>11, <1>10
  <2>3. (n + 1) * TwoMeg = m + TwoMeg /\ done = m
    BY <2>1, <2>2, <1>11
  <2>4. next.left > 0 => Done(s, next) = (n + 1) * TwoMeg
    BY <2>3, <1>1, <1>12, <1>13
  <2>5. next.left > 0 => Done(s, next) % 4 = 0
    <3> SUFFICES ASSUME next.left > 0 PROVE (done + size) % 4 = 0
      BY <1>14
    <3>1. size = TwoMeg
      BY <1>1, <1>12, <1>13
    <3> QED
      BY <3>1, <1>1, <1>12, <1>13
  <2>6. next.left = 0 => s.size <= m + TwoMeg /\ m + TwoMeg < s.size + TwoMeg
    BY <2>3, <1>1, <1>12, <1>13
  <2> QED
    BY <2>3, <2>4, <2>5, <2>6, <1>16 DEF Counted
<1>21. Carried(s, next)
  <2> SUFFICES ASSUME NEW i \in DOMAIN s.dst
               PROVE  /\ \A k \in 0 .. Done(s, next) - 1 :
                           \E j \in DOMAIN next.packets : Carriers(s, next.packets, k, i) = {j}
                      /\ \A k \in Done(s, next) .. s.size - 1 :
                           Carriers(s, next.packets, k, i) = {}
    BY DEF Carried
  <2> DEFINE Here(k) == k \in done .. done + size - 1
  <2>1. ASSUME NEW k \in 0 .. s.size - 1
        PROVE  /\ n + 1 \in Carriers(s, next.packets, k, i) <=> Here(k)
               /\ \A j \in 1 .. n : j \in Carriers(s, next.packets, k, i)
                                       <=> j \in Carriers(s, at.packets, k, i)
               /\ Carriers(s, next.packets, k, i) \subseteq 1 .. n + 1
               /\ Carriers(s, at.packets, k, i) \subseteq 1 .. n
    <3>1. s.dst[i] + k - p.dst[i] = k - done
      BY <1>3, <1>4, <1>6, <1>10, <1>2
    <3>2. k - done \in 0 .. p.count <=> Here(k)
      BY <1>6, <1>8, <1>10, <1>2, <1>1
    <3>3. s.op = "copy" => p.src + (k - done) = s.src + k
      BY <1>2, <1>4, <1>6, <1>12
    <3>4. s.op = "fill" => p.src = s.src
      BY <1>4, <1>6
    <3>5. (k - D) % 4 = k % 4
      BY <1>12, <1>13
    <3>6. n + 1 \in Carriers(s, next.packets, k, i) <=> Here(k)
      <4>1. n + 1 \in DOMAIN next.packets /\ next.packets[n + 1] = p
        BY <1>16, <1>9
      <4>2. IF s.op = "copy" THEN p.src + (k - done) = s.src + k
            ELSE p.src = s.src /\ (p.dwords => (k - done) % 4 = k % 4)
        BY <3>3, <3>4, <3>5, <1>2, <1>12
      <4> QED
        BY <4>1, <4>2, <3>1, <3>2 DEF Carriers
    <3>7. \A j \in 1 .. n : j \in Carriers(s, next.packets, k, i)
                            <=> j \in Carriers(s, at.packets, k, i)
      <4> SUFFICES ASSUME NEW j \in 1 .. n
                   PROVE  j \in Carriers(s, next.packets, k, i)
                            <=> j \in Carriers(s, at.packets, k, i)
        OBVIOUS
      <4>1. /\ j \in DOMAIN next.packets /\ j \in DOMAIN at.packets
            /\ next.packets[j] = at.packets[j]
        BY <1>16, <1>9
      <4> QED
        BY <4>1, Zenon DEF Carriers
    <3>8. /\ Carriers(s, next.packets, k, i) \subseteq 1 .. n + 1
          /\ Carriers(s, at.packets, k, i) \subseteq 1 .. n
      BY <1>16, <1>9 DEF Carriers
    <3> QED
      BY <3>6, <3>7, <3>8
  <2>2. ASSUME NEW k \in 0 .. Done(s, next) - 1
        PROVE  \E j \in DOMAIN next.packets : Carriers(s, next.packets, k, i) = {j}
    <3>0. k \in 0 .. s.size - 1
      BY <1>12, <1>13
    <3>1. CASE k < done
      <4>1. PICK j \in 1 .. n : Carriers(s, at.packets, k, i) = {j}
        <5>1. k \in 0 .. done - 1
          BY <3>0, <3>1, <1>12
        <5> QED
          BY <5>1, <1>9, Zenon DEF LoopInv, Carried, done
      <4>2. Carriers(s, next.packets, k, i) = {j}
        <5>1. n + 1 \notin Carriers(s, next.packets, k, i)
          BY <2>1, <3>0, <3>1, <1>10
        <5>2. \A l \in 1 .. n : l \in Carriers(s, next.packets, k, i) <=> l = j
          BY <2>1, <3>0, <4>1
        <5>3. Carriers(s, next.packets, k, i) \subseteq 1 .. n + 1
          BY <2>1, <3>0
        <5> QED
          BY <5>1, <5>2, <5>3, <4>1, <1>9
      <4> QED
        <5>1. j \in DOMAIN next.packets
          BY <1>16, <1>9
        <5> QED
          BY <4>2, <5>1, Zenon
    <3>2. CASE k >= done
      <4>1. Carriers(s, at.packets, k, i) = {}
        BY <3>0, <3>2, <1>10, <1>2 DEF LoopInv, Carried, done
      <4>2. Carriers(s, next.packets, k, i) = {n + 1}
        <5>1. n + 1 \in Carriers(s, next.packets, k, i)
          BY <2>1, <3>0, <3>2, <1>14, <1>10, <1>8
        <5>2. \A l \in 1 .. n : l \notin Carriers(s, next.packets, k, i)
          BY <2>1, <3>0, <4>1
        <5>3. Carriers(s, next.packets, k, i) \subseteq 1 .. n + 1
          BY <2>1, <3>0
        <5> QED
          BY <5>1, <5>2, <5>3, <1>9
      <4> QED
        <5>1. n + 1 \in DOMAIN next.packets
          BY <1>16, <1>9
        <5> QED
          BY <4>2, <5>1, Zenon
    <3> QED
      BY <3>0, <3>1, <3>2, <1>10
  <2>3. ASSUME NEW k \in Done(s, next) .. s.size - 1
        PROVE  Carriers(s, next.packets, k, i) = {}
    <3>0. k \in 0 .. s.size - 1 /\ k \in done .. s.size - 1 /\ ~ Here(k)
      BY <1>12, <1>13
    <3>1. Carriers(s, at.packets, k, i) = {}
      BY <3>0 DEF LoopInv, Carried, done
    <3>2. n + 1 \notin Carriers(s, next.packets, k, i)
      BY <2>1, <3>0
    <3>3. \A l \in 1 .. n : l \notin Carriers(s, next.packets, k, i)
      BY <2>1, <3>0, <3>1
    <3>4. Carriers(s, next.packets, k, i) \subseteq 1 .. n + 1
      BY <2>1, <3>0
    <3> QED
      BY <3>2, <3>3, <3>4, <1>9
  <2> QED
    BY <2>2, <2>3
<1> QED
  BY <1>14, <1>17, <1>19, <1>20, <1>21 DEF LoopInv, next

\* and so it holds at the end, where no byte is left.
LEMMA LoopEnds ==
  ASSUME NEW s, SurfaceOK(s), TwoMeg % 4 = 0, NEW f, IsLoop(s, f, s.size)
  PROVE  LoopInv(s, f[s.size]) /\ f[s.size].left = 0
<1> DEFINE Holds(m) == LoopInv(s, f[m]) /\ f[m].left <= s.size - m
           Bad == {m \in 0 .. s.size : ~ Holds(m)}
<1>1. s.size \in Nat
  BY DEF SurfaceOK
<1>2. Bad = {}
  <2> SUFFICES ASSUME Bad # {} PROVE FALSE
    OBVIOUS
  <2>1. PICK m \in Bad : \A k \in Bad : m <= k
    <3>1. Bad \in SUBSET (0 .. s.size)
      OBVIOUS
    <3> HIDE DEF Bad
    <3> QED
      BY <1>1, <3>1, LeastElement
  <2>2. m \in 0 .. s.size /\ ~ Holds(m)
    OBVIOUS
  <2>3. CASE m = 0
    <3>1. f[m] = First(s)
      BY <2>2, <2>3 DEF IsLoop
    <3>2. LoopInv(s, f[m]) /\ f[m].left = s.size
      BY <3>1, FirstInv
    <3> QED
      BY <1>1, <2>2, <2>3, <3>2
  <2>4. CASE m > 0
    <3>1. m - 1 \in 0 .. s.size /\ m - 1 < m
      BY <1>1, <2>2, <2>4
    <3>2. Holds(m - 1)
      BY <2>1, <3>1
    <3>3. f[m] = After(s.op, f[m - 1])
      <4>1. \A n \in 0 .. s.size :
              f[n] = IF n = 0 THEN First(s) ELSE After(s.op, f[n - 1])
        BY DEF IsLoop
      <4>2. m # 0
        BY <1>1, <2>2, <2>4
      <4> HIDE DEF Bad
      <4> QED
        BY <2>2, <4>1, <4>2
    <3>4. f[m - 1].left \in 0 .. s.size
      BY <3>2 DEF LoopInv, LoopTypes
    <3>5. CASE f[m - 1].left > 0
      <4>1. f[m] = Turn(s.op, f[m - 1])
        BY <3>3, <3>5 DEF After
      <4>2. LoopInv(s, f[m]) /\ f[m].left < f[m - 1].left
        BY <3>2, <3>5, <4>1, TurnInv
      <4>3. f[m].left \in 0 .. s.size
        BY <4>2 DEF LoopInv, LoopTypes
      <4>4. f[m].left <= s.size - m
        BY <1>1, <2>2, <3>2, <3>4, <4>2, <4>3
      <4> QED
        BY <2>2, <4>2, <4>4
    <3>6. CASE f[m - 1].left = 0
      <4>1. f[m] = f[m - 1]
        BY <3>3, <3>6 DEF After
      <4>2. 0 <= s.size - m
        BY <1>1, <2>2
      <4> QED
        BY <2>2, <3>2, <3>6, <4>1, <4>2
    <3> QED
      BY <1>1, <3>4, <3>5, <3>6
  <2> QED
    BY <2>2, <2>3, <2>4
<1>3. Holds(s.size)
  BY <1>1, <1>2
<1>4. f[s.size].left \in 0 .. s.size
  BY <1>3 DEF LoopInv, LoopTypes
<1> QED
  BY <1>1, <1>3, <1>4

\* A product with a factor other than 0 is at least the other one.
LEMMA OneOrMore ==
  ASSUME NEW d \in Int, NEW T \in Nat
  PROVE  (d >= 1 => d * T >= T) /\ (d <= -1 => d * T <= -T)
  OBVIOUS

\* The number of packets there is memory for, from the number of those filled in.
LEMMA SurfaceCounted ==
  ASSUME NEW size \in Nat, NEW n \in Nat, size + TwoMeg - 1 < UintMod,
         size <= n * TwoMeg, n * TwoMeg < size + TwoMeg
  PROVE  PacketCount(size) = n
<1>1. TwoMeg \in Nat \ {0} /\ UintMod \in Nat \ {0}
  BY CopySplitAssumption
<1> DEFINE up == size + TwoMeg - 1
           q == up \div TwoMeg
<1>2. up \in Nat
  BY <1>1
<1>3. up % UintMod = up
  BY <1>1, <1>2
<1>4. up = q * TwoMeg + (up % TwoMeg) /\ q \in Nat /\ up % TwoMeg \in 0 .. TwoMeg - 1
  BY <1>1, <1>2, DivMod
<1>5. PacketCount(size) = q
  BY <1>3 DEF PacketCount
<1> HIDE DEF q, up
<1>6. PICK A \in Nat, B \in Nat, r \in Nat :
        A = q * TwoMeg /\ B = n * TwoMeg /\ r = up % TwoMeg
  <2>1. q * TwoMeg \in Nat /\ n * TwoMeg \in Nat
    BY <1>1, <1>4
  <2>2. up % TwoMeg \in Nat
    BY <1>4
  <2> QED
    BY <2>1, <2>2
<1>7. /\ up = A + r /\ r < TwoMeg /\ up = size + TwoMeg - 1
      /\ size <= B /\ B < size + TwoMeg
  BY <1>1, <1>4, <1>6 DEF up
<1>8. (q - n) * TwoMeg = A - B
  BY <1>1, <1>4, <1>6
<1>9. /\ q - n >= 1 => (q - n) * TwoMeg >= TwoMeg
      /\ q - n <= -1 => (q - n) * TwoMeg <= -TwoMeg
  <2>1. q - n \in Int
    BY <1>4
  <2> QED
    BY <1>1, <2>1, OneOrMore
<1>10. A - B < TwoMeg /\ A - B > -TwoMeg
  BY <1>1, <1>7
<1>11. q = n
  BY <1>1, <1>4, <1>6, <1>8, <1>9, <1>10
<1> QED
  BY <1>5, <1>11

\* What the runs check of a surface.
LEMMA PacketsCarry ==
  ASSUME TwoMeg % 4 = 0, NEW s \in Surfaces, s.size + TwoMeg - 1 < UintMod
  PROVE  /\ Len(PacketsOf(s)) = PacketCount(s.size)
         /\ \A i \in DOMAIN s.dst :
              \A k \in 0 .. s.size - 1 : Cardinality(Carriers(s, PacketsOf(s), k, i)) = 1
         /\ \A p \in {PacketsOf(s)[j] : j \in DOMAIN PacketsOf(s)} : PacketFits(s, p)
<1>1. SurfaceOK(s)
  <2>1. s.op \in {"copy", "fill"} /\ s.src \in Nat /\ s.size \in Nat
    BY CopySplitAssumption
  <2>2. s.dst \in Seq(Nat) /\ Len(s.dst) \in 1 .. MaxDst
    BY CopySplitAssumption
  <2>3. 1 \in DOMAIN s.dst
    BY <2>2, CopySplitAssumption
  <2> QED
    BY <2>1, <2>2, <2>3 DEF SurfaceOK
<1>2. s.size \in Nat
  BY <1>1 DEF SurfaceOK
<1>3. \E f : IsLoop(s, f, s.size)
  BY <1>2, LoopExists
<1> DEFINE f == CHOOSE g : IsLoop(s, g, s.size)
           at == f[s.size]
<1>4. IsLoop(s, f, s.size)
  BY <1>3
<1>5. PacketsOf(s) = at.packets
  BY PacketsFromLoop
<1> HIDE DEF f
<1>6. LoopInv(s, at) /\ at.left = 0
  BY <1>1, <1>4, LoopEnds
<1> HIDE DEF at
<1>7. /\ at.packets \in Seq(PacketRecords(s)) /\ Done(s, at) = s.size
      /\ s.size <= Len(at.packets) * TwoMeg
      /\ Len(at.packets) * TwoMeg < s.size + TwoMeg
  BY <1>2, <1>6 DEF LoopInv, LoopTypes, Counted, Done
<1>8. Len(at.packets) = PacketCount(s.size)
  <2>1. Len(at.packets) \in Nat
    BY <1>7
  <2> QED
    BY <1>2, <1>7, <2>1, SurfaceCounted
<1>9. ASSUME NEW i \in DOMAIN s.dst, NEW k \in 0 .. s.size - 1
      PROVE  Cardinality(Carriers(s, at.packets, k, i)) = 1
  <2>1. PICK j : Carriers(s, at.packets, k, i) = {j}
    BY <1>6, <1>7 DEF LoopInv, Carried
  <2> QED
    BY <2>1, FS_Singleton
<1> QED
  BY <1>5, <1>6, <1>8, <1>9 DEF LoopInv

\* What is built is one of the surfaces.
LEMMA SurfaceHere == Spec => [](surface = << >> \/ \E s \in Surfaces : surface = <<s>>)
<1> DEFINE Here == surface = << >> \/ \E s \in Surfaces : surface = <<s>>
<1>1. Init => Here
  BY DEF Init
<1>2. Here /\ [Next]_vars => Here'
  BY DEF Next, vars, BuildPacket, PlacePacket, Place, SubmitWptr, SubmitDoorbell,
         Wait4PacketConsumption, WaitOnValue, EngineFetch, EnginePerform
<1> QED
  BY <1>1, <1>2, PTL DEF Spec

\* The packets of a copy or a fill are as many as there is memory for, carry each byte
\* once to each destination and none behind the surface (SDMAPacket.cpp:68-163).  TWO_MEG
\* is a whole number of dwords; a size the rounding up of which wraps gets memory for too
\* few packets and is left out.
THEOREM SurfaceCarried ==
  ASSUME TwoMeg % 4 = 0, \A s \in Surfaces : s.size + TwoMeg - 1 < UintMod
  PROVE  Spec => []CarriesSurface
<1>1. (surface = << >> \/ \E s \in Surfaces : surface = <<s>>) => CarriesSurface
  <2> SUFFICES ASSUME surface = << >> \/ \E s \in Surfaces : surface = <<s>>,
                      NEW j \in DOMAIN surface
               PROVE  LET s == surface[j]
                          packets == PacketsOf(s)
                      IN /\ Len(packets) = PacketCount(s.size)
                         /\ \A i \in DOMAIN s.dst :
                              \A k \in 0 .. s.size - 1 :
                                Cardinality(Carriers(s, packets, k, i)) = 1
                         /\ \A p \in {packets[l] : l \in DOMAIN packets} : PacketFits(s, p)
    BY DEF CarriesSurface, PacketFits
  <2>1. surface[j] \in Surfaces
    OBVIOUS
  <2> QED
    BY <2>1, PacketsCarry
<1> QED
  BY <1>1, SurfaceHere, PTL

=============================================================================
