----------------------------- MODULE SdmaProofs -----------------------------
(***************************************************************************)
(* Proofs about Sdma, for rings, packets, memories and requests of every   *)
(* size.                                                                   *)
(***************************************************************************)
EXTENDS SdmaProps, Integers, SequenceTheorems, TLAPS

-----------------------------------------------------------------------------
(* Packets.                                                                *)

\* What the field count holds.
LEMMA CountField ==
  ASSUME NEW c \in Nat \ {0}, NEW s \in Nat \ {0}
  PROVE  /\ (s + c - 1) % c \in 0 .. s - 1
         /\ s <= c => (s + c - 1) % c = s - 1
<1> DEFINE q == (s - 1) \div c
           t == (s - 1) % c
<1>1. s - 1 = q * c + t /\ q \in Nat /\ t \in 0 .. c - 1
  OBVIOUS
<1> HIDE DEF q, t
<1>2. q * c \in Nat
  BY <1>1
<1>3. (q + 1) * c = q * c + c
  BY <1>1
<1>4. s + c - 1 = (q + 1) * c + t
  BY <1>1, <1>2, <1>3
<1>5. (s + c - 1) % c = t
  <2> DEFINE u == q + 1
  <2>1. u \in Nat /\ s + c - 1 = u * c + t
    BY <1>1, <1>4
  <2> HIDE DEF u
  <2>2. (u * c + t) % c = t
    BY <2>1, <1>1
  <2> QED  BY <2>1, <2>2
<1>6. s <= c => t = s - 1
  <2> SUFFICES ASSUME s <= c  PROVE t = s - 1
    OBVIOUS
  <2>1. q >= 1 => q * c >= c
    BY <1>1
  <2> QED  BY <1>1, <1>2, <2>1
<1> QED  BY <1>1, <1>2, <1>5, <1>6

\* The packet of a copy reads no more than the copy does.
LEMMA PacketOfCopy ==
  ASSUME NEW r \in Copies
  PROVE  /\ Packet(r) \in Packets
         /\ Packet(r).op = "copy" /\ Packet(r).dst = r.dst /\ Packet(r).src = r.src
         /\ Packet(r).count \in 0 .. r.size - 1
         /\ r.size <= CountMod => Packet(r).count = r.size - 1
<1>1. r \in Requests /\ r.op = "copy" /\ r.size \in Nat \ {0}
  BY SdmaAssumption DEF Copies
<1>2. /\ (r.size + CountMod - 1) % CountMod \in 0 .. r.size - 1
      /\ r.size <= CountMod => (r.size + CountMod - 1) % CountMod = r.size - 1
  BY <1>1, CountField, SdmaAssumption
<1>3. Packet(r) = [op |-> "copy", dst |-> r.dst, src |-> r.src,
                   count |-> (r.size + CountMod - 1) % CountMod]
  BY <1>1 DEF Packet
<1> QED  BY <1>1, <1>2, <1>3 DEF Packets

\* A write is its own packet.
LEMMA PacketOfWrite ==
  ASSUME NEW r \in Writes
  PROVE  /\ Packet(r) = r /\ r \in Packets
         /\ r.op = "write" /\ r.dst \in Cells /\ r.data \in Values
<1>1. r \in Requests /\ r.op = "write" /\ r.dst \in Cells /\ r.data \in Values
  BY SdmaAssumption DEF Writes
<1> QED  BY <1>1 DEF Packet, Packets

\* The cells a packet reads and writes.
LEMMA PacketFields ==
  ASSUME NEW p \in Packets
  PROVE  \/ p.op = "write" /\ p \in Writes /\ p.dst \in Cells /\ p.data \in Values
         \/ /\ p.op = "copy" /\ p.dst \in Nat /\ p.src \in Nat /\ p.count \in Nat
            /\ p.src .. p.src + p.count \subseteq Cells
<1>1. PICK r \in Requests : p = Packet(r)
  BY DEF Packets
<1>2. CASE r \in Writes
  BY <1>1, <1>2, PacketOfWrite
<1>3. CASE r \in Copies
  <2>1. r.dst \in Nat /\ r.src \in Nat /\ r.size \in Nat \ {0}
    BY <1>3, SdmaAssumption
  <2>2. r.src .. r.src + r.size - 1 \subseteq Cells
    BY <1>3, SdmaAssumption
  <2>3. /\ p.op = "copy" /\ p.dst = r.dst /\ p.src = r.src
        /\ p.count \in 0 .. r.size - 1
    BY <1>1, <1>3, PacketOfCopy
  <2> QED  BY <2>1, <2>2, <2>3
<1> QED  BY <1>2, <1>3, SdmaAssumption

\* The length of a packet.
LEMMA LengthType ==
  /\ \A op : Length(op) \in Nat \ {0}
  /\ \A r \in Copies : Length(r.op) = CopyDw
  /\ \A r \in Writes : Length(r.op) = WriteDw
BY SdmaAssumption DEF Length, Copies, Writes

\* Within the ring, a position is the index.
LEMMA PositionIs ==
  /\ \A i \in Nat : i % RingDw \in Positions
  /\ \A i \in Positions : i % RingDw = i
BY SdmaAssumption DEF Positions

-----------------------------------------------------------------------------
(* Types.                                                                  *)

\* A packet is placed within the ring, or not at all.
LEMMA PlaceType ==
  ASSUME TypeOK, NEW r \in Requests, Place(r), early' = early
  PROVE  /\ ring' \in [Positions -> Dwords]
         /\ CommandSize' \in 0 .. RingDw
         /\ pc' \in {"publish", "segv"}
<1>1. Length(r.op) \in Nat /\ RingDw \in Nat
  BY LengthType, SdmaAssumption
<1>2. Packet(r) \in Packets
  BY DEF Packets
<1>3. [is |-> "head", packet |-> Packet(r)] \in Dwords /\ BODY \in Dwords
  BY <1>2 DEF Dwords, BODY
<1> QED  BY <1>1, <1>3 DEF Place, TypeOK

\* The engine moves by one dword or by one packet.
LEMMA FetchType ==
  ASSUME TypeOK, EngineFetch
  PROVE  /\ fetch' \in Nat /\ hung' \in BOOLEAN
         /\ inflight' \in {<< >>} \cup {<<p>> : p \in Packets}
<1> DEFINE dword == ring[fetch % RingDw]
<1>1. dword \in Dwords
  BY PositionIs DEF TypeOK
<1>2. CASE dword.is = "nop"
  BY <1>2 DEF EngineFetch, TypeOK
<1>3. CASE dword.is = "head"
  <2>1. dword.packet \in Packets
    BY <1>1, <1>3 DEF Dwords
  <2>2. fetch + Length(dword.packet.op) \in Nat
    BY LengthType DEF TypeOK
  <2> QED  BY <1>3, <2>1, <2>2 DEF EngineFetch, TypeOK
<1>4. CASE dword.is = "body"
  BY <1>4 DEF EngineFetch, TypeOK
<1> QED  BY <1>2, <1>3, <1>4 DEF EngineFetch

\* A packet leaves memory what it was, a value in every cell.
LEMMA PerformType ==
  ASSUME TypeOK, EnginePerform
  PROVE  mem' \in [Cells -> Values]
<1>1. PICK p \in Packets : inflight = <<p>>
  BY DEF TypeOK, EnginePerform
<1>2. Head(inflight) = p
  BY <1>1
<1>3. CASE p.op = "write"
  <2>1. mem' = [mem EXCEPT ![p.dst] = p.data]
    BY <1>2, <1>3 DEF EnginePerform
  <2>2. p.data \in Values
    BY <1>3, PacketFields
  <2> QED  BY <2>1, <2>2 DEF TypeOK
<1>4. CASE p.op # "write"
  <2>1. mem' = [x \in Cells |-> IF x \in p.dst .. p.dst + p.count
                                THEN mem[p.src + (x - p.dst)] ELSE mem[x]]
    BY <1>2, <1>4 DEF EnginePerform
  <2>2. /\ p.dst \in Nat /\ p.src \in Nat /\ p.count \in Nat
        /\ p.src .. p.src + p.count \subseteq Cells
    BY <1>4, PacketFields
  <2>3. ASSUME NEW x \in Cells, x \in p.dst .. p.dst + p.count
        PROVE  p.src + (x - p.dst) \in Cells
    BY <2>2, <2>3
  <2> QED  BY <2>1, <2>3 DEF TypeOK
<1> QED  BY <1>3, <1>4

\* The ring, the indices and the engine keep their types: in particular no packet is
\* placed past the end of the ring, and no copy reads outside memory (sdma.cpp:6-8).
THEOREM SdmaTypeCorrect == Spec => []TypeOK
<1>1. Init => TypeOK
  <2> SUFFICES ASSUME Init  PROVE TypeOK
    OBVIOUS
  <2>1. ring \in [Positions -> Dwords]
    <3>1. NOP \in Dwords
      BY DEF NOP, Dwords
    <3> QED  BY <3>1 DEF Init
  <2>2. CommandSize \in 0 .. RingDw
    BY SdmaAssumption DEF Init
  <2>3. wptr \in Nat /\ doorbell \in Nat /\ rptr \in Nat /\ fetch \in Nat
    BY DEF Init
  <2>4. inflight \in {<< >>} \cup {<<p>> : p \in Packets}
    BY DEF Init
  <2> QED  BY <2>1, <2>2, <2>3, <2>4 DEF Init, TypeOK
<1>2. TypeOK /\ [Next]_vars => TypeOK'
  <2> SUFFICES ASSUME TypeOK, [Next]_vars  PROVE TypeOK'
    OBVIOUS
  <2>1. ASSUME NEW r \in Writes, BuildWrite(r)  PROVE TypeOK'
    BY <2>1, PlaceType, SdmaAssumption DEF BuildWrite, engine, TypeOK
  <2>2. ASSUME NEW r \in Copies, BuildCopy(r)  PROVE TypeOK'
    BY <2>2, PlaceType, SdmaAssumption DEF BuildCopy, engine, TypeOK
  <2>3. CASE PublishWrite
    BY <2>3 DEF PublishWrite, engine, TypeOK
  <2>4. CASE PublishCopy
    BY <2>4 DEF PublishCopy, engine, TypeOK
  <2>5. CASE RingDoorbell
    BY <2>5 DEF RingDoorbell, engine, TypeOK
  <2>6. CASE Poll
    BY <2>6 DEF Poll, engine, TypeOK
  <2>7. ASSUME NEW x \in Cells, NEW v \in Values, HostStore(x, v)  PROVE TypeOK'
    BY <2>7 DEF HostStore, host, engine, TypeOK
  <2>8. CASE EngineFetch
    BY <2>8, FetchType DEF EngineFetch, host, TypeOK
  <2>9. CASE EnginePerform
    BY <2>9, PerformType DEF EnginePerform, host, TypeOK
  <2>10. CASE EngineReport
    BY <2>10 DEF EngineReport, host, TypeOK
  <2>11. CASE UNCHANGED vars
    BY <2>11 DEF vars, host, engine, TypeOK
  <2> QED
    BY <2>1, <2>2, <2>3, <2>4, <2>5, <2>6, <2>7, <2>8, <2>9, <2>10, <2>11
    DEF Next, Host, Engine
<1> QED  BY <1>1, <1>2, PTL DEF Spec

-----------------------------------------------------------------------------
(* A thread that only copies.                                              *)

\* Where the packet of the last call begins.
LastPacket == CommandSize - CopyDw

\* Between calls all indices are at the end of what was built.  In a call they are
\* there but for the steps that remain: the host publishes, tells the engine and waits,
\* and the engine takes the packet and reports it.
InStepInv ==
  /\ ~ hung
  /\ \A i \in Positions : i >= CommandSize => ring[i] = NOP
  /\ pc \in {"idle", "assert", "segv"} =>
       fetch = CommandSize /\ rptr = fetch /\ doorbell = fetch /\ wptr = fetch
  /\ pc \in {"publish", "doorbell", "poll"} =>
       /\ LastPacket \in Positions
       /\ ring[LastPacket] = [is |-> "head", packet |-> Packet(request)]
  /\ pc \in {"publish", "doorbell"} => fetch = LastPacket /\ rptr = fetch /\ doorbell = fetch
  /\ pc = "publish" => wptr = fetch
  /\ pc = "doorbell" => wptr = CommandSize
  /\ pc = "poll" => /\ doorbell = CommandSize /\ wptr = CommandSize
                    /\ <<fetch, rptr>> \in {<<LastPacket, LastPacket>>,
                                           <<CommandSize, LastPacket>>,
                                           <<CommandSize, CommandSize>>}
  /\ early \/ inflight = << >> \/ rptr # fetch

CopyInv == TypeOK /\ InStepInv

\* A copy built puts the head of its packet where the indices are.
LEMMA BuildCopyInStep ==
  ASSUME CopyInv, NEW r \in Copies, BuildCopy(r)
  PROVE  InStepInv'
<1>1. /\ fetch = CommandSize /\ rptr = fetch /\ doorbell = fetch /\ wptr = fetch
      /\ fetch' = fetch /\ rptr' = rptr /\ doorbell' = doorbell /\ wptr' = wptr
      /\ hung' = hung /\ early' = early /\ inflight' = inflight /\ request' = r
  BY DEF BuildCopy, CopyInv, InStepInv, engine
<1>2. Length(r.op) = CopyDw /\ CopyDw \in Nat \ {0} /\ RingDw \in Nat
  BY LengthType, SdmaAssumption
<1>3. CASE r.size < MaxCopy /\ CommandSize + CopyDw <= RingDw
  <2>1. /\ CommandSize' = CommandSize + CopyDw
        /\ pc' = "publish"
        /\ ring' = [i \in Positions |->
                     IF i = CommandSize THEN [is |-> "head", packet |-> Packet(r)]
                     ELSE IF i \in CommandSize .. CommandSize + CopyDw - 1 THEN BODY
                     ELSE ring[i]]
    BY <1>2, <1>3 DEF BuildCopy, Place, CopyInv, TypeOK
  <2>2. CommandSize \in Positions /\ LastPacket' = CommandSize
    BY <1>2, <1>3, <2>1 DEF CopyInv, TypeOK, LastPacket, Positions
  <2>3. ring'[LastPacket'] = [is |-> "head", packet |-> Packet(request')]
    BY <1>1, <2>1, <2>2
  <2>4. \A i \in Positions : i >= CommandSize' => ring'[i] = NOP
    BY <1>2, <2>1 DEF CopyInv, InStepInv, TypeOK, Positions
  <2> QED  BY <1>1, <2>1, <2>2, <2>3, <2>4 DEF CopyInv, InStepInv
<1>4. CASE ~ (r.size < MaxCopy /\ CommandSize + CopyDw <= RingDw)
  <2>1. /\ pc' \in {"assert", "segv"}
        /\ ring' = ring /\ CommandSize' = CommandSize
    BY <1>2, <1>4 DEF BuildCopy, Place, CopyInv, TypeOK
  <2> QED  BY <1>1, <2>1 DEF CopyInv, InStepInv
<1> QED  BY <1>3, <1>4

\* The engine reads on only in a call, and then finds the head of the call's packet.
LEMMA FetchInStep ==
  ASSUME CopyInv, EngineFetch, Writes = {}
  PROVE  /\ pc = "poll" /\ fetch = LastPacket /\ rptr = LastPacket
         /\ LastPacket \in Positions
         /\ fetch' = CommandSize /\ hung' = FALSE
         /\ inflight' = <<Packet(request)>>
<1>1. pc = "poll" /\ fetch = LastPacket /\ rptr = LastPacket /\ LastPacket \in Positions
  <2>1. fetch < doorbell /\ fetch # doorbell
    BY DEF EngineFetch, CopyInv, TypeOK
  <2>2. pc = "poll"
    <3>1. pc \in {"idle", "assert", "segv"} => fetch = doorbell
      BY DEF CopyInv, InStepInv
    <3>2. pc \in {"publish", "doorbell"} => fetch = doorbell
      BY DEF CopyInv, InStepInv
    <3> QED  BY <2>1, <3>1, <3>2 DEF CopyInv, TypeOK
  <2>3. fetch = LastPacket /\ rptr = LastPacket
    BY <2>1, <2>2 DEF CopyInv, InStepInv
  <2> QED  BY <2>2, <2>3 DEF CopyInv, InStepInv
<1>2. ring[fetch % RingDw] = [is |-> "head", packet |-> Packet(request)]
  BY <1>1, PositionIs DEF CopyInv, InStepInv
<1>3. request \in Copies
  BY SdmaAssumption DEF CopyInv, TypeOK
<1>4. Length(Packet(request).op) = CopyDw /\ fetch + CopyDw = CommandSize
  BY <1>1, <1>3, PacketOfCopy, SdmaAssumption DEF Length, LastPacket, CopyInv, TypeOK
<1> QED  BY <1>1, <1>2, <1>4 DEF EngineFetch, CopyInv, InStepInv

\* The invariant is inductive.
LEMMA CopyInvStep ==
  ASSUME CopyInv, TypeOK', [Next]_vars, Writes = {}
  PROVE  CopyInv'
<1>1. CopyDw \in Nat \ {0}
  BY SdmaAssumption
<1>2. request \in Copies /\ request.op = "copy"
  BY SdmaAssumption DEF CopyInv, TypeOK, Copies
<1>3. ASSUME NEW r \in Copies, BuildCopy(r)  PROVE InStepInv'
  BY <1>3, BuildCopyInStep
<1>4. CASE PublishWrite
  BY <1>2, <1>4 DEF PublishWrite
<1>5. CASE PublishCopy
  BY <1>5 DEF PublishCopy, engine, CopyInv, InStepInv, LastPacket
<1>6. CASE RingDoorbell
  BY <1>6 DEF RingDoorbell, engine, CopyInv, InStepInv, LastPacket
<1>7. CASE Poll
  <2>1. LastPacket # CommandSize
    BY <1>1 DEF LastPacket, CopyInv, TypeOK
  <2> QED  BY <2>1, <1>7 DEF Poll, engine, CopyInv, InStepInv
<1>8. ASSUME NEW x \in Cells, NEW v \in Values, HostStore(x, v)  PROVE InStepInv'
  BY <1>8 DEF HostStore, host, engine, CopyInv, InStepInv, LastPacket
<1>9. CASE EngineFetch
  <2>1. LastPacket # CommandSize
    BY <1>1 DEF LastPacket, CopyInv, TypeOK
  <2> QED
    BY <2>1, <1>9, FetchInStep DEF EngineFetch, host, CopyInv, InStepInv, LastPacket
<1>10. CASE EnginePerform
  BY <1>10 DEF EnginePerform, host, CopyInv, InStepInv, LastPacket
<1>11. CASE EngineReport
  BY <1>11 DEF EngineReport, host, CopyInv, InStepInv, LastPacket
<1>12. CASE UNCHANGED vars
  BY <1>12 DEF vars, host, engine, CopyInv, InStepInv, LastPacket
<1> QED
  BY <1>3, <1>4, <1>5, <1>6, <1>7, <1>8, <1>9, <1>10, <1>11, <1>12
  DEF Next, Host, Engine, CopyInv

\* The invariant holds throughout.
THEOREM CopyInvCorrect ==
  ASSUME Writes = {}
  PROVE  Spec => []CopyInv
<1>1. Init => InStepInv
  BY DEF Init, InStepInv
<1>2. TypeOK /\ Init => CopyInv
  BY <1>1 DEF CopyInv
<1>3. CopyInv /\ TypeOK' /\ [Next]_vars => CopyInv'
  BY CopyInvStep
<1> QED  BY <1>2, <1>3, SdmaTypeCorrect, PTL DEF Spec

\* If the thread only copies, host and engine agree between calls where the next packet
\* starts, and the engine never takes the middle of a packet for a header
\* (sdma.cpp:306-308, 467-471).
THEOREM CopiesInStep ==
  ASSUME Writes = {}
  PROVE  Spec => []EngineInStep
<1>1. CopyInv => EngineInStep
  BY DEF CopyInv, InStepInv, EngineInStep
<1> QED  BY <1>1, CopyInvCorrect, PTL

-----------------------------------------------------------------------------
(* Copies implement the abstract order of requests.                        *)

Flying == IF inflight = << >> THEN << >> ELSE <<RequestOf(Head(inflight))>>

Ahead == IF fetch < CommandSize /\ ring[fetch].is = "head"
         THEN <<RequestOf(ring[fetch].packet)>> ELSE << >>

Calling == pc \in {"publish", "doorbell", "poll"}

\* A sequence of two, taken apart.
LEMMA TwoOutstanding ==
  ASSUME NEW a, NEW b
  PROVE  /\ <<a>> \o <<b>> # << >> /\ Head(<<a>> \o <<b>>) = a
         /\ Tail(<<a>> \o <<b>>) = << >> \o <<b>>
<1> DEFINE S == {a, b}
<1>1. <<a>> \in Seq(S) /\ <<b>> \in Seq(S) /\ << >> \in Seq(S)
  OBVIOUS
<1>2. <<a>> \o <<b>> \in Seq(S) /\ << >> \o <<b>> \in Seq(S)
  BY <1>1
<1>3. Len(<<a>> \o <<b>>) = 2 /\ Len(<< >> \o <<b>>) = 1
  BY <1>1
<1>4. (<<a>> \o <<b>>)[1] = a /\ (<<a>> \o <<b>>)[2] = b /\ (<< >> \o <<b>>)[1] = b
  BY <1>1
<1>5. Tail(<<a>> \o <<b>>) \in Seq(S) /\ Len(Tail(<<a>> \o <<b>>)) = 1
  BY <1>2, <1>3
<1>6. Tail(<<a>> \o <<b>>)[1] = b
  BY <1>2, <1>3, <1>4
<1>7. Tail(<<a>> \o <<b>>) = << >> \o <<b>>
  <2> DEFINE s == Tail(<<a>> \o <<b>>)
             t == << >> \o <<b>>
  <2>1. s \in Seq(S) /\ t \in Seq(S) /\ Len(s) = 1 /\ Len(t) = 1 /\ s[1] = t[1]
    BY <1>2, <1>3, <1>4, <1>5, <1>6
  <2> HIDE DEF S, s, t
  <2>2. \A i \in 1 .. Len(s) : s[i] = t[i]
    BY <2>1
  <2>3. s = t
    BY <2>1, <2>2, SeqEqual
  <2> QED  BY <2>3 DEF s, t
<1> QED  BY <1>2, <1>3, <1>4, <1>7

\* The engine's step on the packet in flight, as the request it stands for.
LEMMA PerformIsEffect ==
  ASSUME NEW p \in Packets, p.op # "write"
  PROVE  Order!Effect(mem, RequestOf(p)) =
           [x \in Cells |-> IF x \in p.dst .. p.dst + p.count
                            THEN mem[p.src + (x - p.dst)] ELSE mem[x]]
<1>1. /\ RequestOf(p).op = "copy" /\ RequestOf(p).dst = p.dst
      /\ RequestOf(p).src = p.src /\ RequestOf(p).size = p.count + 1
  BY DEF RequestOf
<1>2. p.dst \in Nat /\ p.count \in Nat
  BY PacketFields
<1>3. p.dst + (p.count + 1) - 1 = p.dst + p.count
  BY <1>2
<1> QED  BY <1>1, <1>3 DEF Order!Effect

\* The packet of a copy the assert lets pass stands for that copy.
LEMMA RequestOfPacket ==
  ASSUME NEW r \in Copies, r.size < MaxCopy
  PROVE  RequestOf(Packet(r)) = r
<1>1. r \in [op : {"copy"}, dst : Cells, src : Cells, size : Nat \ {0}]
  BY SdmaAssumption
<1>2. r.size <= CountMod
  BY <1>1, SdmaAssumption
<1>3. /\ Packet(r).op = "copy" /\ Packet(r).dst = r.dst /\ Packet(r).src = r.src
      /\ Packet(r).count = r.size - 1
  BY <1>2, PacketOfCopy
<1>4. RequestOf(Packet(r)) = [op |-> "copy", dst |-> r.dst, src |-> r.src, size |-> r.size]
  BY <1>1, <1>3 DEF RequestOf
<1> QED  BY <1>1, <1>4

\* A copy built is a request made.
LEMMA BuildCopyRefines ==
  ASSUME CopyInv, NEW r \in Copies, BuildCopy(r)
  PROVE  [Order!Next]_Order!vars
<1>1. /\ fetch = CommandSize /\ fetch' = fetch /\ inflight' = inflight
      /\ mem' = mem /\ early' = early /\ ~ Calling
  BY DEF BuildCopy, CopyInv, InStepInv, engine, Calling
<1>2. Length(r.op) = CopyDw /\ CopyDw \in Nat \ {0} /\ RingDw \in Nat
  BY LengthType, SdmaAssumption
<1>3. Flying' = Flying /\ (Flying = << >> \/ Flying = <<RequestOf(Head(inflight))>>)
  BY <1>1 DEF Flying
<1>4. Ahead = << >>
  BY <1>1 DEF Ahead, CopyInv, TypeOK
<1>5. CASE r.size < MaxCopy /\ CommandSize + CopyDw <= RingDw
  <2>1. /\ CommandSize' = CommandSize + CopyDw
        /\ pc' = "publish"
        /\ ring' = [i \in Positions |->
                     IF i = CommandSize THEN [is |-> "head", packet |-> Packet(r)]
                     ELSE IF i \in CommandSize .. CommandSize + CopyDw - 1 THEN BODY
                     ELSE ring[i]]
    BY <1>2, <1>5 DEF BuildCopy, Place, CopyInv, TypeOK
  <2>2. CommandSize \in Positions /\ fetch' < CommandSize'
    BY <1>1, <1>2, <1>5, <2>1 DEF CopyInv, TypeOK, Positions
  <2>3. ring'[fetch'] = [is |-> "head", packet |-> Packet(r)]
    BY <1>1, <2>1, <2>2
  <2>4. Ahead' = <<r>>
    BY <1>5, <2>2, <2>3, RequestOfPacket DEF Ahead
  <2>5. Outstanding = Flying \o << >> /\ Outstanding' = Flying \o <<r>>
    BY <1>3, <1>4, <2>4 DEF Outstanding, Flying, Ahead
  <2>6. Outstanding' = Append(Outstanding, r)
    BY <1>3, <2>5
  <2>7. Order!Call(r)
    BY <1>1, <2>1, <2>6 DEF Order!Call, Calling
  <2> QED  BY <2>7, SdmaAssumption DEF Order!Next
<1>6. CASE ~ (r.size < MaxCopy /\ CommandSize + CopyDw <= RingDw)
  <2>1. /\ pc' \in {"assert", "segv"}
        /\ ring' = ring /\ CommandSize' = CommandSize
    BY <1>2, <1>6 DEF BuildCopy, Place, CopyInv, TypeOK
  <2> QED  BY <1>1, <2>1 DEF Order!vars, Outstanding, Calling
<1> QED  BY <1>5, <1>6

\* The poll ends when nothing is outstanding, or the engine reports early.
LEMMA PollRefines ==
  ASSUME CopyInv, Poll
  PROVE  Order!Next
<1>1. fetch = CommandSize /\ rptr = fetch
  BY DEF Poll, CopyInv, InStepInv
<1>2. Ahead = << >>
  BY <1>1 DEF Ahead, CopyInv, TypeOK
<1>3. ~ early => Flying = << >>
  BY <1>1 DEF Flying, CopyInv, InStepInv
<1>4. ~ early => Outstanding = << >>
  BY <1>2, <1>3 DEF Outstanding, Flying, Ahead
<1>5. Outstanding' = Outstanding /\ mem' = mem /\ early' = early
  BY DEF Poll, engine, Outstanding
<1>6. Order!Return
  BY <1>4, <1>5 DEF Poll, Order!Return
<1> QED  BY <1>6 DEF Order!Next

\* A fetch moves the packet ahead into flight.
LEMMA FetchRefines ==
  ASSUME CopyInv, EngineFetch, Writes = {}
  PROVE  UNCHANGED Order!vars
<1>1. /\ fetch = LastPacket /\ LastPacket \in Positions /\ pc = "poll"
      /\ fetch' = CommandSize /\ inflight' = <<Packet(request)>>
  BY FetchInStep
<1>2. ring[fetch] = [is |-> "head", packet |-> Packet(request)]
  BY <1>1 DEF CopyInv, InStepInv
<1>3. LastPacket < CommandSize
  BY SdmaAssumption DEF LastPacket, CopyInv, TypeOK
<1>4. Flying = << >> /\ Ahead = <<RequestOf(Packet(request))>>
  BY <1>1, <1>2, <1>3 DEF EngineFetch, Flying, Ahead
<1>5. Flying' = <<RequestOf(Packet(request))>>
  BY <1>1 DEF Flying
<1>6. Ahead' = << >>
  BY <1>1 DEF EngineFetch, host, Ahead, CopyInv, TypeOK
<1>7. Outstanding' = Outstanding
  BY <1>4, <1>5, <1>6 DEF Outstanding, Flying, Ahead
<1> QED  BY <1>7 DEF EngineFetch, host, Order!vars

\* A packet performed is its request performed, whole.
LEMMA PerformRefines ==
  ASSUME CopyInv, EnginePerform, Writes = {}
  PROVE  Order!Next
<1>1. PICK p \in Packets : inflight = <<p>>
  BY DEF CopyInv, TypeOK, EnginePerform
<1>2. Head(inflight) = p /\ inflight # << >>
  BY <1>1
<1>3. p.op # "write"
  BY PacketFields
<1>4. mem' = Order!Effect(mem, RequestOf(p))
  BY <1>2, <1>3, PerformIsEffect DEF EnginePerform
<1>5. Flying = <<RequestOf(p)>> /\ Flying' = << >>
  BY <1>2 DEF EnginePerform, Flying
<1>6. Ahead' = Ahead
  BY DEF EnginePerform, host, Ahead
<1>7. Ahead = << >> \/ Ahead = <<RequestOf(ring[fetch].packet)>>
  BY DEF Ahead
<1>8. /\ Outstanding = <<RequestOf(p)>> \o Ahead
      /\ Outstanding' = << >> \o Ahead
  BY <1>5, <1>6 DEF Outstanding, Flying, Ahead
<1>9. /\ Outstanding # << >> /\ Head(Outstanding) = RequestOf(p)
      /\ Outstanding' = Tail(Outstanding)
  <2>1. CASE Ahead = << >>
    BY <1>8, <2>1
  <2>2. CASE Ahead = <<RequestOf(ring[fetch].packet)>>
    BY <1>8, <2>2, TwoOutstanding
  <2> QED  BY <1>7, <2>1, <2>2
<1>10. Order!Perform
  BY <1>4, <1>9 DEF EnginePerform, host, Order!Perform
<1> QED  BY <1>10 DEF Order!Next

\* If the thread only copies, the requests are performed whole, once each and in the
\* order of the calls; by an engine that is not early, each before its call returns
\* (sdma.cpp:460-484).
THEOREM CopiesInOrder ==
  ASSUME Writes = {}
  PROVE  Spec => ImplementsOrder
<1>1. Init => Order!Init
  <2> SUFFICES ASSUME Init  PROVE Order!Init
    OBVIOUS
  <2>1. Flying = << >> /\ Ahead = << >>
    BY DEF Init, Flying, Ahead
  <2>2. Outstanding = << >>
    BY <2>1 DEF Outstanding, Flying, Ahead
  <2> QED  BY <2>2, SdmaAssumption DEF Init, Order!Init
<1>2. CopyInv /\ [Next]_vars => [Order!Next]_Order!vars
  <2> SUFFICES ASSUME CopyInv, [Next]_vars  PROVE [Order!Next]_Order!vars
    OBVIOUS
  <2>1. ASSUME NEW r \in Copies, BuildCopy(r)  PROVE [Order!Next]_Order!vars
    BY <2>1, BuildCopyRefines
  <2>2. request.op = "copy"
    BY SdmaAssumption DEF CopyInv, TypeOK, Copies
  <2>3. CASE PublishWrite
    BY <2>2, <2>3 DEF PublishWrite
  <2>4. CASE PublishCopy
    BY <2>4 DEF PublishCopy, engine, Order!vars, Outstanding
  <2>5. CASE RingDoorbell
    BY <2>5 DEF RingDoorbell, engine, Order!vars, Outstanding
  <2>6. CASE Poll
    BY <2>6, PollRefines
  <2>7. ASSUME NEW x \in Cells, NEW v \in Values, HostStore(x, v)  PROVE Order!Next
    <3>1. Order!Store(x, v)
      BY <2>7 DEF HostStore, host, engine, Order!Store, Outstanding
    <3> QED  BY <3>1 DEF Order!Next
  <2>8. CASE EngineFetch
    BY <2>8, FetchRefines
  <2>9. CASE EnginePerform
    BY <2>9, PerformRefines
  <2>10. CASE EngineReport
    BY <2>10 DEF EngineReport, host, Order!vars, Outstanding
  <2>11. CASE UNCHANGED vars
    BY <2>11 DEF vars, host, engine, Order!vars, Outstanding
  <2> QED
    BY <2>1, <2>3, <2>4, <2>5, <2>6, <2>7, <2>8, <2>9, <2>10, <2>11
    DEF Next, Host, Engine
<1> QED  BY <1>1, <1>2, CopyInvCorrect, PTL DEF Spec, ImplementsOrder, Order!Spec

-----------------------------------------------------------------------------
(* A thread that copies and writes, with an engine that is not early.      *)

\* Where the packet of the last call begins, be it a copy or a write.
LastHead == CommandSize - Length(request.op)

\* The packet with its head at i ends at n or before.
EndsBy(i, n) == i + Length(ring[i].packet.op) <= n

\* The ring holds whole packets up to CommandSize, the last one the call's.
PackedInv ==
  /\ \A i \in Positions : i >= CommandSize => ring[i] = NOP
  /\ \A i \in Positions : ring[i].is = "head" => EndsBy(i, CommandSize)
  /\ Calling => /\ LastHead \in Positions
                /\ ring[LastHead] = [is |-> "head", packet |-> Packet(request)]
                /\ \A i \in Positions :
                     ring[i].is = "head" /\ i < LastHead => EndsBy(i, LastHead)

\* The engine rests outside calls.  In a call it goes on to the index published, unless
\* it is past that already; the packet in flight is not reported.
IndexInv ==
  /\ ~ early
  /\ inflight # << >> => pc = "poll" /\ rptr < fetch
  /\ pc # "poll" => rptr = fetch /\ doorbell = fetch
  /\ pc = "idle" => wptr = fetch
  /\ pc = "poll" => /\ doorbell = wptr /\ rptr <= fetch
                    /\ fetch <= wptr \/ rptr = fetch

\* A write published in step is ahead of the engine, in flight, or in memory with
\* nothing but NOPs ahead.
WriteInv ==
  /\ pc = "doorbell" /\ request.op = "write" => wptr = fetch + CommandSize
  /\ pc = "poll" /\ request.op = "write" =>
       /\ wptr >= CommandSize
       /\ wptr - CommandSize <= LastHead /\ wptr <= RingDw =>
            \/ fetch <= LastHead
            \/ /\ fetch >= CommandSize
               /\ \/ inflight = <<request>>
                  \/ inflight = << >> /\ mem[request.dst] = request.data

MixedInv == TypeOK /\ PackedInv /\ IndexInv /\ WriteInv

\* The packet of a request has the request's length.
LEMMA PacketLength ==
  ASSUME NEW r \in Requests
  PROVE  Length(Packet(r).op) = Length(r.op)
BY SdmaAssumption, PacketOfCopy, PacketOfWrite DEF Length, Copies

\* Building a packet keeps the ring packed; nobody else is touched.
LEMMA BuildMixed ==
  ASSUME MixedInv, NEW r \in Requests, pc = "idle", Place(r), request' = r,
         UNCHANGED <<wptr, doorbell, engine, mem>>
  PROVE  PackedInv' /\ IndexInv' /\ WriteInv'
<1> DEFINE n == Length(r.op)
<1>1. n \in Nat \ {0} /\ RingDw \in Nat /\ CommandSize \in Nat
  BY LengthType, SdmaAssumption DEF MixedInv, TypeOK
<1>2. Length(Packet(r).op) = n
  BY PacketLength
<1> HIDE DEF n
<1>3. CASE CommandSize + n <= RingDw
  <2>1. /\ CommandSize' = CommandSize + n
        /\ pc' = "publish"
        /\ ring' = [i \in Positions |->
                     IF i = CommandSize THEN [is |-> "head", packet |-> Packet(r)]
                     ELSE IF i \in CommandSize .. CommandSize + n - 1 THEN BODY
                     ELSE ring[i]]
    BY <1>1, <1>3 DEF Place, n
  <2>2. CommandSize \in Positions /\ LastHead' = CommandSize
    BY <1>1, <1>3, <2>1 DEF LastHead, Positions, n
  <2>3. ring'[CommandSize] = [is |-> "head", packet |-> Packet(r)]
    BY <2>1, <2>2
  <2>4. ASSUME NEW i \in Positions, i >= CommandSize'  PROVE ring'[i] = NOP
    BY <1>1, <2>1, <2>4 DEF MixedInv, PackedInv, Positions
  <2>5. ASSUME NEW i \in Positions, ring'[i].is = "head", i # CommandSize
        PROVE  i < CommandSize /\ i + Length(ring'[i].packet.op) <= CommandSize
    <3>1. i \notin CommandSize .. CommandSize + n - 1
      BY <1>1, <2>1, <2>5 DEF BODY
    <3>2. ring'[i] = ring[i]
      BY <2>1, <2>5, <3>1
    <3>3. i < CommandSize
      BY <1>1, <2>5, <3>2 DEF MixedInv, PackedInv, NOP, Positions
    <3>4. i + Length(ring[i].packet.op) <= CommandSize
      BY <2>5, <3>2 DEF MixedInv, PackedInv, EndsBy
    <3> QED  BY <3>2, <3>3, <3>4
  <2>6. CommandSize + Length(ring'[CommandSize].packet.op) = CommandSize + n
    BY <1>2, <2>3
  <2>7. \A i \in Positions :
          ring'[i].is = "head" => i + Length(ring'[i].packet.op) <= CommandSize + n
    <3> SUFFICES ASSUME NEW i \in Positions, ring'[i].is = "head"
                 PROVE  i + Length(ring'[i].packet.op) <= CommandSize + n
      OBVIOUS
    <3>1. Length(ring'[i].packet.op) \in Nat /\ i \in Nat
      BY LengthType DEF Positions
    <3> QED  BY <1>1, <2>5, <2>6, <3>1
  <2>8. PackedInv'
    <3>1. LastHead' \in Positions
          /\ ring'[LastHead'] = [is |-> "head", packet |-> Packet(request')]
      BY <2>2, <2>3
    <3>2. \A i \in Positions : ring'[i].is = "head" /\ i < LastHead'
             => i + Length(ring'[i].packet.op) <= LastHead'
      <4> SUFFICES ASSUME NEW i \in Positions, ring'[i].is = "head", i < LastHead'
                   PROVE  i + Length(ring'[i].packet.op) <= LastHead'
        OBVIOUS
      <4>1. i # CommandSize
        BY <1>1, <2>2 DEF Positions
      <4> QED  BY <2>2, <2>5, <4>1
    <3> QED  BY <2>1, <2>4, <2>7, <3>1, <3>2 DEF PackedInv, EndsBy
  <2> QED  BY <2>1, <2>8 DEF MixedInv, IndexInv, WriteInv, engine
<1>4. CASE ~ (CommandSize + n <= RingDw)
  <2>1. pc' = "segv" /\ ring' = ring /\ CommandSize' = CommandSize
    BY <1>1, <1>4 DEF Place, n
  <2>2. PackedInv'
    BY <2>1 DEF MixedInv, PackedInv, EndsBy, Calling
  <2> QED  BY <2>1, <2>2 DEF MixedInv, IndexInv, WriteInv, engine
<1> QED  BY <1>3, <1>4

\* What the engine can find in a call in step: before the packet, nothing that reaches
\* past its head; at its head, the packet; behind it, NOPs.
LEMMA FetchInStepOf ==
  ASSUME MixedInv, EngineFetch, wptr <= RingDw
  PROVE  /\ pc = "poll" /\ doorbell = wptr
         /\ fetch < LastHead => fetch' <= LastHead
         /\ fetch = LastHead => /\ fetch' = CommandSize
                                /\ inflight' = <<Packet(request)>>
         /\ fetch >= CommandSize => fetch' = fetch + 1 /\ inflight' = << >>
<1>1. pc = "poll" /\ doorbell = wptr /\ fetch < doorbell
  <2>1. fetch < doorbell /\ fetch # doorbell
    BY DEF EngineFetch, MixedInv, TypeOK
  <2>2. pc = "poll"
    BY <2>1 DEF MixedInv, IndexInv
  <2> QED  BY <2>1, <2>2 DEF MixedInv, IndexInv
<1>2. fetch \in Positions /\ fetch % RingDw = fetch
  <2>1. fetch \in Nat /\ wptr \in Nat /\ RingDw \in Nat /\ doorbell \in Nat
    BY SdmaAssumption DEF MixedInv, TypeOK
  <2>2. fetch \in Positions
    BY <1>1, <2>1 DEF Positions
  <2> QED  BY <2>2, PositionIs
<1>3. /\ LastHead \in Positions /\ LastHead < CommandSize
      /\ ring[LastHead] = [is |-> "head", packet |-> Packet(request)]
      /\ CommandSize = LastHead + Length(request.op)
  <2>1. Length(request.op) \in Nat \ {0} /\ CommandSize \in Nat
    BY LengthType, SdmaAssumption DEF MixedInv, TypeOK
  <2>2. Calling
    BY <1>1 DEF Calling
  <2> QED  BY <2>1, <2>2 DEF LastHead, MixedInv, PackedInv
<1>4. ASSUME fetch < LastHead  PROVE fetch' <= LastHead
  <2>1. fetch \in Nat /\ LastHead \in Nat
    BY <1>2, <1>3 DEF Positions
  <2>2. ring[fetch].is = "head" => fetch + Length(ring[fetch].packet.op) <= LastHead
    BY <1>1, <1>2, <1>4 DEF MixedInv, PackedInv, EndsBy, Calling
  <2> QED  BY <1>2, <1>4, <2>1, <2>2 DEF EngineFetch
<1>5. ASSUME fetch = LastHead
      PROVE  fetch' = CommandSize /\ inflight' = <<Packet(request)>>
  <2>1. request \in Requests
    BY DEF MixedInv, TypeOK
  <2> QED  BY <1>2, <1>3, <1>5, <2>1, PacketLength DEF EngineFetch
<1>6. ASSUME fetch >= CommandSize  PROVE fetch' = fetch + 1 /\ inflight' = << >>
  <2>1. ring[fetch].is = "nop"
    BY <1>2, <1>6 DEF MixedInv, PackedInv, NOP
  <2> QED  BY <1>2, <2>1 DEF EngineFetch
<1> QED  BY <1>1, <1>4, <1>5, <1>6

\* A step of the engine keeps a write published in step so.
LEMMA FetchKeepsWrite ==
  ASSUME MixedInv, EngineFetch
  PROVE  WriteInv'
<1>1. /\ pc' = pc /\ request' = request /\ wptr' = wptr /\ CommandSize' = CommandSize
      /\ mem' = mem /\ LastHead' = LastHead /\ inflight = << >>
  BY DEF EngineFetch, host, LastHead
<1>2. pc # "doorbell"
  <2>1. fetch # doorbell
    BY DEF EngineFetch, MixedInv, TypeOK
  <2> QED  BY <2>1 DEF MixedInv, IndexInv
<1>3. ASSUME pc = "poll", request.op = "write",
             wptr - CommandSize <= LastHead, wptr <= RingDw
      PROVE  \/ fetch' <= LastHead
             \/ /\ fetch' >= CommandSize
                /\ \/ inflight' = <<request>>
                   \/ inflight' = << >> /\ mem[request.dst] = request.data
  <2>1. CASE fetch < LastHead
    BY <1>3, <2>1, FetchInStepOf
  <2>2. CASE fetch = LastHead
    <3>1. Packet(request) = request
      BY <1>3 DEF Packet
    <3>2. CommandSize >= CommandSize
      BY DEF MixedInv, TypeOK
    <3> QED  BY <1>3, <2>2, <3>1, <3>2, FetchInStepOf
  <2>3. CASE fetch >= CommandSize /\ mem[request.dst] = request.data
    <3>1. fetch + 1 >= CommandSize
      BY <2>3 DEF MixedInv, TypeOK
    <3> QED  BY <1>3, <2>3, <3>1, FetchInStepOf
  <2> QED  
    <3>1. fetch <= LastHead => fetch < LastHead \/ fetch = LastHead
      BY LengthType DEF LastHead, MixedInv, TypeOK
    <3> QED  BY <1>1, <1>3, <2>1, <2>2, <2>3, <3>1 DEF MixedInv, WriteInv
<1> QED  BY <1>1, <1>2, <1>3 DEF MixedInv, WriteInv

\* The write in flight is in memory once performed.
LEMMA PerformKeepsWrite ==
  ASSUME MixedInv, EnginePerform
  PROVE  WriteInv'
<1>1. /\ pc' = pc /\ request' = request /\ wptr' = wptr /\ CommandSize' = CommandSize
      /\ fetch' = fetch /\ LastHead' = LastHead /\ inflight' = << >>
  BY DEF EnginePerform, host, LastHead
<1>2. inflight = <<request>> /\ request.op = "write" => mem'[request.dst] = request.data
  <2> SUFFICES ASSUME inflight = <<request>>, request.op = "write"
               PROVE  mem'[request.dst] = request.data
    OBVIOUS
  <2>1. Head(inflight) = request
    OBVIOUS
  <2>2. mem' = [mem EXCEPT ![request.dst] = request.data]
    BY <2>1 DEF EnginePerform
  <2>3. request.dst \in Cells
    BY SdmaAssumption DEF MixedInv, TypeOK, Copies
  <2> QED  BY <2>2, <2>3 DEF MixedInv, TypeOK
<1>3. inflight # << >>
  BY DEF EnginePerform
<1> QED  BY <1>1, <1>2, <1>3 DEF MixedInv, WriteInv

\* The invariant is inductive.
LEMMA MixedInvStep ==
  ASSUME MixedInv, TypeOK', [Next]_vars
  PROVE  MixedInv'
<1>1. ASSUME NEW r \in Writes, BuildWrite(r)  PROVE MixedInv'
  BY <1>1, BuildMixed, SdmaAssumption DEF BuildWrite, MixedInv
<1>2. ASSUME NEW r \in Copies, BuildCopy(r)  PROVE MixedInv'
  <2>1. CASE r.size < MaxCopy
    BY <1>2, <2>1, BuildMixed, SdmaAssumption DEF BuildCopy, MixedInv
  <2>2. CASE ~ (r.size < MaxCopy)
    <3>1. /\ pc' = "assert" /\ pc = "idle" /\ UNCHANGED <<ring, CommandSize>>
          /\ UNCHANGED <<wptr, doorbell, engine, mem>>
      BY <1>2, <2>2 DEF BuildCopy
    <3> QED
      BY <3>1 DEF engine, MixedInv, PackedInv, EndsBy, Calling, IndexInv, WriteInv
  <2> QED  BY <2>1, <2>2
<1>3. CASE PublishWrite
  <2>1. wptr' = fetch + CommandSize
    BY <1>3 DEF PublishWrite, MixedInv, IndexInv
  <2>2. IndexInv' /\ WriteInv'
    BY <1>3, <2>1 DEF PublishWrite, engine, MixedInv, IndexInv, WriteInv
  <2>3. PackedInv'
    BY <1>3 DEF PublishWrite, MixedInv, PackedInv, LastHead, EndsBy, Calling
  <2> QED  BY <2>2, <2>3 DEF MixedInv
<1>4. CASE PublishCopy
  <2>1. IndexInv' /\ WriteInv'
    BY <1>4 DEF PublishCopy, engine, MixedInv, IndexInv, WriteInv
  <2>2. PackedInv'
    BY <1>4 DEF PublishCopy, MixedInv, PackedInv, LastHead, EndsBy, Calling
  <2> QED  BY <2>1, <2>2 DEF MixedInv
<1>5. CASE RingDoorbell
  <2>1. IndexInv'
    BY <1>5 DEF RingDoorbell, engine, MixedInv, TypeOK, IndexInv
  <2>2. WriteInv'
    <3>1. request.op = "write" =>
            /\ wptr >= CommandSize
            /\ wptr - CommandSize <= LastHead => fetch <= LastHead
      BY <1>5 DEF RingDoorbell, MixedInv, TypeOK, WriteInv
    <3> QED  BY <1>5, <3>1 DEF RingDoorbell, engine, MixedInv, WriteInv, LastHead
  <2>3. PackedInv'
    BY <1>5 DEF RingDoorbell, MixedInv, PackedInv, LastHead, EndsBy, Calling
  <2> QED  BY <2>1, <2>2, <2>3 DEF MixedInv
<1>6. CASE Poll
  <2>1. rptr = fetch /\ wptr = fetch /\ doorbell = fetch
    BY <1>6 DEF Poll, MixedInv, TypeOK, IndexInv
  <2>2. IndexInv' /\ WriteInv'
    BY <1>6, <2>1 DEF Poll, engine, MixedInv, TypeOK, IndexInv, WriteInv
  <2>3. PackedInv'
    BY <1>6 DEF Poll, MixedInv, PackedInv, LastHead, EndsBy, Calling
  <2> QED  BY <2>2, <2>3 DEF MixedInv
<1>7. ASSUME NEW x \in Cells, NEW v \in Values, HostStore(x, v)  PROVE MixedInv'
  <2>1. IndexInv' /\ WriteInv'
    BY <1>7 DEF HostStore, host, engine, MixedInv, IndexInv, WriteInv
  <2>2. PackedInv'
    BY <1>7 DEF HostStore, host, MixedInv, PackedInv, LastHead, EndsBy, Calling
  <2> QED  BY <2>1, <2>2 DEF MixedInv
<1>8. CASE EngineFetch
  <2>1. fetch < doorbell /\ pc = "poll"
    BY <1>8 DEF EngineFetch, MixedInv, TypeOK, IndexInv
  <2>2. /\ fetch' \in fetch .. doorbell
        /\ inflight' # << >> => fetch < fetch'
    <3>1. \A op : fetch + Length(op) > fetch
      BY LengthType DEF MixedInv, TypeOK
    <3>2. fetch \in Nat /\ doorbell \in Nat /\ fetch' \in Nat
      BY DEF MixedInv, TypeOK
    <3> QED  BY <1>8, <2>1, <3>1, <3>2 DEF EngineFetch
  <2>3. IndexInv'
    BY <1>8, <2>1, <2>2 DEF EngineFetch, host, MixedInv, TypeOK, IndexInv
  <2>4. PackedInv'
    BY <1>8 DEF EngineFetch, host, MixedInv, PackedInv, LastHead, EndsBy, Calling
  <2> QED  BY <1>8, <2>3, <2>4, FetchKeepsWrite DEF MixedInv
<1>9. CASE EnginePerform
  <2>1. IndexInv'
    BY <1>9 DEF EnginePerform, host, MixedInv, IndexInv
  <2>2. PackedInv'
    BY <1>9 DEF EnginePerform, host, MixedInv, PackedInv, LastHead, EndsBy, Calling
  <2> QED  BY <1>9, <2>1, <2>2, PerformKeepsWrite DEF MixedInv
<1>10. CASE EngineReport
  <2>1. inflight = << >> /\ pc = "poll"
    BY <1>10 DEF EngineReport, MixedInv, IndexInv
  <2>2. IndexInv' /\ WriteInv'
    BY <1>10, <2>1 DEF EngineReport, host, MixedInv, TypeOK, IndexInv, WriteInv, LastHead
  <2>3. PackedInv'
    BY <1>10 DEF EngineReport, host, MixedInv, PackedInv, LastHead, EndsBy, Calling
  <2> QED  BY <2>2, <2>3 DEF MixedInv
<1>11. CASE UNCHANGED vars
  <2>1. IndexInv' /\ WriteInv'
    BY <1>11 DEF vars, host, engine, MixedInv, IndexInv, WriteInv, LastHead
  <2>2. PackedInv'
    BY <1>11 DEF vars, host, MixedInv, PackedInv, LastHead, EndsBy, Calling
  <2> QED  BY <2>1, <2>2 DEF MixedInv
<1> QED
  BY <1>1, <1>2, <1>3, <1>4, <1>5, <1>6, <1>7, <1>8, <1>9, <1>10, <1>11
  DEF Next, Host, Engine

\* The invariant holds throughout.
THEOREM MixedInvCorrect ==
  ASSUME Engines \subseteq {FALSE}
  PROVE  Spec => []MixedInv
<1>1. TypeOK /\ Init => MixedInv
  <2> SUFFICES ASSUME TypeOK, Init  PROVE PackedInv /\ IndexInv /\ WriteInv
    BY DEF MixedInv
  <2>1. \A i \in Positions : ring[i] = NOP
    BY DEF Init
  <2>2. ~ early /\ ~ Calling
    BY DEF Init, Calling
  <2> QED  BY <2>1, <2>2 DEF Init, PackedInv, IndexInv, WriteInv, NOP
<1>2. MixedInv /\ TypeOK' /\ [Next]_vars => MixedInv'
  BY MixedInvStep
<1> QED  BY <1>1, <1>2, SdmaTypeCorrect, PTL DEF Spec

\* Whatever copies and writes came before, by an engine that is not early a write that
\* returns is in memory, unless its packet was put behind the engine's read index or its
\* index has left the ring (sdma.cpp:446-448).
THEOREM WritesInMemory ==
  ASSUME Engines \subseteq {FALSE}
  PROVE  Spec => WriteLostOnlyIfOutOfStep
<1> DEFINE A == pc = "poll" /\ pc' = "idle" /\ request.op = "write" =>
                  \/ mem[request.dst] = request.data
                  \/ wptr - CommandSize > CommandSize - WriteDw
                  \/ wptr > RingDw
<1>1. MixedInv /\ [Next]_vars => [A]_vars
  <2> SUFFICES ASSUME MixedInv, [Next]_vars, pc = "poll", pc' = "idle",
                      request.op = "write", wptr - CommandSize <= CommandSize - WriteDw,
                      wptr <= RingDw
               PROVE  mem[request.dst] = request.data
    BY SdmaAssumption DEF MixedInv, TypeOK
  <2>1. wptr = rptr
    BY DEF Next, Host, Engine, BuildWrite, BuildCopy, PublishWrite, PublishCopy,
           RingDoorbell, Poll, HostStore, EngineFetch, EnginePerform, EngineReport,
           vars, host
  <2>2. LastHead = CommandSize - WriteDw
    BY DEF LastHead, Length
  <2>3. fetch = wptr /\ inflight = << >>
    BY <2>1 DEF MixedInv, TypeOK, IndexInv
  <2>4. ~ (fetch <= LastHead)
    BY <2>2, <2>3, SdmaAssumption DEF MixedInv, TypeOK, WriteInv
  <2> QED  BY <2>2, <2>3, <2>4 DEF MixedInv, WriteInv
<1> QED  BY <1>1, MixedInvCorrect, PTL DEF Spec, WriteLostOnlyIfOutOfStep

=============================================================================
