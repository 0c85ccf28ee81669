----------------------------- MODULE SdmaProps -----------------------------
(***************************************************************************)
(* What must be true of the copy engine and its user, modelled in Sdma.    *)
(***************************************************************************)
EXTENDS Sdma

Packets == {Packet(r) : r \in Requests}
Dwords == [is : {"nop", "body"}] \cup [is : {"head"}, packet : Packets]

\* Type invariant of the ring, the indices and the engine (sdma.cpp:6-8).
TypeOK ==
  /\ ring \in [Positions -> Dwords]
  /\ CommandSize \in 0 .. RingDw
  /\ wptr \in Nat /\ doorbell \in Nat /\ rptr \in Nat /\ fetch \in Nat
  /\ inflight \in {<< >>} \cup {<<p>> : p \in Packets}
  /\ hung \in BOOLEAN /\ early \in Engines
  /\ mem \in [Cells -> Values]
  /\ request \in Requests
  /\ pc \in {"idle", "publish", "doorbell", "poll", "assert", "segv"}

\* The request a packet makes the engine perform.
RequestOf(p) ==
  IF p.op = "write" THEN p
  ELSE [op |-> "copy", dst |-> p.dst, src |-> p.src, size |-> p.count + 1]

\* What is built and not performed: the packet in flight, and the one ahead of
\* the engine's read index.
Outstanding ==
  (IF inflight = << >> THEN << >> ELSE <<RequestOf(Head(inflight))>>)
    \o (IF fetch < CommandSize /\ ring[fetch].is = "head"
        THEN <<RequestOf(ring[fetch].packet)>> ELSE << >>)

Order == INSTANCE DmaOrder WITH
           pending <- Outstanding,
           calling <- pc \in {"publish", "doorbell", "poll"},
           synchronous <- ~ early

\* Copies are performed whole, once each and in the order of the calls; where the
\* engine reports late, a call returns after its own (sdma.cpp:460-484).
ImplementsOrder == Order!Spec

\* Between calls, host and engine agree where the next packet starts; the engine
\* never takes the middle of a packet for a header (sdma.cpp:306-308, 467-471).
EngineInStep ==
  /\ ~ hung
  /\ pc = "idle" => /\ fetch = CommandSize
                    /\ rptr = wptr /\ doorbell = wptr
                    /\ \A i \in Positions : i >= fetch => ring[i] = NOP

\* The polling loop of every call ends (sdma.cpp:476).
EveryCallReturns == pc = "publish" ~> pc = "idle"

\* The index of the call reaches the engine in step: the engine has not read past the
\* start of the packet, and the index has not left the ring.
InStep == fetch <= CommandSize - Length(request.op) /\ wptr <= RingDw

\* A write that returns is in memory, unless its packet was put behind the engine's
\* read index, wptr - CommandSize, or its index has left the ring, whatever copies
\* and writes came before (sdma.cpp:446-448).
WriteLostOnlyIfOutOfStep ==
  [][pc = "poll" /\ pc' = "idle" /\ request.op = "write" =>
       \/ mem[request.dst] = request.data
       \/ wptr - CommandSize > CommandSize - WriteDw
       \/ wptr > RingDw]_vars

\* A copy or write returns, whatever copies and writes came before, if it does not
\* find the engine past its packet and its index is in the ring (sdma.cpp:446-476).
InStepCallReturns == pc = "doorbell" /\ InStep ~> pc = "idle"

\* RunSdmaTest reads back what HsaSdmaWrite wrote (sdma.cpp:497-503).
WriteReadsBack ==
  [][pc = "poll" /\ pc' = "idle" => mem[request.dst] = request.data]_vars

=============================================================================
