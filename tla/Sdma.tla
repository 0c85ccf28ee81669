-------------------------------- MODULE Sdma --------------------------------
(***************************************************************************)
(* The copy engine of src/src/sdma.cpp: one host thread builds packets in  *)
(* a ring, publishes a write index and polls; the engine fetches, performs *)
(* and reports a read index.  The two share the ring and the three indices *)
(* and nothing else.  Unit: the dword (the code counts in bytes).          *)
(*                                                                         *)
(* The engine is external: it is modelled from what the code needs of it.  *)
(* It reads up to the index of the doorbell, takes a zero dword (the ring  *)
(* is fresh memory) for a no-operation, and stops for good at a dword that *)
(* is no header.  An engine may be early: report a packet as read before   *)
(* the packet is performed.                                                *)
(***************************************************************************)
EXTENDS Naturals, Sequences

CONSTANTS
  RingDw,       (* SDMA_RINGBUFF_SIZE, in dwords                           *)
  WriteDw,      (* length of SDMA_PKT_WRITE_UNTILED, 5                     *)
  CopyDw,       (* length of SDMA_PKT_COPY_LINEAR, 7                       *)
  MaxCopy,      (* MAX_SDMA_COPY_SIZE                                      *)
  CountMod,     (* the field count of a copy packet holds 0 .. CountMod-1  *)
  Cells,        (* addresses of memory                                     *)
  Values,       (* what a cell can hold                                    *)
  Requests,     (* the calls the thread makes                              *)
  Engines       (* kinds of engine: early (TRUE) or not (FALSE)            *)

Copies == {r \in Requests : r.op = "copy"}
Writes == {r \in Requests : r.op = "write"}

ASSUME SdmaAssumption ==
  /\ RingDw \in Nat \ {0}
  /\ WriteDw \in Nat \ {0} /\ CopyDw \in Nat \ {0}
  /\ CountMod \in Nat \ {0} /\ MaxCopy \in 0 .. CountMod
  /\ Cells \subseteq Nat
  /\ Requests = Copies \cup Writes
  /\ Copies \subseteq [op : {"copy"}, dst : Cells, src : Cells, size : Nat \ {0}]
  /\ Writes \subseteq [op : {"write"}, dst : Cells, data : Values]
  /\ \A r \in Copies : r.src .. r.src + r.size - 1 \subseteq Cells
  /\ Engines \subseteq BOOLEAN

VARIABLES
  ring,         (* DmaQueueRingBuff                                        *)
  CommandSize,  (* where the next packet goes; never reset by a call       *)
  wptr,         (* *Queue_write_ptr, written by the host                   *)
  doorbell,     (* the index last written to *Queue_DoorBell               *)
  rptr,         (* *Queue_read_ptr, written by the engine                  *)
  early,        (* may the engine report a packet it has not performed?    *)
  fetch,        (* the engine's own read index                             *)
  inflight,     (* the packet read and not performed yet, if any           *)
  hung,         (* did the engine meet a dword that is no header?          *)
  mem,          (* contents of memory                                      *)
  request,      (* the request of the last call                            *)
  pc            (* where the thread is                                     *)

host == <<CommandSize, wptr, doorbell, request, pc>>
engine == <<early, rptr, fetch, inflight, hung>>
vars == <<host, engine, ring, mem>>

Positions == 0 .. RingDw - 1
NOP == [is |-> "nop"]      \* a dword of zeros
BODY == [is |-> "body"]    \* a dword of a packet behind its header

-----------------------------------------------------------------------------
(* Packets.                                                                *)

\* Fault: the count is the size.
Packet_CountNotMinusOne(r) ==
  IF r.op = "write" THEN r
  ELSE [op |-> "copy", dst |-> r.dst, src |-> r.src, count |-> r.size % CountMod]

\* The packet of a request.  The field count of a copy is one less than its
\* size, in the bits the field has.
Packet(r) ==
  IF r.op = "write" THEN r
  ELSE [op |-> "copy", dst |-> r.dst, src |-> r.src,
        count |-> (r.size + CountMod - 1) % CountMod]

Length(op) == IF op = "write" THEN WriteDw ELSE CopyDw

\* Fault: a packet may reach one dword past the ring.
Place_NoRoomTaken(r) ==
  LET n == Length(r.op)
  IN /\ ring' = [i \in Positions |->
                   IF i = CommandSize THEN [is |-> "head", packet |-> Packet(r)]
                   ELSE IF i \in CommandSize .. CommandSize + n THEN BODY ELSE ring[i]]
     /\ CommandSize' = CommandSize + n
     /\ pc' = "publish"

\* memcpy of the packet to its place.  The page behind the ring is the guard
\* page of its allocation: a packet that does not fit ends the program there.
Place(r) ==
  LET n == Length(r.op)
  IN IF CommandSize + n > RingDw
     THEN pc' = "segv" /\ UNCHANGED <<ring, CommandSize>>
     ELSE /\ ring' = [i \in Positions |->
                        IF i = CommandSize THEN [is |-> "head", packet |-> Packet(r)]
                        ELSE IF i \in CommandSize .. CommandSize + n - 1 THEN BODY
                        ELSE ring[i]]
          /\ CommandSize' = CommandSize + n
          /\ pc' = "publish"

-----------------------------------------------------------------------------
(* The host thread: HsaSdmaWrite and HsaSdmaCopy.                          *)

BuildWrite(r) ==
  /\ pc = "idle"
  /\ Place(r)
  /\ request' = r
  /\ UNCHANGED <<wptr, doorbell, engine, mem>>

BuildCopy(r) ==
  /\ pc = "idle"
  /\ IF r.size < MaxCopy THEN Place(r)
     ELSE pc' = "assert" /\ UNCHANGED <<ring, CommandSize>>
  /\ request' = r
  /\ UNCHANGED <<wptr, doorbell, engine, mem>>

\* A write adds all that was ever built to the engine's read index.
PublishWrite ==
  /\ pc = "publish" /\ request.op = "write"
  /\ wptr' = rptr + CommandSize
  /\ pc' = "doorbell"
  /\ UNCHANGED <<CommandSize, doorbell, request, engine, ring, mem>>

\* Fault: a copy computes its index the way a write does.
PublishCopy_FromReadIndex ==
  /\ pc = "publish" /\ request.op = "copy"
  /\ wptr' = rptr + CommandSize
  /\ pc' = "doorbell"
  /\ UNCHANGED <<CommandSize, doorbell, request, engine, ring, mem>>

PublishCopy ==
  /\ pc = "publish" /\ request.op = "copy"
  /\ wptr' = CommandSize
  /\ pc' = "doorbell"
  /\ UNCHANGED <<CommandSize, doorbell, request, engine, ring, mem>>

\* Fault: the engine is not told.
RingDoorbell_NotWritten ==
  /\ pc = "doorbell"
  /\ pc' = "poll"
  /\ UNCHANGED <<CommandSize, wptr, doorbell, request, engine, ring, mem>>

RingDoorbell ==
  /\ pc = "doorbell"
  /\ doorbell' = wptr
  /\ pc' = "poll"
  /\ UNCHANGED <<CommandSize, wptr, request, engine, ring, mem>>

\* Fault: no wait.
Poll_Once ==
  /\ pc = "poll"
  /\ pc' = "idle"
  /\ UNCHANGED <<CommandSize, wptr, doorbell, request, engine, ring, mem>>

\* The loop ends when both indices are equal; until then the thread sleeps.
Poll ==
  /\ pc = "poll"
  /\ wptr = rptr
  /\ pc' = "idle"
  /\ UNCHANGED <<CommandSize, wptr, doorbell, request, engine, ring, mem>>

\* Between calls the thread writes to memory as it likes.
HostStore(x, v) ==
  /\ pc = "idle"
  /\ mem' = [mem EXCEPT ![x] = v]
  /\ UNCHANGED <<host, engine, ring>>

-----------------------------------------------------------------------------
(* The engine.                                                             *)

EngineFetch ==
  LET dword == ring[fetch % RingDw]
  IN /\ ~ hung
     /\ inflight = << >>
     /\ fetch < doorbell
     /\ \/ /\ dword.is = "nop"
           /\ fetch' = fetch + 1
           /\ UNCHANGED <<inflight, hung>>
        \/ /\ dword.is = "head"
           /\ fetch + Length(dword.packet.op) <= doorbell
           /\ fetch' = fetch + Length(dword.packet.op)
           /\ inflight' = <<dword.packet>>
           /\ UNCHANGED hung
        \/ /\ dword.is = "body"
           /\ hung' = TRUE
           /\ UNCHANGED <<fetch, inflight>>
     /\ UNCHANGED <<early, rptr, host, ring, mem>>

EnginePerform ==
  /\ inflight # << >>
  /\ LET p == Head(inflight)
     IN mem' = IF p.op = "write" THEN [mem EXCEPT ![p.dst] = p.data]
               ELSE [x \in Cells |-> IF x \in p.dst .. p.dst + p.count
                                     THEN mem[p.src + (x - p.dst)] ELSE mem[x]]
  /\ inflight' = << >>
  /\ UNCHANGED <<early, rptr, fetch, hung, host, ring>>

EngineReport ==
  /\ rptr # fetch
  /\ early \/ inflight = << >>
  /\ rptr' = fetch
  /\ UNCHANGED <<early, fetch, inflight, hung, host, ring, mem>>

-----------------------------------------------------------------------------
Init ==
  /\ ring = [i \in Positions |-> NOP]
  /\ CommandSize = 0
  /\ wptr = 0 /\ doorbell = 0 /\ rptr = 0 /\ fetch = 0
  /\ inflight = << >>
  /\ early \in Engines /\ hung = FALSE
  /\ mem \in [Cells -> Values]
  /\ request \in Requests
  /\ pc = "idle"

Host == \/ PublishWrite
        \/ PublishCopy
        \/ RingDoorbell
        \/ Poll

Engine == \/ EngineFetch
          \/ EnginePerform
          \/ EngineReport

Next == \/ \E r \in Writes : BuildWrite(r)
        \/ \E r \in Copies : BuildCopy(r)
        \/ Host
        \/ \E x \in Cells, v \in Values : HostStore(x, v)
        \/ Engine

\* The operating system runs the thread, and the engine makes progress.
Fairness == WF_vars(Host) /\ WF_vars(EngineFetch) /\ WF_vars(EnginePerform)
              /\ WF_vars(EngineReport)

Spec == Init /\ [][Next]_vars /\ Fairness

=============================================================================
