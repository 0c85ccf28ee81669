------------------------------ MODULE RingQueue ------------------------------
(***************************************************************************)
(* The user-mode SDMA queue of kmttest/BaseQueue.cpp and SDMAQueue.cpp: a  *)
(* ring of dwords with an index into it (m_pendingWptr) and an index that  *)
(* never wraps (m_pendingWptr64), filled by PlacePacket, handed over by    *)
(* SubmitPacket, drained by the engine, awaited by Wait4PacketConsumption. *)
(* Indices count dwords where the queue's registers count bytes.  What is  *)
(* placed are the packets of a copy or a fill, as module CopySplit cuts    *)
(* them.                                                                   *)
(*                                                                         *)
(* The engine is external.  It advances the read pointer when it has read  *)
(* a packet: "all packets being consumed is not the same as all packets    *)
(* being processed" (BaseQueue.hpp:42).                                    *)
(***************************************************************************)
EXTENDS CopySplit

CONSTANTS
  Size,          (* dwords of the ring, queueSizeInDWord                   *)
  PacketLimit,   (* bound: packets placed                                  *)
  TimeOut,       (* turns of a wait of a millisecond each                  *)
  Callers        (* kinds of caller:                                       *)
                 (*  "checks"  places only what there is room for;         *)
                 (*  "waits"   asks for no room, but waits for each packet *)
                 (*            it submits, as KmtTest.cpp does, whatever   *)
                 (*            the wait returns                            *)

PacketSizes == {SizeInDWords(s) : s \in Surfaces}

ASSUME RingQueueAssumption ==
  /\ Size \in Nat \ {0}
  /\ PacketSizes \subseteq 1 .. Size
  /\ PacketLimit \in Nat
  /\ TimeOut \in Nat \ {0}
  /\ Callers \subseteq {"checks", "waits"}

VARIABLES
  caller,         (* which of them this one is; it never changes           *)
  surface,        (* the one whose packets are to be placed next, if any   *)
  ring,           (* contents of m_QueueBuf                                *)
  pendingWptr,    (* m_pendingWptr                                         *)
  pendingWptr64,  (* m_pendingWptr64                                       *)
  placed,         (* packets placed so far; the last one's number          *)
  submitted,      (* of these, packets handed over                         *)
  wptr,           (* *Queue_write_ptr                                      *)
  doorbell,       (* *Queue_DoorBell                                       *)
  rptr,           (* *Queue_read_ptr                                       *)
  inflight,       (* the dwords of the packet read and not performed yet   *)
  performed,      (* numbers of the packets performed                      *)
  pc,             (* where the caller is                                   *)
  timeLeft,       (* timeOut in WaitOnValue                                *)
  gaveUp,         (* history: the last WaitOnValue returned false          *)
  crammed         (* history: a packet has been placed without room for it *)

indices == <<pendingWptr, pendingWptr64, wptr, doorbell>>
engine == <<rptr, inflight, performed>>
history == <<gaveUp, crammed>>
vars == <<caller, surface, ring, indices, placed, submitted, engine, pc, timeLeft, history>>

Positions == 0 .. Size - 1
NOP == [is |-> "nop"]
\* The k-th dword of the packet with number id and length n.
Dword(id, k, n) == [is |-> "packet", id |-> id, k |-> k, n |-> n]

-----------------------------------------------------------------------------
(* Room.                                                                   *)

Rptr == rptr % Size
Wptr == wptr % Size

\* AllPacketsSubmitted compares the wrapped indices.
AllPacketsSubmitted == Wptr = Rptr

\* Fault: a packet that ends with the ring is padded too, as by line 179's condition.
Padding_AlsoAtEnd(n) == IF pendingWptr + n >= Size THEN Size - pendingWptr ELSE 0

\* Dwords from the write index to the end, if the packet would cross it.
Padding(n) == IF pendingWptr + n > Size THEN Size - pendingWptr ELSE 0

\* Fault: the padding is not counted.
Required_PacketOnly(n) == n

Required(n) == n + Padding(n)

\* Fault: the slot that tells full from empty is given away.
Available_LastSlotToo == ((Rptr + Size - 1 - pendingWptr) % Size) + 1

Available == (Rptr + Size - 1 - pendingWptr) % Size

-----------------------------------------------------------------------------
(* The caller.                                                             *)

\* SDMACopyDataPacket or SDMAFillDataPacket: its packets are built.
BuildPacket(s) ==
  /\ pc \in IF caller = "checks" THEN {"ready", "placed", "submitted"} ELSE {"ready"}
  /\ surface = << >>
  /\ placed < PacketLimit
  /\ surface' = <<s>>
  /\ UNCHANGED <<caller, ring, indices, placed, submitted, engine, pc, timeLeft, history>>

\* NOPs up to the end of the ring if the packet would cross it, then the packet.
\* The asserts on the room are comments: whether there is any is up to the caller, and
\* crammed remembers that there once was not.
\* The index that never wraps goes on by advance, the other one to next.
Place(n, start, advance, next) ==
  /\ surface' = << >>
  /\ caller = "checks" => Available >= Required(n)
  /\ ring' = [i \in Positions |->
                IF i \in start .. start + n - 1 THEN Dword(placed + 1, i - start, n)
                ELSE IF Padding(n) > 0 /\ i >= pendingWptr THEN NOP
                ELSE ring[i]]
  /\ pendingWptr' = next
  /\ pendingWptr64' = pendingWptr64 + advance
  /\ placed' = placed + 1
  /\ pc' = "placed"
  /\ crammed' = (crammed \/ Available < Required(n))
  /\ UNCHANGED <<caller, wptr, doorbell, submitted, engine, timeLeft, gaveUp>>

Start(n) == (pendingWptr + Padding(n)) % Size

\* Fault: the padding does not move the index that never wraps.
PlacePacket_PaddingNotCounted(n) == Place(n, Start(n), n, (Start(n) + n) % Size)

\* Fault: the index that wraps is left at the end of the ring.
PlacePacket_NotWrapped(n) == Place(n, Start(n), Required(n), Start(n) + n)

PlacePacket(n) == Place(n, Start(n), Required(n), (Start(n) + n) % Size)

\* Fault: the write pointer stored is that of the submission before.
SubmitWptr_Late ==
  /\ pc = "placed" /\ surface = << >>
  /\ wptr' = doorbell
  /\ pc' = "doorbell"
  /\ UNCHANGED <<caller, surface, ring, pendingWptr, pendingWptr64, doorbell, placed, submitted,
                 engine, timeLeft, history>>

\* SubmitPacket stores the write pointer, then the doorbell.
SubmitWptr ==
  /\ pc = "placed" /\ surface = << >>
  /\ wptr' = pendingWptr64
  /\ pc' = "doorbell"
  /\ UNCHANGED <<caller, surface, ring, pendingWptr, pendingWptr64, doorbell, placed, submitted,
                 engine, timeLeft, history>>

\* Fault: the doorbell gets the index that wraps.
SubmitDoorbell_Wrapped ==
  /\ pc = "doorbell"
  /\ doorbell' = pendingWptr
  /\ submitted' = placed
  /\ pc' = "submitted"
  /\ UNCHANGED <<caller, surface, ring, pendingWptr, pendingWptr64, wptr, placed, engine, timeLeft,
                 history>>

SubmitDoorbell ==
  /\ pc = "doorbell"
  /\ doorbell' = pendingWptr64
  /\ submitted' = placed
  /\ pc' = "submitted"
  /\ UNCHANGED <<caller, surface, ring, pendingWptr, pendingWptr64, wptr, placed, engine, timeLeft,
                 history>>

\* SDMAQueue drops the caller's timeout: every wait takes the default.
Wait4PacketConsumption ==
  /\ pc = "submitted" /\ surface = << >>
  /\ pc' = "wait"
  /\ timeLeft' = TimeOut
  /\ UNCHANGED <<caller, surface, ring, indices, placed, submitted, engine, history>>

\* The loop of WaitOnValue, whose result is printed and dropped.
WaitOnValue ==
  /\ pc = "wait"
  /\ IF rptr # wptr /\ timeLeft > 0
     THEN timeLeft' = timeLeft - 1 /\ UNCHANGED <<pc, gaveUp>>
     ELSE pc' = "ready" /\ gaveUp' = (rptr # wptr) /\ UNCHANGED timeLeft
  /\ UNCHANGED <<caller, surface, ring, indices, placed, submitted, engine, crammed>>

-----------------------------------------------------------------------------
(* The engine.                                                             *)

EngineFetch ==
  LET head == ring[rptr % Size]
  IN /\ inflight = << >>
     /\ rptr < doorbell
     /\ \/ /\ head.is = "nop"
           /\ rptr' = rptr + 1
           /\ UNCHANGED inflight
        \/ /\ head.is = "packet"
           /\ rptr' = rptr + head.n
           /\ inflight' = [j \in 1 .. head.n |-> ring[(rptr + j - 1) % Size]]
     /\ UNCHANGED <<caller, surface, ring, indices, placed, submitted, performed, pc, timeLeft,
                    history>>

\* A packet is performed as such if its dwords are those of one packet; what
\* anything else makes the engine do counts as packet 0.
EnginePerform ==
  LET head == Head(inflight)
      whole == \A j \in DOMAIN inflight : inflight[j] = Dword(head.id, j - 1, head.n)
  IN /\ inflight # << >>
     /\ performed' = Append(performed, IF whole THEN head.id ELSE 0)
     /\ inflight' = << >>
     /\ UNCHANGED <<caller, surface, ring, indices, placed, submitted, rptr, pc, timeLeft,
                    history>>

-----------------------------------------------------------------------------
\* Create: a zeroed buffer, and both pending indices at 0.
Init ==
  /\ caller \in Callers
  /\ surface = << >>
  /\ ring = [i \in Positions |-> NOP]
  /\ pendingWptr = 0 /\ pendingWptr64 = 0
  /\ wptr = 0 /\ doorbell = 0 /\ rptr = 0
  /\ placed = 0 /\ submitted = 0
  /\ inflight = << >> /\ performed = << >>
  /\ pc = "ready"
  /\ timeLeft = TimeOut
  /\ gaveUp = FALSE /\ crammed = FALSE

Next ==
  \/ \E s \in Surfaces : BuildPacket(s)
  \/ surface # << >> /\ PlacePacket(SizeInDWords(Head(surface)))
  \/ SubmitWptr
  \/ SubmitDoorbell
  \/ Wait4PacketConsumption
  \/ WaitOnValue
  \/ EngineFetch
  \/ EnginePerform

\* The engine makes progress.
Fairness == WF_vars(EngineFetch) /\ WF_vars(EnginePerform)

Spec == Init /\ [][Next]_vars /\ Fairness

=============================================================================
