----------------------------- MODULE StartupProps -----------------------------
(***************************************************************************)
(* What must be true of start-up and tear-down, modelled in Startup, and   *)
(* of the queues created between them, modelled in KmtQueue.               *)
(***************************************************************************)
EXTENDS Startup

\* Keys read by one start-up: gpu_id, the minor, three counts, and three keys of
\* every bank and cache (kmthsa.cpp:72, memory.cpp:84, 122-163).
KeysRead == 5 + 3 * (2 * topology.cpuBanks + topology.caches)

\* Type invariant.  While no call is under way, every file but the two devices was
\* left open by a read key (kmthsa.cpp:20-47, memory.cpp:90-94).  A queue has buffers
\* of its own, and the program and the driver know the same ones (queue.cpp:54-163).
TypeOK ==
  /\ topology \in Topologies
  /\ kfd \in {"closed", "open", "bad"} /\ drm \in {"closed", "open", "bad"}
  /\ leaked \in 0 .. MaxFiles
  /\ {vm, apertures} \subseteq BOOLEAN
  /\ i \in Nat /\ inits \in 0 .. InitLimit
  /\ pc \in {"off", "info", "cpuBanks", "gpuBanks", "caches", "drm", "acquire",
             "apertures", "queue", "ready", "deinit", "assert", "segv", "refused",
             "overrun"}
  /\ pc \in {"off", "ready"} => leaked = inits * KeysRead
  /\ vm_obj_cnt \in 0 .. MaxVmObj
  /\ live \subseteq 1 .. vm_obj_cnt
  /\ \A q \in queues :
       /\ q.type \in Types /\ q.id \in Doorbells
       /\ Cardinality(Held(q.buffers)) = Asked(q.type)
       /\ q.mapping \in (1 .. vm_obj_cnt) \ Held(q.buffers)
  /\ \A k \in kqueues : k.type \in Types
  /\ {k.doorbell : k \in kqueues} = {q.id : q \in queues}

\* Once KmtHsaInit has returned the KFD device is open and the driver has given the
\* program its address space and its SDMA queue, although a failing open passes the
\* assert behind it; KmtHsaDeInit undoes it: no device stays open and no SDMA queue
\* stays behind, and none is destroyed that HsaAqlCreate made (kmthsa.cpp:53-55, 84-89,
\* memory.cpp:199-201).
ReadyAndOff ==
  /\ pc = "ready" => kfd = "open" /\ apertures /\ \E k \in kqueues : k.type = "sdma"
  /\ pc = "off" => /\ kfd = "closed" /\ drm = "closed"
                   /\ \A k \in kqueues : k.type = "aql"

\* The engine of a queue the driver still has, after a tear-down as before it, works
\* on live buffers, and on none of another queue's (queue.cpp:91-103, 157).
QueuesBacked ==
  /\ \A k \in kqueues : Held(k.buffers) \subseteq live
  /\ \A j, k \in kqueues : j # k => Held(j.buffers) \cap Held(k.buffers) = {}

\* A write to Queue_DoorBell of a queue rings that queue and no other: the address
\* is the mapping's plus the rest of the offset (queue.cpp:130-144).
DoorbellReachesQueue ==
  \A q \in queues : {k.buffers : k \in {k \in kqueues : k.doorbell = q.mapped + q.inner}}
                      = {q.buffers}

\* However many start-ups there were, one fails only for want of what they use up: a
\* key is not read only when the files of earlier keys have taken the descriptors, or
\* the GPU has fewer banks than the CPU, whose number the loop over its banks goes by;
\* and a queue is refused only if the program holds as many as the driver allows, for
\* tear-downs give the SDMA queue back (kmthsa.cpp:23-33, memory.cpp:139,
\* queue.cpp:115-116, 157, sdma.cpp:436).
FailsOnlyForWant ==
  /\ pc = "segv" => FilesFree < 4 \/ topology.gpuBanks < topology.cpuBanks
  /\ pc = "refused" => \/ \E type \in Types :
                            Cardinality({q \in queues : q.type = type}) = MaxQueues
                       \/ Cardinality(queues) = Cardinality(Doorbells)

\* Every start-up ends, in success or otherwise (kmthsa.cpp:77-83).
InitEnds == pc = "info" ~> pc \in {"ready", "assert", "segv", "refused", "overrun"}

=============================================================================
