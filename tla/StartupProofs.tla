---------------------------- MODULE StartupProofs ----------------------------
(***************************************************************************)
(* Proofs about Startup and KmtQueue, for every number of banks, caches,   *)
(* descriptors, doorbells and queues.                                      *)
(***************************************************************************)
EXTENDS StartupProps, Integers, FiniteSetTheorems, TLAPS

\* Where a start-up is, and what it has got by then.
ControlInv ==
  /\ topology \in Topologies
  /\ kfd \in {"closed", "open", "bad"} /\ drm \in {"closed", "open", "bad"}
  /\ {vm, apertures} \subseteq BOOLEAN
  /\ i \in Nat /\ inits \in 0 .. InitLimit
  /\ pc \in {"off", "info", "cpuBanks", "gpuBanks", "caches", "drm", "acquire",
             "apertures", "queue", "ready", "deinit", "assert", "segv", "refused",
             "overrun"}
  /\ pc \in {"queue", "ready"} => kfd = "open" /\ apertures
  /\ pc = "off" => kfd = "closed" /\ drm = "closed"

\* Keys of all start-ups so far, the one under way included.
AllKeys == inits * KeysRead

\* Keys of n turns of a loop: the number of turns is read with the first, or, when
\* there is none, after the loop.
Turns(n) == IF n = 0 THEN 0 ELSE 3 * n + 1
Loop(n) == 3 * n + 1

\* What is left open is what was read.
LeakInv ==
  /\ leaked \in Nat /\ FilesFree >= 0
  /\ pc = "info" => leaked + KeysRead = AllKeys
  /\ pc = "cpuBanks" => /\ i <= topology.cpuBanks
                        /\ leaked + KeysRead = AllKeys + 1 + Turns(i)
  /\ pc = "gpuBanks" =>
       /\ i <= topology.cpuBanks
       /\ leaked + KeysRead = AllKeys + 1 + Loop(topology.cpuBanks) + Turns(i)
  /\ pc = "caches" =>
       /\ i <= topology.caches
       /\ leaked + KeysRead = AllKeys + 1 + 2 * Loop(topology.cpuBanks) + Turns(i)
  /\ pc \notin {"info", "cpuBanks", "gpuBanks", "caches", "segv"} => leaked = AllKeys

OfType(Q, type) == {q \in Q : q.type = type}

\* What the driver keeps of a queue.
Kernel(q) == [type |-> q.type, buffers |-> q.buffers, doorbell |-> q.id]

\* A queue was created when there were n buffers, which stay.
CreatedAt(q, n) ==
  /\ q = Record(q.type, n, q.id, MmapOffset(q.id))
  /\ n + Count(q.type) <= vm_obj_cnt

\* The driver's queues are the program's, each with a doorbell and buffers of its own.
TableInv ==
  /\ vm_obj_cnt \in 0 .. MaxVmObj /\ live = 1 .. vm_obj_cnt
  /\ IsFiniteSet(queues) /\ kqueues = {Kernel(q) : q \in queues}
  /\ \A q \in queues : /\ q.type \in Types /\ q.id \in Doorbells
                       /\ \E n \in Nat : CreatedAt(q, n)
  /\ \A p, q \in queues : p # q => /\ p.id # q.id
                                   /\ Held(p.buffers) \cap Held(q.buffers) = {}
  /\ \A type \in Types : Cardinality(OfType(queues, type)) <= MaxQueues

\* There is one SDMA queue from the end of a start-up to the tear-down, and none else.
SdmaInv ==
  /\ pc = "ready" => \E q \in queues : OfType(queues, "sdma") = {q}
  /\ pc \notin {"ready", "refused", "overrun"} => OfType(queues, "sdma") = {}

StartupInv == ControlInv /\ LeakInv /\ TableInv /\ SdmaInv

-----------------------------------------------------------------------------
(* Queues.                                                                 *)

\* The part of an offset that is mapped, and the rest, make up the offset.
LEMMA OffsetWhole ==
  ASSUME NEW offset \in Nat
  PROVE  MmapOffset(offset) + Inner(offset) = offset
<1>1. offset % DoorbellBytes \in Nat
  BY KmtQueueAssumption
<1> QED  BY <1>1 DEF MmapOffset, Inner

\* What a queue holds, and what a create allocates.
LEMMA HeldIs ==
  ASSUME NEW n \in Nat, NEW type \in Types
  PROVE  /\ Held(Buffers(n, type)) = (n + 1) .. (n + Asked(type))
         /\ Asked(type) \in Nat /\ Count(type) \in Nat
         /\ Asked(type) + 1 <= Count(type)
<1>1. CASE type = "sdma"
  <2>1. Asked(type) = 2 /\ Count(type) = 3
    BY <1>1 DEF Asked, Count
  <2>2. Held(Buffers(n, type)) = {n + 1, n + 2, 0} \ {0}
    BY <1>1 DEF Held, Buffers, NoBuffer
  <2> QED  BY <2>1, <2>2
<1>2. CASE type = "aql"
  <2>1. Asked(type) = 4 /\ Count(type) = 6
    BY <1>2 DEF Asked, Count
  <2>2. Held(Buffers(n, type)) = {n + 1, n + 2, n + 3, n + 4} \ {0}
    BY <1>2 DEF Held, Buffers, NoBuffer
  <2> QED  BY <2>1, <2>2
<1> QED  BY <1>1, <1>2 DEF Types

\* The fields of a queue.
LEMMA RecordFields ==
  ASSUME NEW n, NEW type, NEW offset, NEW mapped
  PROVE  LET q == Record(type, n, offset, mapped)
         IN /\ q.type = type /\ q.buffers = Buffers(n, type)
            /\ q.mapping = n + Asked(type) + 1
            /\ q.mapped = mapped /\ q.inner = Inner(offset) /\ q.id = offset
BY DEF Record

\* The queues the program has.
LEMMA QueueFields ==
  ASSUME TableInv, NEW q \in queues
  PROVE  /\ q.type \in Types /\ q.id \in Doorbells /\ q.id \in Nat
         /\ q.mapped + q.inner = q.id
         /\ \E n \in Nat : /\ Held(q.buffers) = (n + 1) .. (n + Asked(q.type))
                          /\ q.mapping = n + Asked(q.type) + 1
                          /\ n + Asked(q.type) + 1 <= vm_obj_cnt
                          /\ Asked(q.type) \in Nat
<1>1. q.type \in Types /\ q.id \in Doorbells /\ q.id \in Nat
  BY KmtQueueAssumption DEF TableInv
<1>2. PICK n \in Nat : CreatedAt(q, n)
  BY DEF TableInv
<1>3. /\ q.buffers = Buffers(n, q.type) /\ q.mapping = n + Asked(q.type) + 1
      /\ q.mapped = MmapOffset(q.id) /\ q.inner = Inner(q.id)
  BY <1>2, RecordFields DEF CreatedAt
<1>4. q.mapped + q.inner = q.id
  BY <1>1, <1>3, OffsetWhole
<1>5. /\ Held(q.buffers) = (n + 1) .. (n + Asked(q.type))
      /\ Asked(q.type) \in Nat /\ n + Asked(q.type) + 1 <= vm_obj_cnt
  <2>1. n + Count(q.type) <= vm_obj_cnt /\ vm_obj_cnt \in Nat
    BY <1>2, KmtQueueAssumption DEF CreatedAt, TableInv
  <2>2. /\ Held(q.buffers) = (n + 1) .. (n + Asked(q.type))
        /\ Asked(q.type) \in Nat /\ Count(q.type) \in Nat
        /\ Asked(q.type) + 1 <= Count(q.type)
    BY <1>1, <1>3, HeldIs
  <2> QED  BY <2>1, <2>2
<1> QED  BY <1>1, <1>3, <1>4, <1>5

\* A queue's record with the driver.
LEMMA KernelFields ==
  ASSUME NEW q
  PROVE  /\ Kernel(q).type = q.type /\ Kernel(q).buffers = q.buffers
         /\ Kernel(q).doorbell = q.id
BY DEF Kernel

\* As many queues of each type with the program as with the driver, and as many
\* doorbells in use.
LEMMA SameNumbers ==
  ASSUME TableInv
  PROVE  /\ IsFiniteSet(InUse) /\ Cardinality(InUse) = Cardinality(queues)
         /\ \A type : /\ IsFiniteSet(OfType(queues, type))
                      /\ IsFiniteSet(OfType(kqueues, type))
                      /\ Cardinality(OfType(kqueues, type))
                           = Cardinality(OfType(queues, type))
<1>1. IsFiniteSet(queues) /\ \A p, q \in queues : p.id = q.id => p = q
  BY DEF TableInv
<1>2. InUse = {q.id : q \in queues}
  BY KernelFields DEF InUse, TableInv
<1>3. IsFiniteSet(InUse) /\ Cardinality(InUse) = Cardinality(queues)
  <2> DEFINE f == [q \in queues |-> q.id]
  <2>1. f \in Surjection(queues, InUse)
    BY <1>2 DEF Surjection
  <2>2. f \in Injection(queues, InUse)
    BY <1>1, <1>2 DEF Injection, IsInjective
  <2> QED  BY <1>1, <2>1, <2>2, FS_Surjection
<1>4. ASSUME NEW type
      PROVE  /\ IsFiniteSet(OfType(queues, type)) /\ IsFiniteSet(OfType(kqueues, type))
             /\ Cardinality(OfType(kqueues, type)) = Cardinality(OfType(queues, type))
  <2> DEFINE S == OfType(queues, type)
             T == OfType(kqueues, type)
             f == [q \in S |-> Kernel(q)]
  <2>1. T = {Kernel(q) : q \in S}
    BY KernelFields DEF OfType, TableInv
  <2>2. \A p, q \in S : Kernel(p) = Kernel(q) => p = q
    BY <1>1, KernelFields DEF OfType
  <2>3. IsFiniteSet(S)
    BY <1>1, FS_Subset DEF OfType
  <2> HIDE DEF S, T
  <2>4. f \in Surjection(S, T)
    BY <2>1 DEF Surjection
  <2>5. f \in Injection(S, T)
    BY <2>1, <2>2 DEF Injection, IsInjective
  <2>6. IsFiniteSet(T) /\ Cardinality(T) = Cardinality(S)
    BY <2>3, <2>4, <2>5, FS_Surjection
  <2> QED  BY <2>3, <2>6 DEF S, T
<1> QED  BY <1>3, <1>4

\* A create adds a queue of its type with a free doorbell and new buffers.
LEMMA CreateTable ==
  ASSUME TableInv, NEW type \in Types, KmtCreateQueue(type)
  PROVE  /\ TableInv'
         /\ \E q : q.type = type /\ queues' = queues \cup {q}
<1>1. PICK offset \in Doorbells \ InUse : Create(type, offset, MmapOffset(offset))
  BY DEF KmtCreateQueue
<1> DEFINE n == vm_obj_cnt
           new == Record(type, n, offset, MmapOffset(offset))
<1>2. n \in Nat /\ MaxVmObj \in Nat
  BY KmtQueueAssumption DEF TableInv
<1>3. /\ n + Count(type) <= MaxVmObj /\ ~ Refused(type)
      /\ kqueues' = kqueues \cup
           {[type |-> type, buffers |-> Buffers(n, type), doorbell |-> offset]}
      /\ queues' = queues \cup {new}
      /\ vm_obj_cnt' = n + Count(type)
      /\ live' = live \cup ((n + 1) .. (n + Count(type)))
  BY <1>1 DEF Create
<1>4. new.type = type /\ new.buffers = Buffers(n, type) /\ new.id = offset
  BY RecordFields
<1>5. /\ Held(new.buffers) = (n + 1) .. (n + Asked(type))
      /\ Asked(type) \in Nat /\ Count(type) \in Nat /\ Asked(type) + 1 <= Count(type)
  BY <1>2, <1>4, HeldIs
<1>6. new = Record(new.type, n, new.id, MmapOffset(new.id))
  BY <1>4
<1> HIDE DEF new
<1>7. vm_obj_cnt' \in 0 .. MaxVmObj /\ live' = 1 .. vm_obj_cnt'
  BY <1>2, <1>3, <1>5 DEF TableInv
<1>8. IsFiniteSet(queues') /\ kqueues' = {Kernel(q) : q \in queues'}
  <2>1. Kernel(new) = [type |-> type, buffers |-> Buffers(n, type), doorbell |-> offset]
    BY <1>4 DEF Kernel
  <2>2. IsFiniteSet(queues')
    BY <1>3, FS_AddElement DEF TableInv
  <2> QED  BY <1>3, <2>1, <2>2 DEF TableInv
<1>9. ASSUME NEW q \in queues'
      PROVE  /\ q.type \in Types /\ q.id \in Doorbells
             /\ \E m \in Nat : CreatedAt(q, m)'
  <2>1. CASE q \in queues
    <3>1. PICK m \in Nat : CreatedAt(q, m)
      BY <2>1 DEF TableInv
    <3>2. q.type \in Types /\ q.id \in Doorbells
      BY <2>1 DEF TableInv
    <3>3. Count(q.type) \in Nat
      BY <3>2, HeldIs
    <3>4. m + Count(q.type) <= vm_obj_cnt'
      BY <1>2, <1>3, <1>5, <3>1, <3>3 DEF CreatedAt
    <3> QED  BY <3>1, <3>2, <3>4 DEF CreatedAt
  <2>2. CASE q = new
    BY <1>2, <1>3, <1>4, <1>6, <2>2 DEF CreatedAt
  <2> QED  BY <1>3, <2>1, <2>2
<1>10. ASSUME NEW q \in queues
       PROVE  q.id # new.id /\ Held(q.buffers) \cap Held(new.buffers) = {}
  <2>1. q.id \in InUse
    BY KernelFields DEF InUse, TableInv
  <2>2. PICK m \in Nat : /\ Held(q.buffers) = (m + 1) .. (m + Asked(q.type))
                        /\ m + Asked(q.type) + 1 <= n /\ Asked(q.type) \in Nat
    BY QueueFields
  <2> QED  BY <1>1, <1>2, <1>4, <1>5, <2>1, <2>2
<1>11. \A p, q \in queues' : p # q => /\ p.id # q.id
                                     /\ Held(p.buffers) \cap Held(q.buffers) = {}
  BY <1>3, <1>10 DEF TableInv
<1>12. ASSUME NEW t \in Types  PROVE Cardinality(OfType(queues', t)) <= MaxQueues
  <2>1. CASE t = type
    <3>1. OfType(queues', t) = OfType(queues, t) \cup {new}
      BY <1>3, <1>4, <2>1 DEF OfType
    <3>2. ~ (Cardinality(OfType(queues, t)) >= MaxQueues)
      BY <1>3, <2>1, SameNumbers DEF Refused, OfType
    <3>3. IsFiniteSet(OfType(queues, t))
      BY SameNumbers
    <3>4. Cardinality(OfType(queues, t)) \in Nat
      BY <3>3, FS_CardinalityType
    <3>5. Cardinality(OfType(queues', t)) =
            IF new \in OfType(queues, t) THEN Cardinality(OfType(queues, t))
            ELSE Cardinality(OfType(queues, t)) + 1
      BY <3>1, <3>3, FS_AddElement
    <3> QED  BY <3>2, <3>4, <3>5, KmtQueueAssumption
  <2>2. CASE t # type
    <3>1. OfType(queues', t) = OfType(queues, t)
      BY <1>3, <1>4, <2>2 DEF OfType
    <3> QED  BY <3>1 DEF TableInv
  <2> QED  BY <2>1, <2>2
<1>13. TableInv'
  BY <1>7, <1>8, <1>9, <1>11, <1>12 DEF TableInv
<1> QED  BY <1>3, <1>4, <1>13

\* A refused create takes buffers and gives no queue.
LEMMA RefusedTable ==
  ASSUME TableInv, NEW type \in Types, CreateRefused(type)
  PROVE  TableInv' /\ queues' = queues
<1>1. /\ vm_obj_cnt \in Nat /\ MaxVmObj \in Nat /\ Asked(type) \in Nat
      /\ vm_obj_cnt' = vm_obj_cnt + Asked(type) /\ vm_obj_cnt' <= MaxVmObj
      /\ live' = live \cup ((vm_obj_cnt + 1) .. vm_obj_cnt')
      /\ queues' = queues /\ kqueues' = kqueues
  BY HeldIs, KmtQueueAssumption DEF CreateRefused, TableInv
<1>2. live' = 1 .. vm_obj_cnt'
  BY <1>1 DEF TableInv
<1>3. ASSUME NEW q \in queues  PROVE \E n \in Nat : CreatedAt(q, n)'
  <2>1. PICK n \in Nat : CreatedAt(q, n)
    BY DEF TableInv
  <2>2. Count(q.type) \in Nat
    BY HeldIs DEF TableInv
  <2>3. n + Count(q.type) <= vm_obj_cnt'
    BY <1>1, <2>1, <2>2 DEF CreatedAt
  <2> QED  BY <2>1, <2>3 DEF CreatedAt
<1>4. \A t \in Types : Cardinality(OfType(queues', t)) <= MaxQueues
  BY <1>1 DEF TableInv
<1>5. vm_obj_cnt' \in 0 .. MaxVmObj
  BY <1>1
<1>6. \A q \in queues' : /\ q.type \in Types /\ q.id \in Doorbells
                        /\ \E n \in Nat : CreatedAt(q, n)'
  BY <1>1, <1>3 DEF TableInv
<1>7. IsFiniteSet(queues') /\ kqueues' = {Kernel(q) : q \in queues'}
  BY <1>1 DEF TableInv
<1>8. \A p, q \in queues' : p # q => /\ p.id # q.id
                                    /\ Held(p.buffers) \cap Held(q.buffers) = {}
  BY <1>1 DEF TableInv
<1>9. TableInv'
  BY <1>2, <1>4, <1>5, <1>6, <1>7, <1>8 DEF TableInv
<1> QED  BY <1>1, <1>9

\* A destroy takes the queue from both tables.
LEMMA DestroyTable ==
  ASSUME TableInv, NEW d \in queues, KmtDestroyQueue(d)
  PROVE  TableInv' /\ queues' = queues \ {d}
<1>1. /\ kqueues' = {k \in kqueues : k.doorbell # d.id} /\ queues' = queues \ {d}
      /\ vm_obj_cnt' = vm_obj_cnt /\ live' = live
  BY DEF KmtDestroyQueue
<1>2. kqueues' = {Kernel(q) : q \in queues'}
  <2>1. \A q \in queues : q.id = d.id <=> q = d
    BY DEF TableInv
  <2>2. \A q \in queues : Kernel(q).doorbell # d.id <=> q # d
    BY <2>1, KernelFields
  <2> QED  BY <1>1, <2>2 DEF TableInv
<1>3. IsFiniteSet(queues')
  BY <1>1, FS_RemoveElement DEF TableInv
<1>4. ASSUME NEW t \in Types  PROVE Cardinality(OfType(queues', t)) <= MaxQueues
  <2>1. OfType(queues', t) \in SUBSET OfType(queues, t)
    BY <1>1 DEF OfType
  <2>2. IsFiniteSet(OfType(queues, t))
    BY SameNumbers
  <2>3. /\ Cardinality(OfType(queues', t)) <= Cardinality(OfType(queues, t))
        /\ Cardinality(OfType(queues', t)) \in Nat
        /\ Cardinality(OfType(queues, t)) \in Nat
    BY <2>1, <2>2, FS_Subset, FS_CardinalityType
  <2> QED  BY <2>3, KmtQueueAssumption DEF TableInv
<1>5. \A q \in queues' : \E n \in Nat : CreatedAt(q, n)'
  BY <1>1 DEF TableInv, CreatedAt
<1> QED  BY <1>1, <1>2, <1>3, <1>4, <1>5 DEF TableInv

-----------------------------------------------------------------------------
(* Keys and files.                                                         *)

\* Numbers of keys, and how a loop adds them up.
LEMMA KeysOf ==
  ASSUME ControlInv
  PROVE  /\ topology.cpuBanks \in Nat /\ topology.gpuBanks \in Nat
         /\ topology.caches \in Nat
         /\ KeysRead \in Nat /\ AllKeys \in Nat
         /\ KeysRead = 1 + 2 * Loop(topology.cpuBanks) + Loop(topology.caches) + 1
<1>1. /\ topology.cpuBanks \in Nat /\ topology.gpuBanks \in Nat
      /\ topology.caches \in Nat
  BY StartupAssumption DEF ControlInv
<1>2. /\ KeysRead \in Nat
      /\ KeysRead = 1 + 2 * Loop(topology.cpuBanks) + Loop(topology.caches) + 1
  BY <1>1 DEF KeysRead, Loop
<1>3. AllKeys \in Nat
  BY <1>2, StartupAssumption DEF AllKeys, ControlInv
<1> QED  BY <1>1, <1>2, <1>3

\* What one turn of a loop leaves of it.
LEMMA TurnsOf ==
  ASSUME NEW n \in Nat
  PROVE  /\ Turns(n) \in Nat /\ Loop(n) \in Nat
         /\ Turns(n + 1) = Turns(n) + (IF n = 0 THEN 4 ELSE 3)
         /\ Turns(n) + (IF n = 0 THEN 1 ELSE 0) = Loop(n)
BY DEF Turns, Loop

\* The files still free after n keys were read, or none.
LEMMA FilesAfter ==
  ASSUME LeakInv, kfd' = kfd, drm' = drm, NEW n \in Nat, leaked' = leaked + n
  PROVE  leaked' \in Nat /\ FilesFree \in Int /\ FilesFree' = FilesFree - n
<1>1. Open(kfd) \in Nat /\ Open(drm) \in Nat /\ leaked \in Nat /\ MaxFiles \in Nat
  BY StartupAssumption DEF Open, LeakInv
<1>2. FilesFree' = MaxFiles - (Open(kfd) + Open(drm) + leaked')
  BY DEF FilesFree
<1> QED  BY <1>1, <1>2 DEF FilesFree

\* What stays the same while keys are read.
Still == UNCHANGED <<topology, kfd, drm, vm, apertures, inits, queueVars>>

\* What a step keeps if it leaves the tables and the queues alone.
LEMMA StillKeeps ==
  ASSUME ControlInv, Still, i' \in Nat, pc \notin {"ready", "refused", "overrun"},
         pc' \in {"cpuBanks", "gpuBanks", "caches", "drm", "segv"},
         TableInv, SdmaInv
  PROVE  /\ ControlInv' /\ TableInv' /\ SdmaInv'
         /\ KeysRead' = KeysRead /\ AllKeys' = AllKeys
<1>1. ControlInv' /\ KeysRead' = KeysRead /\ AllKeys' = AllKeys
  BY DEF Still, ControlInv, KeysRead, AllKeys
<1>2. TableInv'
  BY DEF Still, queueVars, TableInv, CreatedAt
<1>3. SdmaInv'
  BY DEF Still, queueVars, SdmaInv
<1> QED  BY <1>1, <1>2, <1>3

\* Each step of the start-up keeps the invariant: the first key of the topology,
LEMMA InfoStep ==
  ASSUME StartupInv, kmtGetInfo
  PROVE  StartupInv' /\ (pc' = "segv" => FilesFree' < 4)
<1>1. kmtReadKey(1, TRUE, "cpuBanks") /\ i' = 0 /\ Still /\ pc = "info"
  BY DEF kmtGetInfo, Still
<1>2. /\ leaked' \in Nat /\ FilesFree' >= 0
      /\ \/ pc' = "cpuBanks" /\ leaked' = leaked + 1
         \/ pc' = "segv" /\ FilesFree' < 4
  <2>1. \/ FilesFree >= 1 /\ pc' = "cpuBanks" /\ leaked' = leaked + 1
        \/ ~ (FilesFree >= 1) /\ pc' = "segv" /\ leaked' = leaked + 0
    BY <1>1 DEF kmtReadKey, StartupInv, LeakInv
  <2> QED  BY <1>1, <2>1, FilesAfter DEF Still, StartupInv, LeakInv
<1>3. /\ ControlInv' /\ TableInv' /\ SdmaInv'
      /\ KeysRead' = KeysRead /\ AllKeys' = AllKeys
  BY <1>1, <1>2, StillKeeps DEF StartupInv
<1>4. LeakInv'
  <2>1. CASE pc' = "cpuBanks" /\ leaked' = leaked + 1
    <3>1. topology'.cpuBanks \in Nat /\ Turns(i') = 0
      BY <1>1, KeysOf DEF Still, StartupInv, Turns
    <3>2. leaked + KeysRead = AllKeys /\ leaked \in Nat
      BY <1>1 DEF StartupInv, LeakInv
    <3>3. leaked' + KeysRead' = AllKeys' + 1 + Turns(i')
      BY <1>3, <2>1, <3>1, <3>2, KeysOf DEF StartupInv
    <3> QED  BY <1>1, <1>2, <2>1, <3>1, <3>3 DEF LeakInv
  <2>2. CASE pc' = "segv"
    BY <1>2, <2>2 DEF LeakInv
  <2> QED  BY <1>2, <2>1, <2>2
<1> QED  BY <1>2, <1>3, <1>4 DEF StartupInv

\* those of a bank of memory of the CPU,
LEMMA CpuStep ==
  ASSUME StartupInv, CpuBank
  PROVE  StartupInv' /\ (pc' = "segv" => FilesFree' < 4)
<1> DEFINE c == topology.cpuBanks
<1>1. Still /\ pc = "cpuBanks" /\ i <= c /\ leaked + KeysRead = AllKeys + 1 + Turns(i)
  BY DEF CpuBank, Still, StartupInv, LeakInv
<1>2. /\ i \in Nat /\ c \in Nat /\ KeysRead \in Nat /\ AllKeys \in Nat
      /\ leaked \in Nat /\ topology' = topology
  BY <1>1, KeysOf DEF StartupInv, ControlInv, LeakInv, Still
<1>3. CASE i < c
  <2> DEFINE n == IF i = 0 THEN 4 ELSE 3
  <2>1. i' = i + 1 /\ kmtReadKey(n, TRUE, pc)
    BY <1>3 DEF CpuBank
  <2>2. /\ leaked' \in Nat /\ FilesFree' >= 0
        /\ \/ pc' = pc /\ leaked' = leaked + n
           \/ pc' = "segv" /\ FilesFree' < 4
    <3>1. \/ FilesFree >= n /\ pc' = pc /\ leaked' = leaked + n
          \/ ~ (FilesFree >= n) /\ pc' = "segv" /\ leaked' = leaked + 0
      BY <1>2, <2>1 DEF kmtReadKey
    <3> QED  BY <1>1, <3>1, FilesAfter DEF Still, StartupInv, LeakInv
  <2>3. /\ ControlInv' /\ TableInv' /\ SdmaInv'
        /\ KeysRead' = KeysRead /\ AllKeys' = AllKeys
    BY <1>1, <1>2, <2>1, <2>2, StillKeeps DEF StartupInv
  <2>4. LeakInv'
    <3>1. Turns(i') = Turns(i) + n /\ Turns(i) \in Nat
      BY <1>2, <2>1, TurnsOf
    <3>2. i' <= c
      BY <1>2, <1>3, <2>1
    <3>3. pc' = pc => leaked' + KeysRead' = AllKeys' + 1 + Turns(i')
      BY <1>1, <1>2, <2>2, <2>3, <3>1
    <3> QED  BY <1>1, <1>2, <2>2, <3>2, <3>3 DEF LeakInv
  <2> QED  BY <1>1, <2>2, <2>3, <2>4 DEF StartupInv
<1>4. CASE ~ (i < c)
  <2> DEFINE n == IF i = 0 THEN 1 ELSE 0
  <2>1. i' = 0 /\ kmtReadKey(n, TRUE, "gpuBanks") /\ i = c
    <3>1. i' = 0 /\ kmtReadKey(n, TRUE, "gpuBanks")
      BY <1>4 DEF CpuBank
    <3>2. i = c
      BY <1>1, <1>2, <1>4
    <3> QED  BY <3>1, <3>2
  <2>2. /\ leaked' \in Nat /\ FilesFree' >= 0
        /\ \/ pc' = "gpuBanks" /\ leaked' = leaked + n
           \/ pc' = "segv" /\ FilesFree' < 4
    <3>1. \/ (n = 0 \/ FilesFree >= n) /\ pc' = "gpuBanks" /\ leaked' = leaked + n
          \/ ~ (FilesFree >= n) /\ pc' = "segv" /\ leaked' = leaked + 0
      BY <1>2, <2>1 DEF kmtReadKey
    <3> QED  BY <1>1, <3>1, FilesAfter DEF Still, StartupInv, LeakInv
  <2>3. /\ ControlInv' /\ TableInv' /\ SdmaInv'
        /\ KeysRead' = KeysRead /\ AllKeys' = AllKeys
    BY <1>1, <2>1, <2>2, StillKeeps DEF StartupInv
  <2>4. LeakInv'
    <3>1. Turns(i) + n = Loop(c) /\ Turns(i) \in Nat /\ Turns(i') = 0
      BY <1>2, <2>1, TurnsOf DEF Turns
    <3>2. pc' = "gpuBanks" => leaked' + KeysRead' = AllKeys' + 1 + Loop(c) + Turns(i')
      BY <1>1, <1>2, <2>2, <2>3, <3>1
    <3> QED  BY <1>2, <2>1, <2>2, <3>2 DEF LeakInv
  <2> QED  BY <2>2, <2>3, <2>4 DEF StartupInv
<1> QED  BY <1>3, <1>4

\* of one of the GPU,
LEMMA GpuStep ==
  ASSUME StartupInv, GpuBank
  PROVE  StartupInv' /\ (pc' = "segv" => \/ FilesFree' < 4
                                          \/ topology.gpuBanks < topology.cpuBanks)
<1> DEFINE c == topology.cpuBanks
<1>1. Still /\ pc = "gpuBanks" /\ i <= c
      /\ leaked + KeysRead = AllKeys + 1 + Loop(c) + Turns(i)
  BY DEF GpuBank, Still, StartupInv, LeakInv
<1>2. /\ i \in Nat /\ c \in Nat /\ topology.gpuBanks \in Nat /\ topology.caches \in Nat
      /\ Loop(c) \in Nat /\ KeysRead \in Nat /\ AllKeys \in Nat
      /\ leaked \in Nat /\ topology' = topology
  BY <1>1, KeysOf, TurnsOf DEF StartupInv, ControlInv, LeakInv, Still
<1>3. CASE i < c
  <2> DEFINE n == IF i = 0 THEN 4 ELSE 3
  <2>1. i' = i + 1 /\ kmtReadKey(n, i < topology.gpuBanks, pc)
    BY <1>3 DEF GpuBank
  <2>2. /\ leaked' \in Nat /\ FilesFree' >= 0
        /\ \/ pc' = pc /\ leaked' = leaked + n
           \/ pc' = "segv" /\ (FilesFree' < 4 \/ topology.gpuBanks < c)
    <3>1. \/ FilesFree >= n /\ pc' = pc /\ leaked' = leaked + n
          \/ /\ pc' = "segv" /\ leaked' = leaked + 0
             /\ ~ (FilesFree >= n) \/ ~ (i < topology.gpuBanks)
      BY <1>2, <2>1 DEF kmtReadKey
    <3>2. ~ (i < topology.gpuBanks) => topology.gpuBanks < c
      BY <1>2, <1>3
    <3> QED  BY <1>1, <3>1, <3>2, FilesAfter DEF Still, StartupInv, LeakInv
  <2>3. /\ ControlInv' /\ TableInv' /\ SdmaInv'
        /\ KeysRead' = KeysRead /\ AllKeys' = AllKeys
    BY <1>1, <1>2, <2>1, <2>2, StillKeeps DEF StartupInv
  <2>4. LeakInv'
    <3>1. Turns(i') = Turns(i) + n /\ Turns(i) \in Nat
      BY <1>2, <2>1, TurnsOf
    <3>2. i' <= c
      BY <1>2, <1>3, <2>1
    <3>3. pc' = pc => leaked' + KeysRead' = AllKeys' + 1 + Loop(c) + Turns(i')
      BY <1>1, <1>2, <2>2, <2>3, <3>1
    <3> QED  BY <1>1, <1>2, <2>2, <3>2, <3>3 DEF LeakInv
  <2> QED  BY <1>1, <2>2, <2>3, <2>4 DEF StartupInv
<1>4. CASE ~ (i < c)
  <2> DEFINE n == IF i = 0 THEN 1 ELSE 0
  <2>1. i' = 0 /\ kmtReadKey(n, TRUE, "caches") /\ i = c
    <3>1. i' = 0 /\ kmtReadKey(n, TRUE, "caches")
      BY <1>4 DEF GpuBank
    <3>2. i = c
      BY <1>1, <1>2, <1>4
    <3> QED  BY <3>1, <3>2
  <2>2. /\ leaked' \in Nat /\ FilesFree' >= 0
        /\ \/ pc' = "caches" /\ leaked' = leaked + n
           \/ pc' = "segv" /\ FilesFree' < 4
    <3>1. \/ (n = 0 \/ FilesFree >= n) /\ pc' = "caches" /\ leaked' = leaked + n
          \/ ~ (FilesFree >= n) /\ pc' = "segv" /\ leaked' = leaked + 0
      BY <1>2, <2>1 DEF kmtReadKey
    <3> QED  BY <1>1, <3>1, FilesAfter DEF Still, StartupInv, LeakInv
  <2>3. /\ ControlInv' /\ TableInv' /\ SdmaInv'
        /\ KeysRead' = KeysRead /\ AllKeys' = AllKeys
    BY <1>1, <2>1, <2>2, StillKeeps DEF StartupInv
  <2>4. LeakInv'
    <3>1. Turns(i) + n = Loop(c) /\ Turns(i) \in Nat /\ Turns(i') = 0
      BY <1>2, <2>1, TurnsOf DEF Turns
    <3>2. pc' = "caches" => leaked' + KeysRead' = AllKeys' + 1 + 2 * Loop(c) + Turns(i')
      BY <1>1, <1>2, <2>2, <2>3, <3>1
    <3>3. i' <= topology'.caches
      BY <1>2, <2>1
    <3> QED  BY <1>2, <2>1, <2>2, <3>2, <3>3 DEF LeakInv
  <2> QED  BY <2>2, <2>3, <2>4 DEF StartupInv
<1> QED  BY <1>3, <1>4

\* those of a cache,
LEMMA CacheStep ==
  ASSUME StartupInv, Cache
  PROVE  StartupInv' /\ (pc' = "segv" => FilesFree' < 4)
<1> DEFINE c == topology.caches
           b == topology.cpuBanks
<1>1. Still /\ pc = "caches" /\ i <= c
      /\ leaked + KeysRead = AllKeys + 1 + 2 * Loop(b) + Turns(i)
  BY DEF Cache, Still, StartupInv, LeakInv
<1>2. /\ i \in Nat /\ c \in Nat /\ Loop(b) \in Nat /\ KeysRead \in Nat /\ AllKeys \in Nat
      /\ leaked \in Nat /\ topology' = topology
  BY <1>1, KeysOf, TurnsOf DEF StartupInv, ControlInv, LeakInv, Still
<1>3. CASE i < c
  <2> DEFINE n == IF i = 0 THEN 4 ELSE 3
  <2>1. i' = i + 1 /\ kmtReadKey(n, TRUE, pc)
    BY <1>3 DEF Cache
  <2>2. /\ leaked' \in Nat /\ FilesFree' >= 0
        /\ \/ pc' = pc /\ leaked' = leaked + n
           \/ pc' = "segv" /\ FilesFree' < 4
    <3>1. \/ FilesFree >= n /\ pc' = pc /\ leaked' = leaked + n
          \/ ~ (FilesFree >= n) /\ pc' = "segv" /\ leaked' = leaked + 0
      BY <1>2, <2>1 DEF kmtReadKey
    <3> QED  BY <1>1, <3>1, FilesAfter DEF Still, StartupInv, LeakInv
  <2>3. /\ ControlInv' /\ TableInv' /\ SdmaInv'
        /\ KeysRead' = KeysRead /\ AllKeys' = AllKeys
    BY <1>1, <1>2, <2>1, <2>2, StillKeeps DEF StartupInv
  <2>4. LeakInv'
    <3>1. Turns(i') = Turns(i) + n /\ Turns(i) \in Nat
      BY <1>2, <2>1, TurnsOf
    <3>2. i' <= c
      BY <1>2, <1>3, <2>1
    <3>3. pc' = pc => leaked' + KeysRead' = AllKeys' + 1 + 2 * Loop(b) + Turns(i')
      BY <1>1, <1>2, <2>2, <2>3, <3>1
    <3> QED  BY <1>1, <1>2, <2>2, <3>2, <3>3 DEF LeakInv
  <2> QED  BY <1>1, <2>2, <2>3, <2>4 DEF StartupInv
<1>4. CASE ~ (i < c)
  <2> DEFINE n == IF i = 0 THEN 2 ELSE 1
  <2>1. i' = 0 /\ kmtReadKey(n, TRUE, "drm") /\ i = c
    <3>1. i' = 0 /\ kmtReadKey(n, TRUE, "drm")
      BY <1>4 DEF Cache
    <3>2. i = c
      BY <1>1, <1>2, <1>4
    <3> QED  BY <3>1, <3>2
  <2>2. /\ leaked' \in Nat /\ FilesFree' >= 0
        /\ \/ pc' = "drm" /\ leaked' = leaked + n
           \/ pc' = "segv" /\ FilesFree' < 4
    <3>1. \/ (n = 0 \/ FilesFree >= n) /\ pc' = "drm" /\ leaked' = leaked + n
          \/ ~ (FilesFree >= n) /\ pc' = "segv" /\ leaked' = leaked + 0
      BY <1>2, <2>1 DEF kmtReadKey
    <3> QED  BY <1>1, <3>1, FilesAfter DEF Still, StartupInv, LeakInv
  <2>3. /\ ControlInv' /\ TableInv' /\ SdmaInv'
        /\ KeysRead' = KeysRead /\ AllKeys' = AllKeys
    BY <1>1, <2>1, <2>2, StillKeeps DEF StartupInv
  <2>4. LeakInv'
    <3>1. Turns(i) + n = Loop(c) + 1 /\ Turns(i) \in Nat
      BY <1>2, <2>1, TurnsOf
    <3>2. KeysRead = 1 + 2 * Loop(b) + Loop(c) + 1 /\ Loop(c) \in Nat
      BY <1>2, KeysOf, TurnsOf DEF StartupInv
    <3>3. pc' = "drm" => leaked' = AllKeys'
      BY <1>1, <1>2, <2>2, <2>3, <3>1, <3>2
    <3> QED  BY <2>2, <3>3 DEF LeakInv
  <2> QED  BY <2>2, <2>3, <2>4 DEF StartupInv
<1> QED  BY <1>3, <1>4

-----------------------------------------------------------------------------
(* The other steps.                                                        *)

\* the opening of the device,
LEMMA OpenStep ==
  ASSUME StartupInv, kmtOpen
  PROVE  StartupInv'
<1>1. /\ pc = "off" /\ inits < InitLimit /\ inits' = inits + 1
      /\ kfd' \in Opened /\ pc' = "info"
      /\ UNCHANGED <<topology, drm, leaked, vm, apertures, i, queueVars>>
      /\ kfd = "closed" /\ drm = "closed"
  BY DEF kmtOpen, StartupInv, ControlInv
<1>2. /\ inits \in Nat /\ KeysRead \in Nat /\ InitLimit \in Nat /\ AllKeys \in Nat
      /\ leaked \in Nat /\ leaked = AllKeys
  BY <1>1, KeysOf, StartupAssumption DEF StartupInv, ControlInv, LeakInv
<1>3. ControlInv'
  BY <1>1, <1>2 DEF StartupInv, ControlInv, Opened
<1>4. LeakInv'
  <2>1. KeysRead' = KeysRead
    BY <1>1 DEF KeysRead
  <2>2. (inits + 1) * KeysRead = inits * KeysRead + KeysRead
    BY <1>2
  <2>3. AllKeys' = AllKeys + KeysRead
    BY <1>1, <2>1, <2>2 DEF AllKeys
  <2>4. FilesFree' >= 0
    BY <1>1, <1>2, StartupAssumption DEF FilesFree, Open, Opened, StartupInv, LeakInv
  <2> QED  BY <1>1, <1>2, <2>1, <2>3, <2>4 DEF LeakInv
<1>5. TableInv' /\ SdmaInv'
  BY <1>1 DEF queueVars, StartupInv, TableInv, CreatedAt, SdmaInv
<1> QED  BY <1>3, <1>4, <1>5 DEF StartupInv

\* that of the render node,
LEMMA DrmStep ==
  ASSUME StartupInv, open_drm
  PROVE  StartupInv'
<1>1. /\ pc = "drm" /\ drm' \in Opened /\ pc' = "acquire"
      /\ UNCHANGED <<topology, kfd, leaked, vm, apertures, i, inits, queueVars>>
  BY DEF open_drm
<1>2. ControlInv'
  BY <1>1 DEF StartupInv, ControlInv, Opened
<1>3. LeakInv'
  <2>1. AllKeys' = AllKeys
    BY <1>1 DEF AllKeys, KeysRead
  <2>2. Open(kfd) \in Nat /\ leaked \in Nat /\ MaxFiles \in Nat /\ Open(drm) \in {0, 1}
    BY StartupAssumption DEF Open, StartupInv, LeakInv
  <2>3. FilesFree' >= 0
    <3>1. Open(drm') = 0 \/ (Open(drm') = 1 /\ FilesFree > 0)
      BY <1>1 DEF Open, Opened
    <3>2. FilesFree' = MaxFiles - (Open(kfd) + Open(drm') + leaked)
      BY <1>1 DEF FilesFree
    <3> QED  BY <2>2, <3>1, <3>2 DEF FilesFree, StartupInv, LeakInv
  <2> QED  BY <1>1, <2>1, <2>3 DEF StartupInv, LeakInv
<1>4. TableInv' /\ SdmaInv'
  BY <1>1 DEF queueVars, StartupInv, TableInv, CreatedAt, SdmaInv
<1> QED  BY <1>2, <1>3, <1>4 DEF StartupInv

\* Steps that leave files, keys and queues alone.
LEMMA AskStep ==
  ASSUME StartupInv, acquire_vm_from_drm \/ get_process_apertures
  PROVE  StartupInv' /\ pc' # "segv"
<1>1. UNCHANGED <<topology, kfd, drm, leaked, i, inits, queueVars>>
  BY DEF acquire_vm_from_drm, get_process_apertures
<1>2. \/ pc = "acquire" /\ pc' = "apertures" /\ apertures' = apertures /\ vm' \in BOOLEAN
      \/ /\ pc = "apertures" /\ apertures' \in BOOLEAN /\ vm' = vm
         /\ \/ pc' = "queue" /\ kfd = "open" /\ apertures'
            \/ pc' = "assert"
  <2>1. CASE acquire_vm_from_drm
    <3>1. PICK ok \in Answers(kfd) : vm' = (ok /\ drm = "open")
      BY <2>1 DEF acquire_vm_from_drm
    <3>2. vm' \in BOOLEAN
      BY <3>1
    <3> QED  BY <2>1, <3>2 DEF acquire_vm_from_drm
  <2>2. CASE get_process_apertures
    <3>1. PICK ok \in Answers(kfd) : /\ apertures' = ok
                                    /\ pc' = IF ok THEN "queue" ELSE "assert"
      BY <2>2 DEF get_process_apertures
    <3>2. ok \in BOOLEAN /\ (ok => kfd = "open")
      BY DEF Answers
    <3>3. apertures' \in BOOLEAN
      BY <3>1, <3>2
    <3>4. CASE ok
      BY <2>2, <3>1, <3>2, <3>3, <3>4 DEF get_process_apertures
    <3>5. CASE ~ ok
      BY <2>2, <3>1, <3>3, <3>5 DEF get_process_apertures
    <3> QED  BY <3>4, <3>5
  <2> QED  BY <2>1, <2>2
<1>3. ControlInv'
  BY <1>1, <1>2 DEF StartupInv, ControlInv
<1>4. LeakInv'
  <2>1. AllKeys' = AllKeys /\ FilesFree' = FilesFree
    BY <1>1 DEF AllKeys, KeysRead, FilesFree
  <2> QED  BY <1>1, <1>2, <2>1 DEF StartupInv, LeakInv
<1>5. TableInv' /\ SdmaInv'
  BY <1>1, <1>2 DEF queueVars, StartupInv, TableInv, CreatedAt, SdmaInv
<1> QED  BY <1>2, <1>3, <1>4, <1>5 DEF StartupInv

\* A create, of the SDMA queue in a start-up, or of an AQL queue.
LEMMA CreateStep ==
  ASSUME StartupInv, NEW type \in Types, CreateQueue(type),
         \/ pc = "queue" /\ type = "sdma"
         \/ pc = "ready" /\ type = "aql"
  PROVE  StartupInv' /\ pc' # "segv"
<1>1. /\ UNCHANGED <<topology, kfd, drm, leaked, vm, apertures, i, inits>>
      /\ pc' \in {"ready", "refused", "overrun"}
  BY DEF CreateQueue
<1>2. ControlInv'
  BY <1>1 DEF StartupInv, ControlInv
<1>3. LeakInv'
  <2>1. AllKeys' = AllKeys /\ FilesFree' = FilesFree
    BY <1>1 DEF AllKeys, KeysRead, FilesFree
  <2> QED  BY <1>1, <2>1 DEF StartupInv, LeakInv
<1>4. CASE KmtCreateQueue(type) /\ pc' = "ready"
  <2>1. PICK q : TableInv' /\ q.type = type /\ queues' = queues \cup {q}
    BY <1>4, CreateTable DEF StartupInv
  <2>2. SdmaInv'
    <3>1. CASE type = "sdma"
      <4>1. OfType(queues, "sdma") = {}
        BY <3>1 DEF StartupInv, SdmaInv
      <4>2. OfType(queues', "sdma") = {q} /\ q \in queues'
        BY <2>1, <3>1, <4>1 DEF OfType
      <4> QED  BY <1>4, <4>2 DEF SdmaInv
    <3>2. CASE type = "aql"
      <4>1. OfType(queues', "sdma") = OfType(queues, "sdma") /\ queues \subseteq queues'
        BY <2>1, <3>2 DEF OfType
      <4>2. \E d \in queues : OfType(queues, "sdma") = {d}
        BY <3>2 DEF StartupInv, SdmaInv
      <4> QED  BY <1>4, <4>1, <4>2 DEF SdmaInv
    <3> QED  BY <3>1, <3>2 DEF Types
  <2> QED  BY <1>1, <1>2, <1>3, <2>1, <2>2 DEF StartupInv
<1>5. CASE CreateRefused(type) /\ pc' = "refused"
  BY <1>2, <1>3, <1>5, RefusedTable DEF StartupInv, SdmaInv
<1>6. CASE CreateOverruns(type) /\ pc' = "overrun"
  <2>1. TableInv' /\ SdmaInv'
    BY <1>6 DEF CreateOverruns, queueVars, StartupInv, TableInv, CreatedAt, SdmaInv
  <2> QED  BY <1>2, <1>3, <1>6, <2>1 DEF StartupInv
<1> QED  BY <1>4, <1>5, <1>6 DEF CreateQueue

\* the destruction of the SDMA queue,
LEMMA DestroyStep ==
  ASSUME StartupInv, hsaDeInitSdma
  PROVE  StartupInv' /\ pc' = "deinit"
<1>1. PICK q \in queues : q.type = "sdma" /\ KmtDestroyQueue(q)
  BY DEF hsaDeInitSdma
<1>2. /\ UNCHANGED <<topology, kfd, drm, leaked, vm, apertures, i, inits>>
      /\ pc = "ready" /\ pc' = "deinit"
  BY DEF hsaDeInitSdma
<1>3. TableInv' /\ queues' = queues \ {q}
  BY <1>1, DestroyTable DEF StartupInv
<1>4. SdmaInv'
  <2>1. OfType(queues, "sdma") = {q}
    BY <1>1, <1>2 DEF StartupInv, SdmaInv, OfType
  <2>2. OfType(queues', "sdma") = {}
    BY <1>3, <2>1 DEF OfType
  <2> QED  BY <1>2, <2>2 DEF SdmaInv
<1>5. ControlInv'
  BY <1>2 DEF StartupInv, ControlInv
<1>6. LeakInv'
  <2>1. AllKeys' = AllKeys /\ FilesFree' = FilesFree
    BY <1>2 DEF AllKeys, KeysRead, FilesFree
  <2> QED  BY <1>2, <2>1 DEF StartupInv, LeakInv
<1> QED  BY <1>2, <1>3, <1>4, <1>5, <1>6 DEF StartupInv

\* the closing of both devices,
LEMMA CloseStep ==
  ASSUME StartupInv, Close
  PROVE  StartupInv' /\ pc' = "off"
<1>1. /\ pc = "deinit" /\ drm' = "closed" /\ kfd' = "closed" /\ pc' = "off"
      /\ UNCHANGED <<topology, leaked, vm, apertures, i, inits, queueVars>>
  BY DEF Close
<1>2. ControlInv'
  BY <1>1 DEF StartupInv, ControlInv
<1>3. LeakInv'
  <2>1. AllKeys' = AllKeys
    BY <1>1 DEF AllKeys, KeysRead
  <2>2. Open(kfd) \in Nat /\ Open(drm) \in Nat /\ leaked \in Nat /\ MaxFiles \in Nat
    BY StartupAssumption DEF Open, StartupInv, LeakInv
  <2>3. FilesFree' >= 0
    BY <1>1, <2>2 DEF FilesFree, Open, StartupInv, LeakInv
  <2> QED  BY <1>1, <2>1, <2>3 DEF StartupInv, LeakInv
<1>4. TableInv' /\ SdmaInv'
  BY <1>1 DEF queueVars, StartupInv, TableInv, CreatedAt, SdmaInv
<1> QED  BY <1>1, <1>2, <1>3, <1>4 DEF StartupInv

\* and a step that changes nothing.
LEMMA StutterStep ==
  ASSUME StartupInv, UNCHANGED vars
  PROVE  StartupInv'
<1>1. ControlInv'
  BY DEF vars, StartupInv, ControlInv
<1>2. LeakInv'
  BY DEF vars, StartupInv, LeakInv, AllKeys, KeysRead, FilesFree
<1>3. TableInv' /\ SdmaInv'
  BY DEF vars, queueVars, StartupInv, TableInv, CreatedAt, SdmaInv
<1> QED  BY <1>1, <1>2, <1>3 DEF StartupInv

-----------------------------------------------------------------------------
(* Theorems.                                                               *)

\* The invariant is inductive.
LEMMA StartupInvStep ==
  ASSUME StartupInv, [Next]_vars
  PROVE  StartupInv'
<1>1. CASE hsaInitSdma
  BY <1>1, CreateStep DEF hsaInitSdma, Types
<1>2. CASE HsaAqlCreate
  BY <1>2, CreateStep DEF HsaAqlCreate, Types
<1> QED
  BY <1>1, <1>2, OpenStep, InfoStep, CpuStep, GpuStep, CacheStep, DrmStep, AskStep,
     DestroyStep, CloseStep, StutterStep
  DEF Next, Starting

\* The invariant holds throughout.
THEOREM StartupInvariant == Spec => []StartupInv
<1>1. Init => StartupInv
  <2> SUFFICES ASSUME Init  PROVE StartupInv
    OBVIOUS
  <2>1. ControlInv
    <3>1. vm \in BOOLEAN /\ apertures \in BOOLEAN
      BY DEF Init
    <3>2. inits \in 0 .. InitLimit /\ i \in Nat
      BY StartupAssumption DEF Init
    <3> QED  BY <3>1, <3>2 DEF Init, ControlInv
  <2>2. LeakInv
    <3>1. AllKeys = 0
      BY <2>1, KeysOf DEF AllKeys, Init
    <3>2. FilesFree >= 0
      BY StartupAssumption DEF Init, FilesFree, Open
    <3> QED  BY <3>1, <3>2 DEF Init, LeakInv
  <2>3. TableInv
    <3>1. \A type : OfType({}, type) = {}
      BY DEF OfType
    <3>2. queues = {} /\ kqueues = {} /\ vm_obj_cnt = 0 /\ live = {}
      BY DEF Init, QueueInit
    <3>3. 0 \in 0 .. MaxVmObj /\ {} = 1 .. 0 /\ 0 <= MaxQueues
      BY KmtQueueAssumption
    <3>4. IsFiniteSet({}) /\ Cardinality({}) = 0
      BY FS_EmptySet
    <3> QED  BY <3>1, <3>2, <3>3, <3>4 DEF TableInv
  <2>4. SdmaInv
    BY DEF Init, QueueInit, SdmaInv, OfType
  <2> QED  BY <2>1, <2>2, <2>3, <2>4 DEF StartupInv
<1>2. StartupInv /\ [Next]_vars => StartupInv'
  BY StartupInvStep
<1> QED  BY <1>1, <1>2, PTL DEF Spec

\* Every file but the two devices that is open while no call is under way was left open by
\* a read key, as many as start-ups read; a queue has buffers of its own, and the program
\* and the driver know the same queues (kmthsa.cpp:20-47, queue.cpp:54-163).
THEOREM StartupTypeCorrect == Spec => []TypeOK
<1>1. StartupInv => TypeOK
  <2> SUFFICES ASSUME StartupInv  PROVE TypeOK
    OBVIOUS
  <2>1. leaked \in 0 .. MaxFiles
    <3>1. Open(kfd) \in Nat /\ Open(drm) \in Nat /\ leaked \in Nat /\ MaxFiles \in Nat
      BY StartupAssumption DEF Open, StartupInv, LeakInv
    <3> QED  BY <3>1 DEF FilesFree, StartupInv, LeakInv
  <2>2. pc \in {"off", "ready"} => leaked = inits * KeysRead
    BY DEF StartupInv, LeakInv, AllKeys
  <2>3. ASSUME NEW q \in queues
        PROVE  /\ q.type \in Types /\ q.id \in Doorbells
               /\ Cardinality(Held(q.buffers)) = Asked(q.type)
               /\ q.mapping \in (1 .. vm_obj_cnt) \ Held(q.buffers)
    <3>1. PICK n \in Nat : /\ Held(q.buffers) = (n + 1) .. (n + Asked(q.type))
                          /\ q.mapping = n + Asked(q.type) + 1
                          /\ n + Asked(q.type) + 1 <= vm_obj_cnt
                          /\ Asked(q.type) \in Nat
      BY QueueFields DEF StartupInv
    <3>2. Cardinality(Held(q.buffers)) = Asked(q.type)
      BY <3>1, FS_Interval
    <3>3. q.mapping \in (1 .. vm_obj_cnt) \ Held(q.buffers)
      BY <3>1, KmtQueueAssumption DEF StartupInv, TableInv
    <3> QED  BY <3>2, <3>3 DEF StartupInv, TableInv
  <2>4. \A k \in kqueues : k.type \in Types
    BY KernelFields DEF StartupInv, TableInv
  <2>5. {k.doorbell : k \in kqueues} = {q.id : q \in queues}
    BY KernelFields DEF StartupInv, TableInv
  <2>6. live \subseteq 1 .. vm_obj_cnt /\ vm_obj_cnt \in 0 .. MaxVmObj
    BY DEF StartupInv, TableInv
  <2> QED  BY <2>1, <2>2, <2>3, <2>4, <2>5, <2>6 DEF StartupInv, ControlInv, TypeOK
<1> QED  BY <1>1, StartupInvariant, PTL

\* A start-up that returns has the device, the address space and the SDMA queue, and the
\* tear-down undoes it (kmthsa.cpp:53-55, 84-89, memory.cpp:199-201).
THEOREM StartupReadyAndOff == Spec => []ReadyAndOff
<1>1. StartupInv => ReadyAndOff
  <2> SUFFICES ASSUME StartupInv  PROVE ReadyAndOff
    OBVIOUS
  <2>1. ASSUME pc = "ready"
        PROVE  kfd = "open" /\ apertures /\ \E k \in kqueues : k.type = "sdma"
    <3>1. PICK q \in queues : OfType(queues, "sdma") = {q}
      BY <2>1 DEF StartupInv, SdmaInv
    <3>2. Kernel(q) \in kqueues /\ Kernel(q).type = "sdma"
      BY <3>1, KernelFields DEF StartupInv, TableInv, OfType
    <3> QED  BY <2>1, <3>2 DEF StartupInv, ControlInv
  <2>2. ASSUME pc = "off"
        PROVE  kfd = "closed" /\ drm = "closed" /\ \A k \in kqueues : k.type = "aql"
    <3>1. OfType(queues, "sdma") = {}
      BY <2>2 DEF StartupInv, SdmaInv
    <3>2. \A q \in queues : q.type = "aql"
      BY <3>1 DEF OfType, Types, StartupInv, TableInv
    <3>3. \A k \in kqueues : k.type = "aql"
      BY <3>2, KernelFields DEF StartupInv, TableInv
    <3> QED  BY <2>2, <3>3 DEF StartupInv, ControlInv
  <2> QED  BY <2>1, <2>2 DEF ReadyAndOff
<1> QED  BY <1>1, StartupInvariant, PTL

\* The engine of a queue the driver has works on live buffers, and on none of another
\* queue's (queue.cpp:91-103, 157).
THEOREM StartupQueuesBacked == Spec => []QueuesBacked
<1>1. StartupInv => QueuesBacked
  <2> SUFFICES ASSUME StartupInv  PROVE QueuesBacked
    OBVIOUS
  <2>1. ASSUME NEW q \in queues  PROVE Held(q.buffers) \subseteq live
    <3>1. PICK n \in Nat : /\ Held(q.buffers) = (n + 1) .. (n + Asked(q.type))
                          /\ n + Asked(q.type) + 1 <= vm_obj_cnt
                          /\ Asked(q.type) \in Nat
      BY QueueFields DEF StartupInv
    <3>2. vm_obj_cnt \in Nat /\ live = 1 .. vm_obj_cnt
      BY KmtQueueAssumption DEF StartupInv, TableInv
    <3> QED  BY <3>1, <3>2
  <2>2. kqueues = {Kernel(q) : q \in queues}
    BY DEF StartupInv, TableInv
  <2>3. \A p, q \in queues : p # q => Held(p.buffers) \cap Held(q.buffers) = {}
    BY DEF StartupInv, TableInv
  <2>4. \A k \in kqueues : Held(k.buffers) \subseteq live
    BY <2>1, <2>2, KernelFields
  <2>5. ASSUME NEW j \in kqueues, NEW k \in kqueues, j # k
        PROVE  Held(j.buffers) \cap Held(k.buffers) = {}
    <3>1. PICK p \in queues : j = Kernel(p)
      BY <2>2
    <3>2. PICK q \in queues : k = Kernel(q)
      BY <2>2
    <3>3. j.buffers = p.buffers /\ k.buffers = q.buffers /\ p # q
      BY <2>5, <3>1, <3>2, KernelFields
    <3> QED  BY <2>3, <3>3
  <2> QED  BY <2>4, <2>5 DEF QueuesBacked
<1> QED  BY <1>1, StartupInvariant, PTL

\* A write to the doorbell of a queue rings that queue and no other
\* (queue.cpp:130-144).
THEOREM StartupDoorbells == Spec => []DoorbellReachesQueue
<1>1. StartupInv => DoorbellReachesQueue
  <2> SUFFICES ASSUME StartupInv, NEW q \in queues
               PROVE  {k.buffers : k \in {k \in kqueues : k.doorbell = q.mapped + q.inner}}
                        = {q.buffers}
    BY DEF DoorbellReachesQueue
  <2>1. q.mapped + q.inner = q.id
    BY QueueFields DEF StartupInv
  <2>2. \A p \in queues : p.id = q.id <=> p = q
    BY DEF StartupInv, TableInv
  <2>3. {k \in kqueues : k.doorbell = q.id} = {Kernel(q)}
    BY <2>2, KernelFields DEF StartupInv, TableInv
  <2> QED  BY <2>1, <2>3, KernelFields
<1> QED  BY <1>1, StartupInvariant, PTL

\* However many start-ups there were, a start-up fails only for want of descriptors or
\* because the GPU has fewer banks than the CPU, and a create only for want of queues
\* (kmthsa.cpp:23-33, memory.cpp:139, queue.cpp:115-116, 157, sdma.cpp:436).
THEOREM StartupFailsOnlyForWant == Spec => []FailsOnlyForWant
<1>1. Init => FailsOnlyForWant
  BY DEF Init, FailsOnlyForWant
<1>2. StartupInv /\ FailsOnlyForWant /\ [Next]_vars => FailsOnlyForWant'
  <2> SUFFICES ASSUME StartupInv, FailsOnlyForWant, [Next]_vars
               PROVE  FailsOnlyForWant'
    OBVIOUS
  <2>2. CASE kmtGetInfo \/ CpuBank \/ GpuBank \/ Cache
    <3>1. pc' \in {"cpuBanks", "gpuBanks", "caches", "drm", "segv"}
      BY <2>2 DEF kmtGetInfo, CpuBank, GpuBank, Cache, kmtReadKey
    <3>2. pc' = "segv" => FilesFree' < 4 \/ topology.gpuBanks < topology.cpuBanks
      BY <2>2, InfoStep, CpuStep, GpuStep, CacheStep
    <3>3. topology' = topology
      BY <2>2 DEF kmtGetInfo, CpuBank, GpuBank, Cache, kmtReadKey
    <3> QED  BY <3>1, <3>2, <3>3 DEF FailsOnlyForWant
  <2>3. CASE UNCHANGED vars
    BY <2>3 DEF vars, queueVars, FailsOnlyForWant, FilesFree
  <2>4. ASSUME NEW type \in Types, CreateQueue(type)  PROVE FailsOnlyForWant'
    <3>1. CASE CreateRefused(type) /\ pc' = "refused"
      <4>1. Refused(type) /\ queues' = queues
        BY <3>1, RefusedTable DEF CreateRefused, StartupInv
      <4>2. CASE Cardinality({k \in kqueues : k.type = type}) >= MaxQueues
        <5>1. Cardinality(OfType(queues, type)) >= MaxQueues
          BY <4>2, SameNumbers DEF OfType, StartupInv
        <5>2. Cardinality(OfType(queues, type)) \in Nat
          BY SameNumbers, FS_CardinalityType DEF StartupInv
        <5>3. Cardinality(OfType(queues, type)) = MaxQueues
          BY <5>1, <5>2, KmtQueueAssumption DEF StartupInv, TableInv
        <5> QED  BY <3>1, <4>1, <5>3 DEF FailsOnlyForWant, OfType
      <4>3. CASE Doorbells = InUse
        BY <3>1, <4>1, <4>3, SameNumbers DEF FailsOnlyForWant, StartupInv
      <4> QED  BY <4>1, <4>2, <4>3 DEF Refused
    <3>2. CASE pc' # "refused"
      BY <2>4, <3>2 DEF CreateQueue, FailsOnlyForWant
    <3> QED  BY <2>4, <3>1, <3>2 DEF CreateQueue
  <2>5. CASE hsaInitSdma
    BY <2>4, <2>5 DEF hsaInitSdma, Types
  <2>6. CASE HsaAqlCreate
    BY <2>4, <2>6 DEF HsaAqlCreate, Types
  <2>7. CASE \/ kmtOpen \/ open_drm \/ acquire_vm_from_drm \/ get_process_apertures
             \/ hsaDeInitSdma \/ Close
    <3>1. pc' \notin {"segv", "refused"}
      BY <2>7 DEF kmtOpen, open_drm, acquire_vm_from_drm, get_process_apertures,
                  hsaDeInitSdma, Close
    <3> QED  BY <3>1 DEF FailsOnlyForWant
  <2> QED  BY <2>2, <2>3, <2>5, <2>6, <2>7 DEF Next, Starting
<1> QED  BY <1>1, <1>2, StartupInvariant, PTL DEF Spec

=============================================================================
