------------------------------- MODULE KmtQueue -------------------------------
(***************************************************************************)
(* The queues of src/src/queue.cpp: a user (hsaInitSdma, HsaAqlCreate)     *)
(* allocates a ring and has KmtCreateQueue build a queue on it; another    *)
(* (hsaDeInitSdma) destroys one.  A queue lives in buffers of the process  *)
(* and in the kernel driver, which keeps their addresses.  When the users  *)
(* call is module Startup's.                                               *)
(*                                                                         *)
(* Buffers come from KmtMemory, here a counter that never gives the same   *)
(* one twice and a table that never gets a slot back.  The driver is       *)
(* external: it has few queues of each type, each with a doorbell in its   *)
(* page, and refuses a create when it has none left.                       *)
(***************************************************************************)
EXTENDS Naturals, FiniteSets

CONSTANTS
  MaxVmObj,     (* MAX_VM_OBJ_NUM                                          *)
  MaxQueues,    (* queues of each type the driver has                      *)
  DoorbellBytes,(* vega20_doorbell_size * 1024, the size of a mapping      *)
  Doorbells     (* offsets of doorbells the driver may give                *)

ASSUME KmtQueueAssumption ==
  /\ MaxVmObj \in Nat /\ MaxQueues \in Nat
  /\ DoorbellBytes \in Nat \ {0}
  /\ Doorbells \subseteq Nat

VARIABLES
  vm_obj_cnt,  (* buffers allocated so far                                 *)
  live,        (* of these, the ones not freed                             *)
  queues,      (* what the program knows of its queues                     *)
  kqueues      (* what the driver knows of them                            *)

queueVars == <<vm_obj_cnt, live, queues, kqueues>>

Types == {"sdma", "aql"}
NoBuffer == 0

InUse == {k.doorbell : k \in kqueues}
Refused(type) == \/ Cardinality({k \in kqueues : k.type = type}) >= MaxQueues
                 \/ Doorbells = InUse

\* The part of a doorbell's offset that mmap wants, and the rest, which is added to
\* the address mmap gives.
MmapOffset(offset) == offset - (offset % DoorbellBytes)
Inner(offset) == offset % DoorbellBytes

\* The buffers of a new queue after n others: the caller's ring, the kmt_queue_t
\* with the two indices, and for a compute queue the end-of-pipe buffer and the
\* context save area.
Buffers(n, type) ==
  [ring |-> n + 1, queue |-> n + 2,
   eop |-> IF type = "sdma" THEN NoBuffer ELSE n + 3,
   ctx |-> IF type = "sdma" THEN NoBuffer ELSE n + 4]

Held(b) == {b.ring, b.queue, b.eop, b.ctx} \ {NoBuffer}

\* Fault: the context save area of a compute queue is not counted.
Asked_NoContext(type) == IF type = "sdma" THEN 2 ELSE 3

\* Buffers that are allocated when the driver is asked for the queue.
Asked(type) == IF type = "sdma" THEN 2 ELSE 4

\* Buffers a create allocates in all: then comes the mapping of the doorbell, and
\* for a compute queue the memory of the kernel's arguments.
Count(type) == Asked(type) + (IF type = "sdma" THEN 1 ELSE 2)

-----------------------------------------------------------------------------
\* What the program and the driver record of a new queue whose doorbell is at
\* offset, with the mapping at the part of it the caller gives.
Record(type, n, offset, mapped) ==
  [type |-> type, buffers |-> Buffers(n, type), mapping |-> n + Asked(type) + 1,
   mapped |-> mapped, inner |-> Inner(offset), id |-> offset]

Create(type, offset, mapped) ==
  LET n == vm_obj_cnt
      new == n + Count(type)
  IN /\ new <= MaxVmObj /\ ~ Refused(type)
     /\ kqueues' = kqueues \cup
          {[type |-> type, buffers |-> Buffers(n, type), doorbell |-> offset]}
     /\ queues' = queues \cup {Record(type, n, offset, mapped)}
     /\ vm_obj_cnt' = new
     /\ live' = live \cup ((n + 1) .. new)

\* Fault: the mapping starts at the doorbell itself.
KmtCreateQueue_MapAtDoorbell(type) ==
  \E offset \in Doorbells \ InUse : Create(type, offset, offset)

\* Creating a queue: the driver gives a free doorbell, which is mapped.
KmtCreateQueue(type) ==
  \E offset \in Doorbells \ InUse : Create(type, offset, MmapOffset(offset))

\* The driver refuses, after the first allocations.
CreateRefused(type) ==
  /\ vm_obj_cnt + Asked(type) <= MaxVmObj /\ Refused(type)
  /\ vm_obj_cnt' = vm_obj_cnt + Asked(type)
  /\ live' = live \cup ((vm_obj_cnt + 1) .. vm_obj_cnt')
  /\ UNCHANGED <<queues, kqueues>>

\* An allocation finds the table full: what is then written past it is KmtMemory's
\* concern.
CreateOverruns(type) ==
  /\ vm_obj_cnt + Count(type) > MaxVmObj
  /\ Refused(type) => vm_obj_cnt + Asked(type) > MaxVmObj
  /\ UNCHANGED queueVars

\* Fault: the buffers go first, the id of the queue with them.
KmtDestroyQueue_BuffersFirst(q) ==
  /\ live' = live \ Held(q.buffers)
  /\ queues' = queues \ {q}
  /\ UNCHANGED <<vm_obj_cnt, kqueues>>

\* Fault: the queue is forgotten here and not there.
KmtDestroyQueue_NoIoctl(q) ==
  /\ queues' = queues \ {q}
  /\ UNCHANGED <<vm_obj_cnt, live, kqueues>>

\* Destroying a queue tells the driver; the buffers stay.
KmtDestroyQueue(q) ==
  /\ kqueues' = {k \in kqueues : k.doorbell # q.id}
  /\ queues' = queues \ {q}
  /\ UNCHANGED <<vm_obj_cnt, live>>

QueueInit ==
  /\ vm_obj_cnt = 0 /\ live = {}
  /\ queues = {} /\ kqueues = {}

=============================================================================
