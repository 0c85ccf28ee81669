--------------------------- MODULE KmtMemoryProps ---------------------------
(***************************************************************************)
(* What must be true of the memory manager modelled in KmtMemory.          *)
(***************************************************************************)
EXTENDS KmtMemory, FiniteSets

Live == {c \in Cells : cell[c].live}
Owned == held \cup (IF call.op \in {"map", "release"} THEN {call.addr} ELSE {})
UsedBos == {h \in Handles : bo[h].used}
Extent(c) == cell[c].start .. cell[c].start + cell[c].size - 1

\* The lookup of a returns the live object of the allocation at a, and the handle
\* KmtGetVmHandle reads from it names a buffer object of that address and size.
FindsOwner(a) ==
  LET obj == find_vm_obj(a)
      object == bo[KmtGetVmHandle(a)]
  IN /\ obj \in Live
     /\ cell[obj].start = a
     /\ KmtGetVmHandle(a) \in UsedBos
     /\ object.va = a
     /\ object.size = cell[obj].size

BufferObject == [used : BOOLEAN, va : 0 .. NPages, size : Nat, mapped : BOOLEAN]
VmObject == [live : BOOLEAN, start : 0 .. NPages, size : Nat,
             handle : Handles \cup {NULL}]
Call == [op : {"idle", "map", "release"} \cup Failures, addr : 0 .. NPages]

\* Type invariant of the memory manager's variables (memory.cpp:68-70).
TypeOK ==
  /\ page \in [Pages -> {"free", "none", "rw"}]
  /\ bo \in [Handles -> BufferObject]
  /\ cell \in [Cells -> VmObject]
  /\ vm_obj_array \in [Slots -> Cells \cup {NULL}]
  /\ vm_obj_cnt \in Nat
  /\ held \in SUBSET (0 .. NPages)
  /\ call \in Call

\* find_vm_obj, asked for an address a caller still owns, returns the object of
\* that allocation and of no other, although the table is full of pointers to
\* freed blocks, some of which malloc has since given to other objects.
LookupFindsOwner == \A a \in Owned : FindsOwner(a)

\* Every allocation is followed by a page that is mapped PROT_NONE and belongs to
\* no other, so code that runs past its end faults and does not reach another
\* allocation (memory.cpp:230).  It holds until a call fails: with freed blocks
\* that show their address, a second free unmaps pages of the first size.
GuardPageBehindEveryObject ==
  call.op \notin Failures =>
    \A c \in Live :
      LET guard == cell[c].start + cell[c].size
      IN /\ \A p \in Extent(c) : page[p] # "free"
         /\ page[guard] = "none"
         /\ \A d \in Live \ {c} : guard \notin Extent(d)

\* The driver holds one buffer object for every allocation that is owned and no
\* other: the result of AMDKFD_IOC_FREE_MEMORY_OF_GPU is never looked at, so a
\* refused free would leave an object behind, mapped at released addresses.
NoOrphanBufferObject ==
  call.op \notin Failures =>
    /\ \A h \in UsedBos : bo[h].va \in Owned
    /\ \A a \in Owned : \E h \in UsedBos : bo[h].va = a
    /\ \A g, h \in UsedBos : bo[g].va = bo[h].va => g = h

\* No assert on an ioctl fails, no NULL is dereferenced and no block is freed
\* twice, whatever the order of allocations and frees (memory.cpp:567, 588).
NoCallFails == call.op \notin {"assert", "segv", "double_free"}

\* Freeing one allocation takes nothing from another: the pages behind every
\* other owned address stay mapped and its buffer object stays as it is.
OthersUntouched ==
  [][\A c \in Live :
       cell[c].start \in Owned \ {call.addr} /\ call.op = "release" =>
         /\ \A p \in cell[c].start .. cell[c].start + cell[c].size :
              page'[p] = page[p]
         /\ bo'[cell[c].handle] = bo[cell[c].handle]]_vars

\* The asserts behind AMDKFD_IOC_MAP_MEMORY_TO_GPU and its inverse hold: an owned
\* address leads to a handle the driver knows (memory.cpp:567, 588).
MapAssertsHold == call.op # "assert"

\* MAX_VM_OBJ_NUM is the number of objects the table takes (memory.cpp:68-70):
\* it overflows only if more of them than that are alive.
OverrunOnlyIfFull ==
  call.op = "overrun" => Cardinality(Live) > MaxVmObj

\* What the callers are promised (GpuBuffers), seen through the live objects.
PoolOfBuffers ==
  {[addr |-> cell[c].start, size |-> cell[c].size,
    mapped |-> bo[cell[c].handle].mapped] : c \in Live}
SpentPages ==
  {p \in Pages : page[p] # "free"}
    \ UNION {cell[c].start .. cell[c].start + cell[c].size : c \in Live}

Pool == INSTANCE GpuBuffers WITH buffers <- PoolOfBuffers, spent <- SpentPages

\* Every step of the memory manager is a step of that pool, or none of it.
ImplementsPool == Pool!Spec

=============================================================================
