----------------------------- MODULE KmtMemory -----------------------------
(***************************************************************************)
(* The memory manager of src/src/memory.cpp: one thread allocates, maps,   *)
(* unmaps and frees buffers.  An allocation lives in four places at once,  *)
(* and this module is about keeping them in step:                          *)
(*   - page:    the address space of the process (mmap and munmap);        *)
(*   - bo:      the buffer objects of the kernel driver, by handle;        *)
(*   - cell:    the malloc blocks that hold a vm_object_t;                 *)
(*   - vm_obj_array, vm_obj_cnt: the table find_vm_obj scans.              *)
(* The table keeps pointing to a block after release_memory_object freed   *)
(* it, so find_vm_obj reads freed blocks.  What a freed block shows is the *)
(* C library's choice: FreedStartSurvives says whether its first word, the *)
(* member start, may still hold the old address.  It cannot where free()   *)
(* links the block into a list through that word (tcache, unsorted bin);   *)
(* it can where the block is merged into the top of the heap.              *)
(***************************************************************************)
EXTENDS Naturals, FiniteSets

CONSTANTS
  NPages,             (* pages of address space mmap chooses from          *)
  Sizes,              (* sizes, in pages, the callers ask for              *)
  MaxVmObj,           (* MAX_VM_OBJ_NUM                                    *)
  Handles,            (* handles the driver can give to a buffer object    *)
  Cells,              (* heap blocks malloc can give to a vm_object_t      *)
  FreedStartSurvives  (* may a freed block still show its member start?    *)

ASSUME MemoryAssumption ==
  /\ NPages \in Nat
  /\ Sizes \subseteq Nat \ {0}
  /\ MaxVmObj \in Nat \ {0}
  /\ Handles \subseteq Nat \ {0}
  /\ Cells \subseteq Nat \ {0}
  /\ FreedStartSurvives \in BOOLEAN

VARIABLES
  page,          (* "free", "none" (mapped PROT_NONE) or "rw", per page    *)
  bo,            (* the driver's buffer objects, per handle                *)
  cell,          (* the heap blocks, freed ones included                   *)
  vm_obj_array,  (* table slot -> block, or NULL                           *)
  vm_obj_cnt,    (* slots used so far; it never decreases                  *)
  held,          (* addresses the callers were given and have not freed    *)
  call           (* where the thread is inside an allocation or a free     *)

vars == <<page, bo, cell, vm_obj_array, vm_obj_cnt, held, call>>

NULL == 0                     \* no block, and no handle
Pages == 0 .. NPages - 1
NoAddr == NPages              \* a value no allocation's address has
Slots == 0 .. MaxVmObj - 1

NoBo == [used |-> FALSE, va |-> NoAddr, size |-> 0, mapped |-> FALSE]
NoObj == [live |-> FALSE, start |-> NoAddr, size |-> 0, handle |-> NULL]
Idle == [op |-> "idle", addr |-> NoAddr]

\* The ways the thread ends: an assert that fails (an ioctl or mmap returned an
\* error), NULL dereferenced, a block freed twice, a write past vm_obj_array.
Failures == {"no_memory", "assert", "segv", "double_free", "overrun"}

-----------------------------------------------------------------------------
(* Helpers: the table, and what the calls below share.                     *)

\* Fault: the scan stops one slot early.
Matches_LastSlotSkipped(a) ==
  {i \in Slots \ {MaxVmObj - 1} :
     vm_obj_array[i] # NULL /\ cell[vm_obj_array[i]].start = a}

Matches(a) ==
  {i \in Slots : vm_obj_array[i] # NULL /\ cell[vm_obj_array[i]].start = a}

\* The first slot whose block shows the address a, freed blocks included.
find_vm_obj(a) ==
  IF Matches(a) = {} THEN NULL
  ELSE vm_obj_array[CHOOSE i \in Matches(a) : \A j \in Matches(a) : i <= j]

KmtGetVmHandle(a) ==
  IF find_vm_obj(a) = NULL THEN NULL ELSE cell[find_vm_obj(a)].handle

\* Fault: no page is added to the size.
mmap_aperture_allocate_NoGuard(a, size, prot) ==
  /\ a + size \in Pages
  /\ \A p \in a .. a + size - 1 : page[p] = "free"
  /\ page' = [p \in Pages |-> IF p \in a .. a + size - 1 THEN prot ELSE page[p]]

\* mmap of one page more than asked for, anywhere; the page past the
\* allocation stays PROT_NONE.  The rest is mapped again with access prot.
mmap_aperture_allocate(a, size, prot) ==
  /\ a + size \in Pages
  /\ \A p \in a .. a + size : page[p] = "free"
  /\ page' = [p \in Pages |-> IF p \in a .. a + size - 1 THEN prot
                              ELSE IF p = a + size THEN "none" ELSE page[p]]

\* Fault: a page on either side is taken for a guard page of this allocation.
mmap_aperture_release_TwoGuards(a, size) ==
  page' = [p \in Pages |-> IF p + 1 \in a .. a + size + 1 THEN "free" ELSE page[p]]

mmap_aperture_release(a, size) ==
  page' = [p \in Pages |-> IF p \in a .. a + size - 1 THEN "free" ELSE page[p]]

kfd_ioctrl_allocate_memory(a, size, h) ==
  /\ ~ bo[h].used
  /\ bo' = [bo EXCEPT ![h] =
              [used |-> TRUE, va |-> a, size |-> size, mapped |-> FALSE]]

\* The driver keeps a buffer object that is mapped to the GPU (EBUSY); the
\* caller does not look at the result.
kfd_ioctrl_free_memory(h) ==
  bo' = IF bo[h].used /\ ~ bo[h].mapped THEN [bo EXCEPT ![h] = NoBo] ELSE bo

\* Fault: the count is not increased.
create_memory_object_NotCounted(a, size, h, c) ==
  /\ ~ cell[c].live
  /\ cell' = [cell EXCEPT ![c] =
                [live |-> TRUE, start |-> a, size |-> size, handle |-> h]]
  /\ vm_obj_array' = [vm_obj_array EXCEPT ![vm_obj_cnt] = c]
  /\ call' = [op |-> "map", addr |-> a]
  /\ UNCHANGED vm_obj_cnt

\* Fault: one member of the object is not set.
create_memory_object_NoHandle(a, size, h, c) ==
  /\ ~ cell[c].live
  /\ cell' = [cell EXCEPT ![c] = [live |-> TRUE, start |-> a, size |-> size]]
  /\ vm_obj_cnt' = vm_obj_cnt + 1
  /\ vm_obj_array' = [vm_obj_array EXCEPT ![vm_obj_cnt] = c]
  /\ call' = [op |-> "map", addr |-> a]

\* malloc gives any block that is not live; the slot past the last one used
\* gets it, whether or not the array has that slot.
create_memory_object(a, size, h, c) ==
  /\ ~ cell[c].live
  /\ cell' = [cell EXCEPT ![c] =
                [live |-> TRUE, start |-> a, size |-> size, handle |-> h]]
  /\ vm_obj_cnt' = vm_obj_cnt + 1
  /\ IF vm_obj_cnt \in Slots
     THEN /\ vm_obj_array' = [vm_obj_array EXCEPT ![vm_obj_cnt] = c]
          /\ call' = [op |-> "map", addr |-> a]
     ELSE /\ call' = [op |-> "overrun", addr |-> a]
          /\ UNCHANGED vm_obj_array

\* free(): the slot is left as it is.
release_memory_object(c) ==
  \E s \in {NoAddr} \cup (IF FreedStartSurvives THEN {cell[c].start} ELSE {}) :
    cell' = [cell EXCEPT ![c] = [live |-> FALSE, start |-> s,
                                 size |-> @.size, handle |-> @.handle]]

-----------------------------------------------------------------------------
(* The calls.  Every allocation is followed by KmtMapToGpu of its address, *)
(* and HsaFreeMem is KmtUnmapFromGpu followed by KmtReleaseMemory.         *)

Allocate(size, prot) ==
  /\ call = Idle
  /\ \E a \in Pages, h \in Handles, c \in Cells :
       /\ mmap_aperture_allocate(a, size, prot)
       /\ kfd_ioctrl_allocate_memory(a, size, h)
       /\ create_memory_object(a, size, h, c)
  /\ UNCHANGED held

KmtAllocDevice(size) == Allocate(size, "none")   \* HostAccess = false
KmtAllocHost(size) == Allocate(size, "rw")       \* GTT and USERPTR alike
KmtAllocDoorbell(size) == Allocate(size, "rw")

\* mmap or the ioctl refuses, and the assert on its result ends the program.
AllocFails ==
  /\ call = Idle
  /\ call' = [op |-> "no_memory", addr |-> NoAddr]
  /\ UNCHANGED <<page, bo, cell, vm_obj_array, vm_obj_cnt, held>>

KmtMapToGpu ==
  LET obj == find_vm_obj(call.addr)
      h == cell[obj].handle
      result == IF obj = NULL THEN "segv"
                ELSE IF bo[h].used THEN "idle" ELSE "assert"
  IN /\ call.op = "map"
     /\ bo' = IF result = "idle" THEN [bo EXCEPT ![h].mapped = TRUE] ELSE bo
     /\ held' = IF result = "idle" THEN held \cup {call.addr} ELSE held
     /\ call' = IF result = "idle" THEN Idle ELSE [call EXCEPT !.op = result]
     /\ UNCHANGED <<page, cell, vm_obj_array, vm_obj_cnt>>

\* Fault: HsaFreeMem goes on to the release without the ioctl.
KmtUnmapFromGpu_NoIoctl(a) ==
  /\ call = Idle
  /\ call' = [op |-> "release", addr |-> a]
  /\ held' = held \ {a}
  /\ UNCHANGED <<page, bo, cell, vm_obj_array, vm_obj_cnt>>

\* The first half of HsaFreeMem(a).  The driver refuses (EINVAL) to unmap
\* what is not mapped.
KmtUnmapFromGpu(a) ==
  LET obj == find_vm_obj(a)
      h == cell[obj].handle
      result == IF obj = NULL THEN "segv"
                ELSE IF bo[h].used /\ bo[h].mapped THEN "release" ELSE "assert"
  IN /\ call = Idle
     /\ bo' = IF result = "release" THEN [bo EXCEPT ![h].mapped = FALSE] ELSE bo
     /\ call' = [op |-> result, addr |-> a]
     /\ held' = held \ {a}
     /\ UNCHANGED <<page, cell, vm_obj_array, vm_obj_cnt>>

KmtReleaseMemory ==
  LET obj == find_vm_obj(call.addr)
  IN /\ call.op = "release"
     /\ IF obj = NULL
        THEN /\ call' = [call EXCEPT !.op = "segv"]
             /\ UNCHANGED <<page, bo, cell>>
        ELSE /\ kfd_ioctrl_free_memory(cell[obj].handle)
             /\ mmap_aperture_release(cell[obj].start, cell[obj].size)
             /\ IF cell[obj].live
                THEN release_memory_object(obj) /\ call' = Idle
                ELSE call' = [call EXCEPT !.op = "double_free"] /\ UNCHANGED cell
     /\ UNCHANGED <<vm_obj_array, vm_obj_cnt, held>>

-----------------------------------------------------------------------------
Init ==
  /\ page = [p \in Pages |-> "free"]
  /\ bo = [h \in Handles |-> NoBo]
  /\ cell = [c \in Cells |-> NoObj]
  /\ vm_obj_array = [i \in Slots |-> NULL]
  /\ vm_obj_cnt = 0
  /\ held = {}
  /\ call = Idle

Next ==
  \/ \E size \in Sizes : KmtAllocDevice(size)
  \/ \E size \in Sizes : KmtAllocHost(size)
  \/ \E size \in Sizes : KmtAllocDoorbell(size)
  \/ AllocFails
  \/ KmtMapToGpu
  \/ \E a \in held : KmtUnmapFromGpu(a)
  \/ KmtReleaseMemory

Spec == Init /\ [][Next]_vars

=============================================================================
