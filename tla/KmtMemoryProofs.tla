-------------------------- MODULE KmtMemoryProofs --------------------------
(***************************************************************************)
(* Proofs about KmtMemory, for every size of the table, of the address     *)
(* space and of the heap.                                                  *)
(*                                                                         *)
(* The inductive invariant, MemInv, holds where a freed block no longer    *)
(* shows its address (FreedStartSurvives = FALSE).  It says that the four  *)
(* places an allocation lives in agree: one live block per owned address,  *)
(* in the table, with its own buffer object, its own pages and the page    *)
(* behind them.                                                            *)
(***************************************************************************)
EXTENDS KmtMemoryProps, LeastNumber

\* The call that is under way, if any, is for an address of its own.
CallApart ==
  /\ call.op \in {"map", "release"} => call.addr \in Pages \ held
  /\ call.op \notin {"assert", "segv", "double_free"}

\* The table: slots from the count on are empty, and the block of every owned
\* address is in it; freed blocks do not show an address.
TableInv ==
  /\ \A i \in Slots : i >= vm_obj_cnt => vm_obj_array[i] = NULL
  /\ \A c \in Live : cell[c].start \in Owned =>
       \E i \in Slots : vm_obj_array[i] = c
  /\ \A c \in Cells : ~ cell[c].live => cell[c].start = NoAddr

\* Live blocks and owned addresses are in bijection.  The block of a creation
\* that overran the table has no owner yet.
OwnerInv ==
  /\ \A c \in Live : cell[c].start \in Owned \/ call.op = "overrun"
  /\ \A a \in Owned : \E c \in Live : cell[c].start = a
  /\ \A c, d \in Live : cell[c].start = cell[d].start => c = d

\* So are live blocks and buffer objects; mapped are those of held addresses.
BufferObjectInv ==
  /\ \A c \in Live : LET h == cell[c].handle
                     IN /\ h \in UsedBos
                        /\ bo[h].va = cell[c].start
                        /\ bo[h].size = cell[c].size
                        /\ bo[h].mapped <=> cell[c].start \in held
  /\ \A h \in UsedBos : \E c \in Live : cell[c].handle = h

\* The pages: an allocation and the page behind it are in use and apart from
\* every other's.
LayoutInv ==
  /\ \A c \in Live :
       /\ cell[c].size > 0
       /\ cell[c].start + cell[c].size \in Pages
       /\ \A p \in Extent(c) : page[p] # "free"
       /\ page[cell[c].start + cell[c].size] = "none"
  /\ \A c, d \in Live : \/ c = d
                        \/ cell[c].start + cell[c].size < cell[d].start
                        \/ cell[d].start + cell[d].size < cell[c].start

MemInv == /\ TypeOK
          /\ CallApart
          /\ TableInv
          /\ OwnerInv
          /\ BufferObjectInv
          /\ LayoutInv

-----------------------------------------------------------------------------
(* What find_vm_obj returns.                                               *)

\* A lookup returns a block of the table that shows the address, if there is
\* one (memory.cpp:301-324: the loop stops at the first match).
LEMMA FindMatches ==
  ASSUME NEW a, Matches(a) # {}
  PROVE  \E i \in Slots : /\ find_vm_obj(a) = vm_obj_array[i]
                          /\ vm_obj_array[i] # NULL
                          /\ cell[vm_obj_array[i]].start = a
<1>1. Matches(a) \in SUBSET (0 .. MaxVmObj) /\ MaxVmObj \in Nat
  BY MemoryAssumption DEF Matches, Slots
<1>2. \E i \in Matches(a) : \A j \in Matches(a) : i <= j
  BY <1>1, LeastElement
<1> DEFINE first == CHOOSE i \in Matches(a) : \A j \in Matches(a) : i <= j
<1>3. first \in Matches(a)
  BY <1>2
<1>4. find_vm_obj(a) = vm_obj_array[first]
  BY DEF find_vm_obj
<1> HIDE DEF first
<1> QED
  BY <1>3, <1>4 DEF Matches

\* It is NULL or a block of the heap.
LEMMA FindType ==
  ASSUME TypeOK, NEW a
  PROVE  find_vm_obj(a) \in Cells \cup {NULL}
<1>1. CASE Matches(a) = {}
  BY <1>1 DEF find_vm_obj
<1>2. CASE Matches(a) # {}
  BY <1>2, FindMatches DEF TypeOK
<1> QED
  BY <1>1, <1>2

-----------------------------------------------------------------------------
(* Type correctness.                                                       *)

\* Setting the member mapped of a buffer object, or of none if the handle is
\* not one, keeps the type of bo.
LEMMA SetMapped ==
  ASSUME bo \in [Handles -> BufferObject], NEW h, NEW b \in BOOLEAN
  PROVE  [bo EXCEPT ![h].mapped = b] \in [Handles -> BufferObject]
<1>1. CASE h \in Handles
  <2>1. [bo[h] EXCEPT !.mapped = b] \in BufferObject
    BY <1>1 DEF BufferObject
  <2> QED
    BY <1>1, <2>1
<1>2. CASE h \notin Handles
  BY <1>2
<1> QED
  BY <1>1, <1>2

\* It changes no other member and no other buffer object.
LEMMA SetMappedFields ==
  ASSUME bo \in [Handles -> BufferObject], NEW h \in Handles, NEW b \in BOOLEAN,
         NEW new, new = [bo EXCEPT ![h].mapped = b]
  PROVE  \A g \in Handles : /\ new[g].used = bo[g].used
                           /\ new[g].va = bo[g].va
                           /\ new[g].size = bo[g].size
                           /\ new[g].mapped = IF g = h THEN b ELSE bo[g].mapped
<1> TAKE g \in Handles
<1>1. CASE g = h
  <2>1. new[g] = [bo[h] EXCEPT !.mapped = b] /\ bo[h] \in BufferObject
    BY <1>1
  <2> QED
    BY <1>1, <2>1 DEF BufferObject
<1>2. CASE g # h
  BY <1>2
<1> QED
  BY <1>1, <1>2

\* Every step keeps the types.
LEMMA TypeStep == TypeOK /\ [Next]_vars => TypeOK'
<1> USE MemoryAssumption DEF Pages, Slots, NoAddr, NULL, Idle
<1> SUFFICES ASSUME TypeOK, [Next]_vars
             PROVE  TypeOK'
  OBVIOUS
<1>1. ASSUME NEW size \in Sizes, NEW prot \in {"none", "rw"},
             Allocate(size, prot)
      PROVE  TypeOK'
  <2> PICK a \in Pages, h \in Handles, c \in Cells :
             /\ mmap_aperture_allocate(a, size, prot)
             /\ kfd_ioctrl_allocate_memory(a, size, h)
             /\ create_memory_object(a, size, h, c)
    BY <1>1 DEF Allocate
  <2>1. page' \in [Pages -> {"free", "none", "rw"}]
    BY DEF mmap_aperture_allocate, TypeOK
  <2>2. bo' \in [Handles -> BufferObject]
    BY DEF kfd_ioctrl_allocate_memory, TypeOK, BufferObject
  <2>3. /\ cell' \in [Cells -> VmObject]
        /\ vm_obj_array' \in [Slots -> Cells \cup {NULL}]
        /\ vm_obj_cnt' \in Nat
        /\ call' \in Call
    BY DEF create_memory_object, TypeOK, Failures, VmObject, Call
  <2> QED
    BY <1>1, <2>1, <2>2, <2>3 DEF Allocate, TypeOK
<1>2. CASE AllocFails
  BY <1>2 DEF AllocFails, TypeOK, Failures, Call
<1>3. CASE KmtMapToGpu
  <2>1. bo' \in [Handles -> BufferObject]
    BY <1>3, SetMapped DEF KmtMapToGpu, TypeOK
  <2>2. call' \in Call
    BY <1>3 DEF KmtMapToGpu, TypeOK, Failures, Call
  <2>3. held' \in SUBSET (0 .. NPages)
    BY <1>3 DEF KmtMapToGpu, TypeOK, Call
  <2> QED
    BY <1>3, <2>1, <2>2, <2>3 DEF KmtMapToGpu, TypeOK
<1>4. ASSUME NEW a \in held, KmtUnmapFromGpu(a)
      PROVE  TypeOK'
  <2>1. bo' \in [Handles -> BufferObject]
    BY <1>4, SetMapped DEF KmtUnmapFromGpu, TypeOK
  <2>2. call' \in Call
    BY <1>4 DEF KmtUnmapFromGpu, TypeOK, Failures, Call
  <2> QED
    BY <1>4, <2>1, <2>2 DEF KmtUnmapFromGpu, TypeOK
<1>5. CASE KmtReleaseMemory
  <2> DEFINE obj == find_vm_obj(call.addr)
  <2>1. call' \in Call
    BY <1>5 DEF KmtReleaseMemory, TypeOK, Failures, Call
  <2>2. CASE obj = NULL
    BY <1>5, <2>1, <2>2 DEF KmtReleaseMemory, TypeOK
  <2>3. CASE obj # NULL
    <3>1. obj \in Cells
      BY <2>3, FindType
    <3>2. bo' \in [Handles -> BufferObject]
      <4>1. NoBo \in BufferObject
        BY DEF NoBo, BufferObject
      <4> QED
        BY <1>5, <2>3, <4>1
           DEF KmtReleaseMemory, kfd_ioctrl_free_memory, TypeOK
    <3>3. page' \in [Pages -> {"free", "none", "rw"}]
      BY <1>5, <2>3 DEF KmtReleaseMemory, mmap_aperture_release, TypeOK
    <3>4. cell' \in [Cells -> VmObject]
      <4>1. CASE UNCHANGED cell
        BY <4>1 DEF TypeOK
      <4>2. CASE release_memory_object(obj)
        <5>1. PICK s \in {NoAddr} \cup (IF FreedStartSurvives
                                        THEN {cell[obj].start} ELSE {}) :
                cell' = [cell EXCEPT ![obj] =
                           [live |-> FALSE, start |-> s, size |-> @.size,
                            handle |-> @.handle]]
          BY <4>2 DEF release_memory_object
        <5>2. cell[obj].start \in 0 .. NPages
          BY <3>1 DEF TypeOK, VmObject
        <5>3. s \in 0 .. NPages
          BY <5>1, <5>2
        <5> QED
          BY <5>1, <5>3, <3>1 DEF TypeOK, VmObject
      <4> QED
        BY <1>5, <2>3, <4>1, <4>2 DEF KmtReleaseMemory
    <3> QED
      BY <1>5, <2>1, <3>2, <3>3, <3>4 DEF KmtReleaseMemory, TypeOK
  <2> QED
    BY <2>2, <2>3
<1>6. CASE UNCHANGED vars
  BY <1>6 DEF vars, TypeOK
<1> QED
  BY <1>1, <1>2, <1>3, <1>4, <1>5, <1>6
     DEF Next, KmtAllocDevice, KmtAllocHost, KmtAllocDoorbell

\* Every variable of the memory manager keeps its type, whatever freed blocks
\* show (memory.cpp:68-70, 301-362, 385-594).
THEOREM TypeCorrect == Spec => []TypeOK
<1>1. Init => TypeOK
  BY MemoryAssumption DEF Init, TypeOK, NoBo, NoObj, Failures, BufferObject,
     VmObject, Call, Pages, Slots, NoAddr, NULL, Idle
<1> QED
  BY <1>1, TypeStep, PTL DEF Spec

-----------------------------------------------------------------------------
(* The inductive invariant.                                                *)

\* A lookup of an owned address finds the live block of that address: its slot
\* matches, and a freed block in an earlier slot shows no address.
LEMMA FindLive ==
  ASSUME MemInv, NEW a \in Owned
  PROVE  /\ find_vm_obj(a) \in Live
         /\ find_vm_obj(a) # NULL
         /\ cell[find_vm_obj(a)].start = a
<1> USE MemoryAssumption DEF Pages, Slots, NoAddr, NULL
<1>1. PICK c \in Live : cell[c].start = a
  BY DEF MemInv, OwnerInv
<1>2. PICK i \in Slots : vm_obj_array[i] = c
  BY <1>1 DEF MemInv, TableInv
<1>3. a # NoAddr
  BY <1>1 DEF MemInv, LayoutInv, TypeOK, VmObject, Live
<1>4. Matches(a) # {}
  BY <1>1, <1>2 DEF Matches, Live
<1>5. PICK j \in Slots : /\ find_vm_obj(a) = vm_obj_array[j]
                        /\ vm_obj_array[j] # NULL
                        /\ cell[vm_obj_array[j]].start = a
  BY <1>4, FindMatches
<1>6. vm_obj_array[j] \in Cells
  BY <1>5 DEF MemInv, TypeOK
<1> QED
  BY <1>3, <1>5, <1>6 DEF MemInv, TableInv, Live

\* The invariant says what a caller needs of a lookup.
LEMMA MemInvFinds == MemInv => LookupFindsOwner
<1> SUFFICES ASSUME MemInv, NEW a \in Owned
             PROVE  FindsOwner(a)
  BY DEF LookupFindsOwner
<1>1. /\ find_vm_obj(a) \in Live
      /\ find_vm_obj(a) # NULL
      /\ cell[find_vm_obj(a)].start = a
  BY FindLive
<1>2. KmtGetVmHandle(a) = cell[find_vm_obj(a)].handle
  BY <1>1 DEF KmtGetVmHandle
<1> QED
  BY <1>1, <1>2 DEF FindsOwner, MemInv, BufferObjectInv

\* A range of free pages lies before or behind every allocation and its guard.
LEMMA FreeRangeApart ==
  ASSUME MemInv, NEW a \in Pages, NEW size \in Nat,
         \A p \in a .. a + size : page[p] = "free",
         NEW d \in Live
  PROVE  \/ a + size < cell[d].start
         \/ cell[d].start + cell[d].size < a
<1> DEFINE s == cell[d].start
           e == cell[d].start + cell[d].size
<1>1. s \in Nat /\ e \in Nat /\ cell[d].size \in Nat
  BY MemoryAssumption DEF MemInv, TypeOK, VmObject, Live
<1>2. \A p \in s .. e : page[p] # "free"
  <2>1. \A p \in Extent(d) : page[p] # "free"
    BY DEF MemInv, LayoutInv
  <2>2. page[e] # "free"
    BY DEF MemInv, LayoutInv
  <2>3. \A p \in s .. e : p \in Extent(d) \/ p = e
    BY <1>1 DEF Extent
  <2> QED
    BY <2>1, <2>2, <2>3
<1>3. a \in Nat
  BY MemoryAssumption DEF Pages
<1> HIDE DEF s, e
<1>4. s <= e
  BY <1>1 DEF s, e
<1>5. s \notin a .. a + size
  BY <1>2, <1>1, <1>4
<1>6. a \notin s .. e
  BY <1>2, <1>3
<1>7. a + size < s \/ e < a
  BY <1>1, <1>3, <1>5, <1>6
<1> QED
  BY <1>7 DEF s, e

\* What an allocation adds: a live block that was not live, a buffer object that
\* was not used, and free pages apart from every other allocation.
AllocateEffect(size, prot, a, h, c) ==
  /\ mmap_aperture_allocate(a, size, prot)
  /\ kfd_ioctrl_allocate_memory(a, size, h)
  /\ create_memory_object(a, size, h, c)
  /\ call = Idle /\ Owned = held /\ held' = held
  /\ c \notin Live /\ Live' = Live \cup {c}
  /\ cell'[c].start = a /\ cell'[c].size = size /\ cell'[c].handle = h
  /\ \A d \in Cells \ {c} : cell'[d] = cell[d]
  /\ h \notin UsedBos /\ UsedBos' = UsedBos \cup {h}
  /\ bo'[h].va = a /\ bo'[h].size = size /\ bo'[h].mapped = FALSE
  /\ \A g \in Handles \ {h} : bo'[g] = bo[g]
  /\ size \in Nat /\ size > 0 /\ a + size \in Pages
  /\ \A p \in a .. a + size : p \in Pages /\ page[p] = "free"
  /\ \A d \in Live : \/ a + size < cell[d].start
                     \/ cell[d].start + cell[d].size < a
  /\ \A d \in Live : /\ cell[d].start \in Nat /\ cell[d].size \in Nat
                     /\ d \in Cells /\ d # c
                     /\ cell[d].start # a
  /\ a \notin held
  /\ call'.addr = a /\ call'.op \in {"map", "overrun"}

\* An allocation adds one object, in a range no other had.
LEMMA AllocateAdds ==
  ASSUME MemInv, NEW size \in Sizes, NEW prot \in {"none", "rw"},
         Allocate(size, prot)
  PROVE  \E a \in Pages, h \in Handles, c \in Cells :
           AllocateEffect(size, prot, a, h, c)
<1> USE MemoryAssumption DEF Pages, Slots, NoAddr, NULL, Idle
<1> PICK a \in Pages, h \in Handles, c \in Cells :
           /\ mmap_aperture_allocate(a, size, prot)
           /\ kfd_ioctrl_allocate_memory(a, size, h)
           /\ create_memory_object(a, size, h, c)
  BY DEF Allocate
<1>1. /\ call = Idle
      /\ Owned = held
      /\ held' = held
  BY DEF Allocate, Owned
<1>2. /\ c \notin Live
      /\ Live' = Live \cup {c}
      /\ cell'[c].start = a /\ cell'[c].size = size /\ cell'[c].handle = h
      /\ \A d \in Cells \ {c} : cell'[d] = cell[d]
  BY DEF MemInv, TypeOK, create_memory_object, Live
<1>3. /\ h \notin UsedBos
      /\ UsedBos' = UsedBos \cup {h}
      /\ bo'[h].va = a /\ bo'[h].size = size /\ bo'[h].mapped = FALSE
      /\ \A g \in Handles \ {h} : bo'[g] = bo[g]
  BY DEF MemInv, TypeOK, kfd_ioctrl_allocate_memory, UsedBos
<1>4. /\ size \in Nat /\ size > 0
      /\ a + size \in Pages
      /\ \A p \in a .. a + size : p \in Pages /\ page[p] = "free"
  BY DEF mmap_aperture_allocate
<1>5. \A d \in Live : \/ a + size < cell[d].start
                     \/ cell[d].start + cell[d].size < a
  BY <1>4, FreeRangeApart
<1>6. \A d \in Live : /\ cell[d].start \in Nat /\ cell[d].size \in Nat
                     /\ d \in Cells /\ d # c
                     /\ cell[d].start # a
  <2> TAKE d \in Live
  <2>1. d \in Cells /\ d # c
    BY <1>2 DEF Live
  <2>2. cell[d].start \in Nat /\ cell[d].size \in Nat
    BY <2>1 DEF MemInv, TypeOK, VmObject
  <2>3. cell[d].start # a
    BY <1>4, <1>5, <2>2
  <2> QED
    BY <2>1, <2>2, <2>3
<1>7. a \notin held
  BY <1>1, <1>6 DEF MemInv, OwnerInv
<1>8. call'.addr = a /\ call'.op \in {"map", "overrun"}
  BY DEF create_memory_object
<1> QED
  BY <1>1, <1>2, <1>3, <1>4, <1>5, <1>6, <1>7, <1>8 DEF AllocateEffect

\* Allocation keeps the invariant.
LEMMA AllocateStep ==
  ASSUME MemInv, TypeOK', NEW size \in Sizes, NEW prot \in {"none", "rw"},
         Allocate(size, prot)
  PROVE  MemInv'
<1> USE MemoryAssumption DEF Pages, Slots, NoAddr, NULL, Idle
<1> PICK a \in Pages, h \in Handles, c \in Cells :
           AllocateEffect(size, prot, a, h, c)
  BY AllocateAdds
<1>0. mmap_aperture_allocate(a, size, prot) /\ create_memory_object(a, size, h, c)
  BY DEF AllocateEffect
<1>1. call = Idle /\ Owned = held /\ held' = held
  BY DEF AllocateEffect
<1>2. /\ c \notin Live /\ Live' = Live \cup {c}
      /\ cell'[c].start = a /\ cell'[c].size = size /\ cell'[c].handle = h
      /\ \A d \in Cells \ {c} : cell'[d] = cell[d]
  BY DEF AllocateEffect
<1>3. /\ h \notin UsedBos /\ UsedBos' = UsedBos \cup {h}
      /\ bo'[h].va = a /\ bo'[h].size = size /\ bo'[h].mapped = FALSE
      /\ \A g \in Handles \ {h} : bo'[g] = bo[g]
  BY DEF AllocateEffect
<1>4. /\ size \in Nat /\ size > 0 /\ a + size \in Pages
      /\ \A p \in a .. a + size : p \in Pages /\ page[p] = "free"
  BY DEF AllocateEffect
<1>5. \A d \in Live : \/ a + size < cell[d].start
                     \/ cell[d].start + cell[d].size < a
  BY DEF AllocateEffect
<1>6. \A d \in Live : /\ cell[d].start \in Nat /\ cell[d].size \in Nat
                     /\ d \in Cells /\ d # c
                     /\ cell[d].start # a
  BY DEF AllocateEffect
<1>7. a \notin held
  BY DEF AllocateEffect
<1>8. call'.addr = a /\ call'.op \in {"map", "overrun"}
  BY DEF AllocateEffect
<1>9. Owned' = IF call'.op = "map" THEN held \cup {a} ELSE held
  BY <1>1, <1>8 DEF Owned
<1>10. CallApart'
  BY <1>1, <1>7, <1>8 DEF CallApart
<1>11. TableInv'
  <2>1. vm_obj_cnt \in Nat
    BY DEF MemInv, TypeOK
  <2>2. \A i \in Slots : i >= vm_obj_cnt' => vm_obj_array'[i] = NULL
    BY <1>0, <2>1 DEF MemInv, TableInv, TypeOK, create_memory_object
  <2>3. \A d \in Cells : ~ cell'[d].live => cell'[d].start = NoAddr
    BY <1>2 DEF MemInv, TableInv, Live
  <2>4. ASSUME NEW d \in Live', cell'[d].start \in Owned'
        PROVE  \E i \in Slots : vm_obj_array'[i] = d
    <3>1. CASE d = c
      <4>1. call'.op = "map"
        BY <1>2, <1>7, <1>9, <2>4, <3>1
      <4> QED
        BY <1>0, <4>1, <3>1 DEF create_memory_object, MemInv, TypeOK
    <3>2. CASE d # c
      <4> HIDE DEF Idle
      <4>0. d \in Live
        BY <1>2, <3>2
      <4>1. d \in Live /\ cell[d].start \in Owned
        <5>1. cell'[d] = cell[d] /\ cell[d].start # a
          BY <4>0, <1>2, <1>6
        <5> QED
          BY <5>1, <4>0, <1>1, <1>9, <2>4
      <4>2. PICK i \in Slots : vm_obj_array[i] = d
        BY <4>1 DEF MemInv, TableInv
      <4>3. i # vm_obj_cnt
        BY <2>1, <4>1, <4>2, <1>6 DEF MemInv, TableInv
      <4> QED
        BY <1>0, <4>2, <4>3 DEF create_memory_object, MemInv, TypeOK
    <3> QED
      BY <3>1, <3>2
  <2> QED
    BY <2>2, <2>3, <2>4 DEF TableInv
<1>12. OwnerInv'
  <2>1. \A d \in Live' : cell'[d].start \in Owned' \/ call'.op = "overrun"
    BY <1>1, <1>2, <1>6, <1>8, <1>9 DEF MemInv, OwnerInv
  <2>2. \A b \in Owned' : \E d \in Live' : cell'[d].start = b
    BY <1>1, <1>2, <1>6, <1>9 DEF MemInv, OwnerInv
  <2>3. \A d, e \in Live' : cell'[d].start = cell'[e].start => d = e
    <3>1. \A d, e \in Live : cell[d].start = cell[e].start => d = e
      BY DEF MemInv, OwnerInv
    <3>2. \A d \in Live : cell'[d].start = cell[d].start /\ cell[d].start # a
      BY <1>2, <1>6
    <3> QED
      BY <1>2, <3>1, <3>2
  <2> QED
    BY <2>1, <2>2, <2>3 DEF OwnerInv
<1>13. BufferObjectInv'
  <2>1. ASSUME NEW d \in Live'
        PROVE  /\ cell'[d].handle \in UsedBos'
               /\ bo'[cell'[d].handle].va = cell'[d].start
               /\ bo'[cell'[d].handle].size = cell'[d].size
               /\ bo'[cell'[d].handle].mapped <=> cell'[d].start \in held'
    <3>1. CASE d = c
      BY <1>1, <1>2, <1>3, <1>7, <3>1
    <3>2. CASE d # c
      <4>1. d \in Live /\ cell'[d] = cell[d]
        BY <1>2, <1>6, <3>2
      <4>2. cell[d].handle \in UsedBos \ {h}
        BY <4>1, <1>3 DEF MemInv, BufferObjectInv
      <4>3. bo'[cell[d].handle] = bo[cell[d].handle]
        BY <4>2, <1>3 DEF UsedBos
      <4> QED
        BY <1>1, <1>3, <4>1, <4>2, <4>3 DEF MemInv, BufferObjectInv
    <3> QED
      BY <3>1, <3>2
  <2>2. \A g \in UsedBos' : \E d \in Live' : cell'[d].handle = g
    <3>1. \A g \in UsedBos : \E d \in Live : cell[d].handle = g
      BY DEF MemInv, BufferObjectInv
    <3>2. \A d \in Live : cell'[d] = cell[d]
      BY <1>2, <1>6
    <3> QED
      BY <1>2, <1>3, <3>1, <3>2
  <2> QED
    BY <2>1, <2>2 DEF BufferObjectInv
<1>14. LayoutInv'
  <2>1. ASSUME NEW d \in Live'
        PROVE  /\ cell'[d].size > 0
               /\ cell'[d].start + cell'[d].size \in Pages
               /\ \A p \in Extent(d)' : page'[p] # "free"
               /\ page'[cell'[d].start + cell'[d].size] = "none"
    <3>1. CASE d = c
      <4>1. \A p \in a .. a + size - 1 : p \in Pages
        BY <1>4
      <4> QED
        BY <1>0, <3>1, <1>2, <1>4, <4>1 DEF Extent, mmap_aperture_allocate
    <3>2. CASE d # c
      <4>1. d \in Live /\ cell'[d] = cell[d]
        BY <1>2, <1>6, <3>2
      <4>2. \A p \in cell[d].start .. cell[d].start + cell[d].size :
              p \in Pages /\ p \notin a .. a + size
        BY <4>1, <1>4, <1>5, <1>6 DEF MemInv, LayoutInv
      <4>3. \A p \in Pages : p \notin a .. a + size => page'[p] = page[p]
        BY <1>0, <1>4 DEF mmap_aperture_allocate
      <4>4. \A p \in Extent(d) : p \in cell[d].start .. cell[d].start + cell[d].size
        BY <4>1, <1>6 DEF Extent
      <4>5. Extent(d)' = Extent(d)
        BY <4>1 DEF Extent
      <4>6. cell[d].start + cell[d].size \in cell[d].start .. cell[d].start + cell[d].size
        BY <4>1, <1>6
      <4>7. /\ cell[d].size > 0
            /\ cell[d].start + cell[d].size \in Pages
            /\ \A p \in Extent(d) : page[p] # "free"
            /\ page[cell[d].start + cell[d].size] = "none"
        BY <4>1 DEF MemInv, LayoutInv
      <4> QED
        BY <4>1, <4>2, <4>3, <4>4, <4>5, <4>6, <4>7
    <3> QED
      BY <3>1, <3>2
  <2>2. \A d, e \in Live' : \/ d = e
                           \/ cell'[d].start + cell'[d].size < cell'[e].start
                           \/ cell'[e].start + cell'[e].size < cell'[d].start
    BY <1>2, <1>5, <1>6 DEF MemInv, LayoutInv
  <2> QED
    BY <2>1, <2>2 DEF LayoutInv
<1> QED
  BY <1>10, <1>11, <1>12, <1>13, <1>14 DEF MemInv

\* The lookup of the address of a call that is under way: the allocation's live
\* block and a buffer object the driver knows.
LEMMA CallOwner ==
  ASSUME MemInv, NEW a \in Owned
  PROVE  LET obj == find_vm_obj(a)
             h == cell[obj].handle
         IN /\ obj \in Live /\ obj \in Cells /\ obj # NULL
            /\ cell[obj].start = a
            /\ h \in UsedBos /\ h \in Handles /\ bo[h].used
            /\ bo[h].mapped <=> a \in held
            /\ \A d \in Live \ {obj} : cell[d].handle # h /\ cell[d].start # a
<1> DEFINE obj == find_vm_obj(a)
           h == cell[obj].handle
<1>1. obj \in Live /\ obj \in Cells /\ obj # NULL /\ cell[obj].start = a
  BY FindLive DEF Live
<1> HIDE DEF obj
<1>2. h \in UsedBos /\ bo[h].va = a /\ (bo[h].mapped <=> a \in held)
  BY <1>1 DEF MemInv, BufferObjectInv
<1>3. h \in Handles /\ bo[h].used
  BY <1>2 DEF UsedBos
<1>4. \A d \in Live \ {obj} : cell[d].start # a
  BY <1>1 DEF MemInv, OwnerInv
<1>5. \A d \in Live \ {obj} : cell[d].handle # h
  BY <1>2, <1>4 DEF MemInv, BufferObjectInv
<1> QED
  BY <1>1, <1>2, <1>3, <1>4, <1>5 DEF obj

\* So does mapping,
LEMMA MapStep ==
  ASSUME MemInv, TypeOK', KmtMapToGpu
  PROVE  MemInv'
<1> USE MemoryAssumption DEF Pages, Slots, NoAddr, NULL
<1> DEFINE a == call.addr
           obj == find_vm_obj(a)
           h == cell[obj].handle
<1>1. call.op = "map" /\ a \in Owned /\ a \in Pages \ held
  BY DEF KmtMapToGpu, Owned, MemInv, CallApart
<1>2. /\ obj \in Live /\ obj # NULL
      /\ cell[obj].start = a
      /\ h \in Handles /\ bo[h].used
      /\ \A d \in Live \ {obj} : cell[d].handle # h /\ cell[d].start # a
  BY <1>1, CallOwner
<1>3. /\ bo' = [bo EXCEPT ![h].mapped = TRUE]
      /\ held' = held \cup {a}
      /\ call' = Idle
      /\ UNCHANGED <<page, cell, vm_obj_array, vm_obj_cnt>>
  BY <1>1, <1>2 DEF KmtMapToGpu
<1> HIDE DEF a, obj, h
<1>4. Owned' = Owned /\ Live' = Live
  BY <1>1, <1>3 DEF Owned, Idle, Live, a
<1>5. \A g \in Handles : /\ bo'[g].used = bo[g].used
                        /\ bo'[g].va = bo[g].va
                        /\ bo'[g].size = bo[g].size
                        /\ bo'[g].mapped = IF g = h THEN TRUE ELSE bo[g].mapped
  BY <1>2, <1>3, SetMappedFields DEF MemInv, TypeOK
<1>6. UsedBos' = UsedBos
  BY <1>5 DEF UsedBos
<1>7. CallApart'
  BY <1>3 DEF CallApart, Idle
<1>8. TableInv' /\ OwnerInv'
  BY <1>1, <1>3, <1>4 DEF MemInv, TableInv, OwnerInv
<1>9. BufferObjectInv'
  <2>1. ASSUME NEW d \in Live
        PROVE  /\ cell[d].handle \in UsedBos'
               /\ bo'[cell[d].handle].va = cell[d].start
               /\ bo'[cell[d].handle].size = cell[d].size
               /\ bo'[cell[d].handle].mapped <=> cell[d].start \in held'
    <3>1. /\ cell[d].handle \in UsedBos
          /\ bo[cell[d].handle].va = cell[d].start
          /\ bo[cell[d].handle].size = cell[d].size
          /\ bo[cell[d].handle].mapped <=> cell[d].start \in held
      BY DEF MemInv, BufferObjectInv
    <3>2. cell[d].handle \in Handles
      BY <3>1 DEF UsedBos
    <3>3. CASE d = obj
      BY <3>1, <3>2, <3>3, <1>2, <1>3, <1>5, <1>6 DEF h
    <3>4. CASE d # obj
      BY <3>1, <3>2, <3>4, <1>2, <1>3, <1>5, <1>6
    <3> QED
      BY <3>3, <3>4
  <2>2. \A g \in UsedBos : \E d \in Live : cell[d].handle = g
    BY DEF MemInv, BufferObjectInv
  <2> QED
    BY <1>3, <1>4, <1>6, <2>1, <2>2 DEF BufferObjectInv
<1>10. LayoutInv'
  BY <1>3, <1>4 DEF MemInv, LayoutInv, Extent
<1> QED
  BY <1>7, <1>8, <1>9, <1>10 DEF MemInv

\* and unmapping.
LEMMA UnmapStep ==
  ASSUME MemInv, TypeOK', NEW a \in held, KmtUnmapFromGpu(a)
  PROVE  MemInv'
<1> USE MemoryAssumption DEF Pages, Slots, NoAddr, NULL
<1> DEFINE obj == find_vm_obj(a)
           h == cell[obj].handle
<1>1. call = Idle /\ a \in Owned
  BY DEF KmtUnmapFromGpu, Owned
<1>2. /\ obj \in Live /\ obj # NULL
      /\ cell[obj].start = a
      /\ h \in Handles /\ bo[h].used /\ bo[h].mapped
      /\ \A d \in Live \ {obj} : cell[d].handle # h /\ cell[d].start # a
  BY <1>1, CallOwner
<1>3. /\ bo' = [bo EXCEPT ![h].mapped = FALSE]
      /\ held' = held \ {a}
      /\ call' = [op |-> "release", addr |-> a]
      /\ UNCHANGED <<page, cell, vm_obj_array, vm_obj_cnt>>
  BY <1>1, <1>2 DEF KmtUnmapFromGpu
<1> HIDE DEF obj, h
<1>4. Owned' = Owned /\ Live' = Live
  BY <1>1, <1>3 DEF Owned, Idle, Live
<1>5. \A g \in Handles : /\ bo'[g].used = bo[g].used
                        /\ bo'[g].va = bo[g].va
                        /\ bo'[g].size = bo[g].size
                        /\ bo'[g].mapped = IF g = h THEN FALSE ELSE bo[g].mapped
  BY <1>2, <1>3, SetMappedFields DEF MemInv, TypeOK
<1>6. UsedBos' = UsedBos
  BY <1>5 DEF UsedBos
<1>7. CallApart'
  <2>1. obj \in Cells /\ cell[obj].size \in Nat /\ a \in 0 .. NPages
    BY <1>2 DEF MemInv, TypeOK, VmObject, Live
  <2>2. a + cell[obj].size \in 0 .. NPages - 1
    BY <1>2 DEF MemInv, LayoutInv
  <2>3. a \in Pages
    BY <2>1, <2>2
  <2> QED
    BY <1>3, <2>3 DEF CallApart
<1>8. TableInv' /\ OwnerInv'
  BY <1>1, <1>3, <1>4 DEF MemInv, TableInv, OwnerInv, Idle
<1>9. BufferObjectInv'
  <2>1. ASSUME NEW d \in Live
        PROVE  /\ cell[d].handle \in UsedBos'
               /\ bo'[cell[d].handle].va = cell[d].start
               /\ bo'[cell[d].handle].size = cell[d].size
               /\ bo'[cell[d].handle].mapped <=> cell[d].start \in held'
    <3>1. /\ cell[d].handle \in UsedBos
          /\ bo[cell[d].handle].va = cell[d].start
          /\ bo[cell[d].handle].size = cell[d].size
          /\ bo[cell[d].handle].mapped <=> cell[d].start \in held
      BY DEF MemInv, BufferObjectInv
    <3>2. cell[d].handle \in Handles
      BY <3>1 DEF UsedBos
    <3>3. CASE d = obj
      BY <3>1, <3>2, <3>3, <1>2, <1>3, <1>5, <1>6 DEF h
    <3>4. CASE d # obj
      BY <3>1, <3>2, <3>4, <1>2, <1>3, <1>5, <1>6
    <3> QED
      BY <3>3, <3>4
  <2>2. \A g \in UsedBos : \E d \in Live : cell[d].handle = g
    BY DEF MemInv, BufferObjectInv
  <2> QED
    BY <1>3, <1>4, <1>6, <2>1, <2>2 DEF BufferObjectInv
<1>10. LayoutInv'
  BY <1>3, <1>4 DEF MemInv, LayoutInv, Extent
<1> QED
  BY <1>7, <1>8, <1>9, <1>10 DEF MemInv

\* What KmtReleaseMemory takes, where a freed block no longer shows its address:
\* the block, the buffer object and the pages of one allocation.
ReleaseEffect(a, obj, h) ==
  /\ call.op = "release" /\ a \in Owned /\ a \in Pages \ held
  /\ obj \in Cells /\ cell[obj].start = a
  /\ h \in Handles /\ bo[h].used /\ ~ bo[h].mapped
  /\ \A d \in Live \ {obj} : cell[d].handle # h /\ cell[d].start # a
  /\ bo' = [bo EXCEPT ![h] = NoBo]
  /\ mmap_aperture_release(a, cell[obj].size)
  /\ call' = Idle
  /\ UNCHANGED <<vm_obj_array, vm_obj_cnt, held>>
  /\ Owned = held \cup {a} /\ Owned' = held
  /\ Live' = Live \ {obj}
  /\ ~ cell'[obj].live /\ cell'[obj].start = NoAddr
  /\ \A d \in Cells \ {obj} : cell'[d] = cell[d]
  /\ \A d \in Live \ {obj} : d \in Cells /\ cell'[d] = cell[d]
  /\ UsedBos' = UsedBos \ {h}
  /\ \A g \in Handles \ {h} : bo'[g] = bo[g]

\* A release takes one object away and leaves the others as they were.
LEMMA ReleaseTakes ==
  ASSUME ~ FreedStartSurvives, MemInv, KmtReleaseMemory
  PROVE  \E a \in Pages, obj \in Live :
           a = call.addr /\ ReleaseEffect(a, obj, cell[obj].handle)
<1> USE MemoryAssumption DEF Pages, Slots, NoAddr, NULL
<1> DEFINE a == call.addr
           obj == find_vm_obj(a)
           h == cell[obj].handle
<1>1. call.op = "release" /\ a \in Owned /\ a \in Pages \ held
  BY DEF KmtReleaseMemory, Owned, MemInv, CallApart
<1>2. /\ obj \in Live /\ obj \in Cells /\ obj # NULL
      /\ cell[obj].start = a
      /\ h \in Handles /\ bo[h].used
      /\ bo[h].mapped <=> a \in held
      /\ \A d \in Live \ {obj} : cell[d].handle # h /\ cell[d].start # a
  BY <1>1, CallOwner
<1>3. /\ ~ bo[h].mapped
      /\ bo' = [bo EXCEPT ![h] = NoBo]
      /\ mmap_aperture_release(a, cell[obj].size)
      /\ release_memory_object(obj)
      /\ call' = Idle
      /\ UNCHANGED <<vm_obj_array, vm_obj_cnt, held>>
  <2>1. ~ bo[h].mapped
    BY <1>1, <1>2
  <2>2. cell[obj].live
    BY <1>2 DEF Live
  <2> QED
    BY <1>2, <2>1, <2>2 DEF KmtReleaseMemory, kfd_ioctrl_free_memory
<1>4. cell' = [cell EXCEPT ![obj] = [live |-> FALSE, start |-> NoAddr,
                                     size |-> @.size, handle |-> @.handle]]
  BY <1>3 DEF release_memory_object
<1>5. Owned = held \cup {a} /\ Owned' = held
  BY <1>1, <1>3 DEF Owned, Idle
<1> HIDE DEF a, obj, h
<1>6. /\ Live' = Live \ {obj}
      /\ ~ cell'[obj].live /\ cell'[obj].start = NoAddr
      /\ \A d \in Cells \ {obj} : cell'[d] = cell[d]
  BY <1>2, <1>4 DEF Live, MemInv, TypeOK
<1>7. \A d \in Live \ {obj} : d \in Cells /\ cell'[d] = cell[d]
  BY <1>6 DEF Live
<1>8. /\ UsedBos' = UsedBos \ {h}
      /\ \A g \in Handles \ {h} : bo'[g] = bo[g]
  BY <1>2, <1>3 DEF UsedBos, MemInv, TypeOK, NoBo
<1>9. ReleaseEffect(a, obj, h)
  BY <1>1, <1>2, <1>3, <1>5, <1>6, <1>7, <1>8 DEF ReleaseEffect
<1> QED
  BY <1>1, <1>2, <1>9 DEF a, h

\* Release keeps the invariant.
LEMMA ReleaseStep ==
  ASSUME ~ FreedStartSurvives, MemInv, TypeOK', KmtReleaseMemory
  PROVE  MemInv'
<1> USE MemoryAssumption DEF Pages, Slots, NoAddr, NULL
<1> PICK a \in Pages, obj \in Live : ReleaseEffect(a, obj, cell[obj].handle)
  BY ReleaseTakes
<1> DEFINE h == cell[obj].handle
<1>1. call.op = "release" /\ a \in Owned /\ a \in Pages \ held
  BY DEF ReleaseEffect
<1>2. /\ obj \in Live /\ obj \in Cells
      /\ cell[obj].start = a
      /\ h \in Handles /\ bo[h].used
      /\ \A d \in Live \ {obj} : cell[d].handle # h /\ cell[d].start # a
  BY DEF ReleaseEffect
<1>3. /\ mmap_aperture_release(a, cell[obj].size)
      /\ call' = Idle
      /\ UNCHANGED <<vm_obj_array, vm_obj_cnt, held>>
  BY DEF ReleaseEffect
<1>5. Owned = held \cup {a} /\ Owned' = held
  BY DEF ReleaseEffect
<1>6. /\ Live' = Live \ {obj}
      /\ ~ cell'[obj].live /\ cell'[obj].start = NoAddr
      /\ \A d \in Cells \ {obj} : cell'[d] = cell[d]
  BY DEF ReleaseEffect
<1>7. \A d \in Live \ {obj} : d \in Cells /\ cell'[d] = cell[d]
  BY DEF ReleaseEffect
<1>8. /\ UsedBos' = UsedBos \ {h}
      /\ \A g \in Handles \ {h} : bo'[g] = bo[g]
  BY DEF ReleaseEffect
<1> HIDE DEF h
<1>9. CallApart'
  BY <1>3 DEF CallApart, Idle
<1>10. TableInv'
  <2>1. \A i \in Slots : i >= vm_obj_cnt' => vm_obj_array'[i] = NULL
    BY <1>3 DEF MemInv, TableInv
  <2>2. \A d \in Live \ {obj} : cell[d].start \in held =>
          \E i \in Slots : vm_obj_array[i] = d
    BY <1>5 DEF MemInv, TableInv
  <2>3. \A d \in Cells : ~ cell[d].live => cell[d].start = NoAddr
    BY DEF MemInv, TableInv
  <2>4. \A d \in Cells : ~ cell'[d].live => cell'[d].start = NoAddr
    BY <1>6, <2>3
  <2> QED
    BY <1>3, <1>5, <1>6, <1>7, <2>1, <2>2, <2>4 DEF TableInv
<1>11. OwnerInv'
  <2>1. \A d \in Live : cell[d].start \in Owned
    BY <1>1 DEF MemInv, OwnerInv
  <2>2. \A b \in Owned : \E d \in Live : cell[d].start = b
    BY DEF MemInv, OwnerInv
  <2>3. \A d, e \in Live : cell[d].start = cell[e].start => d = e
    BY DEF MemInv, OwnerInv
  <2>4. \A d \in Live' : cell'[d].start \in Owned'
    BY <1>2, <1>5, <1>6, <1>7, <2>1
  <2>5. \A b \in Owned' : \E d \in Live' : cell'[d].start = b
    BY <1>1, <1>2, <1>5, <1>6, <1>7, <2>2
  <2>6. \A d, e \in Live' : cell'[d].start = cell'[e].start => d = e
    BY <1>6, <1>7, <2>3
  <2> QED
    BY <2>4, <2>5, <2>6 DEF OwnerInv
<1>12. BufferObjectInv'
  <2>1. ASSUME NEW d \in Live \ {obj}
        PROVE  /\ cell[d].handle \in UsedBos'
               /\ bo'[cell[d].handle].va = cell[d].start
               /\ bo'[cell[d].handle].size = cell[d].size
               /\ bo'[cell[d].handle].mapped <=> cell[d].start \in held
    <3>1. /\ cell[d].handle \in UsedBos
          /\ bo[cell[d].handle].va = cell[d].start
          /\ bo[cell[d].handle].size = cell[d].size
          /\ bo[cell[d].handle].mapped <=> cell[d].start \in held
      BY DEF MemInv, BufferObjectInv
    <3>2. cell[d].handle \in Handles \ {h}
      BY <1>2, <3>1 DEF UsedBos
    <3>3. bo'[cell[d].handle] = bo[cell[d].handle]
      BY <1>8, <3>2
    <3> QED
      BY <1>8, <3>1, <3>2, <3>3
  <2>2. \A g \in UsedBos : \E d \in Live : cell[d].handle = g
    BY DEF MemInv, BufferObjectInv
  <2>3. \A g \in UsedBos' : \E d \in Live' : cell'[d].handle = g
    BY <1>6, <1>7, <1>8, <2>2 DEF h
  <2> QED
    BY <1>3, <1>6, <1>7, <2>1, <2>3 DEF BufferObjectInv
<1>13. LayoutInv'
  <2>1. \A d, e \in Live : \/ d = e
                          \/ cell[d].start + cell[d].size < cell[e].start
                          \/ cell[e].start + cell[e].size < cell[d].start
    BY DEF MemInv, LayoutInv
  <2>2. ASSUME NEW d \in Live \ {obj}
        PROVE  /\ cell'[d].size > 0
               /\ cell'[d].start + cell'[d].size \in Pages
               /\ \A p \in Extent(d)' : page'[p] # "free"
               /\ page'[cell'[d].start + cell'[d].size] = "none"
    <3>1. /\ cell[d].size > 0
          /\ cell[d].start + cell[d].size \in Pages
          /\ \A p \in Extent(d) : page[p] # "free"
          /\ page[cell[d].start + cell[d].size] = "none"
      BY DEF MemInv, LayoutInv
    <3>2. /\ cell[d].start \in Nat /\ cell[d].size \in Nat
          /\ cell[obj].size \in Nat /\ a \in Nat
      BY <1>1, <1>2, <1>7 DEF MemInv, TypeOK, VmObject
    <3>3. \/ cell[d].start + cell[d].size < a
          \/ a + cell[obj].size < cell[d].start
      BY <1>2, <2>1
    <3>4. \A p \in cell[d].start .. cell[d].start + cell[d].size :
            p \in Pages /\ p \notin a .. a + cell[obj].size - 1
      BY <3>1, <3>2, <3>3
    <3>5. \A p \in cell[d].start .. cell[d].start + cell[d].size : page'[p] = page[p]
      BY <1>3, <3>4 DEF mmap_aperture_release
    <3>6. /\ cell[d].start + cell[d].size \in cell[d].start .. cell[d].start + cell[d].size
          /\ \A p \in Extent(d) : p \in cell[d].start .. cell[d].start + cell[d].size
      BY <3>2 DEF Extent
    <3>7. Extent(d)' = Extent(d)
      BY <1>7 DEF Extent
    <3> QED
      BY <1>7, <3>1, <3>5, <3>6, <3>7
  <2> QED
    BY <1>6, <1>7, <2>1, <2>2 DEF LayoutInv
<1> QED
  BY <1>9, <1>10, <1>11, <1>12, <1>13 DEF MemInv

\* An allocation that fails, or a step of something else, changes no object.
LEMMA QuietStep ==
  ASSUME MemInv, TypeOK', AllocFails \/ UNCHANGED vars
  PROVE  MemInv'
<1>1. /\ UNCHANGED <<page, bo, cell, vm_obj_array, vm_obj_cnt, held>>
      /\ \/ UNCHANGED call
         \/ call = Idle /\ call'.op = "no_memory"
  BY DEF AllocFails, vars
<1>2. Live' = Live /\ Owned' = Owned /\ UsedBos' = UsedBos
  BY <1>1 DEF Live, Owned, UsedBos, Idle
<1>3. call.op = "overrun" => call'.op = "overrun"
  BY <1>1 DEF Idle
<1>4. CallApart'
  BY <1>1 DEF MemInv, CallApart
<1>5. TableInv' /\ BufferObjectInv' /\ LayoutInv'
  BY <1>1, <1>2 DEF MemInv, TableInv, BufferObjectInv, LayoutInv, Extent
<1>6. OwnerInv'
  BY <1>1, <1>2, <1>3 DEF MemInv, OwnerInv
<1> QED
  BY <1>4, <1>5, <1>6 DEF MemInv

\* At the start no memory has been allocated.
LEMMA MemInvInit == Init => MemInv
<1> USE MemoryAssumption DEF Pages, Slots, NoAddr, NULL
<1> SUFFICES ASSUME Init PROVE MemInv
  OBVIOUS
<1>1. TypeOK
  BY DEF Init, TypeOK, NoBo, NoObj, Failures, BufferObject, VmObject, Call, Idle
<1>2. Live = {} /\ Owned = {} /\ UsedBos = {}
  BY DEF Init, Live, Owned, UsedBos, NoObj, NoBo, Idle
<1>3. CallApart
  BY DEF Init, CallApart, Idle
<1>4. TableInv
  BY <1>2 DEF Init, TableInv, NoObj
<1> QED
  BY <1>1, <1>2, <1>3, <1>4 DEF MemInv, OwnerInv, BufferObjectInv, LayoutInv

\* Every step keeps the invariant.
LEMMA MemInvStep ==
  ASSUME ~ FreedStartSurvives, MemInv, [Next]_vars
  PROVE  MemInv'
<1>1. TypeOK'
  BY TypeStep DEF MemInv
<1>2. ASSUME NEW size \in Sizes, KmtAllocDevice(size) PROVE MemInv'
  BY <1>1, <1>2, AllocateStep DEF KmtAllocDevice
<1>3. ASSUME NEW size \in Sizes, KmtAllocHost(size) PROVE MemInv'
  BY <1>1, <1>3, AllocateStep DEF KmtAllocHost
<1>4. ASSUME NEW size \in Sizes, KmtAllocDoorbell(size) PROVE MemInv'
  BY <1>1, <1>4, AllocateStep DEF KmtAllocDoorbell
<1>5. CASE KmtMapToGpu
  BY <1>1, <1>5, MapStep
<1>6. ASSUME NEW a \in held, KmtUnmapFromGpu(a) PROVE MemInv'
  BY <1>1, <1>6, UnmapStep
<1>7. CASE KmtReleaseMemory
  BY <1>1, <1>7, ReleaseStep
<1>8. CASE AllocFails \/ UNCHANGED vars
  BY <1>1, <1>8, QuietStep
<1> QED
  BY <1>2, <1>3, <1>4, <1>5, <1>6, <1>7, <1>8 DEF Next

-----------------------------------------------------------------------------
(* What the invariant says of every behaviour.                             *)

\* MemInv is invariant as long as no freed block shows its address.
THEOREM MemoryInvariant ==
  ASSUME ~ FreedStartSurvives
  PROVE  Spec => []MemInv
<1>1. MemInv /\ [Next]_vars => MemInv'
  BY MemInvStep
<1> QED
  BY <1>1, MemInvInit, PTL DEF Spec

\* find_vm_obj and KmtGetVmHandle return the object and the handle of the owner
\* of the address (memory.cpp:301-324, 596-601), for any number of objects the
\* table was ever given.
THEOREM LookupCorrect ==
  ASSUME ~ FreedStartSurvives
  PROVE  Spec => []LookupFindsOwner
BY MemoryInvariant, MemInvFinds, PTL

\* No assert on an ioctl fails, nothing is freed twice and no NULL dereferenced
\* (memory.cpp:523-594).
THEOREM CallsSucceed ==
  ASSUME ~ FreedStartSurvives
  PROVE  Spec => []NoCallFails
<1>1. MemInv => NoCallFails
  BY DEF MemInv, CallApart, NoCallFails
<1> QED
  BY <1>1, MemoryInvariant, PTL

\* The page mmap_aperture_allocate adds stays PROT_NONE and belongs to nobody
\* for as long as the object lives (memory.cpp:226-258).
THEOREM GuardPages ==
  ASSUME ~ FreedStartSurvives
  PROVE  Spec => []GuardPageBehindEveryObject
<1>1. MemInv => GuardPageBehindEveryObject
  <2> SUFFICES ASSUME MemInv, NEW c \in Live
               PROVE  LET guard == cell[c].start + cell[c].size
                      IN /\ \A p \in Extent(c) : page[p] # "free"
                         /\ page[guard] = "none"
                         /\ \A d \in Live \ {c} : guard \notin Extent(d)
    BY DEF GuardPageBehindEveryObject
  <2>1. \A d \in Live : cell[d].start \in Nat /\ cell[d].size \in Nat
    BY MemoryAssumption DEF MemInv, TypeOK, VmObject, Live
  <2> QED
    BY <2>1 DEF MemInv, LayoutInv, Extent
<1> QED
  BY <1>1, MemoryInvariant, PTL

\* The driver's buffer objects are those of the owned addresses, one each: the
\* unchecked free ioctl (memory.cpp:288-299) is never refused.
THEOREM BufferObjectsOwned ==
  ASSUME ~ FreedStartSurvives
  PROVE  Spec => []NoOrphanBufferObject
<1>1. MemInv => NoOrphanBufferObject
  <2> SUFFICES ASSUME MemInv, call.op \notin Failures
               PROVE  /\ \A h \in UsedBos : bo[h].va \in Owned
                      /\ \A a \in Owned : \E h \in UsedBos : bo[h].va = a
                      /\ \A g, h \in UsedBos : bo[g].va = bo[h].va => g = h
    BY DEF NoOrphanBufferObject
  <2>1. \A h \in UsedBos : \E c \in Live : /\ cell[c].handle = h
                                        /\ cell[c].start = bo[h].va
    BY DEF MemInv, BufferObjectInv
  <2>2. \A c \in Live : cell[c].handle \in UsedBos
                       /\ bo[cell[c].handle].va = cell[c].start
    BY DEF MemInv, BufferObjectInv
  <2> QED
    BY <2>1, <2>2 DEF MemInv, OwnerInv, Failures
<1> QED
  BY <1>1, MemoryInvariant, PTL

\* Freeing one allocation leaves the pages and the buffer object of every other
\* one as they are (memory.cpp:523-533).
THEOREM FreeIsLocal ==
  ASSUME ~ FreedStartSurvives
  PROVE  Spec => OthersUntouched
<1> DEFINE Untouched ==
      \A c \in Live :
        cell[c].start \in Owned \ {call.addr} /\ call.op = "release" =>
          /\ \A p \in cell[c].start .. cell[c].start + cell[c].size :
               page'[p] = page[p]
          /\ bo'[cell[c].handle] = bo[cell[c].handle]
<1>1. MemInv /\ [Next]_vars => [Untouched]_vars
  <2> SUFFICES ASSUME MemInv, Next, call.op = "release",
                      NEW c \in Live, cell[c].start \in Owned \ {call.addr}
               PROVE  /\ \A p \in cell[c].start .. cell[c].start + cell[c].size :
                           page'[p] = page[p]
                      /\ bo'[cell[c].handle] = bo[cell[c].handle]
    OBVIOUS
  <2>1. KmtReleaseMemory
    <3>1. call # Idle /\ call.op # "map"
      BY DEF Idle
    <3> QED
      BY <3>1 DEF Next, KmtAllocDevice, KmtAllocHost, KmtAllocDoorbell, Allocate,
                  AllocFails, KmtMapToGpu, KmtUnmapFromGpu
  <2> PICK a \in Pages, obj \in Live :
             a = call.addr /\ ReleaseEffect(a, obj, cell[obj].handle)
    BY <2>1, ReleaseTakes
  <2> DEFINE h == cell[obj].handle
  <2>3. /\ obj \in Live /\ obj \in Cells /\ cell[obj].start = a
        /\ \A d \in Live \ {obj} : cell[d].handle # h /\ cell[d].start # a
    BY DEF ReleaseEffect
  <2>4. mmap_aperture_release(a, cell[obj].size) /\ bo' = [bo EXCEPT ![h] = NoBo]
    BY DEF ReleaseEffect
  <2> HIDE DEF h
  <2>5. /\ c \in Cells /\ obj \in Cells /\ c # obj
        /\ cell[c].start \in Nat /\ cell[c].size \in Nat
        /\ cell[obj].size \in Nat /\ a \in Nat
    BY <2>3, MemoryAssumption DEF Live, MemInv, TypeOK, VmObject, Pages
  <2>6. /\ cell[c].start + cell[c].size \in Pages
        /\ \/ cell[c].start + cell[c].size < a
           \/ a + cell[obj].size < cell[c].start
    BY <2>3, <2>5 DEF MemInv, LayoutInv
  <2>7. \A p \in cell[c].start .. cell[c].start + cell[c].size :
          p \in Pages /\ p \notin a .. a + cell[obj].size - 1
    BY <2>5, <2>6, MemoryAssumption DEF Pages
  <2>8. cell[c].handle # h
    BY <2>3, <2>5
  <2> QED
    BY <2>4, <2>7, <2>8 DEF mmap_aperture_release, MemInv, TypeOK
<1> QED
  BY <1>1, MemoryInvariant, PTL DEF Spec, OthersUntouched

-----------------------------------------------------------------------------
(* The memory manager implements the pool of buffers of GpuBuffers.        *)

\* The buffer a live block stands for, its pages and the page behind them.
Buffer(c) == [addr |-> cell[c].start, size |-> cell[c].size,
              mapped |-> bo[cell[c].handle].mapped]
Whole(c) == cell[c].start .. cell[c].start + cell[c].size
InUse == {p \in Pages : page[p] # "free"}
Covered == UNION {Whole(c) : c \in Live}

\* Buffers are told apart by their addresses.
LEMMA BuffersDiffer ==
  ASSUME MemInv, NEW c \in Live, NEW d \in Live, Buffer(c) = Buffer(d)
  PROVE  c = d
<1>1. Buffer(c).addr = cell[c].start /\ Buffer(d).addr = cell[d].start
  BY DEF Buffer
<1> QED
  BY <1>1 DEF MemInv, OwnerInv

\* Pages in use are those of a buffer, or spent.
LEMMA BusyInUse == MemInv => Pool!Busy = InUse
<1> SUFFICES ASSUME MemInv PROVE Pool!Busy = InUse
  OBVIOUS
<1>1. ASSUME NEW c \in Live, NEW p \in Whole(c) PROVE p \in InUse
  <2>1. /\ cell[c].start \in Nat /\ cell[c].size \in Nat
        /\ cell[c].start + cell[c].size \in Pages
    BY MemoryAssumption DEF MemInv, TypeOK, VmObject, Live, LayoutInv
  <2>2. p \in Pages
    BY <2>1, <1>1, MemoryAssumption DEF Whole, Pages
  <2>3. p \in Extent(c) \/ p = cell[c].start + cell[c].size
    BY <2>1, <1>1 DEF Whole, Extent
  <2> QED
    BY <2>2, <2>3 DEF MemInv, LayoutInv, InUse
<1>2. UNION {Pool!Extent(b) : b \in PoolOfBuffers} = Covered
  <2>1. \A c \in Live : Pool!Extent(Buffer(c)) = Whole(c)
    BY DEF Buffer, Whole, Pool!Extent
  <2>2. PoolOfBuffers = {Buffer(c) : c \in Live}
    BY DEF PoolOfBuffers, Buffer
  <2> QED
    BY <2>1, <2>2 DEF Covered
<1>3. Covered \subseteq InUse
  BY <1>1 DEF Covered
<1>4. SpentPages = InUse \ Covered
  BY DEF SpentPages, InUse, Covered, Whole
<1> QED
  BY <1>2, <1>3, <1>4 DEF Pool!Busy

\* The pool starts empty.
LEMMA InitRefines == Init => Pool!Init
<1> SUFFICES ASSUME Init PROVE Pool!Init
  OBVIOUS
<1>1. Live = {}
  BY DEF Init, Live, NoObj
<1>2. {p \in Pages : page[p] # "free"} = {}
  BY DEF Init
<1> QED
  BY <1>1, <1>2 DEF Pool!Init, PoolOfBuffers, SpentPages

\* An allocation creates a buffer.
LEMMA AllocateRefines ==
  ASSUME MemInv, NEW size \in Sizes, NEW prot \in {"none", "rw"},
         Allocate(size, prot)
  PROVE  Pool!Create
<1> USE MemoryAssumption DEF Pages
<1> PICK a \in Pages, h \in Handles, c \in Cells :
           AllocateEffect(size, prot, a, h, c)
  BY AllocateAdds
<1>1. /\ size \in Nat /\ a \in Nat /\ a + size \in Pages
      /\ \A p \in a .. a + size : p \in Pages /\ page[p] = "free"
      /\ mmap_aperture_allocate(a, size, prot)
  BY DEF AllocateEffect
<1>2. (a .. a + size) \cap InUse = {}
  BY <1>1 DEF InUse
<1>3. \A d \in Live : Buffer(d)' = Buffer(d) /\ Whole(d)' = Whole(d)
  <2> TAKE d \in Live
  <2>1. cell'[d] = cell[d]
    BY DEF AllocateEffect
  <2>2. cell[d].handle \in UsedBos
    BY DEF MemInv, BufferObjectInv
  <2>3. bo'[cell[d].handle] = bo[cell[d].handle]
    BY <2>2 DEF AllocateEffect, UsedBos
  <2> QED
    BY <2>1, <2>3 DEF Buffer, Whole
<1>4. /\ Live' = Live \cup {c}
      /\ Buffer(c)' = [addr |-> a, size |-> size, mapped |-> FALSE]
      /\ Whole(c)' = a .. a + size
  BY DEF AllocateEffect, Buffer, Whole
<1>5. PoolOfBuffers' = PoolOfBuffers
                         \cup {[addr |-> a, size |-> size, mapped |-> FALSE]}
  <2>1. PoolOfBuffers = {Buffer(d) : d \in Live}
    BY DEF PoolOfBuffers, Buffer
  <2>2. PoolOfBuffers' = {Buffer(d)' : d \in Live'}
    BY DEF PoolOfBuffers, Buffer
  <2> QED
    BY <1>3, <1>4, <2>1, <2>2
<1>6. SpentPages' = SpentPages
  <2>1. InUse' = InUse \cup (a .. a + size)
    <3>1. page' = [p \in Pages |-> IF p \in a .. a + size - 1 THEN prot
                                   ELSE IF p = a + size THEN "none" ELSE page[p]]
      BY <1>1 DEF mmap_aperture_allocate
    <3>2. \A p \in Pages : page'[p] # "free" <=>
                             (p \in a .. a + size \/ page[p] # "free")
      BY <1>1, <3>1
    <3> QED
      BY <1>1, <3>2 DEF InUse
  <2>2. Covered' = Covered \cup (a .. a + size)
    BY <1>3, <1>4 DEF Covered
  <2>3. SpentPages = InUse \ Covered /\ SpentPages' = InUse' \ Covered'
    BY DEF SpentPages, InUse, Covered, Whole
  <2> QED
    BY <1>2, <2>1, <2>2, <2>3
<1> QED
  BY <1>1, <1>2, <1>5, <1>6, BusyInUse DEF Pool!Create

\* What a call for an owned address does to the buffer of that address alone
\* shows as a change of its member mapped.
LEMMA MappedRefines ==
  ASSUME MemInv, NEW obj \in Live, NEW b \in BOOLEAN,
         bo' = [bo EXCEPT ![cell[obj].handle].mapped = b],
         UNCHANGED <<page, cell>>
  PROVE  /\ PoolOfBuffers' = (PoolOfBuffers \ {Buffer(obj)})
                               \cup {[Buffer(obj) EXCEPT !.mapped = b]}
         /\ SpentPages' = SpentPages
         /\ Buffer(obj) \in PoolOfBuffers
<1> DEFINE h == cell[obj].handle
<1>1. h \in Handles /\ \A d \in Live : cell[d].handle \in Handles
  BY DEF MemInv, BufferObjectInv, UsedBos
<1>2. \A d \in Live : cell[d].handle = h => d = obj
  BY DEF MemInv, BufferObjectInv, OwnerInv
<1>3. \A g \in Handles : bo'[g].mapped = IF g = h THEN b ELSE bo[g].mapped
  BY <1>1, SetMappedFields DEF MemInv, TypeOK
<1>4. Live' = Live
  BY DEF Live
<1>5. Buffer(obj)' = [Buffer(obj) EXCEPT !.mapped = b]
  BY <1>1, <1>3 DEF Buffer
<1>6. \A d \in Live \ {obj} : Buffer(d)' = Buffer(d) /\ Buffer(d) # Buffer(obj)
  <2> TAKE d \in Live \ {obj}
  <2>1. bo'[cell[d].handle].mapped = bo[cell[d].handle].mapped
    BY <1>1, <1>2, <1>3
  <2>2. Buffer(d) # Buffer(obj)
    BY BuffersDiffer
  <2> QED
    BY <2>1, <2>2 DEF Buffer
<1>7. PoolOfBuffers = {Buffer(d) : d \in Live}
  BY DEF PoolOfBuffers, Buffer
<1>8. PoolOfBuffers' = {Buffer(d)' : d \in Live}
  BY <1>4 DEF PoolOfBuffers, Buffer
<1>9. SpentPages' = SpentPages
  BY <1>4 DEF SpentPages
<1> QED
  BY <1>5, <1>6, <1>7, <1>8, <1>9

\* Mapping an object maps its memory in the pool.
LEMMA MapRefines ==
  ASSUME MemInv, KmtMapToGpu
  PROVE  \E b \in PoolOfBuffers : Pool!MapToGpu(b)
<1> DEFINE a == call.addr
           obj == find_vm_obj(a)
           h == cell[obj].handle
<1>1. call.op = "map" /\ a \in Owned /\ a \notin held
  BY DEF KmtMapToGpu, Owned, MemInv, CallApart
<1>2. /\ obj \in Live /\ obj # NULL /\ bo[h].used
      /\ bo[h].mapped <=> a \in held
  BY <1>1, CallOwner
<1>3. bo' = [bo EXCEPT ![h].mapped = TRUE] /\ UNCHANGED <<page, cell>>
  BY <1>1, <1>2 DEF KmtMapToGpu
<1> HIDE DEF a, obj
<1>4. ~ Buffer(obj).mapped
  BY <1>1, <1>2 DEF Buffer
<1> QED
  BY <1>2, <1>3, <1>4, MappedRefines DEF Pool!MapToGpu

\* Unmapping an object unmaps its memory in the pool.
LEMMA UnmapRefines ==
  ASSUME MemInv, NEW a \in held, KmtUnmapFromGpu(a)
  PROVE  \E b \in PoolOfBuffers : Pool!UnmapFromGpu(b)
<1> DEFINE obj == find_vm_obj(a)
           h == cell[obj].handle
<1>1. a \in Owned
  BY DEF Owned
<1>2. /\ obj \in Live /\ obj # NULL /\ bo[h].used
      /\ bo[h].mapped <=> a \in held
  BY <1>1, CallOwner
<1>3. bo' = [bo EXCEPT ![h].mapped = FALSE] /\ UNCHANGED <<page, cell>>
  BY <1>1, <1>2 DEF KmtUnmapFromGpu
<1> HIDE DEF obj
<1>4. Buffer(obj).mapped = bo[h].mapped /\ bo[h].mapped
  BY <1>2 DEF Buffer
<1> QED
  BY <1>2, <1>3, <1>4, MappedRefines DEF Pool!UnmapFromGpu

\* A release destroys the buffer and leaves the page behind it.
LEMMA ReleaseRefines ==
  ASSUME ~ FreedStartSurvives, MemInv, KmtReleaseMemory
  PROVE  \E b \in PoolOfBuffers : Pool!Destroy(b)
<1> USE MemoryAssumption DEF Pages
<1> PICK a \in Pages, obj \in Live : ReleaseEffect(a, obj, cell[obj].handle)
  BY ReleaseTakes
<1> DEFINE h == cell[obj].handle
           size == cell[obj].size
<1>1. /\ obj \in Cells /\ cell[obj].start = a /\ ~ bo[h].mapped
      /\ Live' = Live \ {obj}
      /\ mmap_aperture_release(a, size)
  BY DEF ReleaseEffect
<1>2. /\ size \in Nat /\ a \in Nat /\ a + size \in Pages
      /\ \A p \in a .. a + size : p \in Pages
      /\ a + size \in InUse
  BY <1>1 DEF MemInv, TypeOK, VmObject, LayoutInv, InUse
<1>3. \A d \in Live \ {obj} : /\ Buffer(d)' = Buffer(d) /\ Whole(d)' = Whole(d)
                             /\ Buffer(d) # Buffer(obj)
                             /\ Whole(d) \cap (a .. a + size) = {}
  <2> TAKE d \in Live \ {obj}
  <2>1. cell'[d] = cell[d] /\ cell[d].handle # h
    BY DEF ReleaseEffect
  <2>2. bo'[cell[d].handle] = bo[cell[d].handle]
    BY <2>1 DEF MemInv, BufferObjectInv, UsedBos, ReleaseEffect
  <2>3. Buffer(d) # Buffer(obj)
    BY BuffersDiffer
  <2>4. cell[d].start \in Nat /\ cell[d].size \in Nat
    BY DEF MemInv, TypeOK, VmObject, Live
  <2>5. \/ cell[d].start + cell[d].size < a \/ a + size < cell[d].start
    BY <1>1 DEF MemInv, LayoutInv
  <2>6. Whole(d) \cap (a .. a + size) = {}
    BY <1>2, <2>4, <2>5 DEF Whole
  <2> QED
    BY <2>1, <2>2, <2>3, <2>6 DEF Buffer, Whole
<1>4. PoolOfBuffers' = PoolOfBuffers \ {Buffer(obj)}
  <2>1. PoolOfBuffers = {Buffer(d) : d \in Live}
    BY DEF PoolOfBuffers, Buffer
  <2>2. PoolOfBuffers' = {Buffer(d)' : d \in Live'}
    BY DEF PoolOfBuffers, Buffer
  <2> QED
    BY <1>1, <1>3, <2>1, <2>2
<1>5. SpentPages' = SpentPages \cup {a + size}
  <2>1. InUse' = InUse \ (a .. a + size - 1)
    <3>1. \A p \in Pages : page'[p] # "free" <=>
                             (p \notin a .. a + size - 1 /\ page[p] # "free")
      BY <1>1 DEF mmap_aperture_release
    <3> QED
      BY <3>1 DEF InUse
  <2>2. Covered = Covered' \cup (a .. a + size) /\ Covered' \cap (a .. a + size) = {}
    <3>1. Whole(obj) = a .. a + size
      BY <1>1 DEF Whole
    <3>2. Covered' = UNION {Whole(d) : d \in Live \ {obj}}
      BY <1>1, <1>3 DEF Covered
    <3>3. Covered = Whole(obj) \cup UNION {Whole(d) : d \in Live \ {obj}}
      BY DEF Covered
    <3> QED
      BY <1>3, <3>1, <3>2, <3>3
  <2>3. SpentPages = InUse \ Covered /\ SpentPages' = InUse' \ Covered'
    BY DEF SpentPages, InUse, Covered, Whole
  <2>4. a .. a + size = (a .. a + size - 1) \cup {a + size}
        /\ a + size \notin a .. a + size - 1
    BY <1>2
  <2> QED
    BY <1>2, <2>1, <2>2, <2>3, <2>4
<1>6. /\ Buffer(obj).addr = a /\ Buffer(obj).size = size
      /\ Buffer(obj).mapped = bo[h].mapped
      /\ Buffer(obj) \in PoolOfBuffers
  BY <1>1 DEF Buffer, PoolOfBuffers
<1> QED
  BY <1>1, <1>4, <1>5, <1>6 DEF Pool!Destroy

\* A step of the memory manager creates, maps, unmaps or destroys one buffer, or
\* does nothing to the pool (memory.cpp:385-594).
LEMMA StepRefines ==
  ASSUME ~ FreedStartSurvives, MemInv, [Next]_vars
  PROVE  [Pool!Next]_(Pool!vars)
<1>1. ASSUME NEW size \in Sizes, KmtAllocDevice(size) PROVE Pool!Next
  BY <1>1, AllocateRefines DEF KmtAllocDevice, Pool!Next
<1>2. ASSUME NEW size \in Sizes, KmtAllocHost(size) PROVE Pool!Next
  BY <1>2, AllocateRefines DEF KmtAllocHost, Pool!Next
<1>3. ASSUME NEW size \in Sizes, KmtAllocDoorbell(size) PROVE Pool!Next
  BY <1>3, AllocateRefines DEF KmtAllocDoorbell, Pool!Next
<1>4. CASE KmtMapToGpu
  BY <1>4, MapRefines DEF Pool!Next
<1>5. ASSUME NEW a \in held, KmtUnmapFromGpu(a) PROVE Pool!Next
  BY <1>5, UnmapRefines DEF Pool!Next
<1>6. CASE KmtReleaseMemory
  BY <1>6, ReleaseRefines DEF Pool!Next
<1>7. CASE AllocFails \/ UNCHANGED vars
  <2>1. UNCHANGED <<page, bo, cell>>
    BY <1>7 DEF AllocFails, vars
  <2>2. Live' = Live
    BY <2>1 DEF Live
  <2> QED
    BY <2>1, <2>2 DEF Pool!vars, PoolOfBuffers, SpentPages
<1> QED
  BY <1>1, <1>2, <1>3, <1>4, <1>5, <1>6, <1>7 DEF Next

\* The calls of memory.cpp keep the promise of GpuBuffers: buffers never overlap,
\* go to the GPU and back before they are destroyed, and leave their guard page.
THEOREM MemoryImplementsPool ==
  ASSUME ~ FreedStartSurvives
  PROVE  Spec => ImplementsPool
<1>1. MemInv /\ [Next]_vars => [Pool!Next]_(Pool!vars)
  BY StepRefines
<1> QED
  BY <1>1, InitRefines, MemoryInvariant, PTL DEF Spec, ImplementsPool, Pool!Spec

=============================================================================
