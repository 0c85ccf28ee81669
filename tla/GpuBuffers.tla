----------------------------- MODULE GpuBuffers -----------------------------
(***************************************************************************)
(* What the memory calls of src/src/memory.cpp promise their callers: a    *)
(* pool of buffers that never overlap, each followed by a page nobody may  *)
(* touch.  A buffer comes into being unknown to the GPU, is mapped for it, *)
(* unmapped, and only then goes away.  The page behind a buffer outlives   *)
(* it: that address space is spent.                                        *)
(***************************************************************************)
EXTENDS Naturals

CONSTANTS
  NPages,  (* pages of address space                                       *)
  Sizes    (* sizes of buffers, in pages                                   *)

VARIABLES
  buffers,  (* set of [addr, size, mapped]                                 *)
  spent     (* pages that stay behind when their buffer is gone            *)

vars == <<buffers, spent>>

Extent(b) == b.addr .. b.addr + b.size   \* the page behind it included
Busy == spent \cup UNION {Extent(b) : b \in buffers}

Create ==
  \E a \in 0 .. NPages - 1, size \in Sizes :
    /\ a + size < NPages
    /\ (a .. a + size) \cap Busy = {}
    /\ buffers' = buffers \cup {[addr |-> a, size |-> size, mapped |-> FALSE]}
    /\ UNCHANGED spent

MapToGpu(b) ==
  /\ ~ b.mapped
  /\ buffers' = (buffers \ {b}) \cup {[b EXCEPT !.mapped = TRUE]}
  /\ UNCHANGED spent

UnmapFromGpu(b) ==
  /\ b.mapped
  /\ buffers' = (buffers \ {b}) \cup {[b EXCEPT !.mapped = FALSE]}
  /\ UNCHANGED spent

Destroy(b) ==
  /\ ~ b.mapped
  /\ buffers' = buffers \ {b}
  /\ spent' = spent \cup {b.addr + b.size}

Init == buffers = {} /\ spent = {}

Next == \/ Create
        \/ \E b \in buffers : MapToGpu(b) \/ UnmapFromGpu(b) \/ Destroy(b)

Spec == Init /\ [][Next]_vars

=============================================================================
