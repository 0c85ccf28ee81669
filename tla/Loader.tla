-------------------------------- MODULE Loader --------------------------------
(***************************************************************************)
(* The code loader of src/src/executable.cpp: it lays the segments of a    *)
(* code object out in host memory, looks for the address of its kernel,    *)
(* and copies the whole to the GPU.  Addresses are of code objects, and    *)
(* relative to CtxHstPtr and CtxDevPtr.  The code object is given: any of  *)
(* Objects in VectorAdd, one built and read back by HsaCode in CodeLoad.   *)
(***************************************************************************)
EXTENDS Naturals, Sequences

LOCAL INSTANCE FiniteSetsExt

CONSTANTS
  Objects,  (* code objects: data segments in order of their address, and  *)
            (* symbols, each with its address and whether it is a kernel   *)
            (* symbol with a definition                                    *)
  Limit,    (* addresses of all objects are below this                     *)
  None      (* no address                                                  *)

ASSUME LoaderAssumption ==
  /\ Limit \in Nat
  /\ None \notin Nat
  /\ \A o \in Objects :
       /\ o.segs \in Seq([vaddr : Nat, memSize : Nat, imageSize : Nat])
       /\ o.syms \in Seq([addr : Nat, kernel : BOOLEAN])
       /\ o.segs # << >>
       /\ \A i \in DOMAIN o.segs :
            /\ o.segs[i].imageSize <= o.segs[i].memSize
            /\ o.segs[i].vaddr + o.segs[i].memSize <= Limit
            /\ i > 1 => o.segs[i].vaddr >= o.segs[i-1].vaddr + o.segs[i-1].memSize

VARIABLES
  CodeObject,
  CtxMemSize,
  CtxHst,               (* contents of the memory at CtxHstPtr             *)
  CtxDev,               (* contents of the memory at CtxDevPtr             *)
  index,                (* the segment or symbol of the loop               *)
  KernelSymbolAddress,  (* relative to CtxDevPtr, or None                  *)
  loading               (* the function HsaLoadKernel is in                *)

loaderVars == <<CodeObject, CtxMemSize, CtxHst, CtxDev, index, KernelSymbolAddress, loading>>

Addrs == 0 .. Limit               \* a segment may be empty
ZERO == [seg |-> 0, at |-> 0]     \* memory is fresh

segs == CodeObject.segs
syms == CodeObject.syms

\* The byte of the image of segment s at distance k from its start.
Image(s, k) == [seg |-> s, at |-> k]

\* What the code object has at address a.
Contents(a) ==
  LET here == {s \in DOMAIN segs : a \in segs[s].vaddr .. segs[s].vaddr + segs[s].imageSize - 1}
  IN IF here = {} THEN ZERO
     ELSE LET s == CHOOSE s \in here : TRUE IN Image(s, a - segs[s].vaddr)

-----------------------------------------------------------------------------
context_alloc_memory ==
  /\ loading = "alloc"
  /\ CtxMemSize' = segs[Len(segs)].vaddr + segs[Len(segs)].memSize
  /\ CtxHst' = [a \in 0 .. CtxMemSize' - 1 |-> ZERO]
  /\ CtxDev' = [a \in 0 .. CtxMemSize' - 1 |-> ZERO]
  /\ index' = 1
  /\ loading' = "segments"
  /\ UNCHANGED <<CodeObject, KernelSymbolAddress>>

\* Fault: segments go one byte too far.
load_code_segment_OffByOne ==
  /\ loading = "segments"
  /\ LET offset == segs[index].vaddr - segs[1].vaddr + 1
     IN CtxHst' = [a \in DOMAIN CtxHst |->
                     IF a \in offset .. offset + segs[index].imageSize - 1
                     THEN Image(index, a - offset) ELSE CtxHst[a]]
  /\ IF index < Len(segs) THEN index' = index + 1 /\ UNCHANGED loading
                          ELSE index' = 1 /\ loading' = "symbols"
  /\ UNCHANGED <<CodeObject, CtxMemSize, CtxDev, KernelSymbolAddress>>

\* A segment goes to its distance from the first one.
load_code_segment ==
  /\ loading = "segments"
  /\ LET offset == segs[index].vaddr - segs[1].vaddr
     IN CtxHst' = [a \in DOMAIN CtxHst |->
                     IF a \in offset .. offset + segs[index].imageSize - 1
                     THEN Image(index, a - offset) ELSE CtxHst[a]]
  /\ IF index < Len(segs) THEN index' = index + 1 /\ UNCHANGED loading
                          ELSE index' = 1 /\ loading' = "symbols"
  /\ UNCHANGED <<CodeObject, CtxMemSize, CtxDev, KernelSymbolAddress>>

\* Fault: a segment that starts at the symbol does not stop the search.
SegmentFound_Strict(addr) ==
  LET past == {j \in DOMAIN segs : addr < segs[j].vaddr}
  IN IF past = {} THEN Len(segs) ELSE Min(past)

\* The search stops at the first segment that does not start before the symbol,
\* or else ends with the last one.
SegmentFound(addr) ==
  LET past == {j \in DOMAIN segs : addr <= segs[j].vaddr}
  IN IF past = {} THEN Len(segs) ELSE Min(past)

\* A kernel symbol gets the address of the segment found; a later one replaces it.
load_kenrel_symbol ==
  /\ loading = "symbols"
  /\ IF index <= Len(syms)
     THEN /\ KernelSymbolAddress' = IF syms[index].kernel
                                    THEN segs[SegmentFound(syms[index].addr)].vaddr
                                    ELSE KernelSymbolAddress
          /\ index' = index + 1
          /\ UNCHANGED loading
     ELSE loading' = "freeze" /\ UNCHANGED <<KernelSymbolAddress, index>>
  /\ UNCHANGED <<CodeObject, CtxMemSize, CtxHst, CtxDev>>

freeze_executable ==
  /\ loading = "freeze"
  /\ CtxDev' = CtxHst
  /\ loading' = "done"
  /\ UNCHANGED <<CodeObject, CtxMemSize, CtxHst, index, KernelSymbolAddress>>

-----------------------------------------------------------------------------
LoaderInit ==
  /\ CodeObject \in Objects
  /\ CtxMemSize = 0 /\ CtxHst = << >> /\ CtxDev = << >>
  /\ index = 1
  /\ KernelSymbolAddress = None
  /\ loading = "alloc"

(* HsaLoadKernel, function by function. *)
LoaderNext == \/ context_alloc_memory
              \/ load_code_segment
              \/ load_kenrel_symbol
              \/ freeze_executable

=============================================================================
