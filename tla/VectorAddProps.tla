--------------------------- MODULE VectorAddProps ---------------------------
(***************************************************************************)
(* What must be true of the program modelled in VectorAdd and of the code  *)
(* Loader loads for it.                                                    *)
(***************************************************************************)
EXTENDS VectorAdd

\* Type invariant; what is copied into the host's image of the code object lies
\* within the memory allocated for it (executable.cpp:63-66, 86), and every argument
\* has a place of its own (aql.cpp:308-314).
TypeOK ==
  /\ step \in 1 .. Len(Program)
  /\ live \subseteq Buffers
  /\ mem \in [Buffers -> [Groups -> Nat]]
  /\ AqlPkt \in [header : {"none", "vendor", "dispatch"}, groups : SUBSET Groups,
                 kernel : Addrs \cup {None}]
  /\ args \in [0 .. ArgSlots - 1 -> Buffers \cup {"none"}]
  /\ argsPtr \in 0 .. ArgSlots
  /\ {rung, fault, early} \subseteq BOOLEAN
  /\ \A g \in Groups : wave[g].is \in {"none", "started", "loaded", "done"}
  /\ CtxMemSize \in 0 .. Limit
  /\ CtxHst \in [0 .. CtxMemSize - 1 -> [seg : Nat, at : Nat]]
  /\ CtxDev \in [0 .. CtxMemSize - 1 -> [seg : Nat, at : Nat]]
  /\ index \in 1 .. Len(segs) + Len(syms) + 1
  /\ KernelSymbolAddress \in Addrs \cup {None}
  /\ loading \in {"alloc", "segments", "symbols", "freeze", "done"}
  /\ loading = "segments" =>
       segs[index].vaddr - segs[1].vaddr + segs[index].imageSize <= CtxMemSize

\* On the GPU, the bytes of every segment keep the distances the code object gives
\* them, and what no image fills is zero (executable.cpp:77-88, 152).
LoadedAsLinked ==
  loading = "done" => \A a \in DOMAIN CtxDev : CtxDev[a] = Contents(a + segs[1].vaddr)

Kernels == {s \in DOMAIN syms : syms[s].kernel}

\* An object with one kernel, at the very start of a segment, and the first segment
\* at address 0, as kernel/VectorAdd.s is linked.
Plain ==
  /\ segs[1].vaddr = 0
  /\ \E s \in DOMAIN syms : Kernels = {s}
  /\ \A s \in Kernels : \E j \in DOMAIN segs : syms[s].addr = segs[j].vaddr /\ segs[j].imageSize > 0

\* The address returned for such an object is where its kernel is on the GPU
\* (executable.cpp:128-146, 170).
KernelWhereLoaded ==
  loading = "done" /\ Plain =>
    \A s \in Kernels : /\ KernelSymbolAddress \in DOMAIN CtxDev
                       /\ CtxDev[KernelSymbolAddress] = Contents(syms[s].addr)

Sum == \A g \in Groups : mem["h_C"][g] = mem["h_A"][g] + mem["h_B"][g]

\* With such an object, the one thing that can spoil the result is a kernel still at
\* work when the sum is copied back: if it has ended by then, what is printed is the
\* sum of the vectors prepared, and no buffer is touched once freed, through two
\* copies, the load, the kernel and a third copy (main.cpp:36-83).
SpoiltOnlyIfEarly == Plain /\ ((at("print") /\ ~ Sum) \/ fault) => early

\* The program ends, through the loops of the loader, and so does the kernel it
\* launched (main.cpp:45-86, executable.cpp:77-147).
Ends == <>(at("end") /\ KernelEnded)

=============================================================================
