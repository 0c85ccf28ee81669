----------------------------- MODULE CodeLoadProps -----------------------------
(***************************************************************************)
(* What must be true of a code object that is built, written, read back    *)
(* and loaded (CodeLoad).                                                  *)
(***************************************************************************)
EXTENDS CodeLoad

\* Type invariant of the image (amd_elf_image.hpp) and of what has been read of it.
TypeOK ==
  /\ img.sections \in Seq([kind : DataKinds \cup {"hsatext", "note", "symtab", "rela",
                                                  "imageinit", "samplerinit"},
                           alloc : Allocs \cup {"code_agent", "none"},
                           of : 0 .. SectionLimit,
                           size : Nat, align : Nat, memsize : Nat, memalign : Nat])
  /\ Len(img.sections) <= SectionLimit
  /\ \A s \in DOMAIN img.segments :
       img.segments[s].sections \in Seq(DOMAIN img.sections)
  /\ \A j \in DOMAIN img.symbols : img.symbols[j].section \in 0 .. Len(img.sections)
  /\ added \in [DOMAIN img.sections -> 0 .. DataLimit + CodeLimit]
  /\ DOMAIN CtxHst = 0 .. CtxMemSize - 1
  /\ loading \in {"create", "crashed", "alloc", "segments", "symbols", "freeze", "done"}

-----------------------------------------------------------------------------
(* The loader's view.                                                      *)

\* What is at a place in the file: a byte of a section, or nothing.
InFile(offset) ==
  LET here == {i \in DOMAIN img.sections :
                 offset \in file.offsets[i] .. file.offsets[i] + FileSize(img.sections[i]) - 1}
  IN {[sec |-> i, at |-> offset - file.offsets[i]] : i \in here}

\* The bytes at an address on the GPU.
OnGpu(addr) ==
  IF addr \notin DOMAIN CtxDev \/ CtxDev[addr] = ZERO THEN {}
  ELSE InFile(segs[CtxDev[addr].seg].offset + CtxDev[addr].at)

\* Section i is on the GPU where its address says.
SectionInPlace(i) ==
  LET addr == Addr(img, file.segments, i)
  IN \A k \in 0 .. memSize(img.sections[i]) - 1 :
       IF NoBits(img.sections[i]) THEN CtxDev[addr + k] = ZERO
       ELSE OnGpu(addr + k) = {[sec |-> i, at |-> k]}

\* The sections of a segment are laid out alike in the file and in memory: bss comes
\* last, and other sections were created one right after the other, none more aligned
\* than the one before or less than the file aligns it.
Tidy(secs) ==
  \A k \in 2 .. Len(secs) :
    LET sec == img.sections[secs[k]]
        before == img.sections[secs[k-1]]
    IN \/ NoBits(sec)
       \/ /\ ~NoBits(before)
          /\ secs[k] = secs[k-1] + 1
          /\ sec.align \in FileAlign .. before.align

-----------------------------------------------------------------------------
(* Properties.                                                             *)

\* What the loader takes for granted of a code object holds of every one that is built
\* here: its data segments ascend, do not overlap and are no larger in the file than in
\* memory (amd_elf_image.cpp:773-794, executable.cpp:43-77).
LoaderNeeds ==
  loading \notin {"create", "crashed"} =>
    \A s \in DOMAIN segs :
      /\ segs[s].imageSize <= segs[s].memSize
      /\ s > 1 => segs[s].vaddr >= segs[s-1].vaddr + segs[s-1].memSize

\* Sections of a tidy segment are loaded to their addresses, and what has no bits is
\* left zero, whatever else is in the file (amd_elf_image.cpp:773-794, executable.cpp:59-77).
TidyInPlace ==
  loading = "done" =>
    \A s \in DOMAIN img.segments :
      Tidy(img.segments[s].sections) =>
        \A k \in DOMAIN img.segments[s].sections : SectionInPlace(img.segments[s].sections[k])

\* The address HsaLoadKernel returns holds the first word of the last kernel, if it is
\* the first code of a segment that has no other section (executable.cpp:79-141).
EntryHoldsKernel ==
  LET kernels == {j \in DOMAIN img.symbols : img.symbols[j].type = "kernel"}
      last == CHOOSE j \in kernels : \A k \in kernels : k <= j
      sym == img.symbols[last]
  IN (/\ loading = "done"
      /\ kernels # {} /\ \A j \in kernels : HeaderRead(img.symbols[j])
      /\ sym.value = 0
      /\ \E s \in DOMAIN img.segments : img.segments[s].sections = <<sym.section>>)
     => /\ KernelSymbolAddress # None
        /\ OnGpu(KernelSymbolAddress) = {[sec |-> sym.section, at |-> 0]}

\* Loading fails over what the finalizer did and nothing else.  It ends in a crash without
\* a segment, without a first version note below 2, or with a kernel's symbol for a section
\* without bits; and without the address of a kernel only if the first kernel's symbol is
\* for a section of data, if there is a second section its code may have gone to, or if no
\* code was added (amd_hsa_code.cpp:291-361, amd_elf_image.cpp:934-952, executable.cpp:43-47).
FailsOnlyIfLacking ==
  LET kernels == {j \in DOMAIN img.symbols : img.symbols[j].type = "kernel"}
      section(j) == img.sections[img.symbols[j].section]
  IN /\ loading = "crashed" => \/ img.segments = << >>
                               \/ img.versions = << >> \/ Head(img.versions) >= 2
                               \/ \E j \in kernels : NoBits(section(j))
     /\ loading = "done" /\ KernelSymbolAddress = None =>
          \A first \in kernels : (\A j \in kernels : first <= j) =>
            \/ section(first).kind # "hsatext"
            \/ \E i \in DOMAIN img.sections :
                 i # img.symbols[first].section /\ img.sections[i].kind = "hsatext"
            \/ added[img.symbols[first].section] = 0

=============================================================================
