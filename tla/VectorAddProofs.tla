--------------------------- MODULE VectorAddProofs ---------------------------
(***************************************************************************)
(* Proofs about the program of VectorAdd, for every set of code objects,   *)
(* every grid and every set of values: the code is on the GPU as it was    *)
(* linked, the kernel is where the packet says, and the sum printed is     *)
(* right unless the kernel was still at work when it was copied back.      *)
(***************************************************************************)
EXTENDS VectorAddProps, Integers, LeastNumber, SequenceTheorems, TLAPS

LOCAL INSTANCE FiniteSetsExt

-----------------------------------------------------------------------------
(* Code objects and the program's positions.                               *)

\* What a code object is made of, field by field; of its segments each ends before any
\* later one starts, since it ends before the next does.
LEMMA ObjectParts ==
  ASSUME NEW o \in Objects
  PROVE  /\ Len(o.segs) \in Nat /\ Len(o.segs) > 0 /\ DOMAIN o.segs = 1 .. Len(o.segs)
         /\ \A i \in 1 .. Len(o.segs) :
              /\ o.segs[i].vaddr \in Nat /\ o.segs[i].memSize \in Nat
              /\ o.segs[i].imageSize \in Nat
              /\ o.segs[i].imageSize <= o.segs[i].memSize
              /\ o.segs[i].vaddr + o.segs[i].memSize <= Limit
         /\ \A i, j \in 1 .. Len(o.segs) :
              i < j => o.segs[j].vaddr >= o.segs[i].vaddr + o.segs[i].memSize
         /\ Len(o.syms) \in Nat /\ DOMAIN o.syms = 1 .. Len(o.syms)
         /\ \A i \in 1 .. Len(o.syms) : o.syms[i].addr \in Nat /\ o.syms[i].kernel \in BOOLEAN
<1> DEFINE n == Len(o.segs)
           Segment == [vaddr : Nat, memSize : Nat, imageSize : Nat]
<1>1. /\ o.segs \in Seq(Segment) /\ o.segs # << >>
      /\ o.syms \in Seq([addr : Nat, kernel : BOOLEAN])
  BY LoaderAssumption
<1>2. n \in Nat /\ n > 0 /\ DOMAIN o.segs = 1 .. n
  BY <1>1
<1>3. ASSUME NEW i \in 1 .. n
      PROVE  /\ o.segs[i].vaddr \in Nat /\ o.segs[i].memSize \in Nat
             /\ o.segs[i].imageSize \in Nat
             /\ o.segs[i].imageSize <= o.segs[i].memSize
             /\ o.segs[i].vaddr + o.segs[i].memSize <= Limit
             /\ i > 1 => o.segs[i].vaddr >= o.segs[i-1].vaddr + o.segs[i-1].memSize
  <2>1. o.segs[i] \in Segment
    BY <1>1, ElementOfSeq
  <2>2. i \in DOMAIN o.segs
    BY <1>2
  <2> QED
    BY <2>1, <2>2, LoaderAssumption
<1>4. ASSUME NEW i \in 1 .. n, NEW j \in 1 .. n, i < j,
             ~ (o.segs[j].vaddr >= o.segs[i].vaddr + o.segs[i].memSize)
      PROVE  FALSE
  <2> DEFINE Overlap == {k \in 0 .. n : /\ i < k
                                       /\ ~ (o.segs[k].vaddr >= o.segs[i].vaddr + o.segs[i].memSize)}
  <2>1. Overlap # {}
    BY <1>4
  <2>2. PICK k \in Overlap : \A m \in Overlap : k <= m
    <3>1. Overlap \in SUBSET (0 .. n)
      OBVIOUS
    <3> QED
      BY <2>1, <3>1, <1>2, LeastElement
  <2>3. k \in 1 .. n /\ k - 1 \in 1 .. n /\ k > 1 /\ i <= k - 1
    BY <1>2, <2>2
  <2>4. o.segs[k].vaddr >= o.segs[k-1].vaddr + o.segs[k-1].memSize
    BY <1>3, <2>3
  <2>5. CASE k - 1 = i
    BY <2>2, <2>4, <2>5
  <2>6. CASE i < k - 1
    <3>1. k - 1 \notin Overlap
      BY <2>2, <2>3
    <3>2. o.segs[k-1].vaddr >= o.segs[i].vaddr + o.segs[i].memSize
      BY <2>3, <2>6, <3>1
    <3>3. /\ o.segs[i].vaddr \in Nat /\ o.segs[i].memSize \in Nat
          /\ o.segs[k-1].vaddr \in Nat /\ o.segs[k-1].memSize \in Nat
          /\ o.segs[k].vaddr \in Nat
      BY <1>3, <2>3
    <3>4. o.segs[k].vaddr >= o.segs[i].vaddr + o.segs[i].memSize
      <4>1. PICK a \in Nat, b \in Nat, c \in Nat, d \in Nat, e \in Nat :
              /\ a = o.segs[k].vaddr
              /\ b = o.segs[k-1].vaddr /\ c = o.segs[k-1].memSize
              /\ d = o.segs[i].vaddr /\ e = o.segs[i].memSize
        BY <3>3
      <4>2. a >= b + c /\ b >= d + e
        BY <2>4, <3>2, <4>1
      <4>3. a >= d + e
        <5> HIDE DEF Overlap
        <5> QED
          BY <4>2
      <4> QED
        BY <4>1, <4>3
    <3> QED
      BY <2>2, <3>4
  <2> QED
    BY <2>3, <2>5, <2>6
<1>5. Len(o.syms) \in Nat /\ DOMAIN o.syms = 1 .. Len(o.syms)
  BY <1>1
<1>6. ASSUME NEW i \in 1 .. Len(o.syms)
      PROVE  o.syms[i].addr \in Nat /\ o.syms[i].kernel \in BOOLEAN
  <2>1. o.syms[i] \in [addr : Nat, kernel : BOOLEAN]
    BY <1>1, ElementOfSeq
  <2> QED
    BY <2>1
<1> QED
  BY <1>2, <1>3, <1>4, <1>5, <1>6

\* The segment found for a symbol is one of the object's; it is the first that does not
\* start before the symbol, if there is one.
LEMMA FoundSegment ==
  ASSUME NEW n \in Nat, NEW past \in SUBSET (1 .. n), past # {}
  PROVE  Min(past) \in past /\ \A j \in past : Min(past) <= j
<1>1. past \in SUBSET (0 .. n)
  OBVIOUS
<1>2. \E i \in past : \A j \in past : i <= j
  BY <1>1, LeastElement
<1> QED
  BY <1>2 DEF Min

\* Where each operation stands in the program.
LEMMA Positions ==
  ASSUME step \in 1 .. Len(Program)
  PROVE  /\ Len(Program) = 21
         /\ at("alloc") <=> step = 1
         /\ at("prepare") <=> step = 2
         /\ at("copyA") <=> step = 3
         /\ at("copyB") <=> step = 4
         /\ at("load") <=> step = 5
         /\ at("create") <=> step = 6
         /\ at("packet") <=> step = 7
         /\ at("argA") <=> step = 8
         /\ at("argB") <=> step = 9
         /\ at("argC") <=> step = 10
         /\ at("doorbell") <=> step = 11
         /\ at("sleep") <=> step = 12
         /\ at("copyBack") <=> step = 13
         /\ at("print") <=> step = 14
         /\ at("free") <=> step \in 15 .. 20
<1>1. Len(Program) = 21
  BY DEF Program
<1>2. step \in {1, 2, 3, 4, 5, 6, 7, 8, 9, 10, 11, 12, 13, 14, 15, 16, 17, 18, 19, 20, 21}
  BY <1>1
<1> QED
  BY <1>1, <1>2 DEF Program, at

-----------------------------------------------------------------------------
(* The loader's variables: their types, and what the loader's place says of *)
(* them.                                                                    *)

LoaderTypes ==
  /\ CtxMemSize \in 0 .. Limit
  /\ CtxHst \in [0 .. CtxMemSize - 1 -> [seg : Nat, at : Nat]]
  /\ CtxDev \in [0 .. CtxMemSize - 1 -> [seg : Nat, at : Nat]]
  /\ index \in 1 .. Len(segs) + Len(syms) + 1
  /\ KernelSymbolAddress \in Addrs \cup {None}
  /\ loading \in {"alloc", "segments", "symbols", "freeze", "done"}
  /\ loading = "segments" =>
       segs[index].vaddr - segs[1].vaddr + segs[index].imageSize <= CtxMemSize

\* Memory ends with the last segment; the index is of a segment, then of a symbol.
LoadInv ==
  /\ CodeObject \in Objects
  /\ loading = "alloc" => CtxMemSize = 0 /\ CtxHst = << >> /\ CtxDev = << >> /\ index = 1
  /\ loading # "alloc" => CtxMemSize = segs[Len(segs)].vaddr + segs[Len(segs)].memSize
  /\ loading = "segments" => index \in 1 .. Len(segs)
  /\ loading = "symbols" => index \in 1 .. Len(syms) + 1

\* The parts of the object being loaded.
LEMMA SegmentParts ==
  ASSUME CodeObject \in Objects
  PROVE  /\ Len(segs) \in Nat /\ Len(segs) > 0 /\ DOMAIN segs = 1 .. Len(segs)
         /\ \A i \in 1 .. Len(segs) :
              /\ segs[i].vaddr \in Nat /\ segs[i].memSize \in Nat
              /\ segs[i].imageSize \in Nat
              /\ segs[i].imageSize <= segs[i].memSize
              /\ segs[i].vaddr + segs[i].memSize <= Limit
         /\ \A i, j \in 1 .. Len(segs) :
              i < j => segs[j].vaddr >= segs[i].vaddr + segs[i].memSize
         /\ Len(syms) \in Nat /\ DOMAIN syms = 1 .. Len(syms)
         /\ \A i \in 1 .. Len(syms) : syms[i].addr \in Nat /\ syms[i].kernel \in BOOLEAN
BY ObjectParts DEF segs, syms

\* A segment starts no earlier than the first and ends no later than the last.
LEMMA SegmentsWithin ==
  ASSUME CodeObject \in Objects, NEW i \in 1 .. Len(segs)
  PROVE  /\ segs[i].vaddr - segs[1].vaddr \in Nat
         /\ segs[i].vaddr + segs[i].memSize <= segs[Len(segs)].vaddr + segs[Len(segs)].memSize
         /\ segs[i].vaddr - segs[1].vaddr + segs[i].imageSize
              <= segs[Len(segs)].vaddr + segs[Len(segs)].memSize
<1> DEFINE n == Len(segs)
<1>1. n \in Nat /\ 1 \in 1 .. n /\ n \in 1 .. n
  BY SegmentParts
<1>2. /\ segs[1].vaddr \in Nat /\ segs[1].memSize \in Nat
      /\ segs[i].vaddr \in Nat /\ segs[i].memSize \in Nat /\ segs[i].imageSize \in Nat
      /\ segs[n].vaddr \in Nat /\ segs[n].memSize \in Nat
      /\ segs[i].imageSize <= segs[i].memSize
  BY <1>1, SegmentParts
<1>3. i = 1 \/ segs[i].vaddr >= segs[1].vaddr + segs[1].memSize
  BY <1>1, SegmentParts
<1>4. i = n \/ segs[n].vaddr >= segs[i].vaddr + segs[i].memSize
  <2>1. CASE i < n
    <3>1. i \in 1 .. Len(segs) /\ n \in 1 .. Len(segs) /\ i < n
      BY <1>1, <2>1
    <3> HIDE DEF n
    <3> QED
      BY <3>1, SegmentParts
  <2> QED
    BY <1>1, <2>1
<1>5. segs[i].vaddr >= segs[1].vaddr
  BY <1>2, <1>3
<1>6. segs[i].vaddr + segs[i].memSize <= segs[n].vaddr + segs[n].memSize
  BY <1>2, <1>4
<1>7. PICK a \in Nat, b \in Nat, c \in Nat, d \in Nat, e \in Nat :
        /\ a = segs[i].vaddr /\ b = segs[i].memSize /\ c = segs[i].imageSize
        /\ d = segs[1].vaddr /\ e = segs[n].vaddr + segs[n].memSize
  <2>1. segs[n].vaddr + segs[n].memSize \in Nat
    <3>1. \A x, y \in Nat : x + y \in Nat
      OBVIOUS
    <3> QED
      BY <1>2, <3>1, Zenon
  <2> QED
    BY <1>2, <2>1
<1>8. a >= d /\ a + b <= e /\ c <= b
  BY <1>2, <1>5, <1>6, <1>7
<1>9. a - d \in Nat /\ a - d + c <= e
  BY <1>8
<1> QED
  BY <1>6, <1>7, <1>9

\* The search ends with a segment of the object.
LEMMA FoundIsSegment ==
  ASSUME CodeObject \in Objects, NEW j \in 1 .. Len(syms)
  PROVE  SegmentFound(syms[j].addr) \in 1 .. Len(segs)
<1> DEFINE past == {k \in DOMAIN segs : syms[j].addr <= segs[k].vaddr}
<1>1. Len(segs) \in Nat /\ Len(segs) > 0 /\ DOMAIN segs = 1 .. Len(segs)
  BY SegmentParts
<1>2. past \in SUBSET (1 .. Len(segs))
  BY <1>1
<1>3. past # {} => Min(past) \in past
  BY <1>1, <1>2, FoundSegment
<1>4. SegmentFound(syms[j].addr) = IF past = {} THEN Len(segs) ELSE Min(past)
  BY DEF SegmentFound
<1> HIDE DEF past
<1>5. CASE past = {}
  BY <1>1, <1>4, <1>5
<1>6. CASE past # {}
  <2>1. SegmentFound(syms[j].addr) = Min(past)
    BY <1>4, <1>6
  <2>2. Min(past) \in 1 .. Len(segs)
    BY <1>2, <1>3, <1>6
  <2> QED
    BY <2>1, <2>2
<1> QED
  BY <1>5, <1>6

\* Each function of the loader keeps the types and the place: the allocation,
LEMMA AllocStep ==
  ASSUME LoaderTypes, LoadInv, context_alloc_memory
  PROVE  LoaderTypes' /\ LoadInv'
<1> DEFINE n == Len(segs)
           size == segs[n].vaddr + segs[n].memSize
<1>1. CodeObject \in Objects /\ segs' = segs /\ syms' = syms
  BY DEF LoadInv, context_alloc_memory, segs, syms
<1>2. n \in Nat /\ 1 \in 1 .. n /\ n \in 1 .. n /\ Len(syms) \in Nat /\ Limit \in Nat
  BY <1>1, SegmentParts, LoaderAssumption
<1>3. size \in 0 .. Limit
  BY <1>1, <1>2, SegmentParts
<1>4. /\ CtxMemSize' = size
      /\ CtxHst' = [a \in 0 .. CtxMemSize' - 1 |-> ZERO]
      /\ CtxDev' = [a \in 0 .. CtxMemSize' - 1 |-> ZERO]
      /\ index' = 1 /\ loading' = "segments"
      /\ KernelSymbolAddress' = KernelSymbolAddress
  BY DEF context_alloc_memory
<1>5. segs[1].vaddr - segs[1].vaddr + segs[1].imageSize <= size
  BY <1>1, <1>2, SegmentsWithin
<1> HIDE DEF n, size
<1>6. ZERO \in [seg : Nat, at : Nat]
  BY DEF ZERO
<1>7. LoaderTypes'
  <2>1. CtxHst' \in [0 .. CtxMemSize' - 1 -> [seg : Nat, at : Nat]]
    BY <1>4, <1>6
  <2>2. CtxDev' \in [0 .. CtxMemSize' - 1 -> [seg : Nat, at : Nat]]
    BY <1>4, <1>6
  <2>3. index' \in 1 .. Len(segs) + Len(syms) + 1
    BY <1>2, <1>4 DEF n
  <2>4. segs[index'].vaddr - segs[1].vaddr + segs[index'].imageSize <= CtxMemSize'
    BY <1>4, <1>5
  <2>5. KernelSymbolAddress' \in Addrs \cup {None}
    BY <1>4 DEF LoaderTypes
  <2> QED
    BY <1>1, <1>3, <1>4, <2>1, <2>2, <2>3, <2>4, <2>5 DEF LoaderTypes
<1>8. LoadInv'
  BY <1>1, <1>2, <1>4 DEF LoadInv, n, size, context_alloc_memory
<1> QED
  BY <1>7, <1>8

\* the copy of a segment,
LEMMA SegmentStep ==
  ASSUME LoaderTypes, LoadInv, load_code_segment
  PROVE  LoaderTypes' /\ LoadInv'
<1> DEFINE n == Len(segs)
<1>1. CodeObject \in Objects /\ segs' = segs /\ syms' = syms
  BY DEF LoadInv, load_code_segment, segs, syms
<1>2. n \in Nat /\ index \in 1 .. n /\ Len(syms) \in Nat /\ DOMAIN segs = 1 .. n
  BY <1>1, SegmentParts DEF LoadInv, load_code_segment
<1>3. DOMAIN CtxHst = 0 .. CtxMemSize - 1
  BY DEF LoaderTypes
<1>4. ASSUME NEW a \in DOMAIN CtxHst PROVE CtxHst'[a] \in [seg : Nat, at : Nat]
  <2> DEFINE offset == segs[index].vaddr - segs[1].vaddr
  <2>1. offset \in Nat /\ segs[index].imageSize \in Nat
    BY <1>1, <1>2, SegmentParts, SegmentsWithin
  <2>2. CtxHst'[a] = IF a \in offset .. offset + segs[index].imageSize - 1
                     THEN Image(index, a - offset) ELSE CtxHst[a]
    BY DEF load_code_segment
  <2>3. CtxHst[a] \in [seg : Nat, at : Nat]
    BY DEF LoaderTypes
  <2> HIDE DEF offset
  <2>4. a \in offset .. offset + segs[index].imageSize - 1 => a - offset \in Nat
    BY <2>1
  <2> QED
    BY <1>2, <2>2, <2>3, <2>4 DEF Image
<1>5. DOMAIN CtxHst' = DOMAIN CtxHst
  BY DEF load_code_segment
<1>6. /\ CtxMemSize' = CtxMemSize /\ CtxDev' = CtxDev
      /\ KernelSymbolAddress' = KernelSymbolAddress
      /\ \/ index < n /\ index' = index + 1 /\ loading' = "segments"
         \/ index' = 1 /\ loading' = "symbols"
  BY DEF load_code_segment
<1>7. CtxHst' \in [0 .. CtxMemSize' - 1 -> [seg : Nat, at : Nat]]
  <2>1. CtxHst' = [a \in DOMAIN CtxHst' |-> CtxHst'[a]]
    BY DEF load_code_segment
  <2> QED
    BY <1>3, <1>4, <1>5, <1>6, <2>1
<1>8. CtxMemSize = segs[n].vaddr + segs[n].memSize
  BY DEF LoadInv, load_code_segment
<1>9. loading' = "segments" => index' \in 1 .. n
  BY <1>2, <1>6
<1>10. index' \in 1 .. Len(segs) + Len(syms) + 1
  BY <1>2, <1>6
<1>11. loading' = "segments" =>
         segs[index'].vaddr - segs[1].vaddr + segs[index'].imageSize <= CtxMemSize'
  <2> SUFFICES ASSUME loading' = "segments"
               PROVE  segs[index'].vaddr - segs[1].vaddr + segs[index'].imageSize <= CtxMemSize'
    OBVIOUS
  <2>1. PICK i \in 1 .. n : i = index'
    BY <1>9
  <2>2. segs[i].vaddr - segs[1].vaddr + segs[i].imageSize <= segs[n].vaddr + segs[n].memSize
    BY <1>1, SegmentsWithin
  <2> QED
    BY <1>6, <1>8, <2>1, <2>2
<1> HIDE DEF n
<1>12. LoaderTypes'
  BY <1>1, <1>6, <1>7, <1>10, <1>11 DEF LoaderTypes
<1>13. LoadInv'
  <2>1. loading' = "symbols" => index' \in 1 .. Len(syms) + 1
    BY <1>2, <1>6
  <2> QED
    BY <1>1, <1>6, <1>8, <1>9, <2>1 DEF LoadInv, n, load_code_segment
<1> QED
  BY <1>12, <1>13

\* the look at a symbol,
LEMMA SymbolStep ==
  ASSUME LoaderTypes, LoadInv, load_kenrel_symbol
  PROVE  LoaderTypes' /\ LoadInv'
<1>1. CodeObject \in Objects /\ segs' = segs /\ syms' = syms
  BY DEF LoadInv, load_kenrel_symbol, segs, syms
<1>2. /\ Len(segs) \in Nat /\ Len(syms) \in Nat /\ index \in 1 .. Len(syms) + 1
      /\ Limit \in Nat
  BY <1>1, SegmentParts, LoaderAssumption DEF LoadInv, load_kenrel_symbol
<1>3. KernelSymbolAddress' \in Addrs \cup {None}
  <2>1. CASE index <= Len(syms) /\ syms[index].kernel
    <3>1. PICK j \in 1 .. Len(segs) : j = SegmentFound(syms[index].addr)
      BY <1>1, <1>2, <2>1, FoundIsSegment
    <3>2. segs[j].vaddr \in Nat /\ segs[j].memSize \in Nat
          /\ segs[j].vaddr + segs[j].memSize <= Limit
      BY <1>1, SegmentParts
    <3>3. segs[j].vaddr \in Addrs \cup {None}
      BY <1>2, <3>2 DEF Addrs
    <3> QED
      BY <2>1, <3>1, <3>3 DEF load_kenrel_symbol
  <2> QED
    BY <2>1 DEF load_kenrel_symbol, LoaderTypes
<1>4. /\ CtxMemSize' = CtxMemSize /\ CtxHst' = CtxHst /\ CtxDev' = CtxDev
      /\ \/ index <= Len(syms) /\ index' = index + 1 /\ loading' = "symbols"
         \/ index' = index /\ loading' = "freeze"
  BY DEF load_kenrel_symbol
<1>5. index' \in 1 .. Len(segs) + Len(syms) + 1
  BY <1>2, <1>4
<1>6. LoaderTypes'
  BY <1>1, <1>3, <1>4, <1>5 DEF LoaderTypes
<1>7. loading' = "symbols" => index' \in 1 .. Len(syms) + 1
  BY <1>2, <1>4
<1>8. LoadInv'
  BY <1>1, <1>4, <1>7 DEF LoadInv, load_kenrel_symbol
<1> QED
  BY <1>6, <1>8

\* the copy to the GPU,
LEMMA FreezeStep ==
  ASSUME LoaderTypes, LoadInv, freeze_executable
  PROVE  LoaderTypes' /\ LoadInv'
BY DEF LoaderTypes, LoadInv, freeze_executable, segs, syms

\* and no function at all.
LEMMA LoaderStutter ==
  ASSUME LoaderTypes, LoadInv, UNCHANGED loaderVars
  PROVE  LoaderTypes' /\ LoadInv'
BY DEF LoaderTypes, LoadInv, loaderVars, segs, syms

\* At the start nothing is loaded.
LEMMA LoaderStart ==
  ASSUME LoaderInit
  PROVE  LoaderTypes /\ LoadInv
<1>1. CodeObject \in Objects
  BY DEF LoaderInit
<1>2. Len(segs) \in Nat /\ Len(syms) \in Nat /\ Limit \in Nat
  BY <1>1, SegmentParts, LoaderAssumption
<1>3. 0 .. CtxMemSize - 1 = {}
  BY DEF LoaderInit
<1>4. << >> \in [{} -> [seg : Nat, at : Nat]]
  OBVIOUS
<1> QED
  BY <1>1, <1>2, <1>3, <1>4 DEF LoaderInit, LoaderTypes, LoadInv

-----------------------------------------------------------------------------
(* What the loader has copied: the segments before the index while it goes *)
(* through them, all of them after.                                        *)

Laid(s) == loading \in {"symbols", "freeze", "done"} \/ (loading = "segments" /\ s < index)
Start(s) == segs[s].vaddr - segs[1].vaddr
Covers(s, a) == a \in Start(s) .. Start(s) + segs[s].imageSize - 1

\* A place of the host's memory has the byte of the segment laid there, or is zero.
ImageInv ==
  /\ loading # "alloc" =>
       \A a \in DOMAIN CtxHst :
         /\ \A s \in DOMAIN segs : Laid(s) /\ Covers(s, a) => CtxHst[a] = Image(s, a - Start(s))
         /\ (\A s \in DOMAIN segs : Laid(s) => ~ Covers(s, a)) => CtxHst[a] = ZERO
  /\ loading = "done" => CtxDev = CtxHst

\* Of an object with one kernel the address found, once the loop has come by the kernel's
\* symbol, is the symbol's.
KernelInv ==
  Plain => \A s \in Kernels :
             loading \in {"freeze", "done"} \/ (loading = "symbols" /\ s < index) =>
               KernelSymbolAddress = syms[s].addr

\* No two segments cover the same place.
LEMMA CoveredOnce ==
  ASSUME CodeObject \in Objects, NEW i \in 1 .. Len(segs), NEW j \in 1 .. Len(segs),
         NEW a \in Int, Covers(i, a), Covers(j, a)
  PROVE  i = j
<1>1. ASSUME NEW k \in 1 .. Len(segs), NEW m \in 1 .. Len(segs), k < m,
             Covers(k, a), Covers(m, a)
      PROVE  FALSE
  <2>1. segs[m].vaddr >= segs[k].vaddr + segs[k].memSize
    BY <1>1, SegmentParts
  <2>2. segs[1].vaddr \in Nat
    BY SegmentParts
  <2>3. PICK v \in Nat, w \in Nat, b \in Nat, p \in Nat, q \in Nat, f \in Nat :
          /\ v = segs[k].vaddr /\ w = segs[m].vaddr /\ b = segs[k].memSize
          /\ p = segs[k].imageSize /\ q = segs[m].imageSize /\ f = segs[1].vaddr
    BY <2>2, SegmentParts
  <2>4. p <= b
    BY <2>3, SegmentParts
  <2>5. a <= v - f + p - 1 /\ a >= w - f
    BY <1>1, <2>3 DEF Covers, Start
  <2>6. w >= v + b
    BY <2>1, <2>3
  <2> QED
    BY <2>4, <2>5, <2>6
<1>2. Len(segs) \in Nat
  BY SegmentParts
<1> QED
  BY <1>1, <1>2

\* A segment copied is laid where it covers, and nowhere else.
LEMMA ImageSegmentStep ==
  ASSUME LoaderTypes, LoadInv, ImageInv, load_code_segment
  PROVE  ImageInv'
<1> DEFINE n == Len(segs)
<1>1. CodeObject \in Objects /\ segs' = segs
  BY DEF LoadInv, load_code_segment, segs
<1>2. /\ n \in Nat /\ index \in 1 .. n /\ DOMAIN segs = 1 .. n
      /\ DOMAIN CtxHst = 0 .. CtxMemSize - 1 /\ CtxMemSize \in Nat
  BY <1>1, SegmentParts, LoaderAssumption DEF LoadInv, LoaderTypes, load_code_segment
<1>3. loading = "segments" /\ DOMAIN CtxHst' = DOMAIN CtxHst
  BY DEF load_code_segment
<1>4. ASSUME NEW s \in 1 .. n PROVE Laid(s)' <=> s <= index
  <2>1. CASE index < n
    BY <1>2, <2>1 DEF Laid, load_code_segment
  <2>2. CASE ~ (index < n)
    BY <1>2, <2>2 DEF Laid, load_code_segment
  <2> QED
    BY <2>1, <2>2
<1>5. ASSUME NEW a \in DOMAIN CtxHst
      PROVE  CtxHst'[a] = IF Covers(index, a) THEN Image(index, a - Start(index)) ELSE CtxHst[a]
  BY DEF load_code_segment, Covers, Start
<1>6. ASSUME NEW s \in 1 .. n, NEW a \in Int
      PROVE  Start(s)' = Start(s) /\ (Covers(s, a)' <=> Covers(s, a))
  BY <1>1 DEF Start, Covers
<1>7. ASSUME NEW s \in 1 .. n PROVE Laid(s) <=> s < index
  BY <1>3 DEF Laid
<1>8. ASSUME NEW a \in DOMAIN CtxHst, NEW s \in 1 .. n, s <= index, Covers(s, a)
      PROVE  CtxHst'[a] = Image(s, a - Start(s))
  <2>1. CASE s = index
    BY <1>5, <1>8, <2>1
  <2>2. CASE s < index
    <3>1. a \in Int
      BY <1>2
    <3>2. ~ Covers(index, a)
      BY <1>1, <1>2, <1>8, <2>2, <3>1, CoveredOnce
    <3>3. CtxHst[a] = Image(s, a - Start(s))
      BY <1>2, <1>3, <1>7, <1>8, <2>2 DEF ImageInv
    <3> QED
      BY <1>5, <3>2, <3>3
  <2> QED
    BY <1>2, <1>8, <2>1, <2>2
<1>9. ASSUME NEW a \in DOMAIN CtxHst, \A s \in 1 .. n : s <= index => ~ Covers(s, a)
      PROVE  CtxHst'[a] = ZERO
  <2>1. ~ Covers(index, a)
    BY <1>2, <1>9
  <2>2. \A s \in 1 .. n : Laid(s) => ~ Covers(s, a)
    BY <1>2, <1>7, <1>9
  <2>3. CtxHst[a] = ZERO
    BY <1>2, <1>3, <2>2 DEF ImageInv
  <2> QED
    BY <1>5, <2>1, <2>3
<1>10. loading' # "done"
  BY DEF load_code_segment
<1>11. \A a \in DOMAIN CtxHst : a \in Int
  BY <1>2
<1>12. DOMAIN segs' = 1 .. n
  BY <1>1, <1>2
<1> HIDE DEF n
<1> QED
  <2> SUFFICES ASSUME NEW a \in DOMAIN CtxHst
               PROVE  /\ \A s \in 1 .. n : Laid(s)' /\ Covers(s, a)'
                                             => CtxHst'[a] = Image(s, a - Start(s)')
                      /\ (\A s \in 1 .. n : Laid(s)' => ~ Covers(s, a)') => CtxHst'[a] = ZERO
    BY <1>3, <1>10, <1>12 DEF ImageInv
  <2>1. a \in Int
    BY <1>11
  <2> QED
    BY <1>4, <1>6, <1>8, <1>9, <2>1

\* The other functions leave the host's memory as it is, once it is there.
LEMMA ImageOtherStep ==
  ASSUME LoaderTypes, LoadInv, ImageInv,
         context_alloc_memory \/ load_kenrel_symbol \/ freeze_executable \/ UNCHANGED loaderVars
  PROVE  ImageInv'
<1>1. CASE context_alloc_memory
  <2>1. CodeObject \in Objects /\ segs' = segs /\ DOMAIN segs = 1 .. Len(segs)
    BY <1>1, SegmentParts DEF LoadInv, context_alloc_memory, segs
  <2>2. \A a \in DOMAIN CtxHst' : CtxHst'[a] = ZERO
    BY <1>1 DEF context_alloc_memory
  <2>3. \A s \in DOMAIN segs' : ~ Laid(s)'
    BY <1>1, <2>1, SegmentParts DEF Laid, context_alloc_memory
  <2>4. loading' # "done"
    BY <1>1 DEF context_alloc_memory
  <2> QED
    BY <2>2, <2>3, <2>4 DEF ImageInv
<1>2. CASE load_kenrel_symbol
  <2>1. /\ loading = "symbols" /\ loading' \in {"symbols", "freeze"} /\ CtxHst' = CtxHst
        /\ segs' = segs
    BY <1>2 DEF load_kenrel_symbol, segs
  <2> QED
    BY <2>1 DEF ImageInv, Laid, Covers, Start
<1>3. CASE freeze_executable
  <2>1. /\ loading = "freeze" /\ loading' = "done" /\ CtxHst' = CtxHst /\ CtxDev' = CtxHst'
        /\ segs' = segs
    BY <1>3 DEF freeze_executable, segs
  <2> QED
    BY <2>1 DEF ImageInv, Laid, Covers, Start
<1>4. CASE UNCHANGED loaderVars
  <2>1. /\ loading' = loading /\ index' = index /\ CtxHst' = CtxHst /\ CtxDev' = CtxDev
        /\ segs' = segs
    BY <1>4 DEF loaderVars, segs
  <2> QED
    BY <2>1 DEF ImageInv, Laid, Covers, Start
<1> QED
  BY <1>1, <1>2, <1>3, <1>4

\* What has been copied is what the object has at that distance from its first segment.
LEMMA ImageIsContents ==
  ASSUME LoaderTypes, LoadInv, ImageInv
  PROVE  LoadedAsLinked
<1> SUFFICES ASSUME loading = "done", NEW a \in DOMAIN CtxDev
             PROVE  CtxDev[a] = Contents(a + segs[1].vaddr)
  BY DEF LoadedAsLinked
<1> DEFINE b == a + segs[1].vaddr
           here == {s \in DOMAIN segs :
                      b \in segs[s].vaddr .. segs[s].vaddr + segs[s].imageSize - 1}
<1>1. /\ CodeObject \in Objects /\ DOMAIN segs = 1 .. Len(segs) /\ segs[1].vaddr \in Nat
      /\ a \in Int /\ CtxDev = CtxHst /\ Len(segs) \in Nat
  <2>1. CodeObject \in Objects /\ CtxDev = CtxHst
    BY DEF LoadInv, ImageInv
  <2>2. /\ DOMAIN segs = 1 .. Len(segs) /\ Len(segs) \in Nat
        /\ 1 \in 1 .. Len(segs) /\ segs[1].vaddr \in Nat
    BY <2>1, SegmentParts
  <2>3. a \in Int
    BY LoaderAssumption DEF LoaderTypes
  <2> QED
    BY <2>1, <2>2, <2>3
<1>2. ASSUME NEW s \in DOMAIN segs
      PROVE  (s \in here <=> Covers(s, a)) /\ b - segs[s].vaddr = a - Start(s)
  <2>1. PICK v \in Nat, f \in Nat, p \in Nat :
          v = segs[s].vaddr /\ f = segs[1].vaddr /\ p = segs[s].imageSize
    BY <1>1, SegmentParts
  <2>2. b = a + f /\ Start(s) = v - f
    BY <2>1 DEF Start
  <2>3. b \in v .. v + p - 1 <=> a \in v - f .. v - f + p - 1
    <3> HIDE DEF b, here
    <3>1. a \in Int /\ b = a + f
      BY <1>1, <2>2
    <3> QED
      BY <3>1
  <2>4. s \in here <=> b \in v .. v + p - 1
    BY <2>1
  <2>5. Covers(s, a) <=> a \in v - f .. v - f + p - 1
    BY <2>1, <2>2 DEF Covers
  <2>6. b - v = a - (v - f)
    BY <1>1, <2>2
  <2> QED
    BY <2>1, <2>2, <2>3, <2>4, <2>5, <2>6
<1>3. Contents(b) = IF here = {} THEN ZERO
                    ELSE LET s == CHOOSE s \in here : TRUE IN Image(s, b - segs[s].vaddr)
  BY DEF Contents
<1>4. here \subseteq DOMAIN segs
  OBVIOUS
<1> HIDE DEF b, here
<1>5. CASE here = {}
  <2>1. \A s \in DOMAIN segs : ~ Covers(s, a)
    BY <1>2, <1>5
  <2>2. CtxHst[a] = ZERO
    BY <1>1, <2>1 DEF ImageInv
  <2> QED
    BY <1>1, <1>3, <1>5, <2>2 DEF b
<1>6. CASE here # {}
  <2>1. PICK s \in here : s = CHOOSE t \in here : TRUE
    BY <1>6
  <2>2. Contents(b) = Image(s, b - segs[s].vaddr)
    BY <1>3, <1>6, <2>1
  <2>3. s \in DOMAIN segs /\ Covers(s, a) /\ b - segs[s].vaddr = a - Start(s)
    BY <1>2, <1>4
  <2>4. CtxHst[a] = Image(s, a - Start(s))
    BY <1>1, <2>3 DEF ImageInv, Laid
  <2> QED
    BY <1>1, <2>2, <2>3, <2>4 DEF b
<1> QED
  BY <1>5, <1>6

-----------------------------------------------------------------------------
(* The kernel's address, of an object that has one at a segment's start.   *)

\* What is the case of the object's only kernel.
LEMMA PlainKernel ==
  ASSUME CodeObject \in Objects, Plain, NEW s \in Kernels
  PROVE  /\ s \in 1 .. Len(syms) /\ syms[s].kernel /\ segs[1].vaddr = 0
         /\ \A t \in 1 .. Len(syms) : syms[t].kernel => t = s
         /\ \E j \in 1 .. Len(segs) : syms[s].addr = segs[j].vaddr /\ segs[j].imageSize > 0
<1>1. DOMAIN syms = 1 .. Len(syms) /\ DOMAIN segs = 1 .. Len(segs)
  BY SegmentParts
<1>2. s \in DOMAIN syms /\ syms[s].kernel
  BY DEF Kernels
<1>3. \A t \in DOMAIN syms : syms[t].kernel => t \in Kernels
  BY DEF Kernels
<1>4. \E t \in DOMAIN syms : Kernels = {t}
  BY DEF Plain
<1>5. /\ segs[1].vaddr = 0
      /\ \E j \in DOMAIN segs : syms[s].addr = segs[j].vaddr /\ segs[j].imageSize > 0
  BY DEF Plain
<1> QED
  BY <1>1, <1>2, <1>3, <1>4, <1>5

\* The search stops at a segment that starts at the symbol, if there is one: what it
\* stops at before starts no earlier than the symbol and no later than that segment.
LEMMA FoundStartsThere ==
  ASSUME CodeObject \in Objects, Plain, NEW s \in Kernels
  PROVE  segs[SegmentFound(syms[s].addr)].vaddr = syms[s].addr
<1> DEFINE past == {k \in DOMAIN segs : syms[s].addr <= segs[k].vaddr}
<1>1. Len(segs) \in Nat /\ DOMAIN segs = 1 .. Len(segs)
  BY SegmentParts
<1>2. s \in 1 .. Len(syms)
  BY PlainKernel
<1>3. syms[s].addr \in Nat
  BY <1>2, SegmentParts
<1>4. PICK j \in 1 .. Len(segs) : syms[s].addr = segs[j].vaddr
  BY PlainKernel
<1>5. j \in past
  BY <1>1, <1>3, <1>4
<1>6. past \in SUBSET (1 .. Len(segs))
  BY <1>1
<1>7. PICK m \in past : m = Min(past) /\ m <= j
  BY <1>1, <1>5, <1>6, FoundSegment
<1>8. SegmentFound(syms[s].addr) = m
  BY <1>5, <1>7 DEF SegmentFound
<1>9. m \in 1 .. Len(segs) /\ syms[s].addr <= segs[m].vaddr
  BY <1>6
<1>10. CASE m = j
  BY <1>4, <1>8, <1>10
<1>11. CASE m < j
  <2>1. segs[j].vaddr >= segs[m].vaddr + segs[m].memSize
    BY <1>9, <1>11, SegmentParts
  <2>2. segs[m].vaddr \in Nat /\ segs[m].memSize \in Nat /\ segs[j].vaddr \in Nat
    BY <1>9, SegmentParts
  <2>3. PICK v \in Nat, w \in Nat, b \in Nat :
          v = segs[m].vaddr /\ w = segs[j].vaddr /\ b = segs[m].memSize
    BY <2>2
  <2>4. w >= v + b /\ w <= v
    BY <1>4, <1>9, <2>1, <2>3
  <2>5. v = w
    BY <2>4
  <2> QED
    BY <1>4, <1>8, <2>3, <2>5
<1>12. m = j \/ m < j
  BY <1>7, <1>9
<1> QED
  BY <1>10, <1>11, <1>12

\* At the kernel's symbol the address is found; no other symbol replaces it.
LEMMA KernelSymbolStep ==
  ASSUME LoaderTypes, LoadInv, KernelInv, load_kenrel_symbol
  PROVE  KernelInv'
<1>1. CodeObject \in Objects /\ (Plain' <=> Plain) /\ Kernels' = Kernels /\ syms' = syms
  BY DEF LoadInv, load_kenrel_symbol, Plain, Kernels, segs, syms
<1> SUFFICES ASSUME Plain, NEW s \in Kernels,
                    loading' \in {"freeze", "done"} \/ (loading' = "symbols" /\ s < index')
             PROVE  KernelSymbolAddress' = syms[s].addr
  BY <1>1 DEF KernelInv
<1>2. /\ Len(syms) \in Nat /\ index \in 1 .. Len(syms) + 1 /\ s \in 1 .. Len(syms)
      /\ loading = "symbols"
  BY <1>1, SegmentParts, PlainKernel DEF LoadInv, load_kenrel_symbol
<1>3. s < index => KernelSymbolAddress = syms[s].addr
  BY <1>2 DEF KernelInv
<1>4. CASE index <= Len(syms)
  <2>1. index' = index + 1 /\ loading' = "symbols"
    BY <1>4 DEF load_kenrel_symbol
  <2>2. CASE syms[index].kernel
    <3>1. index = s
      BY <1>1, <1>2, <1>4, <2>2, PlainKernel
    <3>2. KernelSymbolAddress' = segs[SegmentFound(syms[s].addr)].vaddr
      BY <1>4, <2>2, <3>1 DEF load_kenrel_symbol
    <3> QED
      BY <1>1, <3>2, FoundStartsThere
  <2>3. CASE ~ syms[index].kernel
    <3>1. index # s
      BY <1>1, <2>3, PlainKernel
    <3>2. s < index
      BY <1>2, <2>1, <3>1
    <3> QED
      BY <1>3, <1>4, <2>3, <3>2 DEF load_kenrel_symbol
  <2> QED
    BY <2>2, <2>3
<1>5. CASE ~ (index <= Len(syms))
  <2>1. s < index
    BY <1>2, <1>5
  <2> QED
    BY <1>3, <1>5, <2>1 DEF load_kenrel_symbol
<1> QED
  BY <1>4, <1>5

\* The other functions leave the address alone.
LEMMA KernelOtherStep ==
  ASSUME LoaderTypes, LoadInv, KernelInv,
         context_alloc_memory \/ load_code_segment \/ freeze_executable \/ UNCHANGED loaderVars
  PROVE  KernelInv'
<1>1. /\ CodeObject \in Objects /\ (Plain' <=> Plain) /\ Kernels' = Kernels /\ syms' = syms
      /\ KernelSymbolAddress' = KernelSymbolAddress
  BY DEF LoadInv, context_alloc_memory, load_code_segment, freeze_executable, loaderVars,
         Plain, Kernels, segs, syms
<1> SUFFICES ASSUME Plain, NEW s \in Kernels,
                    loading' \in {"freeze", "done"} \/ (loading' = "symbols" /\ s < index')
             PROVE  KernelSymbolAddress = syms[s].addr
  BY <1>1 DEF KernelInv
<1>2. s \in 1 .. Len(syms)
  BY <1>1, PlainKernel
<1>3. CASE context_alloc_memory
  BY <1>3 DEF context_alloc_memory
<1>4. CASE load_code_segment
  <2>1. loading' = "symbols" => index' = 1
    BY <1>4 DEF load_code_segment
  <2>2. loading' \in {"segments", "symbols"}
    BY <1>4 DEF load_code_segment
  <2> QED
    BY <1>2, <2>1, <2>2
<1>5. CASE freeze_executable
  BY <1>5 DEF freeze_executable, KernelInv
<1>6. CASE UNCHANGED loaderVars
  BY <1>6 DEF loaderVars, KernelInv
<1> QED
  BY <1>3, <1>4, <1>5, <1>6

\* The address found is of a place that has been copied.
LEMMA KernelIsThere ==
  ASSUME LoaderTypes, LoadInv, ImageInv, KernelInv
  PROVE  KernelWhereLoaded
<1> SUFFICES ASSUME loading = "done", Plain, NEW s \in Kernels
             PROVE  /\ KernelSymbolAddress \in DOMAIN CtxDev
                    /\ CtxDev[KernelSymbolAddress] = Contents(syms[s].addr)
  BY DEF KernelWhereLoaded
<1>1. CodeObject \in Objects
  BY DEF LoadInv
<1>2. KernelSymbolAddress = syms[s].addr
  BY DEF KernelInv
<1>3. segs[1].vaddr = 0 /\ s \in 1 .. Len(syms)
  BY <1>1, PlainKernel
<1>4. PICK j \in 1 .. Len(segs) : syms[s].addr = segs[j].vaddr /\ segs[j].imageSize > 0
  BY <1>1, PlainKernel
<1>5. DOMAIN CtxDev = 0 .. CtxMemSize - 1
  BY DEF LoaderTypes
<1>6. CtxMemSize = segs[Len(segs)].vaddr + segs[Len(segs)].memSize
  BY DEF LoadInv
<1>7. segs[j].vaddr + segs[j].memSize <= CtxMemSize
  BY <1>1, <1>6, SegmentsWithin
<1>8. PICK v \in Nat, b \in Nat, p \in Nat, size \in Nat :
        /\ v = segs[j].vaddr /\ b = segs[j].memSize /\ p = segs[j].imageSize
        /\ size = CtxMemSize
  <2>1. segs[j].vaddr \in Nat /\ segs[j].memSize \in Nat /\ segs[j].imageSize \in Nat
    BY <1>1, SegmentParts
  <2>2. CtxMemSize \in Nat
    BY LoaderAssumption DEF LoaderTypes
  <2> QED
    BY <2>1, <2>2
<1>9. p > 0 /\ p <= b /\ v + b <= size
  BY <1>1, <1>4, <1>7, <1>8, SegmentParts
<1>10. v \in 0 .. size - 1 /\ v + 0 = v
  BY <1>9
<1>11. KernelSymbolAddress \in DOMAIN CtxDev
  BY <1>2, <1>4, <1>5, <1>8, <1>10
<1>12. CtxDev[v] = Contents(v + segs[1].vaddr)
  BY <1>2, <1>4, <1>8, <1>11, ImageIsContents DEF LoadedAsLinked
<1> QED
  BY <1>2, <1>3, <1>4, <1>8, <1>10, <1>11, <1>12

-----------------------------------------------------------------------------
(* The program: the types of its variables, and where the loader and the   *)
(* arguments are at each of its steps.                                     *)

WaveState == [is : {"none", "started", "done"}] \cup [is : {"loaded"}, c : Nat]

ProgramTypes ==
  /\ step \in 1 .. Len(Program)
  /\ live \subseteq Buffers
  /\ mem \in [Buffers -> [Groups -> Nat]]
  /\ AqlPkt \in [header : {"none", "vendor", "dispatch"}, groups : SUBSET Groups,
                 kernel : Addrs \cup {None}]
  /\ args \in [0 .. ArgSlots - 1 -> Buffers \cup {"none"}]
  /\ wave \in [Groups -> WaveState]
  /\ {rung, fault, early} \subseteq BOOLEAN

PlaceInv ==
  /\ argsPtr = (IF step <= 8 THEN 0 ELSE IF step >= 11 THEN 3 ELSE step - 8)
  /\ step < 5 => loading = "alloc"
  /\ step = 5 => loading # "done"
  /\ step > 5 => loading = "done"

LoaderInv == LoaderTypes /\ LoadInv /\ ImageInv /\ KernelInv

\* Types, the loader's invariant, and the place of everything.
VectorInv == ProgramTypes /\ PlaceInv /\ LoaderInv

\* The invariant gives the types.
LEMMA VectorInvTypes ==
  ASSUME VectorInv
  PROVE  TypeOK
<1>1. step \in 1 .. 21
  BY Positions DEF VectorInv, ProgramTypes
<1>2. argsPtr \in 0 .. 3
  BY <1>1 DEF VectorInv, PlaceInv
<1>3. argsPtr \in 0 .. ArgSlots
  BY <1>2, VectorAddAssumption
<1>4. ASSUME NEW g \in Groups PROVE wave[g].is \in {"none", "started", "loaded", "done"}
  <2>1. wave[g] \in WaveState
    BY DEF VectorInv, ProgramTypes
  <2> QED
    BY <2>1 DEF WaveState
<1> QED
  BY <1>3, <1>4 DEF VectorInv, ProgramTypes, LoaderInv, LoaderTypes, TypeOK

\* One step of the loader, or none.
LEMMA LoaderStep ==
  ASSUME LoaderInv, LoaderNext \/ UNCHANGED loaderVars
  PROVE  LoaderInv'
<1>1. CASE context_alloc_memory
  BY <1>1, AllocStep, ImageOtherStep, KernelOtherStep DEF LoaderInv
<1>2. CASE load_code_segment
  BY <1>2, SegmentStep, ImageSegmentStep, KernelOtherStep DEF LoaderInv
<1>3. CASE load_kenrel_symbol
  BY <1>3, SymbolStep, ImageOtherStep, KernelSymbolStep DEF LoaderInv
<1>4. CASE freeze_executable
  BY <1>4, FreezeStep, ImageOtherStep, KernelOtherStep DEF LoaderInv
<1>5. CASE UNCHANGED loaderVars
  BY <1>5, LoaderStutter, ImageOtherStep, KernelOtherStep DEF LoaderInv
<1> QED
  BY <1>1, <1>2, <1>3, <1>4, <1>5 DEF LoaderNext

\* It holds at the start.
LEMMA VectorStart ==
  ASSUME Init
  PROVE  VectorInv
<1>1. Limit \in Nat /\ ArgSlots \in Nat
  BY LoaderAssumption, VectorAddAssumption
<1>2. ProgramTypes
  <2>1. Zeros \in [Groups -> Nat]
    BY DEF Zeros
  <2>2. mem \in [Buffers -> [Groups -> Nat]]
    BY <2>1 DEF Init
  <2>3. wave \in [Groups -> WaveState]
    BY DEF Init, WaveState
  <2>4. AqlPkt \in [header : {"none", "vendor", "dispatch"}, groups : SUBSET Groups,
                    kernel : Addrs \cup {None}]
    BY <1>1 DEF Init
  <2>5. 1 \in 1 .. Len(Program)
    BY DEF Program
  <2> QED
    BY <2>2, <2>3, <2>4, <2>5 DEF Init, ProgramTypes
<1>3. PlaceInv
  BY DEF Init, PlaceInv, LoaderInit
<1>4. LoaderTypes /\ LoadInv
  BY LoaderStart DEF Init
<1>5. loading = "alloc"
  BY DEF Init, LoaderInit
<1>6. ImageInv /\ KernelInv
  BY <1>5 DEF ImageInv, KernelInv
<1> QED
  BY <1>2, <1>3, <1>4, <1>6 DEF VectorInv, LoaderInv

\* The thread's steps.  Each goes on to the next position, but the loader's own.
LEMMA ThreadTypes ==
  ASSUME VectorInv, Thread
  PROVE  ProgramTypes'
<1>1. /\ step \in 1 .. 21 /\ Len(Program) = 21
      /\ Limit \in Nat /\ ArgSlots \in Nat
  BY Positions, LoaderAssumption, VectorAddAssumption DEF VectorInv, ProgramTypes
<1>2. KernelSymbolAddress \in Addrs \cup {None}
  BY <1>1 DEF VectorInv, LoaderInv, LoaderTypes
<1>3. ASSUME NEW dst \in Buffers, NEW src \in Buffers, HsaSdmaCopy(dst, src)
      PROVE  mem' \in [Buffers -> [Groups -> Nat]]
  BY <1>3 DEF HsaSdmaCopy, VectorInv, ProgramTypes
<1>4. Buffers = {"h_A", "h_B", "h_C", "d_A", "d_B", "d_C"}
  BY DEF Buffers, Host, Device
<1>5. step' \in 1 .. 21
  <2>1. step' = step \/ step' = step + 1
    BY DEF Thread, Allocate, PrepareData, CopyToGpu, HsaSdmaCopy, HsaLoadKernel, HsaAqlCreate,
           HsaAqlSetPkt, SetArguments, HsaAqlSetKernelArg, HsaAqlRingDoorbell, Sleep, CopyBack,
           PrintResult, FreeMem
  <2>2. Program[step] # "end"
    BY DEF Thread, at, Allocate, PrepareData, CopyToGpu, HsaLoadKernel, HsaAqlCreate,
           HsaAqlSetPkt, SetArguments, HsaAqlRingDoorbell, Sleep, CopyBack, PrintResult, FreeMem
  <2>3. step # 21
    BY <2>2 DEF Program
  <2> QED
    BY <1>1, <2>1, <2>3
<1>6. ProgramTypes' \/ step' \notin 1 .. Len(Program)
  <2> USE DEF VectorInv, ProgramTypes
  <2>1. CASE Allocate
    BY <2>1 DEF Allocate, Zeros
  <2>2. CASE PrepareData
    <3>1. PICK A \in [Groups -> Values], B \in [Groups -> Values] :
            mem' = [mem EXCEPT !["h_A"] = A, !["h_B"] = B]
      BY <2>2 DEF PrepareData
    <3>2. A \in [Groups -> Nat] /\ B \in [Groups -> Nat]
      BY VectorAddAssumption
    <3>3. mem' \in [Buffers -> [Groups -> Nat]]
      BY <3>1, <3>2
    <3> QED
      BY <2>2, <3>3 DEF PrepareData
  <2>3. CASE CopyToGpu
    <3>1. mem' \in [Buffers -> [Groups -> Nat]]
      BY <1>3, <1>4, <2>3 DEF CopyToGpu
    <3> QED
      BY <2>3, <3>1 DEF CopyToGpu, HsaSdmaCopy
  <2>4. CASE HsaLoadKernel
    BY <2>4 DEF HsaLoadKernel
  <2>5. CASE HsaAqlCreate
    BY <1>1, <2>5 DEF HsaAqlCreate
  <2>6. CASE HsaAqlSetPkt
    BY <1>2, <2>6 DEF HsaAqlSetPkt
  <2>7. CASE SetArguments
    <3>1. args' \in [0 .. ArgSlots - 1 -> Buffers \cup {"none"}]
      BY <1>4, <2>7 DEF SetArguments, HsaAqlSetKernelArg
    <3> QED
      BY <2>7, <3>1 DEF SetArguments, HsaAqlSetKernelArg
  <2>8. CASE HsaAqlRingDoorbell
    BY <2>8 DEF HsaAqlRingDoorbell
  <2>9. CASE Sleep
    BY <2>9 DEF Sleep
  <2>10. CASE CopyBack
    <3>1. mem' \in [Buffers -> [Groups -> Nat]]
      BY <1>3, <1>4, <2>10 DEF CopyBack
    <3>2. early' \in BOOLEAN
      BY <2>10 DEF CopyBack
    <3> QED
      BY <2>10, <3>1, <3>2 DEF CopyBack, HsaSdmaCopy
  <2>11. CASE PrintResult
    BY <2>11 DEF PrintResult
  <2>12. CASE FreeMem
    BY <2>12 DEF FreeMem
  <2> QED
    BY <2>1, <2>2, <2>3, <2>4, <2>5, <2>6, <2>7, <2>8, <2>9, <2>10, <2>11, <2>12 DEF Thread
<1> QED
  BY <1>1, <1>5, <1>6

\* The GPU's steps keep the types.
LEMMA GpuTypes ==
  ASSUME VectorInv, Gpu
  PROVE  ProgramTypes'
<1>1. CASE Dispatch
  <2>1. wave' \in [Groups -> WaveState]
    <3>1. [is |-> "started"] \in WaveState
      BY DEF WaveState
    <3> QED
      BY <1>1, <3>1 DEF Dispatch, VectorInv, ProgramTypes
  <2> QED
    BY <1>1, <2>1 DEF Dispatch, VectorInv, ProgramTypes
<1>2. ASSUME NEW g \in Groups, WaveLoad(g) PROVE ProgramTypes'
  <2>1. [is |-> "done"] \in WaveState
    BY DEF WaveState
  <2>2. CASE {args[0], args[1]} \subseteq live
    <3>1. args[0] \in Buffers /\ args[1] \in Buffers
      BY <2>2 DEF VectorInv, ProgramTypes
    <3>2. mem[args[0]][g] + mem[args[1]][g] \in Nat
      BY <3>1 DEF VectorInv, ProgramTypes
    <3>3. [is |-> "loaded", c |-> mem[args[0]][g] + mem[args[1]][g]] \in WaveState
      BY <3>2 DEF WaveState
    <3>4. wave' \in [Groups -> WaveState] /\ fault' \in BOOLEAN
      BY <1>2, <2>1, <3>3 DEF WaveLoad, VectorInv, ProgramTypes
    <3> QED
      BY <1>2, <3>4 DEF WaveLoad, VectorInv, ProgramTypes
  <2>3. CASE ~ ({args[0], args[1]} \subseteq live)
    <3>1. wave' \in [Groups -> WaveState] /\ fault' \in BOOLEAN
      BY <1>2, <2>1, <2>3 DEF WaveLoad, VectorInv, ProgramTypes
    <3> QED
      BY <1>2, <3>1 DEF WaveLoad, VectorInv, ProgramTypes
  <2> QED
    BY <2>2, <2>3
<1>3. ASSUME NEW g \in Groups, WaveStore(g) PROVE ProgramTypes'
  <2>1. wave[g] \in WaveState /\ wave[g].is = "loaded"
    BY <1>3 DEF WaveStore, VectorInv, ProgramTypes
  <2>2. wave[g].c \in Nat
    BY <2>1 DEF WaveState
  <2>3. wave' \in [Groups -> WaveState]
    <3>1. [is |-> "done"] \in WaveState
      BY DEF WaveState
    <3> QED
      BY <1>3, <3>1 DEF WaveStore, VectorInv, ProgramTypes
  <2>4. mem' \in [Buffers -> [Groups -> Nat]] /\ fault' \in BOOLEAN
    <3>1. CASE args[2] \in live
      <4>1. args[2] \in Buffers /\ mem \in [Buffers -> [Groups -> Nat]]
        BY <3>1 DEF VectorInv, ProgramTypes
      <4>2. mem' = [mem EXCEPT ![args[2]] = [mem[args[2]] EXCEPT ![g] = wave[g].c]]
        BY <1>3, <3>1 DEF WaveStore
      <4>3. [mem[args[2]] EXCEPT ![g] = wave[g].c] \in [Groups -> Nat]
        BY <2>2, <4>1
      <4>4. mem' \in [Buffers -> [Groups -> Nat]]
        BY <4>1, <4>2, <4>3
      <4> QED
        BY <1>3, <3>1, <4>4 DEF WaveStore, VectorInv, ProgramTypes
    <3>2. CASE args[2] \notin live
      BY <1>3, <3>2 DEF WaveStore, VectorInv, ProgramTypes
    <3> QED
      BY <3>1, <3>2
  <2> QED
    BY <1>3, <2>3, <2>4 DEF WaveStore, VectorInv, ProgramTypes
<1> QED
  BY <1>1, <1>2, <1>3 DEF Gpu

\* The thread loads at one position of the program and sets arguments at three.
LEMMA ThreadPlace ==
  ASSUME VectorInv, Thread
  PROVE  PlaceInv' /\ (LoaderNext \/ UNCHANGED loaderVars)
<1> USE Positions DEF VectorInv, ProgramTypes, PlaceInv
<1>1. CASE Allocate
  BY <1>1 DEF Allocate, loaderVars
<1>2. CASE PrepareData
  BY <1>2 DEF PrepareData, loaderVars
<1>3. CASE CopyToGpu
  BY <1>3 DEF CopyToGpu, HsaSdmaCopy, loaderVars
<1>4. CASE HsaLoadKernel
  BY <1>4 DEF HsaLoadKernel
<1>5. CASE HsaAqlCreate
  BY <1>5 DEF HsaAqlCreate, loaderVars
<1>6. CASE HsaAqlSetPkt
  BY <1>6 DEF HsaAqlSetPkt, loaderVars
<1>7. CASE SetArguments
  BY <1>7 DEF SetArguments, HsaAqlSetKernelArg, loaderVars
<1>8. CASE HsaAqlRingDoorbell
  BY <1>8 DEF HsaAqlRingDoorbell, loaderVars
<1>9. CASE Sleep
  BY <1>9 DEF Sleep, loaderVars
<1>10. CASE CopyBack
  BY <1>10 DEF CopyBack, HsaSdmaCopy, loaderVars
<1>11. CASE PrintResult
  BY <1>11 DEF PrintResult, loaderVars
<1>12. CASE FreeMem
  BY <1>12 DEF FreeMem, loaderVars
<1> QED
  BY <1>1, <1>2, <1>3, <1>4, <1>5, <1>6, <1>7, <1>8, <1>9, <1>10, <1>11, <1>12 DEF Thread

\* The GPU leaves the thread and what was loaded alone.
LEMMA GpuPlace ==
  ASSUME VectorInv, Gpu
  PROVE  PlaceInv' /\ UNCHANGED loaderVars
BY DEF Gpu, Dispatch, WaveLoad, WaveStore, VectorInv, PlaceInv, loaderVars

\* Every step keeps the invariant.
LEMMA VectorStep ==
  ASSUME VectorInv, [Next]_vars
  PROVE  VectorInv'
<1>1. CASE Thread
  BY <1>1, ThreadTypes, ThreadPlace, LoaderStep DEF VectorInv
<1>2. CASE Gpu
  BY <1>2, GpuTypes, GpuPlace, LoaderStep DEF VectorInv
<1>3. CASE UNCHANGED vars
  <2>1. ProgramTypes' /\ PlaceInv' /\ UNCHANGED loaderVars
    BY <1>3 DEF vars, loaderVars, VectorInv, ProgramTypes, PlaceInv
  <2> QED
    BY <2>1, LoaderStep DEF VectorInv
<1> QED
  BY <1>1, <1>2, <1>3 DEF Next

\* The types, the place of the loader and of the arguments in the program, and what has
\* been laid out so far, hold throughout (main.cpp:36-86, executable.cpp:30-175).
THEOREM VectorInvCorrect == Spec => []VectorInv
<1>1. Init => VectorInv
  BY VectorStart
<1>2. VectorInv /\ [Next]_vars => VectorInv'
  BY VectorStep
<1> QED
  BY <1>1, <1>2, PTL DEF Spec

\* No segment is copied past the end of the memory allocated for the code, and no
\* argument past the end of theirs (executable.cpp:63-66, 86, aql.cpp:308-314).
THEOREM VectorTypeCorrect == Spec => []TypeOK
<1>1. VectorInv => TypeOK
  BY VectorInvTypes
<1> QED
  BY <1>1, VectorInvCorrect, PTL

\* The code is on the GPU as the code object links it (executable.cpp:77-88, 152).
THEOREM CodeLoadedAsLinked == Spec => []LoadedAsLinked
<1>1. VectorInv => LoadedAsLinked
  BY ImageIsContents DEF VectorInv, LoaderInv
<1> QED
  BY <1>1, VectorInvCorrect, PTL

\* The one kernel of an object is on the GPU at the address returned for it, if it is
\* the start of a segment (executable.cpp:128-146, 170).
THEOREM KernelFound == Spec => []KernelWhereLoaded
<1>1. VectorInv => KernelWhereLoaded
  BY KernelIsThere DEF VectorInv, LoaderInv
<1> QED
  BY <1>1, VectorInvCorrect, PTL

-----------------------------------------------------------------------------
(* The launch and its result.                                              *)

Added(g) == mem["h_A"][g] + mem["h_B"][g]

\* What the packet processor and the waves find once the doorbell has been rung.
DispatchInv ==
  /\ rung <=> step >= 12
  /\ ~ rung => \A g \in Groups : wave[g].is = "none"
  /\ step > 7 => AqlPkt = [header |-> "dispatch", groups |-> Groups,
                           kernel |-> KernelSymbolAddress]
  /\ step > 8 => args[0] = "d_A"
  /\ step > 9 => args[1] = "d_B"
  /\ step > 10 => args[2] = "d_C"

\* The buffers are there until the result has been printed, the GPU's inputs are the
\* host's, and the kernel is over when the sum is copied back, or early says it is not.
ResultInv ==
  /\ step \in 2 .. 15 => live = Buffers
  /\ step > 3 => mem["d_A"] = mem["h_A"]
  /\ step > 4 => mem["d_B"] = mem["h_B"]
  /\ step < 14 => ~ early
  /\ step > 13 /\ ~ early => KernelEnded /\ mem["h_C"] = mem["d_C"]

\* A work-group adds its own elements, and they stay where it stores them.
SumInv ==
  Plain => /\ fault => early
           /\ \A g \in Groups : wave[g].is = "loaded" => wave[g].c = Added(g)
           /\ ~ early => \A g \in Groups : wave[g].is = "done" => mem["d_C"][g] = Added(g)

RunInv == DispatchInv /\ ResultInv /\ SumInv

\* The thread writes packet, arguments and doorbell, in this order.
LEMMA ThreadDispatch ==
  ASSUME VectorInv, RunInv, Thread
  PROVE  DispatchInv'
<1> USE Positions DEF VectorInv, ProgramTypes, RunInv, DispatchInv
<1>1. CASE Allocate
  BY <1>1 DEF Allocate, loaderVars
<1>2. CASE PrepareData
  BY <1>2 DEF PrepareData, loaderVars
<1>3. CASE CopyToGpu
  BY <1>3 DEF CopyToGpu, HsaSdmaCopy, loaderVars
<1>4. CASE HsaLoadKernel
  BY <1>4 DEF HsaLoadKernel
<1>5. CASE HsaAqlCreate
  BY <1>5 DEF HsaAqlCreate, loaderVars
<1>6. CASE HsaAqlSetPkt
  <2>1. step = 7 /\ step' = 8
    BY <1>6 DEF HsaAqlSetPkt
  <2>2. /\ UNCHANGED <<args, rung, wave, KernelSymbolAddress>>
        /\ AqlPkt' = [header |-> "dispatch", groups |-> Groups, kernel |-> KernelSymbolAddress]
    BY <1>6 DEF HsaAqlSetPkt, loaderVars
  <2> QED
    BY <2>1, <2>2
<1>7. CASE SetArguments
  <2>1. 0 .. 2 \subseteq 0 .. ArgSlots - 1
    BY VectorAddAssumption
  <2>2. DOMAIN args = 0 .. ArgSlots - 1
    OBVIOUS
  <2>3. step \in 8 .. 10 /\ argsPtr = step - 8 /\ step' = step + 1
    BY <1>7 DEF SetArguments, HsaAqlSetKernelArg, PlaceInv
  <2>4. args' = [args EXCEPT ![argsPtr] = IF step = 8 THEN "d_A"
                                          ELSE IF step = 9 THEN "d_B" ELSE "d_C"]
    BY <1>7 DEF SetArguments, HsaAqlSetKernelArg
  <2>5. 0 \in DOMAIN args /\ 1 \in DOMAIN args /\ 2 \in DOMAIN args
    BY <2>1, <2>2
  <2>6. /\ step' > 8 => args'[0] = "d_A"
        /\ step' > 9 => args'[1] = "d_B"
        /\ step' > 10 => args'[2] = "d_C"
    BY <2>3, <2>4, <2>5
  <2>7. UNCHANGED <<AqlPkt, rung, wave, KernelSymbolAddress>>
    BY <1>7 DEF SetArguments, HsaAqlSetKernelArg, loaderVars
  <2> QED
    BY <2>3, <2>6, <2>7
<1>8. CASE HsaAqlRingDoorbell
  BY <1>8 DEF HsaAqlRingDoorbell, loaderVars
<1>9. CASE Sleep
  BY <1>9 DEF Sleep, loaderVars
<1>10. CASE CopyBack
  BY <1>10 DEF CopyBack, HsaSdmaCopy, loaderVars
<1>11. CASE PrintResult
  BY <1>11 DEF PrintResult, loaderVars
<1>12. CASE FreeMem
  BY <1>12 DEF FreeMem, loaderVars
<1> QED
  BY <1>1, <1>2, <1>3, <1>4, <1>5, <1>6, <1>7, <1>8, <1>9, <1>10, <1>11, <1>12 DEF Thread

\* The thread never changes the code object, so an object with one kernel it remains.
LEMMA ThreadPlain ==
  ASSUME VectorInv, Thread
  PROVE  Plain' <=> Plain
<1>1. CodeObject' = CodeObject
  BY ThreadPlace DEF LoaderNext, context_alloc_memory, load_code_segment, load_kenrel_symbol,
                     freeze_executable, loaderVars
<1> QED
  BY <1>1 DEF Plain, Kernels, segs, syms

\* The thread's copies keep inputs and sums, and it frees after it has printed.
LEMMA ThreadResult ==
  ASSUME VectorInv, RunInv, Thread
  PROVE  ResultInv' /\ SumInv'
<1>1. Plain' <=> Plain
  BY ThreadPlain
<1>2. step \in 1 .. 21 /\ (step < 12 => \A g \in Groups : wave[g].is = "none")
  <2>1. step \in 1 .. 21
    BY Positions DEF VectorInv, ProgramTypes
  <2>2. ~ (step >= 12) => \A g \in Groups : wave[g].is = "none"
    BY DEF RunInv, DispatchInv
  <2> QED
    BY <2>1, <2>2
<1>3. mem \in [Buffers -> [Groups -> Nat]]
      /\ Buffers = {"h_A", "h_B", "h_C", "d_A", "d_B", "d_C"}
  BY DEF VectorInv, ProgramTypes, Buffers, Host, Device
<1> USE Positions DEF VectorInv, ProgramTypes, RunInv
<1>4. ASSUME UNCHANGED <<mem, wave, fault, early>> PROVE SumInv'
  BY <1>1, <1>4 DEF SumInv, Added
<1>5. ASSUME step < 12, UNCHANGED <<wave, fault, early>> PROVE SumInv'
  BY <1>1, <1>2, <1>5 DEF SumInv
<1>6. CASE Allocate
  BY <1>2, <1>5, <1>6 DEF Allocate, ResultInv
<1>7. CASE PrepareData
  BY <1>2, <1>5, <1>7 DEF PrepareData, ResultInv
<1>8. CASE CopyToGpu
  <2>1. /\ step \in {3, 4} /\ step' = step + 1 /\ UNCHANGED <<live, wave, fault, early>>
    BY <1>8 DEF CopyToGpu, HsaSdmaCopy
  <2>2. /\ step = 3 => mem' = [mem EXCEPT !["d_A"] = mem["h_A"]]
        /\ step = 4 => mem' = [mem EXCEPT !["d_B"] = mem["h_B"]]
    BY <1>8 DEF CopyToGpu, HsaSdmaCopy
  <2>3. /\ step' > 3 => mem'["d_A"] = mem'["h_A"]
        /\ step' > 4 => mem'["d_B"] = mem'["h_B"]
    BY <1>3, <2>1, <2>2 DEF ResultInv
  <2> QED
    BY <1>5, <2>1, <2>3 DEF ResultInv
<1>9. CASE HsaLoadKernel
  BY <1>4, <1>9 DEF HsaLoadKernel, ResultInv
<1>10. CASE HsaAqlCreate
  BY <1>4, <1>10 DEF HsaAqlCreate, ResultInv
<1>11. CASE HsaAqlSetPkt
  BY <1>4, <1>11 DEF HsaAqlSetPkt, ResultInv
<1>12. CASE SetArguments
  BY <1>4, <1>12 DEF SetArguments, HsaAqlSetKernelArg, ResultInv
<1>13. CASE HsaAqlRingDoorbell
  BY <1>4, <1>13 DEF HsaAqlRingDoorbell, ResultInv
<1>14. CASE Sleep
  BY <1>4, <1>14 DEF Sleep, ResultInv
<1>15. CASE CopyBack
  <2>1. /\ step = 13 /\ step' = 14 /\ UNCHANGED <<live, wave, fault>> /\ ~ early
        /\ mem' = [mem EXCEPT !["h_C"] = mem["d_C"]] /\ early' = ~ KernelEnded
    BY <1>15 DEF CopyBack, HsaSdmaCopy, ResultInv
  <2>2. /\ mem'["h_C"] = mem["d_C"]
        /\ \A b \in Buffers \ {"h_C"} : mem'[b] = mem[b]
    BY <1>3, <2>1
  <2>3. mem'["h_A"] = mem["h_A"] /\ mem'["h_B"] = mem["h_B"] /\ mem'["d_A"] = mem["d_A"]
        /\ mem'["d_B"] = mem["d_B"] /\ mem'["d_C"] = mem["d_C"]
    BY <1>3, <2>2
  <2>4. ~ early' => KernelEnded'
    BY <2>1 DEF KernelEnded
  <2>5. ResultInv'
    BY <2>1, <2>2, <2>3, <2>4 DEF ResultInv
  <2>6. SumInv'
    BY <1>1, <2>1, <2>3 DEF SumInv, Added
  <2> QED
    BY <2>5, <2>6
<1>16. CASE PrintResult
  BY <1>4, <1>16 DEF PrintResult, ResultInv, KernelEnded
<1>17. CASE FreeMem
  <2>1. /\ step \in 15 .. 20 /\ step' = step + 1
        /\ UNCHANGED <<mem, wave, fault, early>>
    BY <1>17 DEF FreeMem
  <2>2. KernelEnded' <=> KernelEnded
    BY <2>1 DEF KernelEnded
  <2>3. ResultInv'
    BY <2>1, <2>2 DEF ResultInv
  <2> QED
    BY <1>4, <2>1, <2>3
<1> QED
  BY <1>6, <1>7, <1>8, <1>9, <1>10, <1>11, <1>12, <1>13, <1>14, <1>15, <1>16, <1>17 DEF Thread

\* A work-group at work finds its arguments and, of an object with one kernel, the kernel;
\* unless the sum has been copied early the buffers are there.
LEMMA AtWork ==
  ASSUME VectorInv, RunInv, NEW g \in Groups, wave[g].is \in {"started", "loaded"}
  PROVE  /\ step >= 12 /\ rung
         /\ args[0] = "d_A" /\ args[1] = "d_B" /\ args[2] = "d_C"
         /\ mem["d_A"] = mem["h_A"] /\ mem["d_B"] = mem["h_B"]
         /\ ~ early => step \in 12 .. 13 /\ live = Buffers
         /\ Plain => KernelAt(AqlPkt.kernel)
<1>1. step \in 1 .. 21
  BY Positions DEF VectorInv, ProgramTypes
<1>2. rung /\ step >= 12
  BY DEF RunInv, DispatchInv
<1>3. ~ KernelEnded
  BY DEF KernelEnded
<1>4. ~ early => step \in 12 .. 13 /\ live = Buffers
  BY <1>1, <1>2, <1>3 DEF RunInv, ResultInv
<1>5. ASSUME Plain PROVE KernelAt(AqlPkt.kernel)
  <2>1. loading = "done" /\ AqlPkt.kernel = KernelSymbolAddress
    BY <1>1, <1>2 DEF VectorInv, PlaceInv, RunInv, DispatchInv
  <2>2. PICK s \in DOMAIN syms : Kernels = {s}
    BY <1>5 DEF Plain
  <2>3. s \in Kernels /\ syms[s].kernel
    BY <2>2 DEF Kernels
  <2>4. KernelWhereLoaded
    BY KernelIsThere DEF VectorInv, LoaderInv
  <2> QED
    BY <1>5, <2>1, <2>3, <2>4 DEF KernelAt, KernelWhereLoaded
<1> QED
  BY <1>1, <1>2, <1>4, <1>5 DEF RunInv, DispatchInv, ResultInv

\* A work-group loads what was copied to the GPU.
LEMMA WaveLoadRun ==
  ASSUME VectorInv, RunInv, NEW g \in Groups, WaveLoad(g)
  PROVE  RunInv'
<1>1. wave[g].is = "started"
  BY DEF WaveLoad
<1>2. /\ step >= 12 /\ rung
      /\ args[0] = "d_A" /\ args[1] = "d_B"
      /\ mem["d_A"] = mem["h_A"] /\ mem["d_B"] = mem["h_B"]
      /\ ~ early => step \in 12 .. 13 /\ live = Buffers
      /\ Plain => KernelAt(AqlPkt.kernel)
  BY <1>1, AtWork
<1>3. UNCHANGED <<step, live, mem, AqlPkt, args, rung, early, KernelSymbolAddress, CodeObject>>
  BY DEF WaveLoad, loaderVars
<1>4. (Plain' <=> Plain) /\ \A h \in Groups : Added(h)' = Added(h)
  BY <1>3 DEF Plain, Kernels, segs, syms, Added
<1>5. DispatchInv'
  BY <1>2, <1>3 DEF RunInv, DispatchInv
<1>6. ResultInv'
  BY <1>2, <1>3 DEF RunInv, ResultInv
<1>7. SumInv'
  <2> SUFFICES ASSUME Plain PROVE SumInv'
    BY <1>4 DEF SumInv
  <2>1. /\ fault => early
        /\ \A h \in Groups : wave[h].is = "loaded" => wave[h].c = Added(h)
        /\ ~ early => \A h \in Groups : wave[h].is = "done" => mem["d_C"][h] = Added(h)
    BY DEF RunInv, SumInv
  <2>2. wave \in [Groups -> WaveState]
    BY DEF VectorInv, ProgramTypes
  <2>3. CASE {args[0], args[1]} \subseteq live
    <3>1. /\ wave' = [wave EXCEPT ![g] = [is |-> "loaded", c |-> Added(g)]]
          /\ fault' = fault
      BY <1>2, <2>3 DEF WaveLoad, Added
    <3>2. /\ wave'[g] = [is |-> "loaded", c |-> Added(g)]
          /\ \A h \in Groups \ {g} : wave'[h] = wave[h]
      BY <2>2, <3>1
    <3> QED
      BY <1>3, <1>4, <2>1, <3>1, <3>2 DEF SumInv
  <2>4. CASE ~ ({args[0], args[1]} \subseteq live)
    <3>1. early
      <4>1. "d_A" \in Buffers /\ "d_B" \in Buffers
        BY DEF Buffers, Device
      <4> QED
        BY <1>2, <2>4, <4>1
    <3>2. wave' = [wave EXCEPT ![g] = [is |-> "done"]]
      BY <2>4 DEF WaveLoad
    <3>3. /\ wave'[g] = [is |-> "done"]
          /\ \A h \in Groups \ {g} : wave'[h] = wave[h]
      BY <2>2, <3>2
    <3> QED
      BY <1>3, <1>4, <2>1, <3>1, <3>3 DEF SumInv
  <2> QED
    BY <2>3, <2>4
<1> QED
  BY <1>5, <1>6, <1>7 DEF RunInv

\* A work-group stores the sum of its own elements.
LEMMA WaveStoreRun ==
  ASSUME VectorInv, RunInv, NEW g \in Groups, WaveStore(g)
  PROVE  RunInv'
<1>1. wave[g].is = "loaded"
  BY DEF WaveStore
<1>2. /\ step >= 12 /\ rung /\ args[2] = "d_C"
      /\ ~ early => step \in 12 .. 13 /\ live = Buffers
  BY <1>1, AtWork
<1>3. UNCHANGED <<step, live, AqlPkt, args, rung, early, KernelSymbolAddress, CodeObject>>
  BY DEF WaveStore, loaderVars
<1>4. wave \in [Groups -> WaveState] /\ mem \in [Buffers -> [Groups -> Nat]]
      /\ Buffers = {"h_A", "h_B", "h_C", "d_A", "d_B", "d_C"}
  BY DEF VectorInv, ProgramTypes, Buffers, Host, Device
<1>5. /\ wave'[g] = [is |-> "done"]
      /\ \A h \in Groups \ {g} : wave'[h] = wave[h]
  BY <1>4 DEF WaveStore
<1>6. /\ mem'["h_A"] = mem["h_A"] /\ mem'["h_B"] = mem["h_B"] /\ mem'["d_A"] = mem["d_A"]
      /\ mem'["d_B"] = mem["d_B"]
      /\ \A h \in Groups \ {g} : mem'["d_C"][h] = mem["d_C"][h]
      /\ "d_C" \in live => mem'["d_C"][g] = wave[g].c /\ fault' = fault
  <2>1. CASE "d_C" \in live
    <3>1. /\ mem' = [mem EXCEPT !["d_C"] = [mem["d_C"] EXCEPT ![g] = wave[g].c]]
          /\ fault' = fault
      BY <1>2, <2>1 DEF WaveStore
    <3>2. mem'["d_C"] = [mem["d_C"] EXCEPT ![g] = wave[g].c]
      BY <1>4, <3>1
    <3>3. mem["d_C"] \in [Groups -> Nat]
      BY <1>4
    <3>4. mem'["d_C"][g] = wave[g].c /\ \A h \in Groups \ {g} : mem'["d_C"][h] = mem["d_C"][h]
      BY <3>2, <3>3
    <3> QED
      BY <1>4, <3>1, <3>4
  <2>2. CASE "d_C" \notin live
    BY <1>2, <2>2 DEF WaveStore
  <2> QED
    BY <2>1, <2>2
<1>7. (Plain' <=> Plain) /\ \A h \in Groups : Added(h)' = Added(h)
  BY <1>3, <1>6 DEF Plain, Kernels, segs, syms, Added
<1>8. DispatchInv'
  BY <1>2, <1>3 DEF RunInv, DispatchInv
<1>9. ResultInv'
  BY <1>2, <1>3, <1>6 DEF RunInv, ResultInv
<1>10. SumInv'
  <2> SUFFICES ASSUME Plain PROVE SumInv'
    BY <1>7 DEF SumInv
  <2>1. /\ fault => early
        /\ \A h \in Groups : wave[h].is = "loaded" => wave[h].c = Added(h)
        /\ ~ early => \A h \in Groups : wave[h].is = "done" => mem["d_C"][h] = Added(h)
    BY DEF RunInv, SumInv
  <2>2. \A h \in Groups : wave'[h].is = "loaded" => wave'[h].c = Added(h)'
    BY <1>5, <1>7, <2>1
  <2>3. CASE early
    BY <1>3, <2>2, <2>3 DEF SumInv
  <2>4. CASE ~ early
    <3>1. "d_C" \in live
      BY <1>2, <1>4, <2>4
    <3>2. mem'["d_C"][g] = Added(g) /\ fault' = fault
      BY <1>1, <1>6, <2>1, <3>1
    <3>3. \A h \in Groups : wave'[h].is = "done" => mem'["d_C"][h] = Added(h)'
      BY <1>5, <1>6, <1>7, <2>1, <2>4, <3>2
    <3> QED
      BY <1>3, <2>1, <2>2, <3>2, <3>3 DEF SumInv
  <2> QED
    BY <2>3, <2>4
<1> QED
  BY <1>8, <1>9, <1>10 DEF RunInv

\* The packet processor starts work-groups, and they have stored nothing yet.
LEMMA DispatchRun ==
  ASSUME VectorInv, RunInv, Dispatch
  PROVE  RunInv'
<1>1. /\ UNCHANGED <<step, live, mem, AqlPkt, args, rung, fault, early, KernelSymbolAddress,
                     CodeObject>>
      /\ rung /\ \A g \in Groups : wave[g].is = "none"
      /\ wave' = [g \in Groups |-> IF g \in AqlPkt.groups THEN [is |-> "started"] ELSE wave[g]]
  BY DEF Dispatch, loaderVars
<1>2. \A g \in Groups : wave'[g].is \in {"none", "started"}
  BY <1>1
<1>3. Plain' <=> Plain
  BY <1>1 DEF Plain, Kernels, segs, syms
<1>4. DispatchInv'
  BY <1>1 DEF RunInv, DispatchInv
<1>5. KernelEnded => Groups = {}
  BY <1>1 DEF KernelEnded
<1>6. KernelEnded => KernelEnded'
  BY <1>5 DEF KernelEnded
<1>7. ResultInv'
  BY <1>1, <1>6 DEF RunInv, ResultInv
<1>8. SumInv'
  BY <1>1, <1>2, <1>3 DEF RunInv, SumInv
<1> QED
  BY <1>4, <1>7, <1>8 DEF RunInv

\* Every step keeps the invariant.
LEMMA RunStep ==
  ASSUME VectorInv, RunInv, [Next]_vars
  PROVE  RunInv'
<1>1. CASE Thread
  BY <1>1, ThreadDispatch, ThreadResult DEF RunInv
<1>2. CASE Gpu
  BY <1>2, DispatchRun, WaveLoadRun, WaveStoreRun DEF Gpu
<1>3. CASE UNCHANGED vars
  BY <1>3 DEF vars, loaderVars, RunInv, DispatchInv, ResultInv, SumInv, Plain, Kernels, segs,
              syms, Added, KernelEnded
<1> QED
  BY <1>1, <1>2, <1>3 DEF Next

\* What the GPU is given, and what has become of the vectors, hold throughout
\* (main.cpp:36-86, aql.cpp:264-319).
THEOREM RunInvCorrect == Spec => []RunInv
<1>1. Init => RunInv
  <2> SUFFICES ASSUME Init PROVE RunInv
    OBVIOUS
  <2>1. DispatchInv
    BY DEF Init, DispatchInv
  <2>2. ResultInv
    BY DEF Init, ResultInv
  <2>3. SumInv
    BY DEF Init, SumInv
  <2> QED
    BY <2>1, <2>2, <2>3 DEF RunInv
<1>2. VectorInv /\ RunInv /\ [Next]_vars => RunInv'
  BY RunStep
<1> QED
  BY <1>1, <1>2, VectorInvCorrect, PTL DEF Spec

\* What is printed is the sum of the vectors prepared, and no buffer is touched once
\* freed, unless the kernel was at work when the sum was copied (main.cpp:36-83).
THEOREM ResultRightUnlessEarly == Spec => []SpoiltOnlyIfEarly
<1>1. VectorInv /\ RunInv => SpoiltOnlyIfEarly
  <2> SUFFICES ASSUME VectorInv, RunInv, Plain, (at("print") /\ ~ Sum) \/ fault PROVE early
    BY DEF SpoiltOnlyIfEarly
  <2>1. CASE fault
    BY <2>1 DEF RunInv, SumInv
  <2>2. CASE at("print") /\ ~ Sum
    <3> SUFFICES ASSUME ~ early PROVE Sum
      BY <2>2
    <3>1. step = 14
      BY <2>2, Positions DEF VectorInv, ProgramTypes
    <3>2. KernelEnded /\ mem["h_C"] = mem["d_C"]
      BY <3>1 DEF RunInv, ResultInv
    <3> QED
      BY <3>2 DEF RunInv, SumInv, KernelEnded, Sum, Added
  <2> QED
    BY <2>1, <2>2
<1> QED
  BY <1>1, VectorInvCorrect, RunInvCorrect, PTL

=============================================================================
