-------------------------------- MODULE HsaCode --------------------------------
(***************************************************************************)
(* A code object, libamdhsacode/amd_hsa_code.cpp: a finalizer builds it    *)
(* through the methods of AmdHsaCode and writes it, and PullElf reads what *)
(* was written.  The finalizer is external: it may call any method at any  *)
(* time, within what the asserts of the methods ask.                       *)
(***************************************************************************)
EXTENDS ElfImage

LOCAL INSTANCE FiniteSetsExt

CONSTANTS
  DataSections,  (* the data sections a finalizer asks for, of the nine of  *)
                 (* HsaDataSection: their kinds and types of segment       *)
  KernelAlign,   (* 256 bytes: the alignment of kernel code, and the size  *)
                 (* of the amd_kernel_code_t it begins with                *)
  KernelSizes,   (* sizes of kernels                                       *)
  Pieces,        (* sizes and alignments of data and of memory for bss     *)
  Versions,      (* major versions of code objects                         *)
  CodeWritable,  (* whether a segment of code is to be writable            *)
  SectionLimit,  (* bounds: sections,                                      *)
  SegmentLimit,  (* segments,                                              *)
  SymbolLimit,   (* symbols with the undefined one,                        *)
  DataLimit,     (* pieces of data of a section,                           *)
  CodeLimit,     (* kernels' code of a section                             *)
  NoteLimit      (* and version notes                                      *)

DataKinds == {"rodata", "data", "bss"}

ASSUME HsaCodeAssumption ==
  /\ DataSections \subseteq DataKinds \X {"global_program", "global_agent", "readonly_agent"}
  /\ KernelAlign \in Nat \ {0}
  /\ \A n \in KernelSizes : n \in Nat /\ n >= KernelAlign
  /\ Pieces \subseteq [size : Nat \ {0}, align : Nat \ {0}]
  /\ Versions \subseteq Nat
  /\ CodeWritable \subseteq BOOLEAN
  /\ {SectionLimit, DataLimit, CodeLimit} \subseteq Nat

VARIABLES
  img,      (* the image                                                   *)
  added,    (* pieces added to each section so far, for the bounds         *)
  file      (* where sections and segments are in the file, once written   *)

codeVars == <<img, added, file>>

NoFile == [written |-> FALSE, offsets |-> << >>, segments |-> << >>]
frozen == file.written
Allocs == {d[2] : d \in DataSections}

\* Sections the methods return to the finalizer.
HandedOut == DataKinds \cup {"hsatext", "imageinit", "samplerinit"}

\* An image takes the place of img; its sections are within the bound.
Becomes(image) ==
  /\ ~frozen
  /\ Len(image.sections) <= SectionLimit
  /\ Len(image.symbols) <= SymbolLimit
  /\ img' = image
  /\ added' = [i \in DOMAIN image.sections |-> IF i \in DOMAIN added THEN added[i] ELSE 0]
  /\ UNCHANGED file

\* The same when a piece of data is added to section i, as one of so many.
Grows(image, i, limit) ==
  /\ ~frozen
  /\ added[i] < limit
  /\ img' = image
  /\ added' = [added EXCEPT ![i] = @ + 1]
  /\ UNCHANGED file

-----------------------------------------------------------------------------
(* Building.                                                               *)

\* The segment of a type, 0 if it has not been initialised.
HsaSegment(type, writable) ==
  Max({0} \cup {s \in DOMAIN img.segments : /\ img.segments[s].type = type
                                            /\ img.segments[s].writable = writable})

InitHsaSegment(type, writable) ==
  /\ HsaSegment(type, writable) = 0
  /\ Len(img.segments) < SegmentLimit
  /\ Becomes(initSegment(img, type, writable))

\* Every case of its switch falls through to the default.
IsAmdHsaElfSectionROData(kind) == FALSE

InitHsaSectionSegment(kind, alloc, combineSegments) ==
  InitHsaSegment(alloc, combineSegments \/ ~IsAmdHsaElfSectionROData(kind))

\* Each call makes a section, and code goes to the last one.
AddCodeSection(writable) ==
  LET s == HsaSegment("code_agent", writable)
  IN /\ s # 0
     /\ Becomes(addSectionTo(img, "hsatext", "code_agent", s))

\* One section of each kind and segment; the first call makes it.
HsaDataSection(kind, alloc, combineSegments) ==
  LET s == HsaSegment(alloc, combineSegments \/ ~IsAmdHsaElfSectionROData(kind))
  IN /\ SectionOf(img, kind, alloc, 0) = 0
     /\ s # 0
     /\ Becomes(addSectionTo(img, kind, alloc, s))

\* addData on a data section, by the finalizer.
AddData(i, piece) ==
  /\ img.sections[i].kind \in DataKinds \ {"bss"}
  /\ Grows(addData(img, i, piece.size, piece.align), i, DataLimit)

\* setMemSize and setAlign on a section without data, by the finalizer.
SetMemory(i, piece) ==
  /\ img.sections[i].kind = "bss" /\ img.sections[i].memsize = 0
  /\ Becomes(setMemory(img, i, piece.size, piece.align))

HsaText == SectionOf(img, "hsatext", "code_agent", 0)

\* A kernel's symbol, for the section given or, with none (0), for the code's.
AddExecutableSymbol(section) ==
  /\ IF section = 0 THEN HsaText # 0 ELSE img.sections[section].kind \in HandedOut
  /\ Becomes(addSymbol(img, "kernel", IF section = 0 THEN HsaText ELSE section, 0))

\* Fault: the code is placed without an alignment of its own.
AddKernelCode_Unaligned(j, size) ==
  /\ img.symbols[j].type = "kernel" /\ HsaText # 0
  /\ Grows([addData(img, HsaText, size, 1)
               EXCEPT !.symbols[j].value = nextDataOffset(img, HsaText, KernelAlign)], HsaText, CodeLimit)

\* The kernel's code, behind the code that is there; the symbol gets its offset, which
\* is one in HsaText whatever the symbol's section.
AddKernelCode(j, size) ==
  /\ img.symbols[j].type = "kernel" /\ HsaText # 0
  /\ Grows([addData(img, HsaText, size, KernelAlign)
               EXCEPT !.symbols[j].value = nextDataOffset(img, HsaText, KernelAlign)], HsaText, CodeLimit)

AddVariableSymbol(i, value) ==
  /\ img.sections[i].kind \in DataKinds
  /\ value < memSize(img.sections[i])
  /\ Becomes(addSymbol(img, "object", i, value))

\* A descriptor in a section of its own, a symbol for it, and a relocation of the
\* variable that points to it.
DescriptorSize == 8
AddInitializer(j, kind) ==
  LET made == WithSection(img, kind, "none", 0)
      at == SectionOf(made, kind, "none", 0)
      described == addSymbol(addData(made, at, DescriptorSize, FileAlign), "metadata", at,
                             nextDataOffset(made, at, FileAlign))
  IN /\ img.symbols[j].type = "object"
     /\ Becomes(addRelocation(described, img.symbols[j].section))

\* A relocation of the variable, to the address of another symbol.
AddInitVarWithAddress(j) ==
  /\ img.symbols[j].type = "object"
  /\ SectionOf(img, "rela", "none", img.symbols[j].section) = 0    \* bound
  /\ Becomes(addRelocation(img, img.symbols[j].section))

AddNoteCodeObjectVersion(major) ==
  /\ Len(img.versions) < NoteLimit
  /\ Becomes(addNote(img, major))

Freeze ==
  /\ ~frozen
  /\ LET offsets == Offsets(img)
     IN file' = [written |-> TRUE, offsets |-> offsets, segments |-> Segments(img, offsets)]
  /\ UNCHANGED <<img, added>>

-----------------------------------------------------------------------------
(* Reading.                                                                *)

\* pullElf adds each segment twice, the second time with a header of zeroes.
PulledSegments ==
  file.segments \o [s \in DOMAIN file.segments |->
                      [type |-> "null", vaddr |-> 0, offset |-> 0, imageSize |-> 0,
                       memSize |-> 0, addrs |-> << >>]]

\* Those of a sequence whose type is one of these, in their order.
OfTypes(types, seq) ==
  LET found[n \in 0 .. Len(seq)] ==
        IF n = 0 THEN << >>
        ELSE IF seq[n].type \in types THEN Append(found[n-1], seq[n]) ELSE found[n-1]
  IN found[Len(seq)]

\* The first version note tells how to read on.  The segments built above are of a
\* version before 2; from 2 on a segment would be of type PT_LOAD.
SegmentTypes ==
  IF img.versions = << >> THEN {}
  ELSE IF Head(img.versions) >= 2 THEN {"load"}
  ELSE {"global_program", "global_agent", "readonly_agent", "code_agent"}

DataSegments == OfTypes(SegmentTypes, PulledSegments)

\* The sections whose flags have AGENT, CODE or EXECINSTR.
Executable(sec) == \/ sec.kind = "hsatext"
                   \/ sec.kind \in DataKinds /\ sec.alloc # "global_program"

\* A kernel's section passes for code, and getData finds the whole header in it.
HeaderRead(sym) ==
  LET sec == img.sections[sym.section]
  IN Executable(sec) /\ ~NoBits(sec) /\ sym.value + KernelAlign <= ShSize(sec)

\* PullElfV1 returns at the first kernel whose header it cannot read.
FirstUnread ==
  Min({Len(img.symbols) + 1} \cup
      {j \in DOMAIN img.symbols : img.symbols[j].type = "kernel" /\ ~HeaderRead(img.symbols[j])})

\* There getData copies from NULL if the section has a size but no bits.
ReadsNoBits ==
  \E j \in DOMAIN img.symbols :
    LET sec == img.sections[img.symbols[j].section]
    IN /\ j = FirstUnread
       /\ Executable(sec) /\ NoBits(sec) /\ img.symbols[j].value < ShSize(sec)

VAddr(sym) == Addr(img, file.segments, sym.section) + sym.value

\* Fault: the loop over the symbols ends one early.
PulledSymbols_OneShort ==
  OfTypes({"kernel", "object"}, SubSeq(img.symbols, 1, FirstUnread - 2))

\* The symbols of a version before 2.
PulledSymbols ==
  OfTypes({"kernel", "object"}, SubSeq(img.symbols, 1, FirstUnread - 1))

-----------------------------------------------------------------------------
\* InitNew.
CodeInit == img = EmptyImage /\ added = << >> /\ file = NoFile

Build ==
  \/ \E writable \in CodeWritable :
       InitHsaSegment("code_agent", writable) \/ AddCodeSection(writable)
  \/ \E d \in DataSections, combine \in BOOLEAN :
       InitHsaSectionSegment(d[1], d[2], combine) \/ HsaDataSection(d[1], d[2], combine)
  \/ \E i \in DOMAIN img.sections, piece \in Pieces : AddData(i, piece) \/ SetMemory(i, piece)
  \/ \E section \in {0} \cup DOMAIN img.sections : AddExecutableSymbol(section)
  \/ \E j \in DOMAIN img.symbols, size \in KernelSizes : AddKernelCode(j, size)
  \/ \E i \in DOMAIN img.sections : AddVariableSymbol(i, 0)
  \/ \E j \in DOMAIN img.symbols, kind \in {"imageinit", "samplerinit"} : AddInitializer(j, kind)
  \/ \E j \in DOMAIN img.symbols : AddInitVarWithAddress(j)
  \/ \E major \in Versions : AddNoteCodeObjectVersion(major)
  \/ Freeze

=============================================================================
