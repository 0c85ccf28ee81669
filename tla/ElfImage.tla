------------------------------- MODULE ElfImage -------------------------------
(***************************************************************************)
(* The image a code object is built in, libamdhsacode/amd_elf_image.cpp:   *)
(* sections that data is added to, segments that sections are added to,    *)
(* and where libelf and GElfSegment::push place them, in the file and in   *)
(* memory, when the image is written.                                      *)
(*                                                                         *)
(* An image is a value and every method an operator that gives the image   *)
(* after the call.  Sizes are in words of 4 bytes.  Sections are numbered  *)
(* from the first one after the two string tables, which, with the ELF     *)
(* header and the program headers, take the first HeaderSize words.        *)
(***************************************************************************)
EXTENDS Naturals, Sequences

LOCAL INSTANCE FiniteSetsExt

CONSTANTS
  FileAlign,    (* the least alignment of a section in the file, 8 bytes   *)
  HeaderSize,
  EntrySize     (* of a symbol or a relocation, 24 bytes                   *)

ASSUME ElfImageAssumption ==
  /\ FileAlign \in Nat \ {0}
  /\ EntrySize \in Nat \ {0}
  /\ HeaderSize \in Nat

AlignUp(x, a) == ((x + a - 1) \div a) * a
Larger(a, b) == IF a > b THEN a ELSE b

-----------------------------------------------------------------------------
(* An image: sections, segments and symbols, each a sequence, and the      *)
(* major versions of its version notes.                                    *)

EmptyImage == [sections |-> << >>, segments |-> << >>, symbols |-> << >>, versions |-> << >>]

\* A section has a kind, a memory segment it is for, the section it relocates (of), the
\* size and the alignment of its data, and what setMemSize and setAlign have set.
NewSection(kind, alloc, of) ==
  [kind |-> kind, alloc |-> alloc, of |-> of, size |-> 0, align |-> 0,
   memsize |-> 0, memalign |-> 0]

\* The last section of this kind, 0 if there is none.
SectionOf(img, kind, alloc, of) ==
  Max({0} \cup {i \in DOMAIN img.sections : /\ img.sections[i].kind = kind
                                            /\ img.sections[i].alloc = alloc
                                            /\ img.sections[i].of = of})

\* addSection, without a segment.
addSection(img, kind, alloc, of) ==
  [img EXCEPT !.sections = Append(@, NewSection(kind, alloc, of))]

\* The image with such a section, created if it is not there yet.
WithSection(img, kind, alloc, of) ==
  IF SectionOf(img, kind, alloc, of) # 0 THEN img ELSE addSection(img, kind, alloc, of)

\* Fault: the section's number is taken when it has been added already.
addSectionTo_CountedTwice(img, kind, alloc, s) ==
  [addSection(img, kind, alloc, 0)
     EXCEPT !.segments[s].sections = Append(@, Len(img.sections) + 2)]

\* addSection in segment s.
addSectionTo(img, kind, alloc, s) ==
  [addSection(img, kind, alloc, 0)
     EXCEPT !.segments[s].sections = Append(@, Len(img.sections) + 1)]

initSegment(img, type, writable) ==
  [img EXCEPT !.segments = Append(@, [type |-> type, writable |-> writable,
                                      sections |-> << >>])]

\* Where data of this alignment would go.
nextDataOffset(img, i, align) == AlignUp(img.sections[i].size, align)

\* Data behind the data that is there, aligned; the section takes the largest alignment.
addData(img, i, size, align) ==
  [img EXCEPT !.sections[i].size = AlignUp(@, align) + size,
              !.sections[i].align = Larger(@, align)]

setMemory(img, i, size, align) ==
  [img EXCEPT !.sections[i].memsize = size, !.sections[i].memalign = align]

\* The first symbol of a table comes after an undefined one.
addSymbol(img, type, section, value) ==
  LET made == WithSection(img, "symtab", "none", 0)
      table == SectionOf(made, "symtab", "none", 0)
      null == IF img.symbols = << >>
              THEN <<[type |-> "notype", section |-> 0, value |-> 0]>> ELSE << >>
      more == null \o <<[type |-> type, section |-> section, value |-> value]>>
  IN [addData(made, table, Len(more) * EntrySize, FileAlign) EXCEPT !.symbols = @ \o more]

\* A section's relocations have a section of their own, and need the symbol table.
addRelocation(img, section) ==
  LET made == WithSection(WithSection(img, "symtab", "none", 0), "rela", "none", section)
  IN addData(made, SectionOf(made, "rela", "none", section), EntrySize, FileAlign)

\* A version note: its header, name and description are of this many words.
NoteSize == 6
addNote(img, version) ==
  LET made == WithSection(img, "note", "none", 0)
  IN [addData(made, SectionOf(made, "note", "none", 0), NoteSize, 1)
        EXCEPT !.versions = Append(@, version)]

-----------------------------------------------------------------------------
(* Writing.                                                                *)

NoBits(sec) == sec.kind = "bss"

\* GElfSection::push: what a section is in the file.
ShSize(sec) == IF NoBits(sec) THEN sec.memsize ELSE sec.size
ShAlign(sec) == Larger(IF NoBits(sec) THEN sec.memalign ELSE sec.align, FileAlign)
FileSize(sec) == IF NoBits(sec) THEN 0 ELSE ShSize(sec)

memSize(sec) == IF sec.memsize # 0 THEN sec.memsize ELSE sec.size
\* Fault: the alignment of the data is left out.
memAlign_SetOnly(sec) == sec.memalign

memAlign(sec) == IF sec.memalign # 0 THEN sec.memalign ELSE sec.align

\* libelf lays the sections out in the order of their numbers.
Offsets(img) ==
  LET end[i \in 0 .. Len(img.sections)] ==
        IF i = 0 THEN HeaderSize
        ELSE AlignUp(end[i-1], ShAlign(img.sections[i])) + FileSize(img.sections[i])
  IN [i \in DOMAIN img.sections |-> end[i] - FileSize(img.sections[i])]

\* GElfSegment::push, from the end of the segment before: the segment starts where its
\* first section does in the file; in memory each section is aligned.
SegmentPush(img, s, vaddr, offsets) ==
  LET secs == img.segments[s].sections
      align(k) == Larger(memAlign(img.sections[secs[k]]), 1)
      p_align == Max({1} \cup {align(k) : k \in DOMAIN secs})
      place[k \in 0 .. Len(secs)] ==
        IF k = 0 THEN [addr |-> 0, memsz |-> 0, filesz |-> 0]
        ELSE LET at == AlignUp(place[k-1].memsz, align(k))
             IN [addr   |-> at,
                 memsz  |-> at + memSize(img.sections[secs[k]]),
                 filesz |-> AlignUp(place[k-1].filesz, align(k))
                              + FileSize(img.sections[secs[k]])]
      base == AlignUp(vaddr, p_align)
  IN [type   |-> img.segments[s].type,
      vaddr  |-> base,
      offset |-> IF secs = << >> THEN 0 ELSE offsets[secs[1]],
      imageSize |-> place[Len(secs)].filesz,
      memSize   |-> place[Len(secs)].memsz,
      addrs  |-> [k \in DOMAIN secs |-> base + place[k].addr]]

\* Fault: a segment is put where the one before ends in the file.
Segments_FileEnd(img, offsets) ==
  LET pushed[s \in 0 .. Len(img.segments)] ==
        IF s = 0 THEN << >>
        ELSE LET before == pushed[s-1]
                 end == IF before = << >> THEN 0
                        ELSE before[s-1].vaddr + before[s-1].imageSize
             IN Append(before, SegmentPush(img, s, end, offsets))
  IN pushed[Len(img.segments)]

\* push0: the sections, then the segments one behind the other.
Segments(img, offsets) ==
  LET pushed[s \in 0 .. Len(img.segments)] ==
        IF s = 0 THEN << >>
        ELSE LET before == pushed[s-1]
                 end == IF before = << >> THEN 0
                        ELSE before[s-1].vaddr + before[s-1].memSize
             IN Append(before, SegmentPush(img, s, end, offsets))
  IN pushed[Len(img.segments)]

\* updateAddr: a section in no segment stays at 0.
Addr(img, segments, i) ==
  Max({0} \cup UNION {{segments[s].addrs[k] : k \in {k \in DOMAIN segments[s].addrs :
                                                     img.segments[s].sections[k] = i}}
                      : s \in DOMAIN segments})

=============================================================================
