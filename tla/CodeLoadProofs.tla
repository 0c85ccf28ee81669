----------------------------- MODULE CodeLoadProofs -----------------------------
(***************************************************************************)
(* Proofs about the code object of CodeLoad, for every alignment, every    *)
(* size and every bound: whatever calls of AmdHsaCode a finalizer makes,   *)
(* the image stays well formed, the segments that are read back are as     *)
(* the loader needs them, loading fails only over what is lacking, the     *)
(* address that is found holds the kernel, and the sections of tidy        *)
(* segments are at their addresses.                                        *)
(*                                                                         *)
(* The places of sections and segments are recursive functions.  What      *)
(* they compute is shown by induction up to a bound (LeastNumber): first   *)
(* that such a function is there, then what each of its values is.         *)
(***************************************************************************)
EXTENDS CodeLoadProps, Integers, LeastNumber, SequenceTheorems, TLAPS

LOCAL INSTANCE FiniteSetsExt

-----------------------------------------------------------------------------
(* Rounding up to an alignment, and the greatest of some numbers.          *)

\* Rounding down to a multiple.
LEMMA QuotientBounds ==
  ASSUME NEW a \in Nat \ {0}, NEW y \in Nat
  PROVE  /\ y \div a \in Nat
         /\ (y \div a) * a \in Nat
         /\ (y \div a) * a <= y
         /\ y < (y \div a) * a + a
<1>1. /\ y = (y \div a) * a + (y % a)
      /\ y \div a \in Nat /\ y % a \in 0 .. a - 1
  OBVIOUS
<1> DEFINE q == y \div a
<1> HIDE DEF q
<1>2. q * a \in Nat
  BY <1>1 DEF q
<1> QED
  BY <1>1, <1>2 DEF q

\* The next multiple is at least a further on.
LEMMA Times ==
  ASSUME NEW d \in Int, NEW a \in Nat
  PROVE  d >= 1 => d * a >= a
  OBVIOUS

\* Rounding down keeps the order.
LEMMA QuotientMonotone ==
  ASSUME NEW a \in Nat \ {0}, NEW x \in Nat, NEW y \in Nat, x <= y
  PROVE  (x \div a) * a <= (y \div a) * a
<1>1. PICK q \in Nat, r \in Nat : q = x \div a /\ r = y \div a
  BY QuotientBounds
<1>2. /\ q * a \in Nat /\ r * a \in Nat
      /\ q * a <= x /\ y < r * a + a
  BY <1>1, QuotientBounds
<1>3. q - r >= 1 => (q - r) * a >= a
  BY Times
<1>4. (q - r) * a = q * a - r * a
  OBVIOUS
<1>5. PICK A \in Nat, B \in Nat : A = q * a /\ B = r * a
  BY <1>2
<1>6. A <= x /\ y < B + a /\ (q - r >= 1 => A - B >= a)
  BY <1>2, <1>3, <1>4, <1>5
<1>7. A - B < a
  BY <1>6
<1>8. q <= r
  BY <1>6, <1>7
<1>9. A <= B
  <2>1. r - q \in Nat
    BY <1>8
  <2>2. (r - q) * a \in Nat
    BY <2>1
  <2>3. (r - q) * a = B - A
    BY <1>5
  <2> QED
    BY <2>2, <2>3
<1> QED
  BY <1>1, <1>5, <1>9

\* Rounding up gives a number that is not less, and keeps the order.
LEMMA AlignUpIs ==
  ASSUME NEW x \in Nat, NEW a \in Nat \ {0}
  PROVE  AlignUp(x, a) \in Nat /\ x <= AlignUp(x, a) /\ AlignUp(x, a) < x + a
<1> DEFINE y == x + a - 1
           p == (y \div a) * a
<1>1. y \in Nat /\ AlignUp(x, a) = p
  BY DEF AlignUp
<1>2. p \in Nat /\ p <= y /\ y < p + a
  BY <1>1, QuotientBounds
<1> HIDE DEF p
<1> QED
  BY <1>1, <1>2

\* The larger of two numbers is not below the other after rounding up.
LEMMA AlignUpMonotone ==
  ASSUME NEW x \in Nat, NEW y \in Nat, NEW a \in Nat \ {0}, x <= y
  PROVE  AlignUp(x, a) <= AlignUp(y, a)
<1>1. x + a - 1 \in Nat /\ y + a - 1 \in Nat /\ x + a - 1 <= y + a - 1
  OBVIOUS
<1> QED
  BY <1>1, QuotientMonotone DEF AlignUp

\* 0 is aligned.
LEMMA AlignUpZero ==
  ASSUME NEW a \in Nat \ {0}
  PROVE  AlignUp(0, a) = 0
<1>1. AlignUp(0, a) = ((a - 1) \div a) * a
  BY DEF AlignUp
<1>2. PICK q \in Nat : q = (a - 1) \div a
  BY QuotientBounds
<1>3. q * a \in Nat /\ q * a <= a - 1
  BY <1>2, QuotientBounds
<1>4. q >= 1 => q * a >= a
  BY Times
<1>5. PICK p \in Nat : p = q * a
  BY <1>3
<1>6. q = 0
  BY <1>3, <1>4, <1>5
<1> QED
  BY <1>1, <1>2, <1>6

\* What is rounded up behind a multiple.
LEMMA AlignUpBehind ==
  ASSUME NEW a \in Nat \ {0}, NEW q \in Nat, NEW x \in Nat
  PROVE  AlignUp(q * a + x, a) = q * a + AlignUp(x, a)
<1>1. q * a \in Nat
  OBVIOUS
<1>2. PICK A \in Nat, y \in Nat : A = q * a /\ y = x + a - 1
  BY <1>1
<1>3. A + y \in Nat /\ q * a + x + a - 1 = A + y
  BY <1>2
<1>4. PICK p \in Nat, r \in Nat : p = y \div a /\ r = (A + y) \div a
  BY <1>3, QuotientBounds
<1>5. /\ p * a \in Nat /\ p * a <= y /\ y < p * a + a
      /\ r * a \in Nat /\ r * a <= A + y /\ A + y < r * a + a
  BY <1>3, <1>4, QuotientBounds
<1>6. PICK P \in Nat, R \in Nat : P = p * a /\ R = r * a
  BY <1>5
<1>7. (r - q - p) * a = R - A - P /\ (q + p - r) * a = A + P - R
  BY <1>2, <1>6
<1>8. r - q - p >= 1 => R - A - P >= a
  BY <1>7, Times
<1>9. q + p - r >= 1 => A + P - R >= a
  BY <1>7, Times
<1>10. P <= y /\ y < P + a /\ R <= A + y /\ A + y < R + a
  BY <1>5, <1>6
<1>11. r = q + p
  BY <1>8, <1>9, <1>10
<1>12. R = A + P
  BY <1>7, <1>11
<1>13. AlignUp(q * a + x, a) = R
  BY <1>3, <1>4, <1>6 DEF AlignUp
<1>14. AlignUp(x, a) = P
  BY <1>2, <1>4, <1>6 DEF AlignUp
<1> QED
  BY <1>2, <1>12, <1>13, <1>14

\* A multiple of a multiple is one.
LEMMA MultipleOfMultiple ==
  ASSUME NEW a \in Nat, NEW m \in Nat, NEW q \in Nat
  PROVE  q * m \in Nat /\ q * (m * a) = (q * m) * a
OBVIOUS

\* A finite set of numbers that holds one has a greatest one.
LEMMA MaxUpTo ==
  ASSUME NEW n \in Nat, NEW S \in SUBSET (0 .. n), S # {}
  PROVE  Max(S) \in S /\ \A j \in S : Max(S) >= j
<1>1. \E i \in S : \A j \in S : i >= j
  BY GreatestElement
<1> QED
  BY <1>1 DEF Max

-----------------------------------------------------------------------------
(* Images.                                                                 *)

\* What the parts of an image are made of, and images themselves.
SegmentTypeNames == Allocs \cup {"code_agent"}

\* The alignments of data.
Aligns == {0, 1, FileAlign, KernelAlign} \cup {piece.align : piece \in Pieces}

SectionRecords ==
  [kind : DataKinds \cup {"hsatext", "note", "symtab", "rela", "imageinit", "samplerinit"},
   alloc : Allocs \cup {"code_agent", "none"},
   of : 0 .. SectionLimit,
   size : Nat, align : Aligns, memsize : Nat, memalign : Nat]

SegmentRecords == [type : SegmentTypeNames, writable : BOOLEAN, sections : Seq(Nat)]

SymbolRecords == [type : {"notype", "kernel", "object", "metadata"}, section : Nat, value : Nat]

Images == [sections : Seq(SectionRecords), segments : Seq(SegmentRecords),
           symbols : Seq(SymbolRecords), versions : Seq(Nat)]

\* No memory was set for it.
Unset(sec) == sec.memsize = 0 /\ sec.memalign = 0

\* No section is in two segments, or twice in one.
Listed(segments, i, s, k) ==
  s \in DOMAIN segments /\ k \in DOMAIN segments[s].sections /\ segments[s].sections[k] = i

ListedOnce(segments) ==
  \A i, s, k, t, m : Listed(segments, i, s, k) /\ Listed(segments, i, t, m) => s = t /\ k = m

\* Segments and symbols name sections there are, segments each of them once, and only bss
\* has memory that was set.
ImageOK(im) ==
  /\ im \in Images
  /\ \A i \in DOMAIN im.sections : im.sections[i].kind # "bss" => Unset(im.sections[i])
  /\ \A s \in DOMAIN im.segments : im.segments[s].sections \in Seq(DOMAIN im.sections)
  /\ ListedOnce(im.segments)
  /\ \A j \in DOMAIN im.symbols : im.symbols[j].section \in 0 .. Len(im.sections)

\* They are numbers, and those the methods use are among them.
LEMMA AlignsAre ==
  /\ Aligns \subseteq Nat
  /\ {1, FileAlign, KernelAlign} \subseteq Aligns \ {0}
  /\ \A piece \in Pieces : piece.align \in Aligns \ {0}
<1>1. \A piece \in Pieces : piece.align \in Nat \ {0}
  BY HsaCodeAssumption
<1>2. FileAlign \in Nat \ {0} /\ KernelAlign \in Nat \ {0}
  BY HsaCodeAssumption, ElfImageAssumption
<1> QED
  BY <1>1, <1>2 DEF Aligns

\* What an image is made of, list by list.
LEMMA ImageParts ==
  ASSUME NEW im, ImageOK(im)
  PROVE  /\ im.sections \in Seq(SectionRecords) /\ im.segments \in Seq(SegmentRecords)
         /\ im.symbols \in Seq(SymbolRecords) /\ im.versions \in Seq(Nat)
         /\ Len(im.sections) \in Nat /\ DOMAIN im.sections = 1 .. Len(im.sections)
         /\ Len(im.segments) \in Nat /\ DOMAIN im.segments = 1 .. Len(im.segments)
         /\ Len(im.symbols) \in Nat /\ DOMAIN im.symbols = 1 .. Len(im.symbols)
         /\ \A i \in 1 .. Len(im.sections) : im.sections[i] \in SectionRecords
         /\ \A i \in 1 .. Len(im.segments) : im.segments[i] \in SegmentRecords
         /\ \A i \in 1 .. Len(im.symbols) : im.symbols[i] \in SymbolRecords
<1>1. /\ im.sections \in Seq(SectionRecords) /\ im.segments \in Seq(SegmentRecords)
      /\ im.symbols \in Seq(SymbolRecords) /\ im.versions \in Seq(Nat)
  BY DEF ImageOK, Images
<1> QED
  BY <1>1, ElementOfSeq

\* SectionOf finds the last section of a kind, and 0 only if there is none.
LEMMA SectionOfIs ==
  ASSUME NEW im, ImageOK(im), NEW kind, NEW alloc, NEW of
  PROVE  /\ SectionOf(im, kind, alloc, of) \in 0 .. Len(im.sections)
         /\ SectionOf(im, kind, alloc, of) # 0 =>
              LET sec == im.sections[SectionOf(im, kind, alloc, of)]
              IN sec.kind = kind /\ sec.alloc = alloc /\ sec.of = of
         /\ \A i \in DOMAIN im.sections :
              /\ im.sections[i].kind = kind /\ im.sections[i].alloc = alloc
              /\ im.sections[i].of = of
              => SectionOf(im, kind, alloc, of) >= i
<1> DEFINE Has(i) == /\ im.sections[i].kind = kind
                     /\ im.sections[i].alloc = alloc
                     /\ im.sections[i].of = of
           S == {0} \cup {i \in DOMAIN im.sections : Has(i)}
<1>1. Len(im.sections) \in Nat /\ DOMAIN im.sections = 1 .. Len(im.sections)
  BY ImageParts
<1>2. S \in SUBSET (0 .. Len(im.sections)) /\ S # {}
  BY <1>1
<1>3. SectionOf(im, kind, alloc, of) = Max(S)
  BY DEF SectionOf
<1> HIDE DEF S
<1>4. Max(S) \in S /\ \A j \in S : Max(S) >= j
  BY <1>1, <1>2, MaxUpTo
<1> QED
  BY <1>2, <1>3, <1>4 DEF S

\* A new section goes to the end, where SectionOf finds it.
LEMMA AddSectionOK ==
  ASSUME NEW im, ImageOK(im), NEW kind, NEW alloc, NEW of \in 0 .. SectionLimit,
         kind \in DataKinds \cup {"hsatext", "note", "symtab", "rela", "imageinit", "samplerinit"},
         alloc \in Allocs \cup {"code_agent", "none"}
  PROVE  /\ ImageOK(addSection(im, kind, alloc, of))
         /\ addSection(im, kind, alloc, of).sections = Append(im.sections, NewSection(kind, alloc, of))
         /\ SectionOf(addSection(im, kind, alloc, of), kind, alloc, of) = Len(im.sections) + 1
<1> DEFINE new == NewSection(kind, alloc, of)
           im2 == addSection(im, kind, alloc, of)
           n == Len(im.sections)
<1>1. new \in SectionRecords /\ Unset(new) /\ new.kind = kind /\ new.alloc = alloc /\ new.of = of
  BY DEF NewSection, SectionRecords, Unset, Aligns
<1>2. /\ im2.sections = Append(im.sections, new) /\ im2.segments = im.segments
      /\ im2.symbols = im.symbols /\ im2.versions = im.versions
  BY DEF addSection, ImageOK, Images
<1>3. im.sections \in Seq(SectionRecords) /\ n \in Nat /\ DOMAIN im.sections = 1 .. n
  BY ImageParts
<1> HIDE DEF new, im2, n
<1>4. /\ im2.sections \in Seq(SectionRecords) /\ Len(im2.sections) = n + 1
      /\ DOMAIN im2.sections = 1 .. n + 1
      /\ im2.sections[n + 1] = new
      /\ \A i \in 1 .. n : im2.sections[i] = im.sections[i]
  BY <1>1, <1>2, <1>3 DEF n
<1>5. im2 \in Images
  <2>1. Append(im.sections, new) \in Seq(SectionRecords)
    BY <1>2, <1>4
  <2> QED
    BY <2>1 DEF im2, new, addSection, ImageOK, Images
<1>6. \A i \in DOMAIN im2.sections : im2.sections[i].kind # "bss" => Unset(im2.sections[i])
  BY <1>1, <1>3, <1>4 DEF ImageOK
<1>7. \A s \in DOMAIN im2.segments : im2.segments[s].sections \in Seq(DOMAIN im2.sections)
  <2> SUFFICES ASSUME NEW s \in DOMAIN im.segments PROVE im.segments[s].sections \in Seq(1 .. n + 1)
    BY <1>2, <1>4
  <2>1. im.segments[s].sections \in Seq(1 .. n)
    BY <1>3 DEF ImageOK
  <2> QED
    BY <2>1, <1>3, SeqMonotonic
<1>8. \A j \in DOMAIN im2.symbols : im2.symbols[j].section \in 0 .. Len(im2.sections)
  <2> SUFFICES ASSUME NEW j \in DOMAIN im.symbols PROVE im.symbols[j].section \in 0 .. n + 1
    BY <1>2, <1>4
  <2>1. im.symbols[j].section \in 0 .. n
    BY DEF ImageOK, n
  <2> QED
    BY <2>1, <1>3
<1>9. ImageOK(im2)
  <2>1. ListedOnce(im2.segments)
    BY <1>2 DEF ImageOK
  <2> QED
    BY <1>5, <1>6, <1>7, <1>8, <2>1 DEF ImageOK
<1>10. SectionOf(im2, kind, alloc, of) = n + 1
  <2>1. SectionOf(im2, kind, alloc, of) \in 0 .. n + 1
    BY <1>4, <1>9, SectionOfIs
  <2>2. SectionOf(im2, kind, alloc, of) >= n + 1
    BY <1>1, <1>3, <1>4, <1>9, SectionOfIs
  <2> QED
    BY <2>1, <2>2, <1>3
<1> QED
  BY <1>2, <1>9, <1>10 DEF new, im2, n

\* Afterwards the section is there, whether it was before or not.
LEMMA WithSectionOK ==
  ASSUME NEW im, ImageOK(im), NEW kind, NEW alloc, NEW of \in 0 .. SectionLimit,
         kind \in DataKinds \cup {"hsatext", "note", "symtab", "rela", "imageinit", "samplerinit"},
         alloc \in Allocs \cup {"code_agent", "none"}
  PROVE  LET made == WithSection(im, kind, alloc, of)
         IN /\ ImageOK(made)
            /\ SectionOf(made, kind, alloc, of) \in DOMAIN made.sections
            /\ Len(made.sections) >= Len(im.sections)
            /\ made.symbols = im.symbols /\ made.segments = im.segments /\ made.versions = im.versions
<1> DEFINE made == WithSection(im, kind, alloc, of)
<1>1. Len(im.sections) \in Nat /\ DOMAIN im.sections = 1 .. Len(im.sections)
  BY ImageParts
<1>2. CASE SectionOf(im, kind, alloc, of) # 0
  <2>1. made = im
    BY <1>2 DEF WithSection
  <2>2. SectionOf(im, kind, alloc, of) \in 1 .. Len(im.sections)
    BY <1>1, <1>2, SectionOfIs
  <2> QED
    BY <1>1, <2>1, <2>2
<1>3. CASE SectionOf(im, kind, alloc, of) = 0
  <2>1. made = addSection(im, kind, alloc, of)
    BY <1>3 DEF WithSection
  <2>2. /\ ImageOK(made) /\ made.sections = Append(im.sections, NewSection(kind, alloc, of))
        /\ SectionOf(made, kind, alloc, of) = Len(im.sections) + 1
    BY <2>1, AddSectionOK
  <2>3. made.symbols = im.symbols /\ made.segments = im.segments /\ made.versions = im.versions
    BY <2>1 DEF addSection, ImageOK, Images
  <2>4. Len(made.sections) = Len(im.sections) + 1 /\ DOMAIN made.sections = 1 .. Len(im.sections) + 1
    BY <2>2, ImageParts
  <2>5. /\ SectionOf(made, kind, alloc, of) \in DOMAIN made.sections
        /\ Len(made.sections) >= Len(im.sections)
    <3> HIDE DEF made
    <3> QED
      BY <1>1, <2>2, <2>4
  <2> QED
    BY <2>2, <2>3, <2>5
<1> QED
  BY <1>2, <1>3

\* A new segment has no sections.
LEMMA InitSegmentOK ==
  ASSUME NEW im, ImageOK(im), NEW type \in SegmentTypeNames, NEW writable \in BOOLEAN
  PROVE  /\ ImageOK(initSegment(im, type, writable))
         /\ initSegment(im, type, writable).sections = im.sections
         /\ \A i, s, k :
              Listed(initSegment(im, type, writable).segments, i, s, k) =>
                /\ Listed(im.segments, i, s, k)
                /\ initSegment(im, type, writable).segments[s].type = im.segments[s].type
<1> DEFINE im2 == initSegment(im, type, writable)
           new == [type |-> type, writable |-> writable, sections |-> << >>]
           n == Len(im.segments)
<1>1. new \in SegmentRecords /\ new.sections = << >>
  BY DEF SegmentRecords
<1>2. /\ im2.segments = Append(im.segments, new) /\ im2.sections = im.sections
      /\ im2.symbols = im.symbols
  BY DEF initSegment, ImageOK, Images
<1>3. im.segments \in Seq(SegmentRecords) /\ n \in Nat /\ DOMAIN im.segments = 1 .. n
  BY ImageParts
<1> HIDE DEF new, n
<1>4. Append(im.segments, new) \in Seq(SegmentRecords)
  BY <1>1, <1>3
<1>5. im2 \in Images
  BY <1>4 DEF new, initSegment, ImageOK, Images
<1> HIDE DEF im2
<1>6. \A s \in DOMAIN im2.segments : im2.segments[s].sections \in Seq(DOMAIN im2.sections)
  <2>1. /\ DOMAIN im2.segments = 1 .. n + 1 /\ im2.segments[n + 1] = new
        /\ \A s \in 1 .. n : im2.segments[s] = im.segments[s]
    BY <1>1, <1>2, <1>3 DEF n
  <2>2. \A s \in 1 .. n : im.segments[s].sections \in Seq(DOMAIN im.sections)
    BY <1>3 DEF ImageOK
  <2>3. << >> \in Seq(DOMAIN im.sections)
    OBVIOUS
  <2> SUFFICES ASSUME NEW s \in 1 .. n + 1
               PROVE  im2.segments[s].sections \in Seq(DOMAIN im.sections)
    BY <1>2, <2>1
  <2>4. CASE s = n + 1
    BY <1>1, <2>1, <2>3, <2>4
  <2>5. CASE s \in 1 .. n
    BY <2>1, <2>2, <2>5
  <2> QED
    BY <1>3, <2>4, <2>5
<1>7. \A i, s, k : Listed(im2.segments, i, s, k) =>
        Listed(im.segments, i, s, k) /\ im2.segments[s].type = im.segments[s].type
  <2>1. /\ DOMAIN im2.segments = 1 .. n + 1 /\ im2.segments[n + 1] = new
        /\ \A s \in 1 .. n : im2.segments[s] = im.segments[s]
    BY <1>1, <1>2, <1>3 DEF n
  <2>2. ASSUME NEW i, NEW s, NEW k, Listed(im2.segments, i, s, k)
        PROVE  Listed(im.segments, i, s, k) /\ im2.segments[s].type = im.segments[s].type
    <3>1. s # n + 1
      BY <1>1, <2>1, <2>2 DEF Listed
    <3>2. s \in 1 .. n
      BY <1>3, <2>1, <2>2, <3>1 DEF Listed
    <3> QED
      BY <1>3, <2>1, <2>2, <3>2 DEF Listed
  <2> QED
    BY <2>2
<1>8. ListedOnce(im2.segments)
  BY <1>7 DEF ListedOnce, ImageOK
<1>9. ImageOK(im2)
  BY <1>2, <1>5, <1>6, <1>8 DEF ImageOK
<1> QED
  BY <1>2, <1>7, <1>9 DEF im2

\* The new section is one of those of its segment.
LEMMA AddSectionToOK ==
  ASSUME NEW im, ImageOK(im), NEW kind, NEW alloc, NEW s \in DOMAIN im.segments,
         kind \in DataKinds \cup {"hsatext", "note", "symtab", "rela", "imageinit", "samplerinit"},
         alloc \in Allocs \cup {"code_agent", "none"}
  PROVE  /\ ImageOK(addSectionTo(im, kind, alloc, s))
         /\ addSectionTo(im, kind, alloc, s).sections = Append(im.sections, NewSection(kind, alloc, 0))
         /\ addSectionTo(im, kind, alloc, s).symbols = im.symbols
         /\ \A i, t, k :
              Listed(addSectionTo(im, kind, alloc, s).segments, i, t, k) =>
                /\ addSectionTo(im, kind, alloc, s).segments[t].type = im.segments[t].type
                /\ (i = Len(im.sections) + 1 /\ t = s) \/ Listed(im.segments, i, t, k)
<1> DEFINE mid == addSection(im, kind, alloc, 0)
           im2 == addSectionTo(im, kind, alloc, s)
           n == Len(im.sections)
           list == Append(im.segments[s].sections, n + 1)
<1>0. 0 \in 0 .. SectionLimit /\ n \in Nat /\ DOMAIN im.sections = 1 .. n
  BY HsaCodeAssumption, ImageParts
<1>1. ImageOK(mid) /\ mid.sections = Append(im.sections, NewSection(kind, alloc, 0))
  BY <1>0, AddSectionOK
<1>2. mid.segments = im.segments /\ mid.symbols = im.symbols
  BY DEF addSection, ImageOK, Images
<1>3. /\ im2.segments = [im.segments EXCEPT ![s].sections = list]
      /\ im2.sections = mid.sections /\ im2.symbols = mid.symbols
  BY <1>1, <1>2 DEF addSectionTo, ImageOK, Images
<1>4. Len(mid.sections) = n + 1 /\ DOMAIN mid.sections = 1 .. n + 1
  BY <1>1, ImageParts
<1>5. list \in Seq(1 .. n + 1) /\ list \in Seq(Nat)
  <2>1. im.segments[s].sections \in Seq(1 .. n + 1)
    BY <1>0, <1>1, <1>2, <1>4 DEF ImageOK
  <2>2. n + 1 \in 1 .. n + 1
    BY <1>0
  <2>3. list \in Seq(1 .. n + 1)
    BY <2>1, <2>2
  <2>4. Seq(1 .. n + 1) \subseteq Seq(Nat)
    BY SeqMonotonic
  <2> QED
    BY <2>3, <2>4
<1> HIDE DEF list, n
<1>6. im2 \in Images
  <2>1. [im.segments EXCEPT ![s].sections = list] \in Seq(SegmentRecords)
    <3>1. im.segments \in Seq(SegmentRecords) /\ s \in 1 .. Len(im.segments)
      BY ImageParts
    <3>2. im.segments[s] \in SegmentRecords
      BY <3>1, ElementOfSeq
    <3>3. [im.segments[s] EXCEPT !.sections = list] \in SegmentRecords
      BY <1>5, <3>2 DEF SegmentRecords
    <3> QED
      BY <3>1, <3>3
  <2>2. im2 = [mid EXCEPT !.segments = [im.segments EXCEPT ![s].sections = list]]
    BY <1>2 DEF addSectionTo, list, n
  <2>3. mid \in Images
    BY <1>1 DEF ImageOK
  <2> HIDE DEF im2, mid
  <2> QED
    BY <2>1, <2>2, <2>3 DEF Images
<1> HIDE DEF im2, mid
<1>7. \A t \in DOMAIN im2.segments : im2.segments[t].sections \in Seq(DOMAIN im2.sections)
  <2> SUFFICES ASSUME NEW t \in DOMAIN im.segments
               PROVE  im2.segments[t].sections \in Seq(1 .. n + 1)
    BY <1>3, <1>4
  <2>1. CASE t = s
    <3>1. im2.segments[t].sections = list
      <4>1. im.segments[s] \in SegmentRecords
        BY ImageParts
      <4> QED
        BY <1>3, <2>1, <4>1 DEF SegmentRecords
    <3> QED
      BY <1>5, <3>1
  <2>2. CASE t # s
    <3>1. im2.segments[t] = im.segments[t]
      BY <1>3, <2>2
    <3> QED
      BY <1>1, <1>2, <1>4, <3>1 DEF ImageOK
  <2> QED
    BY <2>1, <2>2
<1>8. /\ ListedOnce(im2.segments)
      /\ \A i, t, k : Listed(im2.segments, i, t, k) =>
           /\ im2.segments[t].type = im.segments[t].type
           /\ (i = n + 1 /\ t = s) \/ Listed(im.segments, i, t, k)
  <2>1. \A t \in DOMAIN im.segments : im.segments[t].sections \in Seq(1 .. n)
    BY <1>0 DEF ImageOK
  <2> DEFINE L == Len(im.segments[s].sections)
  <2>2. /\ L \in Nat /\ DOMAIN im.segments[s].sections = 1 .. L
        /\ DOMAIN list = 1 .. L + 1 /\ list[L + 1] = n + 1
        /\ \A k \in 1 .. L : list[k] = im.segments[s].sections[k]
    BY <1>0, <2>1 DEF list, n
  <2>3. /\ DOMAIN im2.segments = DOMAIN im.segments /\ im2.segments[s].sections = list
        /\ \A t \in DOMAIN im.segments : t # s => im2.segments[t] = im.segments[t]
        /\ \A t \in DOMAIN im.segments : im2.segments[t].type = im.segments[t].type
    <3>1. im.segments[s] \in SegmentRecords
      BY ImageParts
    <3> QED
      BY <1>3, <3>1 DEF SegmentRecords
  <2> HIDE DEF L
  <2>4. ASSUME NEW i, NEW t, NEW k, Listed(im2.segments, i, t, k)
        PROVE  \/ i = n + 1 /\ t = s /\ k = L + 1
               \/ i \in 1 .. n /\ Listed(im.segments, i, t, k)
    <3>1. CASE t = s
      <4>1. k \in 1 .. L + 1 /\ list[k] = i
        BY <2>2, <2>3, <2>4, <3>1 DEF Listed
      <4>2. CASE k = L + 1
        BY <2>2, <3>1, <4>1, <4>2
      <4>3. CASE k # L + 1
        <5>1. k \in 1 .. L
          BY <2>2, <4>1, <4>3
        <5>2. i = im.segments[s].sections[k]
          BY <2>2, <4>1, <5>1
        <5>3. i \in 1 .. n
          <6>1. im.segments[s].sections \in Seq(1 .. n) /\ k \in 1 .. Len(im.segments[s].sections)
            BY <2>1, <5>1 DEF L
          <6> QED
            BY <5>2, <6>1, ElementOfSeq
        <5> QED
          BY <2>2, <3>1, <5>1, <5>2, <5>3 DEF Listed
      <4> QED
        BY <4>2, <4>3
    <3>2. CASE t # s
      <4>1. Listed(im.segments, i, t, k)
        BY <2>3, <2>4, <3>2 DEF Listed
      <4>2. i \in 1 .. n
        <5>1. /\ im.segments[t].sections \in Seq(1 .. n)
              /\ k \in 1 .. Len(im.segments[t].sections)
          BY <2>1, <4>1 DEF Listed
        <5>2. im.segments[t].sections[k] \in 1 .. n
          BY <5>1, ElementOfSeq
        <5> QED
          BY <4>1, <5>2 DEF Listed
      <4> QED
        BY <4>1, <4>2
    <3> QED
      BY <3>1, <3>2
  <2>5. n + 1 \notin 1 .. n
    BY <1>0
  <2>6. ListedOnce(im.segments)
    BY DEF ImageOK
  <2>7. ListedOnce(im2.segments)
    BY <2>4, <2>5, <2>6 DEF ListedOnce
  <2>8. \A i, t, k : Listed(im2.segments, i, t, k) => im2.segments[t].type = im.segments[t].type
    BY <2>3 DEF Listed
  <2> QED
    BY <2>4, <2>7, <2>8
<1>9. ImageOK(im2)
  BY <1>1, <1>2, <1>3, <1>6, <1>7, <1>8 DEF ImageOK
<1> QED
  BY <1>1, <1>2, <1>3, <1>8, <1>9 DEF im2, mid, n

\* Data goes to a section and changes nothing else.
LEMMA AddDataOK ==
  ASSUME NEW im, ImageOK(im), NEW i \in DOMAIN im.sections,
         NEW size \in Nat, NEW align \in Aligns \ {0}
  PROVE  /\ ImageOK(addData(im, i, size, align))
         /\ Len(addData(im, i, size, align).sections) = Len(im.sections)
         /\ DOMAIN addData(im, i, size, align).sections = DOMAIN im.sections
         /\ addData(im, i, size, align).symbols = im.symbols
         /\ addData(im, i, size, align).segments = im.segments
         /\ addData(im, i, size, align).versions = im.versions
<1> DEFINE im2 == addData(im, i, size, align)
           old == im.sections[i]
           new == [old EXCEPT !.size = AlignUp(old.size, align) + size,
                              !.align = Larger(old.align, align)]
<1>1. im2.sections = [im.sections EXCEPT ![i] = new]
  BY DEF addData, ImageOK, Images
<1>2. im2.segments = im.segments /\ im2.symbols = im.symbols /\ im2.versions = im.versions
  BY DEF addData, ImageOK, Images
<1>3. old \in SectionRecords /\ im.sections \in Seq(SectionRecords)
  BY ImageParts
<1>4. new \in SectionRecords /\ new.kind = old.kind /\ (Unset(old) => Unset(new))
  <2>1. old.size \in Nat /\ old.align \in Aligns
    BY <1>3 DEF SectionRecords
  <2>2. AlignUp(old.size, align) + size \in Nat
    <3>1. AlignUp(old.size, align) \in Nat
      BY <2>1, AlignsAre, AlignUpIs, Zenon
    <3> QED
      BY <3>1
  <2>3. Larger(old.align, align) \in Aligns
    BY <2>1 DEF Larger
  <2> HIDE DEF old
  <2> QED
    BY <1>3, <2>2, <2>3 DEF SectionRecords, Unset
<1> HIDE DEF new, im2
<1>5. /\ im2.sections \in Seq(SectionRecords) /\ Len(im2.sections) = Len(im.sections)
      /\ DOMAIN im2.sections = DOMAIN im.sections /\ im2.sections[i] = new
      /\ \A k \in DOMAIN im.sections : k # i => im2.sections[k] = im.sections[k]
  BY <1>1, <1>3, <1>4
<1>6. im2 \in Images
  <2>1. im2 = [im EXCEPT !.sections = im2.sections]
    <3>1. im2 = [im EXCEPT !.sections = [im.sections EXCEPT ![i] = new]]
      BY DEF im2, new, addData, ImageOK, Images
    <3> QED
      BY <1>1, <3>1
  <2> QED
    BY <1>5, <2>1 DEF ImageOK, Images
<1>7. \A k \in DOMAIN im2.sections : im2.sections[k].kind # "bss" => Unset(im2.sections[k])
  BY <1>4, <1>5 DEF ImageOK
<1>8. ImageOK(im2)
  BY <1>2, <1>5, <1>6, <1>7 DEF ImageOK
<1> QED
  BY <1>2, <1>5, <1>8 DEF im2

\* What it changes in the section.
LEMMA AddDataSections ==
  ASSUME NEW im, ImageOK(im), NEW i \in DOMAIN im.sections, NEW size, NEW align
  PROVE  addData(im, i, size, align).sections
           = [im.sections EXCEPT ![i].size = AlignUp(@, align) + size,
                                 ![i].align = Larger(@, align)]
BY DEF addData, ImageOK, Images

\* Only a section without data gets a size in memory of its own.
LEMMA SetMemoryOK ==
  ASSUME NEW im, ImageOK(im), NEW i \in DOMAIN im.sections,
         NEW size \in Nat, NEW align \in Nat, im.sections[i].kind = "bss"
  PROVE  LET im2 == setMemory(im, i, size, align)
         IN /\ ImageOK(im2)
            /\ im2.sections[i].kind = "bss"
            /\ \A k \in DOMAIN im.sections : k # i => im2.sections[k] = im.sections[k]
            /\ Len(im2.sections) = Len(im.sections) /\ DOMAIN im2.sections = DOMAIN im.sections
            /\ im2.symbols = im.symbols
<1> DEFINE im2 == setMemory(im, i, size, align)
           old == im.sections[i]
           new == [old EXCEPT !.memsize = size, !.memalign = align]
<1>1. im2.sections = [im.sections EXCEPT ![i] = new]
  BY DEF setMemory, ImageOK, Images
<1>2. im2.segments = im.segments /\ im2.symbols = im.symbols
  BY DEF setMemory, ImageOK, Images
<1>3. old \in SectionRecords /\ im.sections \in Seq(SectionRecords)
  BY ImageParts
<1>4. new \in SectionRecords /\ new.kind = old.kind
  <2> HIDE DEF old
  <2> QED
    BY <1>3 DEF SectionRecords
<1> HIDE DEF new, im2
<1>5. /\ im2.sections \in Seq(SectionRecords) /\ Len(im2.sections) = Len(im.sections)
      /\ DOMAIN im2.sections = DOMAIN im.sections /\ im2.sections[i] = new
      /\ \A k \in DOMAIN im.sections : k # i => im2.sections[k] = im.sections[k]
  BY <1>1, <1>3, <1>4
<1>6. im2 \in Images
  <2>1. im2 = [im EXCEPT !.sections = im2.sections]
    <3>1. im2 = [im EXCEPT !.sections = [im.sections EXCEPT ![i] = new]]
      BY DEF im2, new, setMemory, ImageOK, Images
    <3> QED
      BY <1>1, <3>1
  <2> QED
    BY <1>5, <2>1 DEF ImageOK, Images
<1>7. \A k \in DOMAIN im2.sections : im2.sections[k].kind # "bss" => Unset(im2.sections[k])
  BY <1>4, <1>5 DEF ImageOK
<1>8. ImageOK(im2)
  BY <1>2, <1>5, <1>6, <1>7 DEF ImageOK
<1> QED
  BY <1>2, <1>4, <1>5, <1>8 DEF im2

\* A symbol, its table and the undefined symbol before the first one.
LEMMA AddSymbolOK ==
  ASSUME NEW im, ImageOK(im), NEW type \in {"kernel", "object", "metadata"},
         NEW section \in DOMAIN im.sections, NEW value \in Nat
  PROVE  LET im2 == addSymbol(im, type, section, value)
         IN /\ ImageOK(im2)
            /\ Len(im2.sections) >= Len(im.sections)
<1> DEFINE made == WithSection(im, "symtab", "none", 0)
           table == SectionOf(made, "symtab", "none", 0)
           null == IF im.symbols = << >>
                   THEN <<[type |-> "notype", section |-> 0, value |-> 0]>> ELSE << >>
           more == null \o <<[type |-> type, section |-> section, value |-> value]>>
           mid == addData(made, table, Len(more) * EntrySize, FileAlign)
           im2 == addSymbol(im, type, section, value)
<1>0. 0 \in 0 .. SectionLimit /\ Len(im.sections) \in Nat /\ DOMAIN im.sections = 1 .. Len(im.sections)
  BY HsaCodeAssumption, ImageParts
<1>1. /\ ImageOK(made) /\ table \in DOMAIN made.sections
      /\ Len(made.sections) >= Len(im.sections) /\ made.symbols = im.symbols
  BY <1>0, WithSectionOK
<1>2. /\ more \in Seq(SymbolRecords) /\ Len(more) \in Nat
      /\ \A j \in DOMAIN more : more[j].section \in {0, section}
  <2>1. /\ [type |-> "notype", section |-> 0, value |-> 0] \in SymbolRecords
        /\ [type |-> type, section |-> section, value |-> value] \in SymbolRecords
    BY <1>0 DEF SymbolRecords
  <2> QED
    BY <2>1
<1> HIDE DEF made, table, more
<1>3. Len(more) * EntrySize \in Nat /\ FileAlign \in Aligns \ {0}
  BY <1>2, ElfImageAssumption, AlignsAre
<1>4. /\ ImageOK(mid) /\ Len(mid.sections) = Len(made.sections) /\ mid.symbols = im.symbols
  BY <1>1, <1>3, AddDataOK
<1>5. im2 = [mid EXCEPT !.symbols = @ \o more]
  BY DEF addSymbol, made, table, more
<1> HIDE DEF mid, im2
<1>6. im.symbols \in Seq(SymbolRecords)
  BY ImageParts
<1>7. im.symbols \o more \in Seq(SymbolRecords)
  BY <1>2, <1>6
<1>8. /\ im2 \in Images /\ im2.sections = mid.sections /\ im2.segments = mid.segments
      /\ im2.symbols = im.symbols \o more
  BY <1>4, <1>5, <1>7 DEF ImageOK, Images
<1>9. \A j \in DOMAIN im2.symbols : im2.symbols[j].section \in 0 .. Len(im2.sections)
  <2> SUFFICES ASSUME NEW j \in DOMAIN (im.symbols \o more)
               PROVE  (im.symbols \o more)[j].section \in 0 .. Len(made.sections)
    BY <1>4, <1>8
  <2>1. Len(made.sections) \in Nat
    BY <1>1, ImageParts
  <2>2. CASE j \in 1 .. Len(im.symbols)
    <3>1. (im.symbols \o more)[j] = im.symbols[j] /\ j \in DOMAIN im.symbols
      BY <1>2, <1>6, <2>2
    <3>2. im.symbols[j].section \in 0 .. Len(im.sections)
      BY <3>1 DEF ImageOK
    <3> QED
      BY <1>0, <1>1, <2>1, <3>1, <3>2
  <2>3. CASE j \notin 1 .. Len(im.symbols)
    <3>1. (im.symbols \o more)[j] = more[j - Len(im.symbols)] /\ j - Len(im.symbols) \in DOMAIN more
      BY <1>2, <1>6, <2>3
    <3>2. more[j - Len(im.symbols)].section \in {0, section}
      BY <1>2, <3>1
    <3> QED
      BY <1>0, <1>1, <2>1, <3>1, <3>2
  <2> QED
    BY <2>2, <2>3
<1>10. ImageOK(im2)
  BY <1>4, <1>8, <1>9 DEF ImageOK
<1> QED
  BY <1>1, <1>4, <1>8, <1>10 DEF im2

\* A relocation needs the symbol table and a table of its own.
LEMMA AddRelocationOK ==
  ASSUME NEW im, ImageOK(im), NEW section \in 0 .. SectionLimit
  PROVE  /\ ImageOK(addRelocation(im, section))
         /\ addRelocation(im, section).symbols = im.symbols
<1> DEFINE first == WithSection(im, "symtab", "none", 0)
           made == WithSection(first, "rela", "none", section)
<1>0. 0 \in 0 .. SectionLimit
  BY HsaCodeAssumption
<1>1. ImageOK(first) /\ first.symbols = im.symbols
  BY <1>0, WithSectionOK
<1>2. ImageOK(made) /\ SectionOf(made, "rela", "none", section) \in DOMAIN made.sections
      /\ made.symbols = im.symbols
  BY <1>1, WithSectionOK
<1>3. addRelocation(im, section) = addData(made, SectionOf(made, "rela", "none", section), EntrySize, FileAlign)
  BY DEF addRelocation
<1> HIDE DEF first, made
<1>4. EntrySize \in Nat /\ FileAlign \in Aligns \ {0}
  BY ElfImageAssumption, AlignsAre
<1> QED
  BY <1>2, <1>3, <1>4, AddDataOK

\* A note of the version of the code object.
LEMMA AddNoteOK ==
  ASSUME NEW im, ImageOK(im), NEW version \in Nat
  PROVE  /\ ImageOK(addNote(im, version))
         /\ addNote(im, version).symbols = im.symbols
<1> DEFINE made == WithSection(im, "note", "none", 0)
           mid == addData(made, SectionOf(made, "note", "none", 0), NoteSize, 1)
           im2 == addNote(im, version)
<1>0. 0 \in 0 .. SectionLimit
  BY HsaCodeAssumption
<1>1. ImageOK(made) /\ SectionOf(made, "note", "none", 0) \in DOMAIN made.sections
      /\ made.symbols = im.symbols
  BY <1>0, WithSectionOK
<1> HIDE DEF made
<1>2. ImageOK(mid) /\ mid.symbols = im.symbols
  <2>1. NoteSize \in Nat /\ 1 \in Aligns \ {0}
    BY AlignsAre DEF NoteSize
  <2> QED
    BY <1>1, <2>1, AddDataOK
<1>3. im2 = [mid EXCEPT !.versions = Append(@, version)]
  BY DEF addNote, made
<1> HIDE DEF mid, im2
<1>4. Append(mid.versions, version) \in Seq(Nat)
  BY <1>2, ImageParts
<1>5. /\ im2 \in Images /\ im2.sections = mid.sections /\ im2.segments = mid.segments
      /\ im2.symbols = mid.symbols
  BY <1>2, <1>3, <1>4 DEF ImageOK, Images
<1> QED
  BY <1>2, <1>5 DEF ImageOK, im2

-----------------------------------------------------------------------------
(* Code: what a call leaves as it is of the sections code is in, and of    *)
(* the symbols of kernels.                                                 *)

\* A section for kernels' code, as SectionOf looks for it.
IsText(sec) == sec.kind = "hsatext" /\ sec.alloc = "code_agent" /\ sec.of = 0

\* Sections stay what they are, and those for code keep their size.
Stays(im, im2) ==
  \A i \in DOMAIN im.sections :
    /\ i \in DOMAIN im2.sections
    /\ im2.sections[i].kind = im.sections[i].kind
    /\ im2.sections[i].alloc = im.sections[i].alloc
    /\ im2.sections[i].of = im.sections[i].of
    /\ im.sections[i].kind = "hsatext" => im2.sections[i].size = im.sections[i].size

\* Segments have the sections they had, and sections without bits are the old ones.
BssFrom(im, im2) ==
  /\ im2.segments = im.segments
  /\ \A i \in DOMAIN im2.sections : im2.sections[i].kind = "bss" =>
       /\ i \in DOMAIN im.sections
       /\ im.sections[i].kind = "bss"
       /\ im.sections[i].alloc = im2.sections[i].alloc
       /\ im.sections[i].of = im2.sections[i].of

Kept(im, im2) == Stays(im, im2) /\ BssFrom(im, im2)

\* There is one section without bits for a segment, and it is in a segment of its kind.
OneBss(im) ==
  /\ \A i, k \in DOMAIN im.sections :
       /\ im.sections[i].kind = "bss" /\ im.sections[k].kind = "bss"
       /\ im.sections[i].alloc = im.sections[k].alloc
       => i = k
  /\ \A i \in DOMAIN im.sections : im.sections[i].kind = "bss" =>
       /\ im.sections[i].of = 0
       /\ \A s, k : Listed(im.segments, i, s, k) => im.sections[i].alloc = im.segments[s].type

\* Symbols of kernels are the old ones, or new ones for an old section.
KernelsFrom(im, im2) ==
  \A j \in DOMAIN im2.symbols : im2.symbols[j].type = "kernel" =>
    \/ j \in DOMAIN im.symbols /\ im2.symbols[j] = im.symbols[j]
    \/ im2.symbols[j].value = 0 /\ im2.symbols[j].section \in DOMAIN im.sections

\* The symbols of kernels are in sections there are.
KernelsInSections(im) ==
  \A j \in DOMAIN im.symbols : im.symbols[j].type = "kernel" =>
    im.symbols[j].section \in DOMAIN im.sections

\* The symbol is of a kernel, in a section for code.
KernelInText(im, j) == /\ im.symbols[j].type = "kernel"
                       /\ im.sections[im.symbols[j].section].kind = "hsatext"

\* There is at most one section for code.
OneText(im) == \A i, k \in DOMAIN im.sections :
  im.sections[i].kind = "hsatext" /\ im.sections[k].kind = "hsatext" => i = k

\* Where code has been added (counted by ad) there is room for a header, and if there
\* is one section for code, the header of each kernel with its symbol there lies in it.
Placed(im, ad) ==
  /\ \A i \in DOMAIN im.sections :
       im.sections[i].kind = "hsatext" /\ ad[i] # 0 => im.sections[i].size >= KernelAlign
  /\ OneText(im) =>
       \A j \in DOMAIN im.symbols : KernelInText(im, j) =>
         IF ad[im.symbols[j].section] = 0 THEN im.symbols[j].value = 0
         ELSE im.symbols[j].value + KernelAlign <= im.sections[im.symbols[j].section].size

\* SectionOf finds a section for code as soon as there is one.
LEMMA TextIsThere ==
  ASSUME NEW im, ImageOK(im)
  PROVE  /\ SectionOf(im, "hsatext", "code_agent", 0) # 0 =>
              /\ SectionOf(im, "hsatext", "code_agent", 0) \in DOMAIN im.sections
              /\ IsText(im.sections[SectionOf(im, "hsatext", "code_agent", 0)])
         /\ (\E i \in DOMAIN im.sections : IsText(im.sections[i])) =>
              SectionOf(im, "hsatext", "code_agent", 0) # 0
<1> DEFINE i == SectionOf(im, "hsatext", "code_agent", 0)
<1>1. /\ i \in 0 .. Len(im.sections) /\ Len(im.sections) \in Nat
      /\ DOMAIN im.sections = 1 .. Len(im.sections)
  BY SectionOfIs, ImageParts
<1>2. ASSUME i # 0
      PROVE  /\ i \in DOMAIN im.sections /\ IsText(im.sections[i])
  <2>1. i \in DOMAIN im.sections
    BY <1>1, <1>2
  <2>2. im.sections[i].kind = "hsatext" /\ im.sections[i].alloc = "code_agent"
        /\ im.sections[i].of = 0
    BY <1>2, SectionOfIs
  <2> HIDE DEF i
  <2> QED
    BY <2>1, <2>2 DEF IsText
<1>3. ASSUME NEW k \in DOMAIN im.sections, IsText(im.sections[k]) PROVE i # 0
  <2>1. i >= k
    BY <1>3, SectionOfIs DEF IsText
  <2> HIDE DEF i
  <2> QED
    BY <1>1, <2>1
<1> HIDE DEF i
<1> QED
  BY <1>2, <1>3 DEF i

\* One call after another.
LEMMA KeptTwice ==
  ASSUME NEW im, NEW im2, NEW im3, Kept(im, im2), Kept(im2, im3)
  PROVE  Kept(im, im3)
BY DEF Kept, Stays, BssFrom

\* No section without bits, no second one.
LEMMA BssStays ==
  ASSUME NEW im, OneBss(im), NEW im2, BssFrom(im, im2)
  PROVE  OneBss(im2)
BY DEF OneBss, BssFrom

\* A section that is added takes none away,
LEMMA AppendStays ==
  ASSUME NEW im, ImageOK(im), NEW im2, NEW new, im2.sections = Append(im.sections, new)
  PROVE  Stays(im, im2)
<1> SUFFICES ASSUME NEW i \in DOMAIN im.sections
             PROVE  i \in DOMAIN im2.sections /\ im2.sections[i] = im.sections[i]
  BY DEF Stays
<1>1. im.sections \in Seq(SectionRecords)
  BY ImageParts
<1> QED
  BY <1>1

\* nor does looking for one that may be missing,
LEMMA WithSectionKeeps ==
  ASSUME NEW im, ImageOK(im), NEW kind, NEW alloc, NEW of, kind # "bss"
  PROVE  Kept(im, WithSection(im, kind, alloc, of))
<1>1. CASE SectionOf(im, kind, alloc, of) # 0
  BY <1>1 DEF WithSection, Kept, Stays, BssFrom
<1>2. CASE SectionOf(im, kind, alloc, of) = 0
  <2>1. WithSection(im, kind, alloc, of) = addSection(im, kind, alloc, of)
    BY <1>2 DEF WithSection
  <2> DEFINE im2 == addSection(im, kind, alloc, of)
             new == NewSection(kind, alloc, of)
  <2>2. im2.sections = Append(im.sections, new) /\ im2.segments = im.segments
    BY DEF addSection, ImageOK, Images
  <2>3. Stays(im, im2)
    BY <2>2, AppendStays
  <2>4. new.kind # "bss"
    BY DEF NewSection
  <2>5. im.sections \in Seq(SectionRecords)
    BY ImageParts
  <2> HIDE DEF im2, new
  <2>6. \A i \in DOMAIN im2.sections : im2.sections[i].kind = "bss" =>
          i \in DOMAIN im.sections /\ im2.sections[i] = im.sections[i]
    BY <2>2, <2>4, <2>5
  <2>7. BssFrom(im, im2)
    BY <2>2, <2>6 DEF BssFrom
  <2> QED
    BY <2>1, <2>3, <2>7 DEF Kept, im2
<1> QED
  BY <1>1, <1>2

\* whose kind is then the one looked for.
LEMMA WithSectionKind ==
  ASSUME NEW im, ImageOK(im), NEW kind, NEW alloc, NEW of \in 0 .. SectionLimit,
         kind \in DataKinds \cup {"hsatext", "note", "symtab", "rela", "imageinit",
                                  "samplerinit"},
         alloc \in Allocs \cup {"code_agent", "none"}
  PROVE  LET made == WithSection(im, kind, alloc, of)
         IN made.sections[SectionOf(made, kind, alloc, of)].kind = kind
<1> DEFINE made == WithSection(im, kind, alloc, of)
           at == SectionOf(made, kind, alloc, of)
<1>1. ImageOK(made) /\ at \in DOMAIN made.sections
  BY WithSectionOK
<1>2. at # 0
  BY <1>1, ImageParts
<1> QED
  BY <1>1, <1>2, SectionOfIs

\* Data that is not code, and memory without data.
LEMMA AddDataKeeps ==
  ASSUME NEW im, ImageOK(im), NEW i \in DOMAIN im.sections, NEW size, NEW align,
         im.sections[i].kind # "hsatext"
  PROVE  Kept(im, addData(im, i, size, align))
<1> DEFINE new == addData(im, i, size, align).sections
<1>1. new = [im.sections EXCEPT ![i].size = AlignUp(@, align) + size,
                                ![i].align = Larger(@, align)]
  BY AddDataSections
<1>2. DOMAIN new = DOMAIN im.sections
  BY <1>1
<1>0. addData(im, i, size, align).segments = im.segments
  BY DEF addData, ImageOK, Images
<1>3. ASSUME NEW k \in DOMAIN im.sections
      PROVE  /\ new[k].kind = im.sections[k].kind /\ new[k].alloc = im.sections[k].alloc
             /\ new[k].of = im.sections[k].of
  <2>1. im.sections[k] \in SectionRecords
    BY ImageParts
  <2> HIDE DEF new
  <2> QED
    BY <1>1, <2>1 DEF SectionRecords
<1>4. ASSUME NEW k \in DOMAIN im.sections, im.sections[k].kind = "hsatext"
      PROVE  new[k].size = im.sections[k].size
  <2>1. new[k] = im.sections[k]
    <3> HIDE DEF new
    <3> QED
      BY <1>1, <1>4
  <2> QED
    BY <2>1
<1> HIDE DEF new
<1> QED
  BY <1>0, <1>2, <1>3, <1>4 DEF Kept, Stays, BssFrom, new

\* The same for memory.
LEMMA SetMemoryKeeps ==
  ASSUME NEW im, ImageOK(im), NEW i \in DOMAIN im.sections, NEW size, NEW align
  PROVE  Kept(im, setMemory(im, i, size, align))
<1> DEFINE new == setMemory(im, i, size, align).sections
<1>1. new = [im.sections EXCEPT ![i].memsize = size, ![i].memalign = align]
  BY DEF setMemory, ImageOK, Images
<1>2. DOMAIN new = DOMAIN im.sections
  BY <1>1
<1>0. setMemory(im, i, size, align).segments = im.segments
  BY DEF setMemory, ImageOK, Images
<1>3. ASSUME NEW k \in DOMAIN im.sections
      PROVE  /\ new[k].kind = im.sections[k].kind /\ new[k].alloc = im.sections[k].alloc
             /\ new[k].of = im.sections[k].of /\ new[k].size = im.sections[k].size
  <2>1. im.sections[k] \in SectionRecords
    BY ImageParts
  <2> HIDE DEF new
  <2> QED
    BY <1>1, <2>1 DEF SectionRecords
<1> HIDE DEF new
<1> QED
  BY <1>0, <1>2, <1>3 DEF Kept, Stays, BssFrom, new

\* A symbol, the table it needs, and the undefined symbol.
LEMMA AddSymbolKeeps ==
  ASSUME NEW im, ImageOK(im), NEW type, NEW section, NEW value
  PROVE  /\ Kept(im, addSymbol(im, type, section, value))
         /\ \A j \in DOMAIN addSymbol(im, type, section, value).symbols :
              LET sym == addSymbol(im, type, section, value).symbols[j]
              IN sym.type = "kernel" =>
                   \/ j \in DOMAIN im.symbols /\ sym = im.symbols[j]
                   \/ type = "kernel" /\ sym.section = section /\ sym.value = value
<1> DEFINE made == WithSection(im, "symtab", "none", 0)
           table == SectionOf(made, "symtab", "none", 0)
           null == IF im.symbols = << >>
                   THEN <<[type |-> "notype", section |-> 0, value |-> 0]>> ELSE << >>
           more == null \o <<[type |-> type, section |-> section, value |-> value]>>
           mid == addData(made, table, Len(more) * EntrySize, FileAlign)
           im2 == addSymbol(im, type, section, value)
<1>1. /\ ImageOK(made) /\ table \in DOMAIN made.sections /\ made.symbols = im.symbols
      /\ made.sections[table].kind = "symtab"
  <2>1. 0 \in 0 .. SectionLimit
    BY HsaCodeAssumption
  <2> QED
    BY <2>1, WithSectionOK, WithSectionKind
<1>2. Kept(im, made)
  BY WithSectionKeeps
<1>3. \A j \in DOMAIN more : more[j].type = "kernel" =>
        type = "kernel" /\ more[j].section = section /\ more[j].value = value
  OBVIOUS
<1>4. \E V : more \in Seq(V)
  <2> DEFINE a == [type |-> "notype", section |-> 0, value |-> 0]
             b == [type |-> type, section |-> section, value |-> value]
  <2>1. null \in Seq({a, b}) /\ <<b>> \in Seq({a, b})
    <3> HIDE DEF a, b
    <3>1. <<a>> \in Seq({a, b}) /\ << >> \in Seq({a, b}) /\ <<b>> \in Seq({a, b})
      OBVIOUS
    <3>2. null = << >> \/ null = <<a>>
      BY DEF a
    <3> QED
      BY <3>1, <3>2
  <2>2. more = null \o <<b>>
    OBVIOUS
  <2> HIDE DEF more, null, a, b
  <2> QED
    BY <2>1, <2>2, ConcatProperties
<1>5. im2 = [mid EXCEPT !.symbols = @ \o more]
  BY DEF addSymbol
<1> HIDE DEF made, table, more
<1>6. Kept(made, mid)
  BY <1>1, AddDataKeeps
<1>7. /\ im2.sections = mid.sections /\ im2.segments = mid.segments
      /\ im2.symbols = im.symbols \o more
  <2>1. Len(more) * EntrySize \in Nat /\ FileAlign \in Aligns \ {0}
    BY <1>4, ElfImageAssumption, AlignsAre
  <2>2. ImageOK(mid) /\ mid.symbols = im.symbols
    BY <1>1, <2>1, AddDataOK
  <2> HIDE DEF mid
  <2> QED
    BY <1>5, <2>2 DEF ImageOK, Images
<1> HIDE DEF mid, im2
<1>8. Kept(im, im2)
  <2>1. Kept(made, im2)
    BY <1>6, <1>7 DEF Kept, Stays, BssFrom
  <2> QED
    BY <1>2, <2>1, KeptTwice
<1>9. im.symbols \in Seq(SymbolRecords)
  BY ImageParts
<1>10. ASSUME NEW j \in DOMAIN im2.symbols, im2.symbols[j].type = "kernel"
       PROVE  \/ j \in DOMAIN im.symbols /\ im2.symbols[j] = im.symbols[j]
              \/ /\ type = "kernel" /\ im2.symbols[j].section = section
                 /\ im2.symbols[j].value = value
  <2>1. CASE j \in 1 .. Len(im.symbols)
    <3>1. im2.symbols[j] = im.symbols[j] /\ j \in DOMAIN im.symbols
      BY <1>4, <1>7, <1>9, <2>1
    <3> QED
      BY <3>1
  <2>2. CASE j \notin 1 .. Len(im.symbols)
    <3>1. im2.symbols[j] = more[j - Len(im.symbols)] /\ j - Len(im.symbols) \in DOMAIN more
      BY <1>4, <1>7, <1>9, <2>2
    <3> QED
      BY <1>3, <1>10, <3>1
  <2> QED
    BY <2>1, <2>2
<1> QED
  BY <1>8, <1>10 DEF im2

\* The relocation of a variable, and a note.
LEMMA AddRelocationKeeps ==
  ASSUME NEW im, ImageOK(im), NEW section \in 0 .. SectionLimit
  PROVE  Kept(im, addRelocation(im, section))
<1> DEFINE first == WithSection(im, "symtab", "none", 0)
           made == WithSection(first, "rela", "none", section)
           at == SectionOf(made, "rela", "none", section)
<1>0. 0 \in 0 .. SectionLimit
  BY HsaCodeAssumption
<1>1. ImageOK(first) /\ Kept(im, first)
  BY <1>0, WithSectionOK, WithSectionKeeps
<1> HIDE DEF first
<1>2. /\ ImageOK(made) /\ Kept(first, made)
      /\ at \in DOMAIN made.sections /\ made.sections[at].kind = "rela"
  BY <1>1, WithSectionOK, WithSectionKeeps, WithSectionKind
<1>3. addRelocation(im, section) = addData(made, at, EntrySize, FileAlign)
  BY DEF addRelocation, first
<1> HIDE DEF made, at
<1>4. Kept(made, addRelocation(im, section))
  BY <1>2, <1>3, AddDataKeeps
<1> QED
  BY <1>1, <1>2, <1>4, KeptTwice

\* A note leaves them alone.
LEMMA AddNoteKeeps ==
  ASSUME NEW im, ImageOK(im), NEW version
  PROVE  Kept(im, addNote(im, version))
<1> DEFINE made == WithSection(im, "note", "none", 0)
           at == SectionOf(made, "note", "none", 0)
           mid == addData(made, at, NoteSize, 1)
<1>0. 0 \in 0 .. SectionLimit
  BY HsaCodeAssumption
<1>1. /\ ImageOK(made) /\ Kept(im, made)
      /\ at \in DOMAIN made.sections /\ made.sections[at].kind = "note"
  BY <1>0, WithSectionOK, WithSectionKeeps, WithSectionKind
<1>2. addNote(im, version) = [mid EXCEPT !.versions = Append(@, version)]
  BY DEF addNote
<1> HIDE DEF made, at
<1>3. Kept(made, mid)
  BY <1>1, AddDataKeeps
<1>4. ImageOK(mid)
  <2>1. NoteSize \in Nat /\ 1 \in Aligns \ {0}
    BY AlignsAre DEF NoteSize
  <2> QED
    BY <1>1, <2>1, AddDataOK
<1> HIDE DEF mid
<1>5. /\ addNote(im, version).sections = mid.sections
      /\ addNote(im, version).segments = mid.segments
  BY <1>2, <1>4 DEF ImageOK, Images
<1>6. Kept(made, addNote(im, version))
  BY <1>3, <1>5 DEF Kept, Stays, BssFrom
<1> QED
  BY <1>1, <1>6, KeptTwice

-----------------------------------------------------------------------------
(* Writing.                                                                *)

\* A section of a well-formed image.
SectionOK(sec) == sec \in SectionRecords /\ (sec.kind # "bss" => Unset(sec))

\* A section is never larger in the file than in memory.
LEMMA SectionSizes ==
  ASSUME NEW sec, SectionOK(sec)
  PROVE  /\ FileSize(sec) \in Nat /\ memSize(sec) \in Nat /\ FileSize(sec) <= memSize(sec)
         /\ Larger(memAlign(sec), 1) \in Nat \ {0}
<1>1. /\ sec.size \in Nat /\ sec.align \in Nat /\ sec.memsize \in Nat /\ sec.memalign \in Nat
  BY AlignsAre DEF SectionOK, SectionRecords
<1>2. FileSize(sec) \in Nat /\ memSize(sec) \in Nat
  BY <1>1 DEF FileSize, ShSize, memSize
<1>3. FileSize(sec) <= memSize(sec)
  <2>1. CASE NoBits(sec)
    BY <1>1, <1>2, <2>1 DEF FileSize
  <2>2. CASE ~ NoBits(sec)
    <3>1. sec.memsize = 0
      BY <2>2 DEF NoBits, SectionOK, Unset
    <3> QED
      BY <1>1, <2>2, <3>1 DEF FileSize, ShSize, memSize
  <2> QED
    BY <2>1, <2>2
<1>4. memAlign(sec) \in Nat
  BY <1>1 DEF memAlign
<1>5. Larger(memAlign(sec), 1) \in Nat \ {0}
  BY <1>4 DEF Larger
<1> QED
  BY <1>2, <1>3, <1>5

\* How far a segment reaches behind some of its sections, and behind one more.
PlaceRecords == [addr : Nat, memsz : Nat, filesz : Nat]

FirstPlace == [addr |-> 0, memsz |-> 0, filesz |-> 0]

PlaceAfter(sec, before) ==
  LET at == AlignUp(before.memsz, Larger(memAlign(sec), 1))
  IN [addr   |-> at,
      memsz  |-> at + memSize(sec),
      filesz |-> AlignUp(before.filesz, Larger(memAlign(sec), 1)) + FileSize(sec)]

\* The function place of SegmentPush.
IsPlaces(im, secs, f) ==
  f = [k \in 0 .. Len(secs) |->
         IF k = 0 THEN FirstPlace ELSE PlaceAfter(im.sections[secs[k]], f[k - 1])]

Places(im, secs) == CHOOSE f : IsPlaces(im, secs, f)

\* Nor is what is behind a section.
LEMMA PlaceAfterIs ==
  ASSUME NEW sec, SectionOK(sec), NEW before \in PlaceRecords
  PROVE  /\ PlaceAfter(sec, before) \in PlaceRecords
         /\ before.memsz <= PlaceAfter(sec, before).addr
         /\ PlaceAfter(sec, before).memsz = PlaceAfter(sec, before).addr + memSize(sec)
         /\ before.filesz <= before.memsz =>
              PlaceAfter(sec, before).filesz <= PlaceAfter(sec, before).memsz
<1>1. PICK a \in Nat \ {0}, f \in Nat, m \in Nat :
        a = Larger(memAlign(sec), 1) /\ f = FileSize(sec) /\ m = memSize(sec)
  BY SectionSizes
<1>2. f <= m
  BY <1>1, SectionSizes
<1>3. PICK x \in Nat, y \in Nat : x = before.memsz /\ y = before.filesz
  BY DEF PlaceRecords
<1>4. AlignUp(x, a) \in Nat /\ x <= AlignUp(x, a) /\ AlignUp(y, a) \in Nat
  BY AlignUpIs
<1>5. y <= x => AlignUp(y, a) <= AlignUp(x, a)
  BY AlignUpMonotone
<1>6. PICK p \in Nat, q \in Nat : p = AlignUp(x, a) /\ q = AlignUp(y, a)
  BY <1>4
<1>7. PlaceAfter(sec, before) = [addr |-> p, memsz |-> p + m, filesz |-> q + f]
  BY <1>1, <1>3, <1>6 DEF PlaceAfter
<1>8. p + m \in Nat /\ q + f \in Nat
  OBVIOUS
<1>9. y <= x => q + f <= p + m
  BY <1>2, <1>5, <1>6
<1> QED
  BY <1>1, <1>3, <1>4, <1>6, <1>7, <1>8, <1>9 DEF PlaceRecords

\* So neither is a whole segment: by induction over its sections.
LEMMA PlacesAre ==
  ASSUME NEW im, ImageOK(im), NEW secs \in Seq(DOMAIN im.sections)
  PROVE  LET place == Places(im, secs)
         IN /\ \A k \in 0 .. Len(secs) : place[k] \in PlaceRecords
                                         /\ place[k].filesz <= place[k].memsz
            /\ place[0] = FirstPlace
            /\ \A k \in 1 .. Len(secs) : place[k] = PlaceAfter(im.sections[secs[k]], place[k - 1])
<1> DEFINE n == Len(secs)
           next == [k \in 1 .. n |-> [before \in PlaceRecords |->
                                        PlaceAfter(im.sections[secs[k]], before)]]
           place == Places(im, secs)
<1>1. n \in Nat /\ DOMAIN secs = 1 .. n
  OBVIOUS
<1>2. \A k \in 1 .. n : SectionOK(im.sections[secs[k]])
  <2> SUFFICES ASSUME NEW k \in 1 .. n PROVE SectionOK(im.sections[secs[k]])
    OBVIOUS
  <2>1. secs[k] \in DOMAIN im.sections
    BY <1>1, ElementOfSeq
  <2>2. im.sections[secs[k]] \in SectionRecords
    BY <2>1, ImageParts
  <2> QED
    BY <2>1, <2>2 DEF ImageOK, SectionOK
<1>3. next \in [1 .. n -> [PlaceRecords -> PlaceRecords]]
  BY <1>2, PlaceAfterIs
<1>4. FirstPlace \in PlaceRecords
  BY DEF FirstPlace, PlaceRecords
<1>5. \E f : IsPlaces(im, secs, f)
  <2>0. PICK f \in [0 .. n -> PlaceRecords] : Recurs(f, n, FirstPlace, next)
    <3> HIDE DEF next, n
    <3> QED
      BY <1>1, <1>3, <1>4, RecursionUpTo
  <2>1. f[0] = FirstPlace /\ \A k \in 1 .. n : f[k] = next[k][f[k - 1]]
    BY <2>0 DEF Recurs
  <2>2. ASSUME NEW k \in 0 .. n
        PROVE  f[k] = IF k = 0 THEN FirstPlace ELSE PlaceAfter(im.sections[secs[k]], f[k - 1])
    <3>1. CASE k = 0
      BY <2>1, <3>1
    <3>2. CASE k # 0
      <4>1. k \in 1 .. n /\ k - 1 \in 0 .. n
        BY <1>1, <3>2
      <4>2. f[k - 1] \in PlaceRecords
        BY <2>1, <4>1
      <4>3. next[k][f[k - 1]] = PlaceAfter(im.sections[secs[k]], f[k - 1])
        BY <4>1, <4>2
      <4> QED
        BY <2>1, <3>2, <4>1, <4>3
    <3> QED
      BY <3>1, <3>2
  <2>3. f = [k \in 0 .. n |-> f[k]]
    BY <2>1
  <2> QED
    BY <2>2, <2>3 DEF IsPlaces
<1>6. IsPlaces(im, secs, place)
  BY <1>5 DEF Places
<1> HIDE DEF place
<1>7. /\ place[0] = FirstPlace
      /\ \A k \in 1 .. n : place[k] = PlaceAfter(im.sections[secs[k]], place[k - 1])
  <2>1. \A k \in 0 .. n : place[k] = IF k = 0 THEN FirstPlace
                                     ELSE PlaceAfter(im.sections[secs[k]], place[k - 1])
    BY <1>6 DEF IsPlaces
  <2> QED
    BY <1>1, <2>1
<1> DEFINE S == {k \in 0 .. n : place[k] \in PlaceRecords /\ place[k].filesz <= place[k].memsz}
<1>8. 0 \in S
  BY <1>1, <1>4, <1>7 DEF FirstPlace
<1>9. ASSUME NEW k \in 1 .. n, k - 1 \in S PROVE k \in S
  <2>1. place[k - 1] \in PlaceRecords /\ place[k - 1].filesz <= place[k - 1].memsz
    BY <1>9
  <2> QED
    BY <1>2, <1>7, <2>1, PlaceAfterIs
<1>10. S = 0 .. n
  <2>1. S \in SUBSET (0 .. n)
    OBVIOUS
  <2> HIDE DEF S, n
  <2> QED
    BY <1>1, <1>8, <1>9, <2>1, InductionUpTo
<1>11. \A k \in 0 .. n : k \in S
  BY <1>10
<1> QED
  BY <1>7, <1>11 DEF place

\* The segment's alignment.
LEMMA SegmentAlign ==
  ASSUME NEW n \in Nat, NEW f \in [1 .. n -> Nat]
  PROVE  LET a == Max({1} \cup {f[k] : k \in 1 .. n})
         IN a \in Nat \ {0} /\ \A k \in 1 .. n : f[k] <= a
<1> DEFINE S == {1} \cup {f[k] : k \in 1 .. n}
<1>1. PICK b \in Nat : \A k \in 1 .. n : f[k] <= b
  BY BoundUpTo
<1>2. S \in SUBSET (0 .. b + 1) /\ S # {} /\ 1 \in S
  BY <1>1
<1>3. b + 1 \in Nat
  OBVIOUS
<1>4. \A k \in 1 .. n : f[k] \in S
  OBVIOUS
<1> HIDE DEF S
<1>5. Max(S) \in S /\ \A j \in S : Max(S) >= j
  BY <1>2, <1>3, MaxUpTo
<1>6. Max(S) \in Nat /\ Max(S) >= 1
  <2>1. Max(S) \in 0 .. b + 1
    BY <1>2, <1>5
  <2> QED
    BY <1>2, <1>5, <2>1
<1>7. \A k \in 1 .. n : f[k] <= Max(S)
  BY <1>4, <1>5
<1> QED
  BY <1>6, <1>7 DEF S

\* What the loader needs of a segment.
Fits(seg) ==
  /\ seg.vaddr \in Nat /\ seg.memSize \in Nat /\ seg.imageSize \in Nat
  /\ seg.imageSize <= seg.memSize

\* A segment's sections, and their places in it.
Secs(im, s) == im.segments[s].sections
PlacesOf(im, s) == Places(im, Secs(im, s))

\* GElfSegment::push: a segment starts where it may, and its sections go to their places.
Pushed(im, s, offsets, p) ==
  /\ p.type = im.segments[s].type
  /\ p.vaddr \in Nat
  /\ Secs(im, s) # << >> => p.offset = offsets[Secs(im, s)[1]]
  /\ p.imageSize = PlacesOf(im, s)[Len(Secs(im, s))].filesz
  /\ p.memSize = PlacesOf(im, s)[Len(Secs(im, s))].memsz
  /\ p.addrs = [k \in DOMAIN Secs(im, s) |-> p.vaddr + PlacesOf(im, s)[k].addr]

LEMMA SegmentPushIs ==
  ASSUME NEW im, ImageOK(im), NEW s \in DOMAIN im.segments, NEW vaddr \in Nat, NEW offsets
  PROVE  /\ Pushed(im, s, offsets, SegmentPush(im, s, vaddr, offsets))
         /\ SegmentPush(im, s, vaddr, offsets).vaddr >= vaddr
         /\ vaddr = 0 => SegmentPush(im, s, vaddr, offsets).vaddr = 0
<1> DEFINE secs == im.segments[s].sections
           align == [k \in 1 .. Len(secs) |-> Larger(memAlign(im.sections[secs[k]]), 1)]
           p_align == Max({1} \cup {align[k] : k \in 1 .. Len(secs)})
           place == Places(im, secs)
           p == SegmentPush(im, s, vaddr, offsets)
<1>1. secs \in Seq(DOMAIN im.sections)
  BY DEF ImageOK
<1>2. Len(secs) \in Nat /\ DOMAIN secs = 1 .. Len(secs)
  BY <1>1
<1>3. p = [type |-> im.segments[s].type, vaddr |-> AlignUp(vaddr, p_align),
           offset |-> IF secs = << >> THEN 0 ELSE offsets[secs[1]],
           imageSize |-> place[Len(secs)].filesz, memSize |-> place[Len(secs)].memsz,
           addrs |-> [k \in DOMAIN secs |-> AlignUp(vaddr, p_align) + place[k].addr]]
  <2> DEFINE a == Max({1} \cup {Larger(memAlign(im.sections[secs[k]]), 1) : k \in DOMAIN secs})
  <2>1. p = [type |-> im.segments[s].type, vaddr |-> AlignUp(vaddr, a),
             offset |-> IF secs = << >> THEN 0 ELSE offsets[secs[1]],
             imageSize |-> place[Len(secs)].filesz, memSize |-> place[Len(secs)].memsz,
             addrs |-> [k \in DOMAIN secs |-> AlignUp(vaddr, a) + place[k].addr]]
    BY DEF SegmentPush, Places, IsPlaces, PlaceAfter, FirstPlace
  <2>2. a = p_align
    <3>1. {align[k] : k \in 1 .. Len(secs)}
            = {Larger(memAlign(im.sections[secs[k]]), 1) : k \in DOMAIN secs}
      BY <1>2
    <3> QED
      BY <3>1
  <2> HIDE DEF p, a, p_align, place, secs
  <2> QED
    BY <2>1, <2>2
<1>4. align \in [1 .. Len(secs) -> Nat]
  <2> SUFFICES ASSUME NEW k \in 1 .. Len(secs)
               PROVE  Larger(memAlign(im.sections[secs[k]]), 1) \in Nat
    OBVIOUS
  <2>1. secs[k] \in DOMAIN im.sections
    BY <1>1, <1>2, ElementOfSeq
  <2>2. im.sections[secs[k]] \in SectionRecords
    BY <2>1, ImageParts
  <2>3. SectionOK(im.sections[secs[k]])
    BY <2>1, <2>2 DEF ImageOK, SectionOK
  <2> QED
    BY <2>3, SectionSizes
<1> HIDE DEF align, secs
<1>5. p_align \in Nat \ {0}
  BY <1>2, <1>4, SegmentAlign
<1> HIDE DEF p_align
<1>6. AlignUp(vaddr, p_align) \in Nat /\ AlignUp(vaddr, p_align) >= vaddr
  BY <1>5, AlignUpIs
<1>7. vaddr = 0 => AlignUp(vaddr, p_align) = 0
  BY <1>5, AlignUpZero
<1> HIDE DEF place, p
<1>8. /\ p.type = im.segments[s].type
      /\ p.vaddr = AlignUp(vaddr, p_align)
      /\ secs # << >> => p.offset = offsets[secs[1]]
      /\ p.imageSize = place[Len(secs)].filesz
      /\ p.memSize = place[Len(secs)].memsz
      /\ p.addrs = [k \in DOMAIN secs |-> AlignUp(vaddr, p_align) + place[k].addr]
  BY <1>3
<1>9. p.addrs = [k \in DOMAIN secs |-> p.vaddr + place[k].addr]
  BY <1>8
<1> QED
  BY <1>6, <1>7, <1>8, <1>9 DEF p, secs, place, Pushed, Secs, PlacesOf

\* It goes behind what is there, and is no smaller than in the file.
LEMMA SegmentPushFits ==
  ASSUME NEW im, ImageOK(im), NEW s \in DOMAIN im.segments, NEW vaddr \in Nat, NEW offsets
  PROVE  /\ SegmentPush(im, s, vaddr, offsets).type = im.segments[s].type
         /\ Fits(SegmentPush(im, s, vaddr, offsets))
         /\ SegmentPush(im, s, vaddr, offsets).vaddr >= vaddr
         /\ vaddr = 0 => SegmentPush(im, s, vaddr, offsets).vaddr = 0
<1> DEFINE secs == im.segments[s].sections
           place == Places(im, secs)
           p == SegmentPush(im, s, vaddr, offsets)
<1>1. secs \in Seq(DOMAIN im.sections)
  BY DEF ImageOK
<1>2. Len(secs) \in 0 .. Len(secs)
  BY <1>1
<1>3. /\ p.type = im.segments[s].type
      /\ p.vaddr \in Nat /\ p.vaddr >= vaddr /\ (vaddr = 0 => p.vaddr = 0)
      /\ p.imageSize = place[Len(secs)].filesz
      /\ p.memSize = place[Len(secs)].memsz
  <2>1. Pushed(im, s, offsets, p) /\ p.vaddr >= vaddr /\ (vaddr = 0 => p.vaddr = 0)
    BY SegmentPushIs
  <2> HIDE DEF p, place, secs
  <2> QED
    BY <2>1 DEF Pushed, Secs, PlacesOf, place, secs
<1>4. place[Len(secs)] \in PlaceRecords /\ place[Len(secs)].filesz <= place[Len(secs)].memsz
  BY <1>1, <1>2, PlacesAre
<1> HIDE DEF place, p, secs
<1>5. place[Len(secs)].filesz \in Nat /\ place[Len(secs)].memsz \in Nat
  BY <1>4 DEF PlaceRecords
<1> QED
  BY <1>3, <1>4, <1>5 DEF p, Fits

\* Where the segments so far end.
End(before, s) == IF before = << >> THEN 0 ELSE before[s - 1].vaddr + before[s - 1].memSize

\* The segments with one more, and all of them: the function pushed of Segments.
PushAfter(im, offsets, s, before) ==
  Append(before, SegmentPush(im, s, End(before, s), offsets))

IsPushed(im, offsets, f, N) ==
  f = [s \in 0 .. N |-> IF s = 0 THEN << >> ELSE PushAfter(im, offsets, s, f[s - 1])]

\* The segments of push0, one after the other.
LEMMA PushedExists ==
  ASSUME NEW im, NEW offsets, NEW N \in Nat
  PROVE  \E f : IsPushed(im, offsets, f, N)
<1> DEFINE S == {m \in 0 .. N : \E f : IsPushed(im, offsets, f, m)}
<1>1. 0 \in S
  <2>1. IsPushed(im, offsets, [s \in 0 .. 0 |-> << >>], 0)
    BY DEF IsPushed
  <2> QED
    BY <2>1
<1>2. ASSUME NEW m \in 1 .. N, m - 1 \in S PROVE m \in S
  <2>1. PICK f : IsPushed(im, offsets, f, m - 1)
    BY <1>2
  <2> DEFINE g == [s \in 0 .. m |-> IF s < m THEN f[s] ELSE PushAfter(im, offsets, m, f[m - 1])]
  <2>2. ASSUME NEW s \in 0 .. m
        PROVE  g[s] = IF s = 0 THEN << >> ELSE PushAfter(im, offsets, s, g[s - 1])
    <3>1. CASE s = m
      BY <3>1
    <3>2. CASE s # m
      <4>1. s \in 0 .. m - 1 /\ (s # 0 => s - 1 \in 0 .. m - 1)
        BY <3>2
      <4>2. f[s] = IF s = 0 THEN << >> ELSE PushAfter(im, offsets, s, f[s - 1])
        BY <2>1, <4>1 DEF IsPushed
      <4> QED
        BY <3>2, <4>1, <4>2
    <3> QED
      BY <3>1, <3>2
  <2>3. g = [s \in 0 .. m |-> g[s]]
    OBVIOUS
  <2>4. IsPushed(im, offsets, g, m)
    <3> HIDE DEF g
    <3> QED
      BY <2>2, <2>3 DEF IsPushed
  <2> QED
    BY <2>4
<1>3. S = 0 .. N
  <2>1. S \in SUBSET (0 .. N)
    OBVIOUS
  <2> HIDE DEF S
  <2> QED
    BY <1>1, <1>2, <2>1, InductionUpTo
<1>4. N \in S
  <2> HIDE DEF S
  <2> QED
    BY <1>3
<1> QED
  BY <1>4

\* Segments as GElfSegment::push makes them.
PushedRecords(im, offsets) ==
  {SegmentPush(im, s, v, offsets) : s \in DOMAIN im.segments, v \in Nat}

\* Segments one behind the other, each as GElfSegment::push places it.
InLine(im, offsets, seq) ==
  /\ seq \in Seq(PushedRecords(im, offsets))
  /\ \A s \in DOMAIN seq :
       /\ \E v \in Nat : seq[s] = SegmentPush(im, s, v, offsets)
       /\ s = 1 => seq[s].vaddr = 0
       /\ s > 1 => seq[s].vaddr >= seq[s - 1].vaddr + seq[s - 1].memSize

\* A segment that is pushed goes behind the last one.
LEMMA PushAfterInLine ==
  ASSUME NEW im, ImageOK(im), NEW offsets, NEW s \in DOMAIN im.segments,
         NEW before, InLine(im, offsets, before), Len(before) = s - 1
  PROVE  InLine(im, offsets, PushAfter(im, offsets, s, before)) /\ Len(PushAfter(im, offsets, s, before)) = s
<1> DEFINE v == End(before, s)
           new == SegmentPush(im, s, v, offsets)
           after == PushAfter(im, offsets, s, before)
<1>1. s \in Nat /\ s >= 1
  BY ImageParts
<1>2. before \in Seq(PushedRecords(im, offsets)) /\ DOMAIN before = 1 .. s - 1
  BY <1>1 DEF InLine
<1>3. v \in Nat /\ (s = 1 => v = 0) /\ (s > 1 => v = before[s - 1].vaddr + before[s - 1].memSize)
  <2>1. CASE s = 1
    <3>1. before = << >>
      BY <1>2, <2>1
    <3> QED
      BY <2>1, <3>1 DEF End
  <2>2. CASE s > 1
    <3>1. s - 1 \in DOMAIN before /\ before # << >>
      BY <1>1, <1>2, <2>2
    <3>2. PICK w \in Nat : before[s - 1] = SegmentPush(im, s - 1, w, offsets)
      BY <3>1 DEF InLine
    <3>3. s - 1 \in DOMAIN im.segments
      BY <1>1, <2>2, ImageParts
    <3>4. before[s - 1].vaddr \in Nat /\ before[s - 1].memSize \in Nat
      BY <3>2, <3>3, SegmentPushFits DEF Fits
    <3> QED
      BY <3>1, <3>4 DEF End
  <2> QED
    BY <1>1, <2>1, <2>2
<1>4. after = Append(before, new)
  BY DEF PushAfter
<1>5. new \in PushedRecords(im, offsets)
  BY <1>3 DEF PushedRecords
<1>6. new.vaddr >= v /\ (s = 1 => new.vaddr = 0)
  BY <1>3, SegmentPushFits
<1> HIDE DEF new, after, v
<1>7. /\ after \in Seq(PushedRecords(im, offsets)) /\ Len(after) = s /\ DOMAIN after = 1 .. s
      /\ after[s] = new /\ \A t \in 1 .. s - 1 : after[t] = before[t]
  BY <1>1, <1>2, <1>4, <1>5
<1>8. ASSUME NEW t \in DOMAIN after
      PROVE  /\ \E w \in Nat : after[t] = SegmentPush(im, t, w, offsets)
             /\ t = 1 => after[t].vaddr = 0
             /\ t > 1 => after[t].vaddr >= after[t - 1].vaddr + after[t - 1].memSize
  <2>1. CASE t = s
    <3>1. after[t] = SegmentPush(im, t, v, offsets)
      BY <1>7, <2>1 DEF new
    <3>2. t > 1 => after[t - 1] = before[s - 1]
      BY <1>1, <1>7, <2>1
    <3> QED
      BY <1>3, <1>6, <1>7, <2>1, <3>1, <3>2
  <2>2. CASE t # s
    <3>1. t \in DOMAIN before /\ after[t] = before[t]
      BY <1>2, <1>7, <2>2
    <3>2. t > 1 => after[t - 1] = before[t - 1]
      BY <1>1, <1>2, <1>7, <3>1
    <3> QED
      BY <3>1, <3>2 DEF InLine
  <2> QED
    BY <2>1, <2>2
<1>9. InLine(im, offsets, after)
  BY <1>7, <1>8 DEF InLine
<1> QED
  BY <1>7, <1>9 DEF after

\* All of them are in line: by induction over the segments.
LEMMA SegmentsInLine ==
  ASSUME NEW im, ImageOK(im), NEW offsets
  PROVE  InLine(im, offsets, Segments(im, offsets))
         /\ Len(Segments(im, offsets)) = Len(im.segments)
<1> DEFINE N == Len(im.segments)
           f == CHOOSE g : IsPushed(im, offsets, g, N)
           S == {s \in 0 .. N : InLine(im, offsets, f[s]) /\ Len(f[s]) = s}
<1>1. N \in Nat /\ DOMAIN im.segments = 1 .. N
  BY ImageParts
<1>2. Segments(im, offsets) = f[N]
  BY DEF Segments, IsPushed, PushAfter, End
<1>3. IsPushed(im, offsets, f, N)
  BY <1>1, PushedExists
<1> HIDE DEF f, N
<1>4. f[0] = << >> /\ \A s \in 1 .. N : f[s] = PushAfter(im, offsets, s, f[s - 1])
  <2>1. \A s \in 0 .. N : f[s] = IF s = 0 THEN << >> ELSE PushAfter(im, offsets, s, f[s - 1])
    BY <1>3 DEF IsPushed
  <2> QED
    BY <1>1, <2>1
<1>5. 0 \in S
  <2>1. << >> \in Seq(PushedRecords(im, offsets)) /\ DOMAIN << >> = {} /\ Len(<< >>) = 0
    OBVIOUS
  <2>2. InLine(im, offsets, << >>)
    BY <2>1 DEF InLine
  <2>3. 0 \in 0 .. N
    BY <1>1
  <2> QED
    BY <1>4, <2>1, <2>2, <2>3
<1>6. ASSUME NEW s \in 1 .. N, s - 1 \in S PROVE s \in S
  <2>1. InLine(im, offsets, f[s - 1]) /\ Len(f[s - 1]) = s - 1 /\ s \in DOMAIN im.segments
    BY <1>1, <1>6
  <2>2. f[s] = PushAfter(im, offsets, s, f[s - 1])
    BY <1>4
  <2> QED
    BY <1>1, <2>1, <2>2, PushAfterInLine
<1>7. S = 0 .. N
  <2>1. S \in SUBSET (0 .. N)
    OBVIOUS
  <2> HIDE DEF S
  <2> QED
    BY <1>1, <1>5, <1>6, <2>1, InductionUpTo
<1>8. N \in S
  <2> HIDE DEF S
  <2> QED
    BY <1>1, <1>7
<1> QED
  BY <1>2, <1>8 DEF N

\* What the segments of the file are.
LEMMA SegmentsFit ==
  ASSUME NEW im, ImageOK(im), NEW offsets, NEW seq, InLine(im, offsets, seq),
         Len(seq) = Len(im.segments)
  PROVE  /\ DOMAIN seq = DOMAIN im.segments
         /\ \A s \in DOMAIN seq : seq[s].type \in SegmentTypeNames /\ Fits(seq[s])
<1>1. DOMAIN seq = DOMAIN im.segments
  BY ImageParts DEF InLine
<1> SUFFICES ASSUME NEW s \in DOMAIN seq
             PROVE  seq[s].type \in SegmentTypeNames /\ Fits(seq[s])
  BY <1>1
<1>2. PICK v \in Nat : seq[s] = SegmentPush(im, s, v, offsets)
  BY DEF InLine
<1>3. seq[s].type = im.segments[s].type /\ Fits(seq[s])
  BY <1>1, <1>2, SegmentPushFits
<1>4. im.segments[s] \in SegmentRecords
  BY <1>1, ImageParts
<1> QED
  BY <1>3, <1>4 DEF SegmentRecords

\* Where a section starts in the file, behind an end, and where it ends itself.
StartBehind(sec, end) == AlignUp(end, ShAlign(sec))

\* The function end of Offsets.
IsEnds(im, f) ==
  f = [i \in 0 .. Len(im.sections) |->
         IF i = 0 THEN HeaderSize
         ELSE StartBehind(im.sections[i], f[i - 1]) + FileSize(im.sections[i])]

\* A section behind an end.
LEMMA StartBehindIs ==
  ASSUME NEW sec, SectionOK(sec), NEW end \in Nat
  PROVE  /\ StartBehind(sec, end) \in Nat /\ StartBehind(sec, end) >= end
         /\ FileSize(sec) \in Nat /\ ShAlign(sec) \in Nat \ {0}
<1>1. sec.align \in Nat /\ sec.memalign \in Nat /\ FileAlign \in Nat \ {0}
  BY AlignsAre, ElfImageAssumption DEF SectionOK, SectionRecords
<1>2. ShAlign(sec) \in Nat \ {0}
  BY <1>1 DEF ShAlign, Larger
<1> QED
  BY <1>2, AlignUpIs, SectionSizes DEF StartBehind

\* In the file the sections ascend and do not overlap, each behind the one before as
\* near as its alignment allows.
FileInOrder(im, offsets) ==
  /\ DOMAIN offsets = DOMAIN im.sections
  /\ \A i \in DOMAIN im.sections :
       /\ offsets[i] \in Nat
       /\ \E end \in Nat : offsets[i] = StartBehind(im.sections[i], end)
       /\ i > 1 => offsets[i] = StartBehind(im.sections[i],
                                            offsets[i - 1] + FileSize(im.sections[i - 1]))
       /\ \A k \in 1 .. i - 1 : offsets[k] + FileSize(im.sections[k]) <= offsets[i]

\* So libelf lays them out: by induction over the sections.
LEMMA OffsetsInOrder ==
  ASSUME NEW im, ImageOK(im)
  PROVE  FileInOrder(im, Offsets(im))
<1> DEFINE n == Len(im.sections)
           f == CHOOSE g : IsEnds(im, g)
           sec(i) == im.sections[i]
           next == [i \in 1 .. n |-> [end \in Nat |-> StartBehind(sec(i), end) + FileSize(sec(i))]]
           at(i) == StartBehind(sec(i), f[i - 1])
           T == {i \in 0 .. n : f[i] \in Nat /\ \A k \in 1 .. i : f[k] \in Nat /\ f[k] <= f[i]}
<1>1. n \in Nat /\ DOMAIN im.sections = 1 .. n
  BY ImageParts
<1>2. \A i \in 1 .. n : SectionOK(sec(i))
  BY <1>1, ImageParts DEF ImageOK, SectionOK
<1>3. HeaderSize \in Nat
  BY ElfImageAssumption
<1>4. Offsets(im) = [i \in DOMAIN im.sections |-> f[i] - FileSize(sec(i))]
  BY DEF Offsets, IsEnds, StartBehind
<1> HIDE DEF n, sec
<1>5. ASSUME NEW i \in 1 .. n, NEW end \in Nat
      PROVE  /\ StartBehind(sec(i), end) \in Nat /\ StartBehind(sec(i), end) >= end
             /\ FileSize(sec(i)) \in Nat
  BY <1>2, StartBehindIs
<1>6. next \in [1 .. n -> [Nat -> Nat]]
  BY <1>5
<1>7. IsEnds(im, f)
  <2>1. PICK g \in [0 .. n -> Nat] : Recurs(g, n, HeaderSize, next)
    <3> HIDE DEF next
    <3> QED
      BY <1>1, <1>3, <1>6, RecursionUpTo
  <2>2. g[0] = HeaderSize /\ \A i \in 1 .. n : g[i] = next[i][g[i - 1]]
    BY <2>1 DEF Recurs
  <2>3. ASSUME NEW i \in 0 .. n
        PROVE  g[i] = IF i = 0 THEN HeaderSize ELSE StartBehind(sec(i), g[i - 1]) + FileSize(sec(i))
    <3>1. CASE i = 0
      BY <2>2, <3>1
    <3>2. CASE i # 0
      <4>1. i \in 1 .. n /\ i - 1 \in 0 .. n
        BY <1>1, <3>2
      <4>2. g[i - 1] \in Nat
        BY <2>1, <4>1
      <4>3. next[i][g[i - 1]] = StartBehind(sec(i), g[i - 1]) + FileSize(sec(i))
        BY <4>1, <4>2
      <4> QED
        BY <2>2, <3>2, <4>1, <4>3
    <3> QED
      BY <3>1, <3>2
  <2>4. g = [i \in 0 .. n |-> g[i]]
    BY <2>1
  <2>5. IsEnds(im, g)
    BY <2>3, <2>4 DEF IsEnds, n, sec
  <2> QED
    BY <2>5
<1> HIDE DEF f, next
<1>8. f[0] = HeaderSize /\ \A i \in 1 .. n : f[i] = at(i) + FileSize(sec(i))
  <2>1. \A i \in 0 .. n : f[i] = IF i = 0 THEN HeaderSize
                                 ELSE StartBehind(sec(i), f[i - 1]) + FileSize(sec(i))
    BY <1>7 DEF IsEnds, n, sec
  <2> QED
    BY <1>1, <2>1
<1>9. T = 0 .. n
  <2>1. 0 \in T
    BY <1>1, <1>3, <1>8
  <2>2. ASSUME NEW i \in 1 .. n, i - 1 \in T PROVE i \in T
    <3>1. PICK end \in Nat : end = f[i - 1]
      BY <2>2
    <3>2. PICK x \in Nat, z \in Nat : x = at(i) /\ z = FileSize(sec(i)) /\ x >= end
      BY <1>5, <3>1
    <3>3. f[i] = x + z
      BY <1>8, <3>2
    <3>4. ASSUME NEW k \in 1 .. i PROVE f[k] \in Nat /\ f[k] <= f[i]
      <4>1. CASE k = i
        BY <3>2, <3>3, <4>1
      <4>2. CASE k # i
        <5>1. k \in 1 .. i - 1
          BY <1>1, <4>2
        <5>2. f[k] \in Nat /\ f[k] <= end
          BY <2>2, <3>1, <5>1
        <5> QED
          BY <3>2, <3>3, <5>2
      <4> QED
        BY <4>1, <4>2
    <3> QED
      BY <1>1, <3>2, <3>3, <3>4
  <2>3. T \in SUBSET (0 .. n)
    OBVIOUS
  <2> HIDE DEF T
  <2> QED
    BY <1>1, <2>1, <2>2, <2>3, InductionUpTo
<1>10. \A i \in 0 .. n : f[i] \in Nat /\ \A k \in 1 .. i : f[k] \in Nat /\ f[k] <= f[i]
  <2> SUFFICES ASSUME NEW i \in 0 .. n PROVE i \in T
    OBVIOUS
  <2> HIDE DEF T
  <2> QED
    BY <1>9
<1>11. ASSUME NEW i \in 1 .. n
       PROVE  /\ Offsets(im)[i] = at(i) /\ at(i) \in Nat /\ f[i - 1] \in Nat
              /\ at(i) >= f[i - 1] /\ f[i] = Offsets(im)[i] + FileSize(sec(i))
  <2>1. i - 1 \in 0 .. n /\ i \in 0 .. n
    BY <1>1
  <2>2. PICK end \in Nat : end = f[i - 1]
    BY <1>10, <2>1
  <2>3. PICK x \in Nat, z \in Nat : x = at(i) /\ z = FileSize(sec(i)) /\ x >= end
    BY <1>5, <2>2
  <2>4. f[i] = x + z
    BY <1>8, <2>3
  <2>5. Offsets(im)[i] = f[i] - z
    BY <1>1, <1>4, <2>3
  <2> HIDE DEF at
  <2> QED
    BY <2>2, <2>3, <2>4, <2>5
<1>12. DOMAIN Offsets(im) = DOMAIN im.sections
  BY <1>4
<1> SUFFICES ASSUME NEW i \in 1 .. n
             PROVE  /\ Offsets(im)[i] \in Nat
                    /\ \E end \in Nat : Offsets(im)[i] = StartBehind(sec(i), end)
                    /\ i > 1 => Offsets(im)[i] = StartBehind(sec(i),
                                                 Offsets(im)[i - 1] + FileSize(sec(i - 1)))
                    /\ \A k \in 1 .. i - 1 : Offsets(im)[k] + FileSize(sec(k)) <= Offsets(im)[i]
  BY <1>1, <1>12 DEF FileInOrder, n, sec
<1>13. i > 1 => f[i - 1] = Offsets(im)[i - 1] + FileSize(sec(i - 1))
  BY <1>1, <1>11
<1>14. ASSUME NEW k \in 1 .. i - 1
       PROVE  Offsets(im)[k] + FileSize(sec(k)) <= Offsets(im)[i]
  <2>1. k \in 1 .. n /\ i - 1 \in 0 .. n
    BY <1>1
  <2>2. f[k] <= f[i - 1] /\ f[k] \in Nat
    BY <1>1, <1>10, <2>1
  <2>3. PICK o \in Nat, x \in Nat, y \in Nat : o = Offsets(im)[i] /\ x = f[k] /\ y = f[i - 1]
    BY <1>11, <2>2
  <2>4. y <= o
    BY <1>11, <2>3
  <2>5. x <= o
    BY <2>2, <2>3, <2>4
  <2> QED
    BY <1>11, <2>1, <2>3, <2>5
<1> QED
  BY <1>11, <1>13, <1>14

-----------------------------------------------------------------------------
(* Reading.                                                                *)

\* Those of the wanted types, when they come before all others.
LEMMA OfTypesPrefix ==
  ASSUME NEW R, NEW seq \in Seq(R), NEW types, NEW m \in 0 .. Len(seq),
         \A i \in 1 .. Len(seq) : seq[i].type \in types <=> i <= m
  PROVE  OfTypes(types, seq) = SubSeq(seq, 1, m)
<1> DEFINE N == Len(seq)
           Step(g, n) == IF n = 0 THEN << >>
                         ELSE IF seq[n].type \in types THEN Append(g[n-1], seq[n]) ELSE g[n-1]
           Is(g) == g = [n \in 0 .. N |-> Step(g, n)]
           f == CHOOSE g : Is(g)
           to(n) == IF n <= m THEN n ELSE m
           S == {n \in 0 .. N : f[n] = SubSeq(seq, 1, to(n))}
           h == [n \in 0 .. N |-> SubSeq(seq, 1, to(n))]
<1>1. OfTypes(types, seq) = f[N]
  BY DEF OfTypes
<1>2. N \in Nat /\ m \in Nat /\ m <= N
  OBVIOUS
<1> HIDE DEF N
<1>3. SubSeq(seq, 1, 0) = << >>
  OBVIOUS
<1>4. ASSUME NEW n \in 1 .. N, n <= m
      PROVE  SubSeq(seq, 1, n) = Append(SubSeq(seq, 1, n - 1), seq[n])
  BY <1>2, <1>4 DEF N
<1>5. ASSUME NEW g, NEW n \in 1 .. N, g[n - 1] = SubSeq(seq, 1, to(n - 1))
      PROVE  Step(g, n) = SubSeq(seq, 1, to(n))
  <2>1. CASE n <= m
    <3>1. to(n) = n /\ to(n - 1) = n - 1 /\ seq[n].type \in types /\ n # 0
      BY <1>2, <2>1 DEF N
    <3> QED
      BY <1>4, <1>5, <2>1, <3>1
  <2>2. CASE ~ (n <= m)
    <3>1. to(n) = m /\ to(n - 1) = m /\ seq[n].type \notin types /\ n # 0
      BY <1>2, <2>2 DEF N
    <3> QED
      BY <1>5, <3>1
  <2> QED
    BY <2>1, <2>2
<1>6. Is(h)
  <2>1. ASSUME NEW n \in 0 .. N PROVE SubSeq(seq, 1, to(n)) = Step(h, n)
    <3>1. CASE n = 0
      BY <1>2, <1>3, <3>1
    <3>2. CASE n # 0
      <4>1. n \in 1 .. N /\ n - 1 \in 0 .. N
        BY <1>2, <3>2
      <4>2. h[n - 1] = SubSeq(seq, 1, to(n - 1))
        BY <4>1
      <4> HIDE DEF h, Step, to
      <4> QED
        BY <1>5, <4>1, <4>2
    <3> QED
      BY <3>1, <3>2
  <2>2. h = [n \in 0 .. N |-> SubSeq(seq, 1, to(n))]
    OBVIOUS
  <2> HIDE DEF h, Step, to
  <2> QED
    BY <2>1, <2>2
<1>7. Is(f)
  <2> HIDE DEF Is
  <2> QED
    BY <1>6
<1>8. \A n \in 0 .. N : f[n] = Step(f, n)
  <2> HIDE DEF f, Step
  <2> QED
    BY <1>7
<1>9. 0 \in S
  <2>1. 0 \in 0 .. N /\ to(0) = 0
    BY <1>2
  <2>2. f[0] = << >>
    BY <1>8, <2>1
  <2> HIDE DEF f, to
  <2> QED
    BY <1>3, <2>1, <2>2
<1>10. ASSUME NEW n \in 1 .. N, n - 1 \in S PROVE n \in S
  <2>1. f[n - 1] = SubSeq(seq, 1, to(n - 1)) /\ n \in 0 .. N
    <3> HIDE DEF f, to
    <3> QED
      BY <1>2, <1>10
  <2>2. Step(f, n) = SubSeq(seq, 1, to(n))
    <3> HIDE DEF f, to, Step
    <3> QED
      BY <1>5, <2>1
  <2> HIDE DEF f, to, Step
  <2> QED
    BY <1>8, <2>1, <2>2
<1>11. S = 0 .. N
  <2>1. S \in SUBSET (0 .. N)
    OBVIOUS
  <2> HIDE DEF S
  <2> QED
    BY <1>2, <1>9, <1>10, <2>1, InductionUpTo
<1>12. f[N] = SubSeq(seq, 1, to(N))
  <2>1. N \in S
    <3> HIDE DEF S
    <3> QED
      BY <1>2, <1>11
  <2> HIDE DEF f, to
  <2> QED
    BY <2>1
<1>13. to(N) = m
  BY <1>2
<1> QED
  <2> HIDE DEF f, to
  <2> QED
    BY <1>1, <1>12, <1>13

\* Behind this one there is none of this type.
LastOf(type, seq, j) == \A i \in DOMAIN seq : i > j => seq[i].type # type

\* None of a wanted type is left out, wherever it stands, and the last of a type stays it.
LEMMA OfTypesHas ==
  ASSUME NEW R, NEW seq \in Seq(R), NEW types, NEW type
  PROVE  /\ OfTypes(types, seq) \in Seq(R)
         /\ \A j \in DOMAIN seq : seq[j].type \in types =>
              \E k \in DOMAIN OfTypes(types, seq) :
                /\ OfTypes(types, seq)[k] = seq[j]
                /\ LastOf(type, seq, j) => LastOf(type, OfTypes(types, seq), k)
<1> DEFINE N == Len(seq)
           More(n, v) == IF seq[n].type \in types THEN Append(v, seq[n]) ELSE v
           Is(g) == g = [n \in 0 .. N |-> IF n = 0 THEN << >> ELSE
                           IF seq[n].type \in types THEN Append(g[n-1], seq[n]) ELSE g[n-1]]
           f == CHOOSE g : Is(g)
           next == [n \in 1 .. N |-> [v \in Seq(R) |-> More(n, v)]]
           Last(v, n, k) == \A i \in 1 .. n : i > k => v[i].type # type
           Has(v, n) == \A j \in 1 .. n : seq[j].type \in types =>
                          \E k \in DOMAIN v : /\ v[k] = seq[j]
                                              /\ Last(seq, n, j) => Last(v, Len(v), k)
           S == {n \in 0 .. N : f[n] \in Seq(R) /\ Has(f[n], n)}
<1>1. OfTypes(types, seq) = f[N]
  BY DEF OfTypes
<1>2. N \in Nat /\ DOMAIN seq = 1 .. N /\ \A n \in 1 .. N : seq[n] \in R
  BY ElementOfSeq
<1> HIDE DEF N
<1>3. \A n \in 1 .. N, v \in Seq(R) : More(n, v) \in Seq(R)
  BY <1>2
<1> HIDE DEF More
<1>4. next \in [1 .. N -> [Seq(R) -> Seq(R)]]
  BY <1>3
<1>5. \E g : Is(g)
  <2>1. << >> \in Seq(R)
    OBVIOUS
  <2>2. PICK g \in [0 .. N -> Seq(R)] : Recurs(g, N, << >>, next)
    <3> HIDE DEF next
    <3> QED
      BY <1>2, <1>4, <2>1, RecursionUpTo
  <2>3. g[0] = << >> /\ \A n \in 1 .. N : g[n] = next[n][g[n - 1]]
    BY <2>2 DEF Recurs
  <2>4. ASSUME NEW n \in 0 .. N
        PROVE  g[n] = IF n = 0 THEN << >> ELSE
                        IF seq[n].type \in types THEN Append(g[n-1], seq[n]) ELSE g[n-1]
    <3>1. CASE n = 0
      BY <2>3, <3>1
    <3>2. CASE n # 0
      <4>1. n \in 1 .. N /\ n - 1 \in 0 .. N
        BY <1>2, <3>2
      <4>2. g[n - 1] \in Seq(R)
        BY <2>2, <4>1
      <4>3. next[n][g[n - 1]] = More(n, g[n - 1])
        BY <4>1, <4>2
      <4>4. g[n] = More(n, g[n - 1])
        BY <2>3, <4>1, <4>3
      <4> QED
        BY <3>2, <4>4 DEF More
    <3> QED
      BY <3>1, <3>2
  <2>5. g = [n \in 0 .. N |-> g[n]]
    BY <2>2
  <2> QED
    BY <2>4, <2>5
<1>6. Is(f)
  <2> HIDE DEF Is
  <2> QED
    BY <1>5
<1>7. f[0] = << >> /\ \A n \in 1 .. N : f[n] = More(n, f[n - 1])
  <2>1. \A n \in 0 .. N : f[n] = IF n = 0 THEN << >> ELSE
                                   IF seq[n].type \in types THEN Append(f[n-1], seq[n]) ELSE f[n-1]
    <3> HIDE DEF f
    <3> QED
      BY <1>6
  <2> HIDE DEF f
  <2> QED
    BY <1>2, <2>1 DEF More
<1> HIDE DEF f, next, Is
<1>8. 0 \in S
  <2>1. 0 \in 0 .. N /\ 1 .. 0 = {} /\ << >> \in Seq(R)
    BY <1>2
  <2> QED
    BY <1>7, <2>1
<1>9. ASSUME NEW n \in 1 .. N, n - 1 \in S PROVE n \in S
  <2>1. PICK v \in Seq(R) : v = f[n - 1] /\ Has(v, n - 1)
    BY <1>9
  <2>2. f[n] = More(n, v) /\ f[n] \in Seq(R)
    BY <1>3, <1>7, <2>1
  <2>3. ASSUME NEW j \in 1 .. n, seq[j].type \in types
        PROVE  \E k \in DOMAIN f[n] : /\ f[n][k] = seq[j]
                                      /\ Last(seq, n, j) => Last(f[n], Len(f[n]), k)
    <3>1. CASE j = n
      <4>1. f[n] = Append(v, seq[n])
        BY <2>2, <2>3, <3>1 DEF More
      <4>2. /\ Len(v) + 1 \in DOMAIN f[n] /\ f[n][Len(v) + 1] = seq[n]
            /\ Len(f[n]) = Len(v) + 1
        BY <1>2, <4>1
      <4>3. Last(f[n], Len(f[n]), Len(v) + 1)
        BY <4>2
      <4> QED
        BY <3>1, <4>2, <4>3
    <3>2. CASE j # n
      <4>1. j \in 1 .. n - 1
        BY <1>2, <3>2
      <4>2. PICK k \in DOMAIN v : v[k] = seq[j] /\ (Last(seq, n - 1, j) => Last(v, Len(v), k))
        BY <2>1, <2>3, <4>1
      <4>3. f[n] = v \/ f[n] = Append(v, seq[n])
        BY <2>2 DEF More
      <4>4. k \in DOMAIN f[n] /\ f[n][k] = seq[j]
        BY <1>2, <4>2, <4>3
      <4>5. ASSUME Last(seq, n, j) PROVE Last(f[n], Len(f[n]), k)
        <5>1. Last(seq, n - 1, j) /\ seq[n].type # type
          BY <1>2, <4>1, <4>5
        <5>2. Last(v, Len(v), k)
          BY <4>2, <5>1
        <5>3. CASE f[n] = v
          BY <5>2, <5>3
        <5>4. CASE f[n] = Append(v, seq[n])
          <6>1. /\ Len(f[n]) = Len(v) + 1 /\ f[n][Len(v) + 1] = seq[n]
                /\ \A i \in 1 .. Len(v) : f[n][i] = v[i]
            BY <1>2, <5>4
          <6>2. ASSUME NEW i \in 1 .. Len(v) + 1, i > k PROVE f[n][i].type # type
            <7>1. i = Len(v) + 1 \/ i \in 1 .. Len(v)
              BY <2>1
            <7> QED
              BY <5>1, <5>2, <6>1, <6>2, <7>1
          <6> QED
            BY <6>1, <6>2
        <5> QED
          BY <4>3, <5>3, <5>4
      <4> QED
        BY <4>4, <4>5
    <3> QED
      BY <3>1, <3>2
  <2>4. n \in 0 .. N
    BY <1>2
  <2> QED
    BY <2>2, <2>3, <2>4
<1>10. S = 0 .. N
  <2>1. S \in SUBSET (0 .. N)
    OBVIOUS
  <2> HIDE DEF S
  <2> QED
    BY <1>2, <1>8, <1>9, <2>1, InductionUpTo
<1>11. N \in S
  <2> HIDE DEF S
  <2> QED
    BY <1>2, <1>10
<1> QED
  <2>1. OfTypes(types, seq) \in Seq(R) /\ Has(OfTypes(types, seq), N)
    BY <1>1, <1>11
  <2>2. DOMAIN OfTypes(types, seq) = 1 .. Len(OfTypes(types, seq))
    BY <2>1
  <2> QED
    BY <1>2, <2>1, <2>2 DEF LastOf

-----------------------------------------------------------------------------
(* The code object.                                                        *)

\* What is in the file once it is written.
FileInv == frozen => /\ InLine(img, file.offsets, file.segments)
                     /\ Len(file.segments) = Len(img.segments)
                     /\ FileInOrder(img, file.offsets)

\* The image is well formed whenever a method returns, and within the bounds, and its
\* kernels in a section for code are where their code is.
CodeInv ==
  /\ ImageOK(img)
  /\ OneBss(img)
  /\ KernelsInSections(img)
  /\ Placed(img, added)
  /\ Len(img.sections) <= SectionLimit
  /\ added \in [DOMAIN img.sections -> 0 .. DataLimit + CodeLimit]
  /\ FileInv

\* The bounds are numbers.
LEMMA Bounds ==
  /\ SectionLimit \in Nat /\ DataLimit \in Nat /\ CodeLimit \in Nat
  /\ DataLimit + CodeLimit \in Nat
  /\ DataLimit <= DataLimit + CodeLimit /\ CodeLimit <= DataLimit + CodeLimit
  /\ KernelAlign \in Nat \ {0}
<1>1. SectionLimit \in Nat /\ DataLimit \in Nat /\ CodeLimit \in Nat
  BY HsaCodeAssumption
<1> QED
  BY <1>1, HsaCodeAssumption

\* A call that keeps sections and adds kernels' symbols only for one of them.
LEMMA KernelsStay ==
  ASSUME NEW im, KernelsInSections(im), NEW im2, Stays(im, im2), KernelsFrom(im, im2)
  PROVE  KernelsInSections(im2) /\ (OneText(im2) => OneText(im))
<1>1. ASSUME NEW j \in DOMAIN im2.symbols, im2.symbols[j].type = "kernel"
      PROVE  im2.symbols[j].section \in DOMAIN im.sections
  BY <1>1 DEF KernelsInSections, KernelsFrom
<1>2. KernelsInSections(im2)
  BY <1>1 DEF KernelsInSections, Stays
<1>3. OneText(im2) => OneText(im)
  BY DEF OneText, Stays
<1> QED
  BY <1>2, <1>3

\* So does the code, when nothing is added to it.
LEMMA CodeStays ==
  ASSUME CodeInv, ImageOK(img'), Stays(img, img'), KernelsFrom(img, img'),
         \A i \in DOMAIN img.sections : img.sections[i].kind = "hsatext" => added'[i] = added[i],
         \A i \in DOMAIN img'.sections \ DOMAIN img.sections : added'[i] = 0
  PROVE  KernelsInSections(img') /\ Placed(img', added')
<1>1. KernelsInSections(img) /\ Placed(img, added) /\ ImageOK(img)
  BY DEF CodeInv
<1>2. KernelsInSections(img') /\ (OneText(img') => OneText(img))
  BY <1>1, KernelsStay
<1>3. ASSUME NEW i \in DOMAIN img'.sections, img'.sections[i].kind = "hsatext", added'[i] # 0
      PROVE  img'.sections[i].size >= KernelAlign
  <2>1. i \in DOMAIN img.sections
    BY <1>3
  <2>2. /\ img.sections[i].kind = "hsatext" /\ img'.sections[i].size = img.sections[i].size
        /\ added[i] # 0
    BY <1>3, <2>1 DEF Stays
  <2> QED
    BY <1>1, <2>1, <2>2 DEF Placed
<1>4. ASSUME OneText(img'), NEW j \in DOMAIN img'.symbols, KernelInText(img', j)
      PROVE  LET i == img'.symbols[j].section
             IN IF added'[i] = 0 THEN img'.symbols[j].value = 0
                ELSE img'.symbols[j].value + KernelAlign <= img'.sections[i].size
  <2> DEFINE i == img'.symbols[j].section
             v == img'.symbols[j].value
  <2>1. i \in DOMAIN img.sections /\ img.sections[i].kind = "hsatext"
    <3>1. i \in DOMAIN img.sections /\ img'.sections[i].kind = "hsatext"
      BY <1>1, <1>4 DEF KernelsFrom, KernelsInSections, KernelInText
    <3> HIDE DEF i
    <3> QED
      BY <3>1 DEF Stays
  <2>2. img'.sections[i].size = img.sections[i].size /\ added'[i] = added[i]
    BY <2>1 DEF Stays
  <2>3. CASE j \in DOMAIN img.symbols /\ img'.symbols[j] = img.symbols[j]
    <3>1. /\ i = img.symbols[j].section /\ v = img.symbols[j].value
          /\ KernelInText(img, j)
      BY <1>4, <2>1, <2>3 DEF KernelInText
    <3>2. IF added[i] = 0 THEN v = 0 ELSE v + KernelAlign <= img.sections[i].size
      BY <1>1, <1>2, <1>4, <2>3, <3>1 DEF Placed
    <3> HIDE DEF i, v
    <3> QED
      BY <2>2, <3>2 DEF i, v
  <2>4. CASE v = 0
    <3>1. added[i] # 0 => img.sections[i].size >= KernelAlign
      BY <1>1, <2>1 DEF Placed
    <3>2. 0 + KernelAlign = KernelAlign
      BY Bounds
    <3>3. img.sections[i].size \in Nat
      <4> HIDE DEF i, v
      <4>1. img.sections[i] \in SectionRecords
        BY <1>1, <2>1, ImageParts
      <4> QED
        BY <4>1 DEF SectionRecords
    <3>4. added[i] # 0 => v + KernelAlign <= img.sections[i].size
      <4> HIDE DEF i, v
      <4> QED
        BY <2>4, <3>1, <3>2, <3>3, Bounds
    <3> HIDE DEF i, v
    <3> QED
      BY <2>2, <2>4, <3>4 DEF i, v
  <2> QED
    BY <1>4, <2>3, <2>4 DEF KernelsFrom, KernelInText
<1>5. Placed(img', added')
  BY <1>3, <1>4 DEF Placed
<1> QED
  BY <1>2, <1>5

\* What a call that is behind Becomes leaves to be shown.
LEMMA BecomesStep ==
  ASSUME CodeInv, ImageOK(img'), OneBss(img'), Stays(img, img'), KernelsFrom(img, img'),
         Becomes(img')
  PROVE  CodeInv'
<1>1. /\ Len(img'.sections) <= SectionLimit /\ file' = file /\ ~frozen
      /\ added' = [i \in DOMAIN img'.sections |-> IF i \in DOMAIN added THEN added[i] ELSE 0]
  BY DEF Becomes
<1>2. added \in [DOMAIN img.sections -> 0 .. DataLimit + CodeLimit]
  BY DEF CodeInv
<1>3. added' \in [DOMAIN img'.sections -> 0 .. DataLimit + CodeLimit]
  <2>1. \A i \in DOMAIN added : added[i] \in 0 .. DataLimit + CodeLimit
    BY <1>2
  <2>2. 0 \in 0 .. DataLimit + CodeLimit
    BY Bounds
  <2> QED
    BY <1>1, <2>1, <2>2
<1>4. FileInv'
  BY <1>1 DEF FileInv, frozen
<1>5. \A i \in DOMAIN img.sections : added'[i] = added[i]
  BY <1>1, <1>2 DEF Stays
<1>6. \A i \in DOMAIN img'.sections \ DOMAIN img.sections : added'[i] = 0
  BY <1>1, <1>2
<1>7. KernelsInSections(img') /\ Placed(img', added')
  BY <1>5, <1>6, CodeStays
<1> QED
  BY <1>1, <1>3, <1>4, <1>7 DEF CodeInv

\* The same for a call that keeps the sections without bits.
LEMMA KeptStep ==
  ASSUME CodeInv, ImageOK(img'), Kept(img, img'), KernelsFrom(img, img'), Becomes(img')
  PROVE  CodeInv'
<1>1. OneBss(img') /\ Stays(img, img')
  BY BssStays DEF CodeInv, Kept
<1> QED
  BY <1>1, BecomesStep

\* One behind Grows, first of all but the code.
LEMMA GrowsTypes ==
  ASSUME CodeInv, ImageOK(img'), OneBss(img'), KernelsInSections(img'), Placed(img', added'),
         Len(img'.sections) = Len(img.sections), DOMAIN img'.sections = DOMAIN img.sections,
         NEW limit \in {DataLimit, CodeLimit}, NEW i \in DOMAIN img.sections,
         Grows(img', i, limit)
  PROVE  CodeInv'
<1>1. /\ added[i] < limit /\ added' = [added EXCEPT ![i] = @ + 1] /\ file' = file /\ ~frozen
  BY DEF Grows
<1>2. added' \in [DOMAIN img'.sections -> 0 .. DataLimit + CodeLimit]
  <2>1. added \in [DOMAIN img.sections -> 0 .. DataLimit + CodeLimit]
    BY DEF CodeInv
  <2>2. added[i] + 1 \in 0 .. DataLimit + CodeLimit
    BY <1>1, <2>1, Bounds
  <2> QED
    BY <1>1, <2>1, <2>2
<1>3. FileInv'
  BY <1>1 DEF FileInv, frozen
<1> QED
  BY <1>2, <1>3 DEF CodeInv

\* HsaSegment finds one of the segments.
LEMMA HsaSegmentIs ==
  ASSUME ImageOK(img), NEW type, NEW writable
  PROVE  HsaSegment(type, writable) # 0 =>
           /\ HsaSegment(type, writable) \in DOMAIN img.segments
           /\ img.segments[HsaSegment(type, writable)].type = type
<1> DEFINE S == {0} \cup {s \in DOMAIN img.segments : /\ img.segments[s].type = type
                                                      /\ img.segments[s].writable = writable}
<1>1. Len(img.segments) \in Nat /\ DOMAIN img.segments = 1 .. Len(img.segments)
  BY ImageParts
<1>2. S \in SUBSET (0 .. Len(img.segments)) /\ S # {}
  BY <1>1
<1>3. HsaSegment(type, writable) = Max(S)
  BY DEF HsaSegment
<1> HIDE DEF S
<1>4. Max(S) \in S
  BY <1>1, <1>2, MaxUpTo
<1> QED
  BY <1>3, <1>4 DEF S

\* A segment is initialised for data or for code.
LEMMA InitHsaSegmentStep ==
  ASSUME CodeInv, NEW type \in SegmentTypeNames, NEW writable \in BOOLEAN,
         InitHsaSegment(type, writable)
  PROVE  CodeInv'
<1>1. Becomes(initSegment(img, type, writable)) /\ img' = initSegment(img, type, writable)
  BY DEF InitHsaSegment, Becomes
<1>2. ImageOK(img)
  BY DEF CodeInv
<1>3. ImageOK(img')
  BY <1>1, <1>2, InitSegmentOK
<1>4. img'.sections = img.sections /\ img'.symbols = img.symbols
  BY <1>1, <1>2 DEF initSegment, ImageOK, Images
<1>5. Stays(img, img') /\ KernelsFrom(img, img')
  BY <1>4 DEF Stays, KernelsFrom
<1>6. \A i, s, k : Listed(img'.segments, i, s, k) =>
        Listed(img.segments, i, s, k) /\ img'.segments[s].type = img.segments[s].type
  BY <1>1, <1>2, InitSegmentOK
<1>7. OneBss(img')
  BY <1>4, <1>6 DEF CodeInv, OneBss
<1> QED
  BY <1>1, <1>3, <1>5, <1>7, BecomesStep

\* A section is added to it.
LEMMA AddSectionStep ==
  ASSUME CodeInv, NEW kind, NEW alloc, NEW s \in DOMAIN img.segments,
         kind \in DataKinds \cup {"hsatext"}, alloc \in SegmentTypeNames,
         alloc = img.segments[s].type, SectionOf(img, kind, alloc, 0) = 0 \/ kind # "bss",
         Becomes(addSectionTo(img, kind, alloc, s))
  PROVE  CodeInv'
<1>1. img' = addSectionTo(img, kind, alloc, s)
  BY DEF Becomes
<1>2. ImageOK(img)
  BY DEF CodeInv
<1>3. /\ ImageOK(img') /\ img'.sections = Append(img.sections, NewSection(kind, alloc, 0))
      /\ img'.symbols = img.symbols
  BY <1>1, <1>2, AddSectionToOK DEF SegmentTypeNames
<1>4. Stays(img, img') /\ KernelsFrom(img, img')
  BY <1>2, <1>3, AppendStays DEF KernelsFrom
<1> DEFINE n == Len(img.sections)
           new == NewSection(kind, alloc, 0)
<1>5. /\ new.kind = kind /\ new.alloc = alloc /\ new.of = 0
      /\ OneBss(img) /\ n \in Nat /\ DOMAIN img.sections = 1 .. n
  BY <1>2, ImageParts DEF NewSection, CodeInv
<1>6. /\ DOMAIN img'.sections = 1 .. n + 1 /\ img'.sections[n + 1] = new
      /\ \A i \in 1 .. n : img'.sections[i] = img.sections[i]
  <2>1. img.sections \in Seq(SectionRecords)
    BY <1>2, ImageParts
  <2> HIDE DEF new
  <2> QED
    BY <1>3, <2>1 DEF new
<1>7. \A i, t, k : Listed(img'.segments, i, t, k) =>
        /\ img'.segments[t].type = img.segments[t].type
        /\ (i = n + 1 /\ t = s) \/ Listed(img.segments, i, t, k)
  <2> DEFINE im2 == addSectionTo(img, kind, alloc, s)
  <2>1. alloc \in Allocs \cup {"code_agent", "none"}
    BY DEF SegmentTypeNames
  <2>2. \A i, t, k : Listed(im2.segments, i, t, k) =>
          /\ im2.segments[t].type = img.segments[t].type
          /\ (i = n + 1 /\ t = s) \/ Listed(img.segments, i, t, k)
    BY <1>2, <2>1, AddSectionToOK
  <2>3. img' = im2
    BY <1>1
  <2> HIDE DEF im2, n
  <2> QED
    BY <2>2, <2>3
<1> HIDE DEF n, new
<1>8. ASSUME NEW t, NEW k, Listed(img.segments, n + 1, t, k) PROVE FALSE
  <2>1. img.segments[t].sections \in Seq(1 .. n) /\ k \in DOMAIN img.segments[t].sections
    BY <1>2, <1>5, <1>8 DEF Listed, ImageOK
  <2>2. img.segments[t].sections[k] \in 1 .. n
    <3>1. PICK list \in Seq(1 .. n) : list = img.segments[t].sections
      BY <2>1
    <3>2. k \in 1 .. Len(list)
      BY <2>1, <3>1
    <3> QED
      BY <3>1, <3>2, ElementOfSeq
  <2> QED
    BY <1>5, <1>8, <2>2 DEF Listed
<1>9. ASSUME NEW k \in 1 .. n, img.sections[k].kind = "bss", kind = "bss"
      PROVE  img.sections[k].alloc # alloc
  <2>1. img.sections[k].of = 0
    BY <1>5, <1>9 DEF OneBss
  <2>2. SectionOf(img, kind, alloc, 0) = 0
    BY <1>9
  <2>3. img.sections[k].alloc = alloc => 0 >= k
    BY <1>2, <1>5, <1>9, <2>1, <2>2, SectionOfIs
  <2> QED
    BY <1>5, <2>3
<1>10. ASSUME NEW i \in 1 .. n + 1, NEW k \in 1 .. n + 1,
              img'.sections[i].kind = "bss", img'.sections[k].kind = "bss",
              img'.sections[i].alloc = img'.sections[k].alloc
       PROVE  i = k
  <2>1. i \in 1 .. n \/ i = n + 1
    BY <1>5
  <2>2. k \in 1 .. n \/ k = n + 1
    BY <1>5
  <2> QED
    BY <1>5, <1>6, <1>9, <1>10, <2>1, <2>2 DEF OneBss
<1>11. ASSUME NEW i \in 1 .. n + 1, img'.sections[i].kind = "bss"
       PROVE  /\ img'.sections[i].of = 0
              /\ \A t, k : Listed(img'.segments, i, t, k) =>
                   img'.sections[i].alloc = img'.segments[t].type
  <2>1. CASE i \in 1 .. n
    <3>1. img'.sections[i] = img.sections[i] /\ i # n + 1
      BY <1>5, <1>6, <2>1
    <3> QED
      BY <1>5, <1>7, <1>11, <2>1, <3>1 DEF OneBss
  <2>2. CASE i = n + 1
    BY <1>5, <1>6, <1>7, <1>8, <2>2
  <2> QED
    BY <1>5, <2>1, <2>2
<1>12. OneBss(img')
  BY <1>6, <1>10, <1>11 DEF OneBss
<1> QED
  BY <1>1, <1>3, <1>4, <1>12, BecomesStep

\* Data is added to a section.
LEMMA AddDataStep ==
  ASSUME CodeInv, NEW i \in DOMAIN img.sections, NEW piece \in Pieces, AddData(i, piece)
  PROVE  CodeInv'
<1>1. /\ Grows(addData(img, i, piece.size, piece.align), i, DataLimit)
      /\ img' = addData(img, i, piece.size, piece.align)
      /\ added' = [added EXCEPT ![i] = @ + 1]
      /\ img.sections[i].kind # "hsatext"
  BY DEF AddData, Grows, DataKinds
<1>2. ImageOK(img) /\ added \in [DOMAIN img.sections -> 0 .. DataLimit + CodeLimit]
  BY DEF CodeInv
<1>3. piece.size \in Nat /\ piece.align \in Aligns \ {0}
  BY HsaCodeAssumption, AlignsAre
<1>4. /\ ImageOK(img') /\ Len(img'.sections) = Len(img.sections)
      /\ DOMAIN img'.sections = DOMAIN img.sections /\ img'.symbols = img.symbols
  BY <1>1, <1>2, <1>3, AddDataOK
<1>5. Stays(img, img') /\ OneBss(img') /\ KernelsFrom(img, img')
  BY <1>1, <1>2, <1>4, AddDataKeeps, BssStays DEF KernelsFrom, Kept, CodeInv
<1>6. /\ \A k \in DOMAIN img.sections : img.sections[k].kind = "hsatext" => added'[k] = added[k]
      /\ \A k \in DOMAIN img'.sections \ DOMAIN img.sections : added'[k] = 0
  BY <1>1, <1>2, <1>4
<1>7. KernelsInSections(img') /\ Placed(img', added')
  BY <1>4, <1>5, <1>6, CodeStays
<1> QED
  BY <1>1, <1>4, <1>5, <1>7, GrowsTypes

\* A section without data gets its size.
LEMMA SetMemoryStep ==
  ASSUME CodeInv, NEW i \in DOMAIN img.sections, NEW piece \in Pieces, SetMemory(i, piece)
  PROVE  CodeInv'
<1>1. /\ Becomes(setMemory(img, i, piece.size, piece.align))
      /\ img' = setMemory(img, i, piece.size, piece.align)
      /\ img.sections[i].kind = "bss"
  BY DEF SetMemory, Becomes
<1>2. ImageOK(img)
  BY DEF CodeInv
<1>3. piece.size \in Nat /\ piece.align \in Nat
  BY HsaCodeAssumption
<1>4. ImageOK(img') /\ img'.symbols = img.symbols
  BY <1>1, <1>2, <1>3, SetMemoryOK
<1>5. Kept(img, img') /\ KernelsFrom(img, img')
  BY <1>1, <1>2, <1>4, SetMemoryKeeps DEF KernelsFrom
<1> QED
  BY <1>1, <1>4, <1>5, KeptStep

\* A symbol for a kernel or a variable; a kernel's is for the section for code.
LEMMA AddSymbolStep ==
  ASSUME CodeInv, NEW type \in {"kernel", "object"}, NEW i \in DOMAIN img.sections,
         Becomes(addSymbol(img, type, i, 0))
  PROVE  CodeInv'
<1>1. img' = addSymbol(img, type, i, 0)
  BY DEF Becomes
<1>2. ImageOK(img) /\ 0 \in Nat
  BY DEF CodeInv
<1>3. ImageOK(img')
  BY <1>1, <1>2, AddSymbolOK
<1>4. Kept(img, img')
  BY <1>1, <1>2, AddSymbolKeeps
<1>5. KernelsFrom(img, img')
  <2>1. ASSUME NEW j \in DOMAIN img'.symbols, img'.symbols[j].type = "kernel"
        PROVE  \/ j \in DOMAIN img.symbols /\ img'.symbols[j] = img.symbols[j]
               \/ type = "kernel" /\ img'.symbols[j].section = i /\ img'.symbols[j].value = 0
    BY <1>1, <1>2, <2>1, AddSymbolKeeps
  <2> QED
    BY <2>1 DEF KernelsFrom
<1> QED
  BY <1>1, <1>3, <1>4, <1>5, KeptStep

\* A kernel's symbol.
LEMMA AddExecutableSymbolStep ==
  ASSUME CodeInv, NEW section \in {0} \cup DOMAIN img.sections, AddExecutableSymbol(section)
  PROVE  CodeInv'
<1> DEFINE i == IF section = 0 THEN HsaText ELSE section
<1>1. i \in DOMAIN img.sections
  <2>1. HsaText # 0 => HsaText \in DOMAIN img.sections
    BY TextIsThere DEF HsaText, CodeInv
  <2> QED
    BY <2>1 DEF AddExecutableSymbol
<1>2. Becomes(addSymbol(img, "kernel", i, 0))
  BY DEF AddExecutableSymbol
<1> HIDE DEF i
<1> QED
  BY <1>1, <1>2, AddSymbolStep

\* A symbol gets its value.
LEMMA SetValueOK ==
  ASSUME NEW im, ImageOK(im), NEW j \in DOMAIN im.symbols, NEW value \in Nat
  PROVE  LET im2 == [im EXCEPT !.symbols[j].value = value]
         IN /\ ImageOK(im2) /\ im2.sections = im.sections /\ im2.segments = im.segments
            /\ DOMAIN im2.symbols = DOMAIN im.symbols
            /\ \A k \in DOMAIN im.symbols :
                 /\ im2.symbols[k].type = im.symbols[k].type
                 /\ im2.symbols[k].section = im.symbols[k].section
                 /\ im2.symbols[k].value = IF k = j THEN value ELSE im.symbols[k].value
<1> DEFINE im2 == [im EXCEPT !.symbols[j].value = value]
           new == [im.symbols[j] EXCEPT !.value = value]
<1>1. im.symbols \in Seq(SymbolRecords) /\ im.symbols[j] \in SymbolRecords
  BY ImageParts
<1>2. /\ new \in SymbolRecords /\ new.type = im.symbols[j].type
      /\ new.section = im.symbols[j].section /\ new.value = value
  BY <1>1 DEF SymbolRecords
<1>3. im2 = [im EXCEPT !.symbols = [im.symbols EXCEPT ![j] = new]]
  BY DEF ImageOK, Images
<1> HIDE DEF new
<1>4. [im.symbols EXCEPT ![j] = new] \in Seq(SymbolRecords)
  BY <1>1, <1>2
<1> HIDE DEF im2
<1>5. /\ im2 \in Images /\ im2.sections = im.sections /\ im2.segments = im.segments
      /\ im2.symbols = [im.symbols EXCEPT ![j] = new]
  BY <1>3, <1>4 DEF ImageOK, Images
<1>6. DOMAIN im2.symbols = DOMAIN im.symbols
  BY <1>5
<1>7. ASSUME NEW k \in DOMAIN im.symbols
      PROVE  /\ im2.symbols[k].type = im.symbols[k].type
             /\ im2.symbols[k].section = im.symbols[k].section
             /\ im2.symbols[k].value = IF k = j THEN value ELSE im.symbols[k].value
  BY <1>2, <1>5
<1>8. ImageOK(im2)
  BY <1>5, <1>6, <1>7 DEF ImageOK
<1> QED
  BY <1>5, <1>6, <1>7, <1>8 DEF im2

\* The kernel's code is put behind what is there, and the symbol gets its offset.
LEMMA AddKernelCodeStep ==
  ASSUME CodeInv, NEW j \in DOMAIN img.symbols, NEW size \in KernelSizes, AddKernelCode(j, size)
  PROVE  CodeInv'
<1> DEFINE T == HsaText
           mid == addData(img, T, size, KernelAlign)
           value == nextDataOffset(img, T, KernelAlign)
<1>1. /\ ImageOK(img) /\ KernelsInSections(img) /\ Placed(img, added)
      /\ added \in [DOMAIN img.sections -> 0 .. DataLimit + CodeLimit]
  BY DEF CodeInv
<1>2. /\ img.symbols[j].type = "kernel" /\ T # 0
      /\ img' = [mid EXCEPT !.symbols[j].value = value]
      /\ Grows(img', T, CodeLimit) /\ added' = [added EXCEPT ![T] = @ + 1]
  BY DEF AddKernelCode, Grows
<1>3. T \in DOMAIN img.sections /\ IsText(img.sections[T])
  BY <1>1, <1>2, TextIsThere DEF HsaText
<1>4. /\ size \in Nat /\ size >= KernelAlign /\ KernelAlign \in Nat \ {0}
      /\ KernelAlign \in Aligns \ {0}
  BY HsaCodeAssumption, AlignsAre
<1>5. img.sections[T].size \in Nat
  BY <1>1, <1>3, ImageParts DEF SectionRecords
<1>6. value \in Nat /\ img.sections[T].size <= value
  BY <1>4, <1>5, AlignUpIs DEF nextDataOffset
<1>7. /\ ImageOK(mid) /\ Len(mid.sections) = Len(img.sections)
      /\ DOMAIN mid.sections = DOMAIN img.sections /\ mid.symbols = img.symbols
      /\ mid.segments = img.segments
  BY <1>1, <1>3, <1>4, AddDataOK
<1>8. mid.sections = [img.sections EXCEPT ![T].size = AlignUp(@, KernelAlign) + size,
                                          ![T].align = Larger(@, KernelAlign)]
  BY <1>1, <1>3, AddDataSections
<1>9. AlignUp(img.sections[T].size, KernelAlign) = value
  BY DEF nextDataOffset
<1> HIDE DEF T, mid, value
<1>10. ASSUME NEW i \in DOMAIN img.sections
       PROVE  /\ mid.sections[i].kind = img.sections[i].kind
              /\ mid.sections[i].alloc = img.sections[i].alloc
              /\ mid.sections[i].of = img.sections[i].of
              /\ mid.sections[i].size = IF i = T THEN value + size ELSE img.sections[i].size
  <2>1. img.sections[i] \in SectionRecords
    BY <1>1, ImageParts
  <2> QED
    BY <1>8, <1>9, <2>1 DEF SectionRecords
<1>11. /\ ImageOK(img') /\ img'.sections = mid.sections /\ img'.segments = mid.segments
       /\ DOMAIN img'.symbols = DOMAIN img.symbols
       /\ \A k \in DOMAIN img.symbols :
            /\ img'.symbols[k].type = img.symbols[k].type
            /\ img'.symbols[k].section = img.symbols[k].section
            /\ img'.symbols[k].value = IF k = j THEN value ELSE img.symbols[k].value
  BY <1>2, <1>6, <1>7, SetValueOK
<1>12. KernelsInSections(img')
  <2>1. ASSUME NEW k \in DOMAIN img'.symbols, img'.symbols[k].type = "kernel"
        PROVE  img'.symbols[k].section \in DOMAIN img'.sections
    <3>1. /\ k \in DOMAIN img.symbols /\ img.symbols[k].type = "kernel"
          /\ img'.symbols[k].section = img.symbols[k].section
      BY <1>11, <2>1
    <3> QED
      BY <1>1, <1>7, <1>11, <3>1 DEF KernelsInSections
  <2> QED
    BY <2>1 DEF KernelsInSections
<1>13. ASSUME NEW i \in DOMAIN img'.sections, img'.sections[i].kind = "hsatext", added'[i] # 0
       PROVE  img'.sections[i].size >= KernelAlign
  <2>1. i \in DOMAIN img.sections /\ img.sections[i].kind = "hsatext"
    BY <1>7, <1>10, <1>11, <1>13
  <2>2. CASE i = T
    <3>1. img'.sections[i].size = value + size
      BY <1>3, <1>10, <1>11, <2>2
    <3> QED
      BY <1>4, <1>6, <3>1
  <2>3. CASE i # T
    <3>1. img'.sections[i].size = img.sections[i].size /\ added[i] # 0
      BY <1>1, <1>2, <1>10, <1>11, <1>13, <2>1, <2>3
    <3> QED
      BY <1>1, <2>1, <3>1 DEF Placed
  <2> QED
    BY <2>2, <2>3
<1>14. ASSUME OneText(img'), NEW k \in DOMAIN img'.symbols, KernelInText(img', k)
       PROVE  LET i == img'.symbols[k].section
              IN IF added'[i] = 0 THEN img'.symbols[k].value = 0
                 ELSE img'.symbols[k].value + KernelAlign <= img'.sections[i].size
  <2>1. OneText(img)
    BY <1>7, <1>10, <1>11, <1>14 DEF OneText
  <2>2. /\ k \in DOMAIN img.symbols /\ KernelInText(img, k)
        /\ img.symbols[k].section \in DOMAIN img.sections
        /\ img'.symbols[k].section = img.symbols[k].section
    <3>1. /\ k \in DOMAIN img.symbols /\ img.symbols[k].type = "kernel"
          /\ img'.symbols[k].section = img.symbols[k].section
          /\ img'.sections[img.symbols[k].section].kind = "hsatext"
      BY <1>11, <1>14 DEF KernelInText
    <3>2. img.symbols[k].section \in DOMAIN img.sections
      BY <1>1, <3>1 DEF KernelsInSections
    <3>3. img.sections[img.symbols[k].section].kind = "hsatext"
      BY <1>10, <1>11, <3>1, <3>2
    <3> QED
      BY <3>1, <3>2, <3>3 DEF KernelInText
  <2>3. img.symbols[k].section = T
    BY <1>3, <2>1, <2>2 DEF KernelInText, IsText, OneText
  <2>4. /\ added'[T] # 0 /\ img'.sections[T].size = value + size
        /\ added[T] \in Nat
    <3>1. added[T] \in 0 .. DataLimit + CodeLimit
      BY <1>1, <1>3
    <3>2. added[T] \in Nat /\ added[T] + 1 # 0
      BY <3>1, Bounds
    <3>3. added'[T] = added[T] + 1
      BY <1>1, <1>2, <1>3
    <3> QED
      BY <1>3, <1>10, <1>11, <3>2, <3>3
  <2>5. PICK v \in Nat : v = img.symbols[k].value
    BY <1>1, <2>2, ImageParts DEF SymbolRecords
  <2>6. IF added[T] = 0 THEN v = 0 ELSE v + KernelAlign <= img.sections[T].size
    BY <1>1, <2>1, <2>2, <2>3, <2>5 DEF Placed
  <2>7. v + KernelAlign <= value + size
    <3>1. PICK a \in Nat, z \in Nat : a = KernelAlign /\ z = img.sections[T].size
      BY <1>4, <1>5
    <3>2. (v = 0 \/ v + a <= z) /\ z <= value /\ size >= a
      BY <1>4, <1>6, <2>6, <3>1
    <3>3. v + a <= value + size
      BY <1>4, <1>6, <3>2
    <3> QED
      BY <3>1, <3>3
  <2>8. value + KernelAlign <= value + size
    BY <1>4, <1>6
  <2>9. img'.symbols[k].value = value \/ img'.symbols[k].value = v
    BY <1>11, <2>2, <2>5
  <2>10. img'.symbols[k].value + KernelAlign <= img'.sections[T].size
    BY <2>4, <2>7, <2>8, <2>9
  <2> QED
    BY <2>2, <2>3, <2>4, <2>10
<1>15. Placed(img', added')
  BY <1>13, <1>14 DEF Placed
<1>16. OneBss(img')
  <2>1. BssFrom(img, img')
    BY <1>7, <1>10, <1>11 DEF BssFrom
  <2> QED
    BY <2>1, BssStays DEF CodeInv
<1> QED
  BY <1>2, <1>3, <1>7, <1>11, <1>12, <1>15, <1>16, GrowsTypes

\* The section of a symbol can be relocated.
LEMMA SymbolSection ==
  ASSUME CodeInv, NEW j \in DOMAIN img.symbols
  PROVE  img.symbols[j].section \in 0 .. SectionLimit
<1>1. img.symbols[j].section \in 0 .. Len(img.sections)
  BY DEF CodeInv, ImageOK
<1>2. Len(img.sections) \in Nat /\ Len(img.sections) <= SectionLimit /\ SectionLimit \in Nat
  BY ImageParts, Bounds DEF CodeInv
<1> QED
  BY <1>1, <1>2

\* A descriptor, its symbol and a relocation in one call.
LEMMA AddInitializerStep ==
  ASSUME CodeInv, NEW j \in DOMAIN img.symbols, NEW kind \in {"imageinit", "samplerinit"},
         AddInitializer(j, kind)
  PROVE  CodeInv'
<1> DEFINE made == WithSection(img, kind, "none", 0)
           at == SectionOf(made, kind, "none", 0)
           mid == addData(made, at, DescriptorSize, FileAlign)
           offset == nextDataOffset(made, at, FileAlign)
           described == addSymbol(mid, "metadata", at, offset)
           of == img.symbols[j].section
<1>1. ImageOK(img) /\ 0 \in 0 .. SectionLimit
  BY Bounds DEF CodeInv
<1>2. Becomes(addRelocation(described, of)) /\ img' = addRelocation(described, of)
  BY DEF AddInitializer, Becomes
<1>3. /\ ImageOK(made) /\ at \in DOMAIN made.sections /\ made.symbols = img.symbols
      /\ Kept(img, made) /\ made.sections[at].kind = kind
  BY <1>1, WithSectionOK, WithSectionKeeps, WithSectionKind
<1>4. of \in 0 .. SectionLimit
  BY SymbolSection
<1>5. offset \in Nat
  <2>1. made.sections[at].size \in Nat
    BY <1>3, ImageParts DEF SectionRecords
  <2> QED
    BY <2>1, ElfImageAssumption, AlignUpIs DEF nextDataOffset
<1> HIDE DEF made, at, of, offset
<1>6. /\ ImageOK(mid) /\ mid.symbols = made.symbols /\ DOMAIN mid.sections = DOMAIN made.sections
  <2>1. DescriptorSize \in Nat /\ FileAlign \in Aligns \ {0}
    BY ElfImageAssumption, AlignsAre DEF DescriptorSize
  <2> QED
    <3>1. /\ ImageOK(addData(made, at, DescriptorSize, FileAlign))
          /\ addData(made, at, DescriptorSize, FileAlign).symbols = made.symbols
          /\ DOMAIN addData(made, at, DescriptorSize, FileAlign).sections = DOMAIN made.sections
      BY <1>3, <2>1, AddDataOK
    <3> QED
      BY <3>1
<1>7. Kept(made, mid)
  BY <1>3, AddDataKeeps
<1> HIDE DEF mid
<1>8. ImageOK(described) /\ Kept(mid, described)
  BY <1>3, <1>5, <1>6, AddSymbolOK, AddSymbolKeeps
<1>9. \A k \in DOMAIN described.symbols : described.symbols[k].type = "kernel" =>
        k \in DOMAIN img.symbols /\ described.symbols[k] = img.symbols[k]
  BY <1>3, <1>6, AddSymbolKeeps
<1> HIDE DEF described
<1>10. /\ ImageOK(img') /\ Kept(described, img') /\ img'.symbols = described.symbols
  BY <1>2, <1>4, <1>8, AddRelocationOK, AddRelocationKeeps
<1>11. Kept(img, img')
  BY <1>3, <1>7, <1>8, <1>10, KeptTwice
<1>12. KernelsFrom(img, img')
  BY <1>9, <1>10 DEF KernelsFrom
<1> QED
  BY <1>2, <1>10, <1>11, <1>12, KeptStep

\* The address of another symbol, and a version note.
LEMMA AddInitVarWithAddressStep ==
  ASSUME CodeInv, NEW j \in DOMAIN img.symbols, AddInitVarWithAddress(j)
  PROVE  CodeInv'
<1>1. /\ Becomes(addRelocation(img, img.symbols[j].section))
      /\ img' = addRelocation(img, img.symbols[j].section)
  BY DEF AddInitVarWithAddress, Becomes
<1>2. ImageOK(img)
  BY DEF CodeInv
<1>3. ImageOK(img') /\ Kept(img, img') /\ img'.symbols = img.symbols
  BY <1>1, <1>2, SymbolSection, AddRelocationOK, AddRelocationKeeps
<1>4. KernelsFrom(img, img')
  BY <1>3 DEF KernelsFrom
<1> QED
  BY <1>1, <1>3, <1>4, KeptStep

\* A version note.
LEMMA AddNoteStep ==
  ASSUME CodeInv, NEW major \in Versions, AddNoteCodeObjectVersion(major)
  PROVE  CodeInv'
<1>1. Becomes(addNote(img, major)) /\ img' = addNote(img, major) /\ major \in Nat
  BY HsaCodeAssumption DEF AddNoteCodeObjectVersion, Becomes
<1>2. ImageOK(img)
  BY DEF CodeInv
<1>3. ImageOK(img') /\ Kept(img, img') /\ img'.symbols = img.symbols
  BY <1>1, <1>2, AddNoteOK, AddNoteKeeps
<1>4. KernelsFrom(img, img')
  BY <1>3 DEF KernelsFrom
<1> QED
  BY <1>1, <1>3, <1>4, KeptStep

\* The file is written from the image that is there.
LEMMA FreezeStep ==
  ASSUME CodeInv, Freeze
  PROVE  CodeInv'
<1>1. /\ file'.offsets = Offsets(img) /\ file'.segments = Segments(img, Offsets(img))
      /\ img' = img /\ added' = added
  BY DEF Freeze
<1>2. InLine(img, file'.offsets, file'.segments) /\ Len(file'.segments) = Len(img.segments)
  BY <1>1, SegmentsInLine DEF CodeInv
<1>3. FileInOrder(img, file'.offsets)
  BY <1>1, OffsetsInOrder DEF CodeInv
<1>4. FileInv'
  BY <1>1, <1>2, <1>3 DEF FileInv
<1> QED
  BY <1>1, <1>4 DEF CodeInv

\* A section of data that is asked for has a kind and a segment of those there are.
LEMMA DataSectionsAre ==
  ASSUME NEW d \in DataSections
  PROVE  d[1] \in DataKinds /\ d[2] \in Allocs
  BY HsaCodeAssumption DEF Allocs

\* The types of the segments of data.
LEMMA AllocsAre ==
  Allocs \subseteq {"global_program", "global_agent", "readonly_agent"}
  BY HsaCodeAssumption DEF Allocs

\* Every call of the finalizer.
LEMMA BuildKeeps ==
  ASSUME CodeInv, Build
  PROVE  CodeInv' /\ ~frozen
<1>1. ~frozen
  BY DEF Build, InitHsaSegment, AddCodeSection, InitHsaSectionSegment, HsaDataSection, AddData,
         SetMemory, AddExecutableSymbol, AddKernelCode, AddVariableSymbol, AddInitializer,
         AddInitVarWithAddress, AddNoteCodeObjectVersion, Freeze, Becomes, Grows
<1>2. ImageOK(img)
  BY DEF CodeInv
<1>3. ASSUME NEW writable \in CodeWritable, InitHsaSegment("code_agent", writable)
      PROVE  CodeInv'
  <2>1. writable \in BOOLEAN /\ "code_agent" \in SegmentTypeNames
    BY HsaCodeAssumption DEF SegmentTypeNames
  <2> QED
    BY <1>3, <2>1, InitHsaSegmentStep
<1>4. ASSUME NEW writable \in CodeWritable, AddCodeSection(writable)
      PROVE  CodeInv'
  <2>1. /\ HsaSegment("code_agent", writable) \in DOMAIN img.segments
        /\ img.segments[HsaSegment("code_agent", writable)].type = "code_agent"
    BY <1>2, <1>4, HsaSegmentIs DEF AddCodeSection
  <2>2. Becomes(addSectionTo(img, "hsatext", "code_agent", HsaSegment("code_agent", writable)))
    BY <1>4 DEF AddCodeSection
  <2>3. /\ "code_agent" \in SegmentTypeNames /\ "hsatext" \in DataKinds \cup {"hsatext"}
        /\ "hsatext" # "bss"
    BY DEF SegmentTypeNames
  <2> QED
    BY <2>1, <2>2, <2>3, AddSectionStep
<1>5. ASSUME NEW kind \in DataKinds, NEW alloc \in Allocs, NEW combine \in BOOLEAN,
             InitHsaSectionSegment(kind, alloc, combine)
      PROVE  CodeInv'
  <2>1. /\ (combine \/ ~IsAmdHsaElfSectionROData(kind)) \in BOOLEAN
        /\ alloc \in SegmentTypeNames
    BY DEF SegmentTypeNames
  <2>2. InitHsaSegment(alloc, combine \/ ~IsAmdHsaElfSectionROData(kind))
    BY <1>5 DEF InitHsaSectionSegment
  <2> QED
    BY <2>1, <2>2, InitHsaSegmentStep
<1>6. ASSUME NEW kind \in DataKinds, NEW alloc \in Allocs, NEW combine \in BOOLEAN,
             HsaDataSection(kind, alloc, combine)
      PROVE  CodeInv'
  <2> DEFINE s == HsaSegment(alloc, combine \/ ~IsAmdHsaElfSectionROData(kind))
  <2>1. /\ s # 0 /\ Becomes(addSectionTo(img, kind, alloc, s))
        /\ SectionOf(img, kind, alloc, 0) = 0
    BY <1>6 DEF HsaDataSection
  <2>2. s \in DOMAIN img.segments /\ img.segments[s].type = alloc
    BY <1>2, <2>1, HsaSegmentIs
  <2>3. alloc \in SegmentTypeNames /\ kind \in DataKinds \cup {"hsatext"}
    BY DEF SegmentTypeNames
  <2> HIDE DEF s
  <2> QED
    BY <2>1, <2>2, <2>3, AddSectionStep
<1>7. ASSUME NEW i \in DOMAIN img.sections, AddVariableSymbol(i, 0)
      PROVE  CodeInv'
  <2>1. Becomes(addSymbol(img, "object", i, 0))
    BY <1>7 DEF AddVariableSymbol
  <2> QED
    BY <2>1, AddSymbolStep
<1>8. ASSUME NEW d \in DataSections, NEW combine \in BOOLEAN,
             InitHsaSectionSegment(d[1], d[2], combine) \/ HsaDataSection(d[1], d[2], combine)
      PROVE  CodeInv'
  BY <1>5, <1>6, <1>8, DataSectionsAre
<1> QED
  BY <1>1, <1>3, <1>4, <1>7, <1>8, AddDataStep, SetMemoryStep, AddExecutableSymbolStep,
     AddKernelCodeStep, AddInitializerStep, AddInitVarWithAddressStep, AddNoteStep,
     FreezeStep DEF Build

-----------------------------------------------------------------------------
(* Reading and loading.                                                    *)

\* Every segment comes back once, or none does.
LEMMA DataSegmentsAre ==
  ASSUME CodeInv, frozen
  PROVE  /\ DataSegments = file.segments \/ DataSegments = << >>
         /\ img.versions # << >> /\ ~ (Head(img.versions) >= 2) => DataSegments = file.segments
<1> DEFINE a == file.segments
           N == Len(a)
           null == [type |-> "null", vaddr |-> 0, offset |-> 0, imageSize |-> 0,
                    memSize |-> 0, addrs |-> << >>]
           b == [s \in DOMAIN a |-> null]
           seq == a \o b
           R == PushedRecords(img, file.offsets) \cup {null}
<1>1. /\ a \in Seq(PushedRecords(img, file.offsets))
      /\ \A s \in DOMAIN a : a[s].type \in SegmentTypeNames
  BY SegmentsFit DEF CodeInv, FileInv, InLine
<1>2. null.type = "null"
  OBVIOUS
<1>3. PulledSegments = seq
  BY DEF PulledSegments
<1> HIDE DEF null, a
<1>4. /\ a \in Seq(R) /\ N \in Nat /\ DOMAIN a = 1 .. N
  BY <1>1, SeqMonotonic
<1>5. b \in Seq(R) /\ Len(b) = N /\ DOMAIN b = 1 .. N /\ \A s \in 1 .. N : b[s] = null
  <2> HIDE DEF N
  <2>1. b \in [1 .. N -> R]
    BY <1>4
  <2>2. b \in Seq(R)
    BY <1>4, <2>1
  <2> QED
    BY <1>4, <2>1, <2>2
<1> HIDE DEF b, R, N
<1>6. /\ seq \in Seq(R) /\ Len(seq) = N + N
      /\ \A i \in 1 .. N + N : seq[i] = IF i <= N THEN a[i] ELSE b[i - N]
  BY <1>4, <1>5 DEF N
<1>7. SubSeq(seq, 1, 0) = << >>
  BY <1>6
<1>8. SubSeq(seq, 1, N) = a
  <2>1. SubSeq(seq, 1, N) \in Seq(R) /\ Len(SubSeq(seq, 1, N)) = N
        /\ \A i \in 1 .. N : SubSeq(seq, 1, N)[i] = seq[i]
    <3> HIDE DEF seq
    <3> QED
      BY <1>4, <1>6
  <2>2. \A i \in 1 .. N : SubSeq(seq, 1, N)[i] = a[i]
    <3> HIDE DEF seq
    <3> QED
      BY <1>4, <1>6, <2>1
  <2> HIDE DEF seq
  <2> QED
    BY <1>4, <2>1, <2>2, SeqEqual DEF N
<1> HIDE DEF seq
<1>9. ASSUME NEW i \in 1 .. N + N
      PROVE  seq[i].type \in SegmentTypeNames <=> i <= N
  <2>1. "null" \notin SegmentTypeNames
    BY AllocsAre DEF SegmentTypeNames
  <2>2. CASE i <= N
    <3>1. i \in DOMAIN a /\ seq[i] = a[i]
      BY <1>4, <1>6, <2>2
    <3> QED
      BY <1>1, <2>2, <3>1
  <2>3. CASE ~ (i <= N)
    <3>1. i - N \in 1 .. N /\ seq[i] = b[i - N]
      BY <1>4, <1>6, <2>3
    <3> QED
      BY <1>2, <1>5, <2>1, <2>3, <3>1
  <2> QED
    BY <2>2, <2>3
<1>10. \A i \in 1 .. N + N : seq[i].type \in SegmentTypeNames \cup {"null"}
  <2> SUFFICES ASSUME NEW i \in 1 .. N + N PROVE seq[i].type \in SegmentTypeNames \cup {"null"}
    OBVIOUS
  <2>1. CASE i <= N
    BY <1>9, <2>1
  <2>2. CASE ~ (i <= N)
    <3>1. i - N \in 1 .. N /\ seq[i] = b[i - N]
      BY <1>4, <1>6, <2>2
    <3> QED
      BY <1>2, <1>5, <3>1
  <2> QED
    BY <2>1, <2>2
<1>11. SegmentTypeNames \subseteq {"global_program", "global_agent", "readonly_agent", "code_agent"}
  BY AllocsAre DEF SegmentTypeNames
<1>12. 0 \in 0 .. Len(seq) /\ N \in 0 .. Len(seq) /\ Len(seq) = N + N
  BY <1>4, <1>6
<1>13. img.versions # << >> /\ ~ (Head(img.versions) >= 2) =>
         SegmentTypes = {"global_program", "global_agent", "readonly_agent", "code_agent"}
  BY DEF SegmentTypes
<1>14. CASE SegmentTypes \subseteq {"load"}
  <2>1. \A i \in 1 .. Len(seq) : seq[i].type \in SegmentTypes <=> i <= 0
    <3>1. "load" \notin SegmentTypeNames \cup {"null"}
      BY <1>11
    <3>2. \A i \in 1 .. Len(seq) : seq[i].type \notin SegmentTypes
      BY <1>10, <1>12, <1>14, <3>1
    <3> QED
      BY <1>4, <1>12, <3>2
  <2>2. OfTypes(SegmentTypes, seq) = SubSeq(seq, 1, 0)
    BY <1>6, <1>12, <2>1, OfTypesPrefix
  <2> QED
    BY <1>3, <1>7, <1>14, <1>13, <2>2 DEF DataSegments
<1>15. CASE SegmentTypes = {"global_program", "global_agent", "readonly_agent", "code_agent"}
  <2>1. \A i \in 1 .. Len(seq) : seq[i].type \in SegmentTypes <=> i <= N
    BY <1>9, <1>10, <1>11, <1>12, <1>15
  <2>2. OfTypes(SegmentTypes, seq) = SubSeq(seq, 1, N)
    BY <1>6, <1>12, <2>1, OfTypesPrefix
  <2> QED
    BY <1>3, <1>8, <2>2 DEF DataSegments, a
<1> QED
  BY <1>13, <1>14, <1>15 DEF SegmentTypes, a

\* Symbols up to a first kernel that is not read come back.
LEMMA FirstUnreadIs ==
  ASSUME CodeInv
  PROVE  /\ Len(img.symbols) \in Nat /\ DOMAIN img.symbols = 1 .. Len(img.symbols)
         /\ FirstUnread \in 1 .. Len(img.symbols) + 1
         /\ FirstUnread \in DOMAIN img.symbols =>
              /\ img.symbols[FirstUnread].type = "kernel"
              /\ ~HeaderRead(img.symbols[FirstUnread])
<1> DEFINE N == Len(img.symbols)
           unread == {j \in DOMAIN img.symbols : /\ img.symbols[j].type = "kernel"
                                                 /\ ~HeaderRead(img.symbols[j])}
           S == {N + 1} \cup unread
<1>1. N \in Nat /\ DOMAIN img.symbols = 1 .. N /\ unread \subseteq 1 .. N
  BY ImageParts DEF CodeInv
<1>2. FirstUnread = Min(S)
  BY DEF FirstUnread
<1>3. S \in SUBSET (0 .. N + 1) /\ S # {} /\ N + 1 \in Nat /\ S \subseteq 1 .. N + 1
  <2> HIDE DEF unread, N
  <2> QED
    BY <1>1
<1>4. Min(S) \in S
  <2> HIDE DEF S
  <2>1. \E i \in S : \A j \in S : i <= j
    BY <1>3, LeastElement
  <2> QED
    BY <2>1 DEF Min
<1>5. FirstUnread \in 1 .. N => FirstUnread \in unread
  <2> HIDE DEF N, unread
  <2> QED
    BY <1>1, <1>2, <1>4
<1> HIDE DEF S
<1> QED
  BY <1>1, <1>2, <1>3, <1>4, <1>5

\* If the header of each kernel up to one is read, its symbol is not lost in reading, and
\* the last stays the last.
LEMMA KernelPulled ==
  ASSUME CodeInv, NEW j \in DOMAIN img.symbols, img.symbols[j].type = "kernel",
         \A i \in DOMAIN img.symbols :
           img.symbols[i].type = "kernel" /\ i <= j => HeaderRead(img.symbols[i])
  PROVE  \E k \in DOMAIN PulledSymbols :
           /\ PulledSymbols[k] = img.symbols[j]
           /\ LastOf("kernel", img.symbols, j) => LastOf("kernel", PulledSymbols, k)
<1> DEFINE N == Len(img.symbols)
           end == FirstUnread
           seq == SubSeq(img.symbols, 1, end - 1)
<1>1. img.symbols \in Seq(SymbolRecords) /\ N \in Nat /\ DOMAIN img.symbols = 1 .. N
  BY ImageParts DEF CodeInv
<1>2. end \in 1 .. N + 1 /\ ~ (end <= j)
  <2>1. end \in 1 .. N + 1
    BY FirstUnreadIs
  <2>2. ASSUME end <= j PROVE FALSE
    <3>1. end \in DOMAIN img.symbols
      <4> HIDE DEF end, N
      <4> QED
        BY <1>1, <2>1, <2>2
    <3> QED
      BY <2>2, <3>1, FirstUnreadIs
  <2> QED
    BY <2>1, <2>2
<1>3. PulledSymbols = OfTypes({"kernel", "object"}, seq)
  BY DEF PulledSymbols
<1> HIDE DEF end, N
<1>4. /\ end - 1 \in 0 .. N /\ j \in 1 .. end - 1
      /\ seq \in Seq(SymbolRecords) /\ DOMAIN seq = 1 .. end - 1
      /\ \A i \in 1 .. end - 1 : seq[i] = img.symbols[i]
  <2>1. end - 1 \in 0 .. N /\ j \in 1 .. end - 1
    BY <1>1, <1>2
  <2>2. seq \in Seq(SymbolRecords) /\ Len(seq) = end - 1
    BY <1>1, <2>1 DEF N
  <2>3. \A i \in 1 .. end - 1 : seq[i] = img.symbols[i]
    BY <1>1, <2>1 DEF N
  <2> QED
    BY <2>1, <2>2, <2>3
<1> HIDE DEF seq
<1>5. LastOf("kernel", img.symbols, j) => LastOf("kernel", seq, j)
  BY <1>1, <1>4 DEF LastOf
<1>6. PICK types, kernel : types = {"kernel", "object"} /\ kernel = "kernel"
  OBVIOUS
<1>7. j \in DOMAIN seq /\ seq[j].type \in types /\ seq[j] = img.symbols[j]
  BY <1>4, <1>6
<1>8. \E k \in DOMAIN OfTypes(types, seq) :
        /\ OfTypes(types, seq)[k] = seq[j]
        /\ LastOf(kernel, seq, j) => LastOf(kernel, OfTypes(types, seq), k)
  BY <1>4, <1>7, OfTypesHas
<1> QED
  BY <1>3, <1>5, <1>6, <1>7, <1>8

\* What is read back is a sequence of symbols in any case.
LEMMA PulledIsSeq ==
  ASSUME CodeInv
  PROVE  Len(PulledSymbols) \in Nat /\ DOMAIN PulledSymbols = 1 .. Len(PulledSymbols)
<1> DEFINE N == Len(img.symbols)
           end == FirstUnread
<1>1. img.symbols \in Seq(SymbolRecords) /\ N \in Nat
  BY ImageParts DEF CodeInv
<1>2. end \in 1 .. N + 1
  BY FirstUnreadIs
<1>3. PulledSymbols = OfTypes({"kernel", "object"}, SubSeq(img.symbols, 1, end - 1))
  BY DEF PulledSymbols
<1> HIDE DEF end
<1>4. SubSeq(img.symbols, 1, end - 1) \in Seq(SymbolRecords)
  <2>1. end - 1 \in 0 .. N
    <3> HIDE DEF N
    <3> QED
      BY <1>1, <1>2
  <2> QED
    BY <1>1, <2>1
<1>5. PulledSymbols \in Seq(SymbolRecords)
  BY <1>3, <1>4, OfTypesHas
<1> QED
  BY <1>5

\* What the loader is given of the symbols that are read back.
Given == [j \in DOMAIN PulledSymbols |-> [addr |-> VAddr(PulledSymbols[j]),
                                          kernel |-> PulledSymbols[j].type = "kernel"]]

\* There is a kernel among those looked at so far.
KernelSeen == \E j \in DOMAIN syms : syms[j].kernel /\ (loading = "symbols" => j < index)

\* The loader reads a file that is written, what it has read of it stays, and the first
\* kernel it meets gives it an address.
LoaderInv ==
  /\ loading \in {"create", "crashed", "alloc", "segments", "symbols", "freeze", "done"}
  /\ DOMAIN CtxHst = 0 .. CtxMemSize - 1
  /\ loading # "create" => frozen /\ segs = DataSegments /\ syms = Given
  /\ loading = "crashed" => segs = << >> \/ ReadsNoBits
  /\ loading \notin {"create", "crashed"} => segs # << >>
  /\ loading = "symbols" => index \in Nat
  /\ loading \in {"symbols", "freeze", "done"} /\ KernelSeen => KernelSymbolAddress \in Nat

-----------------------------------------------------------------------------
(* What the loader has copied, and the kernel it has found.                *)

\* The segments before the index while the loader goes through them, all of them after.
Laid(s) == loading # "segments" \/ s < index
Covers(s, a) == a \in segs[s].vaddr .. segs[s].vaddr + segs[s].imageSize - 1

\* A place of the host's memory has the byte of the segment laid there, or is zero, and
\* the memory reaches to the end of the last segment.
ContentsInv ==
  loading \in {"segments", "symbols", "freeze", "done"} =>
    /\ CtxMemSize = segs[Len(segs)].vaddr + segs[Len(segs)].memSize
    /\ loading = "segments" => index \in DOMAIN segs
    /\ \A a \in DOMAIN CtxHst :
         /\ \A s \in DOMAIN segs : Laid(s) /\ Covers(s, a) => CtxHst[a] = Image(s, a - segs[s].vaddr)
         /\ (\A s \in DOMAIN segs : Laid(s) => ~ Covers(s, a)) => CtxHst[a] = ZERO
    /\ loading = "done" => CtxDev = CtxHst

\* The symbol has been looked at.
Looked(j) == loading = "symbols" => j < index

\* The address found is that for the last kernel looked at.
KernelInv ==
  loading \in {"symbols", "freeze", "done"} =>
    \A j \in DOMAIN syms :
      /\ syms[j].kernel /\ Looked(j)
      /\ \A i \in DOMAIN syms : i > j /\ Looked(i) => ~ syms[i].kernel
      => KernelSymbolAddress = segs[SegmentFound(syms[j].addr)].vaddr

\* The inductive invariant.
CodeLoadInv == CodeInv /\ LoaderInv /\ ContentsInv /\ KernelInv

\* The segments the loader has are those in the file.
LEMMA SegmentsGiven ==
  ASSUME CodeInv, LoaderInv, loading \notin {"create", "crashed"}
  PROVE  /\ InLine(img, file.offsets, segs) /\ Len(segs) = Len(img.segments) /\ segs # << >>
         /\ Len(segs) \in Nat /\ DOMAIN segs = 1 .. Len(segs)
         /\ \A s \in DOMAIN segs : Fits(segs[s])
<1>1. frozen /\ segs = DataSegments /\ segs # << >>
  BY DEF LoaderInv
<1>2. segs = file.segments
  BY <1>1, DataSegmentsAre
<1>3. InLine(img, file.offsets, segs) /\ Len(segs) = Len(img.segments) /\ ImageOK(img)
  BY <1>1, <1>2 DEF CodeInv, FileInv
<1>4. \A s \in DOMAIN segs : Fits(segs[s])
  BY <1>3, SegmentsFit
<1>5. segs \in Seq(PushedRecords(img, file.offsets))
  BY <1>3 DEF InLine
<1> QED
  BY <1>1, <1>3, <1>4, <1>5

\* The search for a symbol's segment ends with one of them.
LEMMA FoundIsASegment ==
  ASSUME CodeInv, LoaderInv, loading = "symbols", NEW addr
  PROVE  segs[SegmentFound(addr)].vaddr \in Nat
<1> DEFINE past == {k \in DOMAIN segs : addr <= segs[k].vaddr}
<1>1. /\ Len(segs) \in Nat /\ DOMAIN segs = 1 .. Len(segs) /\ segs # << >>
      /\ \A s \in DOMAIN segs : Fits(segs[s])
  BY SegmentsGiven
<1>2. Len(segs) \in DOMAIN segs
  <2>1. segs \in Seq(PushedRecords(img, file.offsets))
    BY SegmentsGiven DEF InLine
  <2> QED
    BY <1>1, <2>1
<1>3. past \in SUBSET (0 .. Len(segs)) /\ past \subseteq DOMAIN segs
  BY <1>1
<1>4. SegmentFound(addr) = IF past = {} THEN Len(segs) ELSE Min(past)
  BY DEF SegmentFound
<1> HIDE DEF past
<1>5. past # {} => Min(past) \in past
  <2> SUFFICES ASSUME past # {} PROVE Min(past) \in past
    OBVIOUS
  <2>1. \E i \in past : \A j \in past : i <= j
    BY <1>1, <1>3, LeastElement
  <2> QED
    BY <2>1 DEF Min
<1>6. SegmentFound(addr) \in DOMAIN segs
  BY <1>2, <1>3, <1>4, <1>5
<1> QED
  BY <1>1, <1>6 DEF Fits

\* It holds of a new image, before anything is loaded.
LEMMA InitInv == Init => CodeLoadInv
<1> SUFFICES ASSUME Init PROVE CodeLoadInv
  OBVIOUS
<1>1. /\ img = EmptyImage /\ added = << >> /\ file = NoFile
      /\ CtxHst = << >> /\ CtxMemSize = 0 /\ loading = "create"
  BY DEF Init, CodeInit
<1>2. ImageOK(img)
  BY <1>1 DEF EmptyImage, ImageOK, Images, ListedOnce, Listed
<1>3. OneBss(img) /\ KernelsInSections(img) /\ Placed(img, added)
  BY <1>1 DEF EmptyImage, OneBss, KernelsInSections, Placed
<1>4. Len(img.sections) <= SectionLimit /\ DOMAIN img.sections = {}
  BY <1>1, Bounds DEF EmptyImage
<1>5. added \in [DOMAIN img.sections -> 0 .. DataLimit + CodeLimit]
  BY <1>1, <1>4
<1>6. FileInv
  BY <1>1 DEF FileInv, frozen, NoFile
<1>7. DOMAIN CtxHst = 0 .. CtxMemSize - 1
  BY <1>1
<1> QED
  BY <1>1, <1>2, <1>3, <1>4, <1>5, <1>6, <1>7
     DEF CodeLoadInv, CodeInv, LoaderInv, ContentsInv, KernelInv

\* The loader reads the code object, never changes it, and keeps the address it finds.
LEMMA LoaderKeeps ==
  ASSUME CodeInv, LoaderInv, LoaderNext, UNCHANGED codeVars
  PROVE  LoaderInv'
<1>1. loading \in {"alloc", "segments", "symbols", "freeze"}
  BY DEF LoaderNext, context_alloc_memory, load_code_segment, load_kenrel_symbol,
         freeze_executable
<1>2. /\ segs' = segs /\ syms' = syms /\ frozen' = frozen /\ ReadsNoBits' = ReadsNoBits
      /\ DataSegments' = DataSegments /\ Given' = Given
  <2>1. CodeObject' = CodeObject
    BY DEF LoaderNext, context_alloc_memory, load_code_segment, load_kenrel_symbol,
           freeze_executable
  <2> QED
    BY <2>1 DEF codeVars, segs, syms, DataSegments, SegmentTypes, PulledSegments, frozen,
       Given, PulledSymbols, FirstUnread, HeaderRead, ReadsNoBits, Executable, VAddr
<1>3. frozen /\ segs = DataSegments /\ segs # << >> /\ syms = Given
  BY <1>1 DEF LoaderInv
<1>4. CASE context_alloc_memory
  <2>1. loading' = "segments" /\ DOMAIN CtxHst' = 0 .. CtxMemSize' - 1
    BY <1>4 DEF context_alloc_memory
  <2> QED
    BY <1>2, <1>3, <2>1 DEF LoaderInv
<1>5. CASE load_code_segment
  <2>1. /\ DOMAIN CtxHst' = DOMAIN CtxHst /\ CtxMemSize' = CtxMemSize
        /\ loading' = "segments" \/ (loading' = "symbols" /\ index' = 1)
    <3>1. loading' = "segments" \/ (loading' = "symbols" /\ index' = 1)
      BY <1>5 DEF load_code_segment
    <3>2. \E offset : CtxHst' = [a \in DOMAIN CtxHst |->
                     IF a \in offset .. offset + segs[index].imageSize - 1
                     THEN Image(index, a - offset) ELSE CtxHst[a]]
      BY <1>5 DEF load_code_segment
    <3>3. DOMAIN CtxHst' = DOMAIN CtxHst
      BY <3>2
    <3>4. CtxMemSize' = CtxMemSize
      BY <1>5 DEF load_code_segment
    <3> QED
      BY <3>1, <3>3, <3>4
  <2>2. loading' = "symbols" => ~ KernelSeen'
    <3> SUFFICES ASSUME loading' = "symbols", NEW j \in DOMAIN syms', j < 1 PROVE FALSE
      BY <2>1 DEF KernelSeen
    <3>1. Len(PulledSymbols) \in Nat /\ DOMAIN PulledSymbols = 1 .. Len(PulledSymbols)
      BY PulledIsSeq
    <3>2. j \in 1 .. Len(PulledSymbols)
      BY <1>2, <1>3, <3>1 DEF Given
    <3> QED
      BY <3>1, <3>2
  <2> QED
    BY <1>2, <1>3, <2>1, <2>2 DEF LoaderInv
<1>6. CASE load_kenrel_symbol
  <2>1. /\ CtxHst' = CtxHst /\ CtxMemSize' = CtxMemSize /\ loading = "symbols"
        /\ index \in Nat
    BY <1>6 DEF load_kenrel_symbol, LoaderInv
  <2>2. /\ Len(PulledSymbols) \in Nat /\ DOMAIN syms = 1 .. Len(PulledSymbols)
        /\ Len(syms) = Len(PulledSymbols)
    <3>1. Len(PulledSymbols) \in Nat /\ DOMAIN PulledSymbols = 1 .. Len(PulledSymbols)
      BY PulledIsSeq
    <3>2. DOMAIN syms = 1 .. Len(PulledSymbols)
      BY <1>3, <3>1 DEF Given
    <3> QED
      BY <3>1, <3>2, LenProperties
  <2>3. CASE index <= Len(syms)
    <3>1. /\ loading' = "symbols" /\ index' = index + 1
          /\ KernelSymbolAddress' = IF syms[index].kernel
                                    THEN segs[SegmentFound(syms[index].addr)].vaddr
                                    ELSE KernelSymbolAddress
      BY <1>6, <2>1, <2>3 DEF load_kenrel_symbol
    <3>2. KernelSeen' => KernelSymbolAddress' \in Nat
      <4> SUFFICES ASSUME NEW j \in DOMAIN syms, syms[j].kernel, j < index + 1
                   PROVE  KernelSymbolAddress' \in Nat
        BY <1>2, <3>1 DEF KernelSeen
      <4>1. CASE syms[index].kernel
        BY <2>1, <3>1, <4>1, FoundIsASegment
      <4>2. CASE ~ syms[index].kernel
        <5>1. j # index /\ j \in Nat
          BY <2>2, <4>2
        <5>2. j < index
          BY <2>1, <5>1
        <5> QED
          BY <2>1, <3>1, <4>2, <5>2 DEF LoaderInv, KernelSeen
      <4> QED
        BY <4>1, <4>2
    <3> QED
      BY <1>2, <1>3, <2>1, <3>1, <3>2 DEF LoaderInv
  <2>4. CASE ~ (index <= Len(syms))
    <3>1. /\ loading' = "freeze" /\ index' = index
          /\ KernelSymbolAddress' = KernelSymbolAddress
      BY <1>6, <2>4 DEF load_kenrel_symbol
    <3>2. KernelSeen' => KernelSeen
      <4> SUFFICES ASSUME NEW j \in DOMAIN syms, syms[j].kernel
                   PROVE  j < index
        BY <1>2, <2>1 DEF KernelSeen
      <4> QED
        BY <2>1, <2>2, <2>4
    <3> QED
      BY <1>2, <1>3, <2>1, <3>1, <3>2 DEF LoaderInv
  <2> QED
    BY <2>3, <2>4
<1>7. CASE freeze_executable
  <2>1. /\ CtxHst' = CtxHst /\ CtxMemSize' = CtxMemSize /\ loading = "freeze"
        /\ loading' = "done" /\ KernelSymbolAddress' = KernelSymbolAddress
    BY <1>7 DEF freeze_executable
  <2>2. KernelSeen' => KernelSeen
    BY <1>2, <2>1 DEF KernelSeen
  <2> QED
    BY <1>2, <1>3, <2>1, <2>2 DEF LoaderInv
<1> QED
  BY <1>4, <1>5, <1>6, <1>7 DEF LoaderNext

\* Segments in line are apart, any two of them: by induction over the second.
LEMMA SegmentsApart ==
  ASSUME NEW im, ImageOK(im), NEW offsets, NEW seq, InLine(im, offsets, seq),
         Len(seq) = Len(im.segments)
  PROVE  \A t \in DOMAIN seq : \A s \in 1 .. t - 1 :
           seq[s].vaddr + seq[s].memSize <= seq[t].vaddr
<1> DEFINE n == Len(seq)
           S == {t \in 0 .. n : \A s \in 1 .. t - 1 : seq[s].vaddr + seq[s].memSize <= seq[t].vaddr}
<1>1. n \in Nat /\ DOMAIN seq = 1 .. n
  BY ImageParts DEF InLine
<1>2. \A s \in 1 .. n : seq[s].vaddr \in Nat /\ seq[s].memSize \in Nat
  BY <1>1, SegmentsFit DEF Fits
<1> HIDE DEF n
<1>3. \A t \in 1 .. n : t > 1 => seq[t].vaddr >= seq[t - 1].vaddr + seq[t - 1].memSize
  BY <1>1 DEF InLine
<1>4. 0 \in S
  BY <1>1
<1>5. ASSUME NEW t \in 1 .. n, t - 1 \in S PROVE t \in S
  <2>1. ASSUME NEW s \in 1 .. t - 1 PROVE seq[s].vaddr + seq[s].memSize <= seq[t].vaddr
    <3>1. t > 1 /\ t - 1 \in 1 .. n /\ s \in 1 .. n
      BY <1>1
    <3>2. PICK v \in Nat, m \in Nat, w \in Nat, k \in Nat, x \in Nat :
            /\ v = seq[s].vaddr /\ m = seq[s].memSize
            /\ w = seq[t - 1].vaddr /\ k = seq[t - 1].memSize /\ x = seq[t].vaddr
      BY <1>2, <3>1
    <3>3. x >= w + k
      BY <1>3, <3>1, <3>2
    <3>4. CASE s = t - 1
      BY <3>2, <3>3, <3>4
    <3>5. CASE s # t - 1
      <4>1. s \in 1 .. (t - 1) - 1
        BY <3>1, <3>5
      <4>2. v + m <= w
        BY <1>5, <3>2, <4>1
      <4>3. v + m <= x
        BY <3>3, <4>2
      <4> QED
        BY <3>2, <4>3
    <3> QED
      BY <3>4, <3>5
  <2>2. t \in 0 .. n
    BY <1>1
  <2> QED
    BY <2>1, <2>2
<1>6. S = 0 .. n
  <2>1. S \in SUBSET (0 .. n)
    OBVIOUS
  <2> HIDE DEF S
  <2> QED
    BY <1>1, <1>4, <1>5, <2>1, InductionUpTo
<1> SUFFICES ASSUME NEW t \in 1 .. n
             PROVE  \A s \in 1 .. t - 1 : seq[s].vaddr + seq[s].memSize <= seq[t].vaddr
  BY <1>1
<1>7. t \in S
  <2>1. t \in 0 .. n
    BY <1>1
  <2> HIDE DEF S
  <2> QED
    BY <1>6, <2>1
<1> QED
  BY <1>7

\* No two segments cover the same place.
LEMMA CoveredOnce ==
  ASSUME CodeInv, LoaderInv, loading \notin {"create", "crashed"},
         NEW s \in DOMAIN segs, NEW t \in DOMAIN segs, NEW a \in Int, Covers(s, a), Covers(t, a)
  PROVE  s = t
<1>1. /\ InLine(img, file.offsets, segs) /\ Len(segs) = Len(img.segments) /\ ImageOK(img)
      /\ Len(segs) \in Nat /\ DOMAIN segs = 1 .. Len(segs) /\ \A i \in DOMAIN segs : Fits(segs[i])
  BY SegmentsGiven DEF CodeInv
<1>2. ASSUME NEW i \in DOMAIN segs, NEW k \in DOMAIN segs, i < k, Covers(i, a), Covers(k, a)
      PROVE  FALSE
  <2>1. i \in 1 .. k - 1
    BY <1>1, <1>2
  <2>2. segs[i].vaddr + segs[i].memSize <= segs[k].vaddr
    BY <1>1, <2>1, SegmentsApart
  <2>3. PICK v \in Nat, m \in Nat, z \in Nat, w \in Nat, y \in Nat :
          /\ v = segs[i].vaddr /\ m = segs[i].memSize /\ z = segs[i].imageSize
          /\ w = segs[k].vaddr /\ y = segs[k].imageSize
    BY <1>1 DEF Fits
  <2>4. z <= m
    BY <1>1, <2>3 DEF Fits
  <2>5. a <= v + z - 1 /\ a >= w
    BY <1>2, <2>3 DEF Covers
  <2>6. v + m <= w
    BY <2>2, <2>3
  <2> QED
    BY <2>4, <2>5, <2>6
<1> QED
  BY <1>1, <1>2

\* A segment copied is laid where it covers, and nowhere else.
LEMMA CopyKeepsContents ==
  ASSUME CodeInv, LoaderInv, ContentsInv, load_code_segment
  PROVE  ContentsInv'
<1>1. /\ InLine(img, file.offsets, segs) /\ Len(segs) = Len(img.segments) /\ segs # << >>
      /\ Len(segs) \in Nat /\ DOMAIN segs = 1 .. Len(segs)
      /\ \A s \in DOMAIN segs : Fits(segs[s])
      /\ loading = "segments" /\ segs' = segs
  BY SegmentsGiven DEF load_code_segment, segs
<1>2. index \in 1 .. Len(segs) /\ CtxMemSize = segs[Len(segs)].vaddr + segs[Len(segs)].memSize
  BY <1>1 DEF ContentsInv
<1> DEFINE n == Len(segs)
           v == segs[index].vaddr
<1>3. segs[1].vaddr = 0 /\ v \in Nat
  BY <1>1, <1>2 DEF InLine, Fits
<1> HIDE DEF n, v
<1>4. v - segs[1].vaddr = v
  BY <1>3
<1>5. CtxHst' = [a \in DOMAIN CtxHst |->
                   IF a \in v .. v + segs[index].imageSize - 1
                   THEN Image(index, a - v) ELSE CtxHst[a]]
  BY <1>4 DEF load_code_segment, v
<1>6. DOMAIN CtxHst' = DOMAIN CtxHst
  BY <1>5
<1>7. ASSUME NEW a \in DOMAIN CtxHst
      PROVE  CtxHst'[a] = IF Covers(index, a) THEN Image(index, a - v) ELSE CtxHst[a]
  BY <1>5 DEF Covers, v
<1>8. /\ \A s \in 1 .. n : Laid(s)' <=> s <= index
      /\ loading' \in {"segments", "symbols"} /\ CtxMemSize' = CtxMemSize
      /\ loading' = "segments" => index' \in 1 .. n
  <2>1. CASE index < n
    <3>1. index' = index + 1 /\ loading' = "segments" /\ CtxMemSize' = CtxMemSize
      BY <1>1, <2>1 DEF load_code_segment, n
    <3> QED
      BY <1>1, <1>2, <2>1, <3>1 DEF Laid, n
  <2>2. CASE ~ (index < n)
    <3>1. loading' = "symbols" /\ CtxMemSize' = CtxMemSize
      BY <1>1, <2>2 DEF load_code_segment, n
    <3> QED
      BY <1>1, <1>2, <2>2, <3>1 DEF Laid, n
  <2> QED
    BY <2>1, <2>2
<1>9. \A s \in 1 .. n : Laid(s) <=> s < index
  BY <1>1 DEF Laid
<1>10. \A a \in DOMAIN CtxHst : a \in Int
  <2>1. DOMAIN CtxHst = 0 .. CtxMemSize - 1
    BY DEF LoaderInv
  <2> QED
    BY <2>1
<1>11. ASSUME NEW a \in DOMAIN CtxHst, NEW s \in 1 .. n, s <= index, Covers(s, a)
       PROVE  CtxHst'[a] = Image(s, a - segs[s].vaddr)
  <2>1. CASE s = index
    BY <1>7, <1>11, <2>1 DEF v
  <2>2. CASE s # index
    <3>1. s < index
      BY <1>1, <1>2, <1>11, <2>2
    <3>2. ~ Covers(index, a)
      BY <1>1, <1>2, <1>10, <1>11, <2>2, CoveredOnce DEF n
    <3>3. CtxHst[a] = Image(s, a - segs[s].vaddr)
      BY <1>1, <1>9, <1>11, <3>1 DEF ContentsInv, n
    <3> QED
      BY <1>7, <3>2, <3>3
  <2> QED
    BY <2>1, <2>2
<1>12. ASSUME NEW a \in DOMAIN CtxHst, \A s \in 1 .. n : s <= index => ~ Covers(s, a)
       PROVE  CtxHst'[a] = ZERO
  <2>1. ~ Covers(index, a)
    BY <1>2, <1>12 DEF n
  <2>2. \A s \in 1 .. n : Laid(s) => ~ Covers(s, a)
    BY <1>2, <1>9, <1>12
  <2>3. CtxHst[a] = ZERO
    BY <1>1, <2>2 DEF ContentsInv, n
  <2> QED
    BY <1>7, <2>1, <2>3
<1>13. ASSUME NEW s \in 1 .. n, NEW a
       PROVE  Covers(s, a)' <=> Covers(s, a)
  BY <1>1 DEF Covers
<1>14. DOMAIN segs' = 1 .. n /\ Len(segs') = n
  BY <1>1 DEF n
<1>15. ASSUME NEW a \in DOMAIN CtxHst
       PROVE  /\ \A s \in 1 .. n : Laid(s)' /\ Covers(s, a)'
                                     => CtxHst'[a] = Image(s, a - segs'[s].vaddr)
              /\ (\A s \in 1 .. n : Laid(s)' => ~ Covers(s, a)') => CtxHst'[a] = ZERO
  BY <1>1, <1>8, <1>11, <1>12, <1>13
<1>16. CtxMemSize' = segs'[n].vaddr + segs'[n].memSize
  BY <1>1, <1>2, <1>8 DEF n
<1> QED
  BY <1>6, <1>8, <1>14, <1>15, <1>16 DEF ContentsInv

\* The other functions leave the host's memory as it is, once it is there.
LEMMA LoaderKeepsContents ==
  ASSUME CodeInv, LoaderInv, ContentsInv, LoaderNext
  PROVE  ContentsInv'
<1>1. CASE context_alloc_memory
  <2>1. loading = "alloc" /\ loading' = "segments" /\ segs' = segs /\ index' = 1
    BY <1>1 DEF context_alloc_memory, segs
  <2>2. /\ Len(segs) \in Nat /\ DOMAIN segs = 1 .. Len(segs) /\ segs # << >>
        /\ CtxMemSize' = segs[Len(segs)].vaddr + segs[Len(segs)].memSize
    BY <1>1, <2>1, SegmentsGiven DEF context_alloc_memory
  <2>3. \A a \in DOMAIN CtxHst' : CtxHst'[a] = ZERO
    BY <1>1 DEF context_alloc_memory
  <2>4. \A s \in DOMAIN segs' : ~ Laid(s)'
    BY <2>1, <2>2 DEF Laid
  <2>5. index' \in DOMAIN segs'
    BY <2>1, <2>2, EmptySeq
  <2> QED
    BY <2>1, <2>2, <2>3, <2>4, <2>5 DEF ContentsInv
<1>2. CASE load_code_segment
  BY <1>2, CopyKeepsContents
<1>3. CASE load_kenrel_symbol
  <2>1. /\ loading = "symbols" /\ loading' \in {"symbols", "freeze"} /\ CtxHst' = CtxHst
        /\ CtxMemSize' = CtxMemSize /\ segs' = segs
    BY <1>3 DEF load_kenrel_symbol, segs
  <2> QED
    BY <2>1 DEF ContentsInv, Laid, Covers
<1>4. CASE freeze_executable
  <2>1. /\ loading = "freeze" /\ loading' = "done" /\ CtxHst' = CtxHst /\ CtxDev' = CtxHst'
        /\ CtxMemSize' = CtxMemSize /\ segs' = segs
    BY <1>4 DEF freeze_executable, segs
  <2> QED
    BY <2>1 DEF ContentsInv, Laid, Covers
<1> QED
  BY <1>1, <1>2, <1>3, <1>4 DEF LoaderNext

\* At a kernel's symbol its address is found, and replaces the one before.
LEMMA LoaderKeepsKernel ==
  ASSUME CodeInv, LoaderInv, KernelInv, LoaderNext
  PROVE  KernelInv'
<1>1. /\ Len(syms) \in Nat /\ DOMAIN syms = 1 .. Len(syms)
  <2>1. Len(PulledSymbols) \in Nat /\ DOMAIN PulledSymbols = 1 .. Len(PulledSymbols)
    BY PulledIsSeq
  <2>2. syms = Given
    BY DEF LoaderNext, context_alloc_memory, load_code_segment, load_kenrel_symbol,
           freeze_executable, LoaderInv
  <2>3. DOMAIN syms = 1 .. Len(PulledSymbols)
    BY <2>1, <2>2 DEF Given
  <2> QED
    BY <2>1, <2>3, LenProperties
<1>2. segs' = segs /\ syms' = syms
  BY DEF LoaderNext, context_alloc_memory, load_code_segment, load_kenrel_symbol,
         freeze_executable, segs, syms
<1>3. \A addr : SegmentFound(addr)' = SegmentFound(addr)
  BY <1>2 DEF SegmentFound
<1>4. CASE context_alloc_memory
  BY <1>4 DEF context_alloc_memory, KernelInv
<1>5. CASE load_code_segment
  <2>1. loading' = "segments" \/ (loading' = "symbols" /\ index' = 1)
    BY <1>5 DEF load_code_segment
  <2>2. loading' = "symbols" => \A j \in DOMAIN syms : ~ Looked(j)'
    BY <1>1, <2>1 DEF Looked
  <2> QED
    BY <1>2, <2>1, <2>2 DEF KernelInv
<1>6. CASE load_kenrel_symbol
  <2>1. loading = "symbols" /\ index \in Nat
    BY <1>6 DEF load_kenrel_symbol, LoaderInv
  <2>2. CASE index <= Len(syms)
    <3>1. /\ loading' = "symbols" /\ index' = index + 1
          /\ KernelSymbolAddress' = IF syms[index].kernel
                                    THEN segs[SegmentFound(syms[index].addr)].vaddr
                                    ELSE KernelSymbolAddress
      BY <1>6, <2>2 DEF load_kenrel_symbol
    <3>2. \A j \in DOMAIN syms : /\ Looked(j) <=> j < index
                                 /\ Looked(j)' <=> j < index + 1
      BY <2>1, <3>1 DEF Looked
    <3>3. ASSUME NEW j \in DOMAIN syms, syms[j].kernel, j < index + 1,
                 \A i \in DOMAIN syms : i > j /\ i < index + 1 => ~ syms[i].kernel
          PROVE  KernelSymbolAddress' = segs[SegmentFound(syms[j].addr)].vaddr
      <4>1. CASE j = index
        BY <3>1, <3>3, <4>1
      <4>2. CASE j # index
        <5>1. j < index
          BY <1>1, <2>1, <3>3, <4>2
        <5>2. index \in DOMAIN syms
          BY <1>1, <2>1, <2>2, <5>1
        <5>3. ~ syms[index].kernel
          BY <2>1, <3>3, <5>1, <5>2
        <5>4. \A i \in DOMAIN syms : i > j /\ i < index => ~ syms[i].kernel
          BY <1>1, <2>1, <3>3
        <5>5. KernelSymbolAddress = segs[SegmentFound(syms[j].addr)].vaddr
          BY <2>1, <3>2, <3>3, <5>1, <5>4 DEF KernelInv
        <5> QED
          BY <3>1, <5>3, <5>5
      <4> QED
        BY <4>1, <4>2
    <3> QED
      BY <1>2, <1>3, <3>2, <3>3 DEF KernelInv
  <2>3. CASE ~ (index <= Len(syms))
    <3>1. loading' = "freeze" /\ KernelSymbolAddress' = KernelSymbolAddress
      BY <1>6, <2>3 DEF load_kenrel_symbol
    <3>2. \A j \in DOMAIN syms : Looked(j) /\ Looked(j)'
      BY <1>1, <2>1, <2>3, <3>1 DEF Looked
    <3> QED
      BY <1>2, <1>3, <2>1, <3>1, <3>2 DEF KernelInv
  <2> QED
    BY <2>2, <2>3
<1>7. CASE freeze_executable
  <2>1. loading = "freeze" /\ loading' = "done" /\ KernelSymbolAddress' = KernelSymbolAddress
    BY <1>7 DEF freeze_executable
  <2>2. \A j \in DOMAIN syms : Looked(j) /\ Looked(j)'
    BY <2>1 DEF Looked
  <2> QED
    BY <1>2, <1>3, <2>1, <2>2 DEF KernelInv
<1> QED
  BY <1>4, <1>5, <1>6, <1>7 DEF LoaderNext
\* Every step keeps it.
LEMMA NextInv == CodeLoadInv /\ [Next]_vars => CodeLoadInv'
<1> SUFFICES ASSUME CodeLoadInv, [Next]_vars PROVE CodeLoadInv'
  OBVIOUS
<1>1. CodeInv /\ LoaderInv /\ ContentsInv /\ KernelInv
  BY DEF CodeLoadInv
<1>2. ASSUME Build, UNCHANGED loaderVars PROVE CodeLoadInv'
  <2>1. CodeInv' /\ ~frozen
    BY <1>1, <1>2, BuildKeeps
  <2>2. loading = "create" /\ loading' = "create"
    BY <1>1, <1>2, <2>1 DEF LoaderInv, loaderVars
  <2>3. LoaderInv'
    BY <1>1, <1>2, <2>2 DEF LoaderInv, loaderVars
  <2>4. ContentsInv' /\ KernelInv'
    BY <2>2 DEF ContentsInv, KernelInv
  <2> QED
    BY <2>1, <2>3, <2>4 DEF CodeLoadInv
<1>3. ASSUME UNCHANGED codeVars PROVE CodeInv'
  BY <1>1, <1>3 DEF codeVars, CodeInv, FileInv, frozen
<1>4. CASE create_code_object
  <2>1. UNCHANGED codeVars /\ frozen /\ CtxHst' = CtxHst /\ CtxMemSize' = CtxMemSize
    BY <1>4 DEF create_code_object
  <2>2. loading' = IF ReadsNoBits \/ DataSegments = << >> THEN "crashed" ELSE "alloc"
    BY <1>4 DEF create_code_object
  <2>3. segs' = DataSegments /\ syms' = Given
    BY <1>4 DEF create_code_object, segs, syms, Given
  <2>4. /\ DataSegments' = DataSegments /\ Given' = Given /\ frozen' = frozen
        /\ ReadsNoBits' = ReadsNoBits
    BY <2>1 DEF codeVars, DataSegments, SegmentTypes, PulledSegments, frozen,
       Given, PulledSymbols, FirstUnread, HeaderRead, ReadsNoBits, Executable, VAddr
  <2>5. LoaderInv'
    BY <1>1, <2>1, <2>2, <2>3, <2>4 DEF LoaderInv
  <2>6. ContentsInv' /\ KernelInv'
    BY <2>2 DEF ContentsInv, KernelInv
  <2> QED
    BY <1>3, <2>1, <2>5, <2>6 DEF CodeLoadInv
<1>5. ASSUME LoaderNext, UNCHANGED codeVars PROVE CodeLoadInv'
  BY <1>1, <1>3, <1>5, LoaderKeeps, LoaderKeepsContents, LoaderKeepsKernel DEF CodeLoadInv
<1>6. CASE UNCHANGED vars
  <2>1. UNCHANGED codeVars /\ UNCHANGED loaderVars
    BY <1>6 DEF vars
  <2>2. /\ segs' = segs /\ syms' = syms /\ frozen' = frozen /\ ReadsNoBits' = ReadsNoBits
        /\ DataSegments' = DataSegments /\ Given' = Given
    BY <2>1 DEF codeVars, loaderVars, segs, syms, DataSegments, SegmentTypes, PulledSegments,
       frozen, Given, PulledSymbols, FirstUnread, HeaderRead, ReadsNoBits, Executable, VAddr
  <2>3. KernelSeen' = KernelSeen
    BY <2>1, <2>2 DEF KernelSeen, loaderVars
  <2>4. LoaderInv'
    BY <1>1, <2>1, <2>2, <2>3 DEF LoaderInv, loaderVars
  <2>5. ContentsInv'
    BY <1>1, <2>1, <2>2 DEF ContentsInv, Laid, Covers, loaderVars
  <2>6. KernelInv'
    BY <1>1, <2>1, <2>2 DEF KernelInv, Looked, SegmentFound, loaderVars
  <2> QED
    BY <1>3, <2>1, <2>4, <2>5, <2>6 DEF CodeLoadInv
<1> QED
  BY <1>2, <1>4, <1>5, <1>6 DEF Next

-----------------------------------------------------------------------------
(* Where it is all to be found.                                            *)

\* What is at a place in the file is of the sections that cover it.
LEMMA InFileHas ==
  ASSUME NEW o
  PROVE  \A x : x \in InFile(o)
                <=> \E i \in DOMAIN img.sections :
                      /\ o \in file.offsets[i]
                             .. file.offsets[i] + FileSize(img.sections[i]) - 1
                      /\ x = [sec |-> i, at |-> o - file.offsets[i]]
BY DEF InFile

\* A place in a section is at one place of the file, and no other section's.
LEMMA InFileIs ==
  ASSUME CodeInv, frozen, NEW i \in DOMAIN img.sections,
         NEW at \in 0 .. FileSize(img.sections[i]) - 1
  PROVE  InFile(file.offsets[i] + at) = {[sec |-> i, at |-> at]}
<1> DEFINE off(k) == file.offsets[k]
           size(k) == FileSize(img.sections[k])
<1>1. /\ FileInOrder(img, file.offsets) /\ ImageOK(img)
      /\ Len(img.sections) \in Nat /\ DOMAIN img.sections = 1 .. Len(img.sections)
  BY ImageParts DEF CodeInv, FileInv
<1>2. \A k \in DOMAIN img.sections : off(k) \in Nat /\ size(k) \in Nat
  <2> SUFFICES ASSUME NEW k \in DOMAIN img.sections PROVE off(k) \in Nat /\ size(k) \in Nat
    OBVIOUS
  <2>1. SectionOK(img.sections[k])
    BY <1>1, ImageParts DEF ImageOK, SectionOK
  <2> QED
    BY <1>1, <2>1, SectionSizes DEF FileInOrder
<1>3. \A k \in DOMAIN img.sections : \A m \in 1 .. k - 1 : off(m) + size(m) <= off(k)
  BY <1>1 DEF FileInOrder
<1>4. at \in Nat /\ at < size(i) /\ off(i) + at \in Nat
  BY <1>2
<1>5. PICK o : o = off(i) + at
  OBVIOUS
<1>6. \A x : x \in InFile(o)
                 <=> \E k \in DOMAIN img.sections :
                       /\ o \in off(k) .. off(k) + size(k) - 1
                       /\ x = [sec |-> k, at |-> o - off(k)]
  BY InFileHas
<1> HIDE DEF off, size
<1>7. ASSUME NEW k \in DOMAIN img.sections,
             off(i) + at \in off(k) .. off(k) + size(k) - 1, k # i
      PROVE  FALSE
  <2>1. PICK w \in Nat, z \in Nat, p \in Nat, y \in Nat :
          w = off(i) /\ z = size(i) /\ p = off(k) /\ y = size(k)
    BY <1>2
  <2>2. w + at >= p /\ w + at <= p + y - 1 /\ at < z
    BY <1>4, <1>7, <2>1
  <2>3. CASE k < i
    <3>1. k \in 1 .. i - 1
      BY <1>1, <2>3
    <3>2. p + y <= w
      BY <1>3, <2>1, <3>1
    <3> QED
      BY <1>4, <2>2, <3>2
  <2>4. CASE k > i
    <3>1. i \in 1 .. k - 1
      BY <1>1, <2>4
    <3>2. w + z <= p
      BY <1>3, <2>1, <3>1
    <3> QED
      BY <1>4, <2>2, <3>2
  <2> QED
    BY <1>1, <1>7, <2>3, <2>4
<1>8. off(i) + at \in off(i) .. off(i) + size(i) - 1
  BY <1>2, <1>4
<1>9. \A k \in DOMAIN img.sections : o \in off(k) .. off(k) + size(k) - 1 <=> k = i
  BY <1>5, <1>7, <1>8
<1>10. o - off(i) = at
  BY <1>2, <1>4, <1>5
<1>11. \A x : x \in InFile(off(i) + at) <=> x = [sec |-> i, at |-> at]
  BY <1>5, <1>6, <1>9, <1>10
<1> QED
  BY <1>11 DEF off

\* The segments in the file are what GElfSegment::push made of those of the image.
LEMMA SegmentInFile ==
  ASSUME CodeInv, frozen, NEW s \in DOMAIN img.segments
  PROVE  s \in DOMAIN file.segments /\ Pushed(img, s, file.offsets, file.segments[s])
<1>1. /\ ImageOK(img) /\ InLine(img, file.offsets, file.segments)
      /\ DOMAIN file.segments = DOMAIN img.segments
  BY SegmentsFit DEF CodeInv, FileInv
<1>2. PICK v \in Nat : file.segments[s] = SegmentPush(img, s, v, file.offsets)
  BY <1>1 DEF InLine
<1> QED
  BY <1>1, <1>2, SegmentPushIs

\* A section's address is the one its segment has for it.
LEMMA AddrIs ==
  ASSUME CodeInv, frozen, NEW s \in DOMAIN img.segments, NEW k \in DOMAIN Secs(img, s)
  PROVE  /\ Addr(img, file.segments, Secs(img, s)[k])
              = file.segments[s].vaddr + PlacesOf(img, s)[k].addr
         /\ file.segments[s].vaddr \in Nat /\ PlacesOf(img, s)[k].addr \in Nat
<1> DEFINE i == Secs(img, s)[k]
           v == file.segments[s].vaddr
           a == PlacesOf(img, s)[k].addr
           at(t) == {m \in DOMAIN file.segments[t].addrs : img.segments[t].sections[m] = i}
           found == UNION {{file.segments[t].addrs[m] : m \in at(t)} : t \in DOMAIN file.segments}
<1>1. ImageOK(img) /\ Secs(img, s) \in Seq(DOMAIN img.sections)
  BY DEF CodeInv, ImageOK, Secs
<1>2. v \in Nat /\ a \in Nat
  <2>1. k \in 0 .. Len(Secs(img, s))
    BY <1>1
  <2>2. PlacesOf(img, s)[k] \in PlaceRecords
    BY <1>1, <2>1, PlacesAre DEF PlacesOf
  <2> QED
    BY <2>2, SegmentInFile DEF Pushed, PlaceRecords
<1>3. Addr(img, file.segments, i) = Max({0} \cup found)
  BY DEF Addr
<1>4. ASSUME NEW t \in DOMAIN file.segments
      PROVE  /\ DOMAIN file.segments[t].addrs = DOMAIN Secs(img, t)
             /\ \A m \in DOMAIN Secs(img, t) :
                  file.segments[t].addrs[m] = file.segments[t].vaddr + PlacesOf(img, t)[m].addr
  <2>1. t \in DOMAIN img.segments
    BY <1>1, SegmentsFit DEF CodeInv, FileInv
  <2>2. Pushed(img, t, file.offsets, file.segments[t])
    BY <2>1, SegmentInFile
  <2> QED
    BY <2>2 DEF Pushed
<1>5. s \in DOMAIN file.segments
  BY SegmentInFile
<1>6. ASSUME NEW t \in DOMAIN file.segments, NEW m \in at(t)
      PROVE  t = s /\ m = k
  <2>1. t \in DOMAIN img.segments
    BY <1>1, SegmentsFit DEF CodeInv, FileInv
  <2>2. Listed(img.segments, i, t, m)
    BY <1>4, <1>6, <2>1 DEF Listed, Secs
  <2>3. Listed(img.segments, i, s, k)
    BY DEF Listed, Secs
  <2>4. ListedOnce(img.segments)
    BY <1>1 DEF ImageOK
  <2> HIDE DEF i
  <2> QED
    BY <2>2, <2>3, <2>4 DEF ListedOnce
<1>7. k \in at(s)
  BY <1>4, <1>5 DEF Secs
<1>8. found = {v + a}
  <2>1. file.segments[s].addrs[k] = v + a
    BY <1>4, <1>5
  <2>2. v + a \in found
    BY <1>5, <1>7, <2>1
  <2>3. ASSUME NEW x \in found PROVE x = v + a
    <3>1. PICK t \in DOMAIN file.segments : x \in {file.segments[t].addrs[m] : m \in at(t)}
      OBVIOUS
    <3>2. PICK m \in at(t) : x = file.segments[t].addrs[m]
      BY <3>1
    <3>3. t = s /\ m = k
      BY <1>6
    <3> QED
      BY <2>1, <3>2, <3>3
  <2> HIDE DEF found
  <2> QED
    BY <2>2, <2>3
<1> HIDE DEF found, v, a, i
<1>9. Max({0} \cup found) = v + a
  <2>1. PICK x \in Nat : x = v + a
    BY <1>2
  <2>2. {0} \cup found = {0, x}
    BY <1>8, <2>1
  <2>3. {0, x} \in SUBSET (0 .. x) /\ {0, x} # {}
    OBVIOUS
  <2>4. Max({0, x}) \in {0, x} /\ \A j \in {0, x} : Max({0, x}) >= j
    BY <2>3, MaxUpTo
  <2>5. Max({0, x}) = x
    BY <2>4
  <2> QED
    BY <2>1, <2>2, <2>5
<1> QED
  BY <1>2, <1>3, <1>9 DEF i, v, a

\* Once it is loaded, what a segment has in the file is on the GPU from its address on,
\* and elsewhere there is nothing.
LEMMA OnGpuIs ==
  ASSUME CodeInv, LoaderInv, ContentsInv, loading = "done", NEW s \in DOMAIN segs
  PROVE  /\ \A at \in 0 .. segs[s].imageSize - 1 :
              OnGpu(segs[s].vaddr + at) = InFile(segs[s].offset + at)
         /\ \A at \in segs[s].imageSize .. segs[s].memSize - 1 :
              CtxDev[segs[s].vaddr + at] = ZERO
<1>1. /\ InLine(img, file.offsets, segs) /\ Len(segs) = Len(img.segments) /\ ImageOK(img)
      /\ Len(segs) \in Nat /\ DOMAIN segs = 1 .. Len(segs)
      /\ \A t \in DOMAIN segs : Fits(segs[t])
  BY SegmentsGiven DEF CodeInv
<1>2. CtxDev = CtxHst /\ DOMAIN CtxDev = 0 .. CtxMemSize - 1
      /\ CtxMemSize = segs[Len(segs)].vaddr + segs[Len(segs)].memSize
  BY DEF ContentsInv, LoaderInv
<1>9. \A a \in DOMAIN CtxHst : \A t \in DOMAIN segs :
        Laid(t) /\ Covers(t, a) => CtxHst[a] = Image(t, a - segs[t].vaddr)
  BY DEF ContentsInv
<1>3. PICK v \in Nat, m \in Nat, z \in Nat :
        v = segs[s].vaddr /\ m = segs[s].memSize /\ z = segs[s].imageSize /\ z <= m
  BY <1>1 DEF Fits
<1>4. CtxMemSize \in Nat /\ v + m <= CtxMemSize
  <2>1. s \in 1 .. Len(segs) /\ Len(segs) \in DOMAIN segs
    BY <1>1
  <2>2. PICK w \in Nat, y \in Nat : w = segs[Len(segs)].vaddr /\ y = segs[Len(segs)].memSize
    BY <1>1, <2>1 DEF Fits
  <2>3. CASE s = Len(segs)
    BY <1>2, <1>3, <2>2, <2>3
  <2>4. CASE s # Len(segs)
    <3>1. s \in 1 .. Len(segs) - 1
      BY <1>1, <2>1, <2>4
    <3>2. v + m <= w
      BY <1>1, <1>3, <2>1, <2>2, <3>1, SegmentsApart
    <3> QED
      BY <1>2, <2>2, <3>2
  <2> QED
    BY <2>3, <2>4
<1>5. ASSUME NEW at \in 0 .. m - 1 PROVE v + at \in DOMAIN CtxDev
  <2>1. v + at \in Int /\ v + at >= 0 /\ v + at <= CtxMemSize - 1
    BY <1>4
  <2> QED
    BY <1>2, <1>4, <2>1
<1>6. \A t \in DOMAIN segs : Laid(t)
  BY DEF Laid
<1>7. ASSUME NEW at \in 0 .. z - 1 PROVE OnGpu(v + at) = InFile(segs[s].offset + at)
  <2>1. at \in 0 .. m - 1 /\ v + at \in v .. v + z - 1
    BY <1>3
  <2>2. v + at \in DOMAIN CtxDev
    BY <1>5, <2>1
  <2>3. Covers(s, v + at)
    BY <1>3, <2>1 DEF Covers
  <2>4. CtxDev[v + at] = Image(s, v + at - v)
    <3>1. PICK a \in DOMAIN CtxHst : a = v + at
      BY <1>2, <2>2
    <3>2. Covers(s, a) /\ Laid(s)
      BY <1>6, <2>3, <3>1
    <3>3. CtxHst[a] = Image(s, a - segs[s].vaddr)
      BY <1>9, <3>2, Zenon
    <3>4. CtxHst[a] = Image(s, a - v)
      BY <1>3, <3>3
    <3> QED
      BY <1>2, <3>1, <3>4
  <2>5. v + at - v = at
    OBVIOUS
  <2>6. CtxDev[v + at] = [seg |-> s, at |-> at]
    BY <2>4, <2>5 DEF Image
  <2>7. CtxDev[v + at] # ZERO
    BY <1>1, <2>6 DEF ZERO
  <2> QED
    BY <2>2, <2>6, <2>7 DEF OnGpu
<1>8. ASSUME NEW at \in z .. m - 1 PROVE CtxDev[v + at] = ZERO
  <2>1. at \in 0 .. m - 1 /\ at >= z
    BY <1>3
  <2>2. v + at \in DOMAIN CtxDev
    BY <1>5, <2>1
  <2>3. ASSUME NEW t \in DOMAIN segs, Covers(t, v + at) PROVE FALSE
    <3>1. PICK w \in Nat, k \in Nat, y \in Nat :
            w = segs[t].vaddr /\ k = segs[t].memSize /\ y = segs[t].imageSize /\ y <= k
      BY <1>1 DEF Fits
    <3>2. v + at >= w /\ v + at <= w + y - 1
      BY <2>3, <3>1 DEF Covers
    <3>3. CASE t = s
      BY <1>3, <2>1, <3>1, <3>2, <3>3
    <3>4. CASE t < s
      <4>1. t \in 1 .. s - 1
        BY <1>1, <3>4
      <4>2. w + k <= v
        BY <1>1, <1>3, <3>1, <4>1, SegmentsApart
      <4> QED
        BY <2>1, <3>1, <3>2, <4>2
    <3>5. CASE t > s
      <4>1. s \in 1 .. t - 1
        BY <1>1, <3>5
      <4>2. v + m <= w
        BY <1>1, <1>3, <3>1, <4>1, SegmentsApart
      <4> QED
        BY <2>1, <3>1, <3>2, <4>2
    <3> QED
      BY <1>1, <3>3, <3>4, <3>5
  <2> QED
    BY <1>2, <1>6, <2>2, <2>3 DEF ContentsInv
<1> QED
  BY <1>3, <1>7, <1>8

\* A section that has a segment to itself starts where the segment starts, in memory and
\* in the file, and is all of it.
LEMMA AloneInSegment ==
  ASSUME CodeInv, frozen, NEW s \in DOMAIN img.segments, NEW i, Secs(img, s) = <<i>>
  PROVE  /\ i \in DOMAIN img.sections
         /\ Addr(img, file.segments, i) = file.segments[s].vaddr
         /\ file.segments[s].vaddr \in Nat
         /\ file.segments[s].imageSize = FileSize(img.sections[i])
         /\ file.segments[s].offset = file.offsets[i]
<1>1. /\ ImageOK(img) /\ Secs(img, s) \in Seq(DOMAIN img.sections)
      /\ Len(Secs(img, s)) = 1 /\ DOMAIN Secs(img, s) = {1} /\ Secs(img, s)[1] = i
  <2>1. ImageOK(img) /\ Secs(img, s) \in Seq(DOMAIN img.sections)
    BY DEF CodeInv, ImageOK, Secs
  <2>2. Len(<<i>>) = 1 /\ DOMAIN <<i>> = {1} /\ <<i>>[1] = i
    OBVIOUS
  <2> QED
    BY <2>1, <2>2
<1>2. i \in DOMAIN img.sections
  <2> DEFINE secs == Secs(img, s)
  <2> HIDE DEF secs
  <2>1. secs \in Seq(DOMAIN img.sections) /\ Len(secs) = 1 /\ secs[1] = i
    BY <1>1 DEF secs
  <2>2. 1 \in 1 .. Len(secs)
    BY <2>1
  <2>3. secs[1] \in DOMAIN img.sections
    BY <2>1, <2>2, ElementOfSeq
  <2> QED
    BY <2>1, <2>3
<1>3. SectionOK(img.sections[i])
  BY <1>1, <1>2, ImageParts DEF ImageOK, SectionOK
<1>4. /\ PlacesOf(img, s)[0] = FirstPlace
      /\ PlacesOf(img, s)[1] = PlaceAfter(img.sections[i], PlacesOf(img, s)[0])
  <2>1. 1 \in 1 .. Len(Secs(img, s))
    BY <1>1
  <2> QED
    BY <1>1, <2>1, PlacesAre DEF PlacesOf
<1>5. PICK a \in Nat \ {0} : a = Larger(memAlign(img.sections[i]), 1)
  BY <1>3, SectionSizes
<1>6. AlignUp(0, a) = 0
  BY AlignUpZero
<1>7. PICK z \in Nat : z = FileSize(img.sections[i])
  BY <1>3, SectionSizes
<1>8. PlacesOf(img, s)[1].addr = 0 /\ PlacesOf(img, s)[1].filesz = z
  BY <1>4, <1>5, <1>6, <1>7 DEF PlaceAfter, FirstPlace
<1>9. Pushed(img, s, file.offsets, file.segments[s])
  BY SegmentInFile
<1>10. file.segments[s].imageSize = z /\ file.segments[s].offset = file.offsets[i]
  BY <1>1, <1>8, <1>9 DEF Pushed
<1>11. Addr(img, file.segments, i) = file.segments[s].vaddr + 0 /\ file.segments[s].vaddr \in Nat
  <2>1. 1 \in DOMAIN Secs(img, s)
    BY <1>1
  <2> QED
    BY <1>1, <1>8, <2>1, AddrIs
<1> QED
  BY <1>2, <1>7, <1>10, <1>11

\* A search for the address a segment starts at ends with a segment that starts there.
LEMMA FoundStartsThere ==
  ASSUME CodeInv, LoaderInv, loading \notin {"create", "crashed"}, NEW s \in DOMAIN segs
  PROVE  segs[SegmentFound(segs[s].vaddr)].vaddr = segs[s].vaddr
<1> DEFINE past == {k \in DOMAIN segs : segs[s].vaddr <= segs[k].vaddr}
<1>1. /\ InLine(img, file.offsets, segs) /\ Len(segs) = Len(img.segments) /\ ImageOK(img)
      /\ Len(segs) \in Nat /\ DOMAIN segs = 1 .. Len(segs)
      /\ \A t \in DOMAIN segs : Fits(segs[t])
  BY SegmentsGiven DEF CodeInv
<1>2. s \in past
  BY <1>1 DEF Fits
<1>3. past \in SUBSET (0 .. Len(segs)) /\ past # {}
  BY <1>1, <1>2
<1>4. PICK m \in past : m = Min(past) /\ m <= s
  <2>1. \E i \in past : \A j \in past : i <= j
    BY <1>1, <1>3, LeastElement
  <2>2. Min(past) \in past /\ \A j \in past : Min(past) <= j
    BY <2>1 DEF Min
  <2> QED
    BY <1>2, <2>2
<1>5. SegmentFound(segs[s].vaddr) = m
  BY <1>2, <1>4 DEF SegmentFound
<1>6. PICK v \in Nat, w \in Nat, b \in Nat :
        v = segs[m].vaddr /\ w = segs[s].vaddr /\ b = segs[m].memSize
  BY <1>1 DEF Fits
<1>7. w <= v /\ m \in 1 .. Len(segs) /\ s \in 1 .. Len(segs)
  BY <1>1, <1>6
<1>8. CASE m = s
  BY <1>5, <1>8
<1>9. CASE m < s
  <2>1. m \in 1 .. s - 1
    BY <1>7, <1>9
  <2>2. v + b <= w
    BY <1>1, <1>6, <2>1, SegmentsApart
  <2>3. v = w
    BY <1>6, <1>7, <2>2
  <2> QED
    BY <1>5, <1>6, <2>3
<1> QED
  BY <1>4, <1>7, <1>8, <1>9

\* The last kernel's symbol is the last of a kernel that is looked at.
LEMMA LastKernelGiven ==
  ASSUME CodeInv, LoaderInv, KernelInv, loading = "done",
         \A j \in DOMAIN img.symbols : img.symbols[j].type = "kernel" => HeaderRead(img.symbols[j]),
         NEW j \in DOMAIN img.symbols, img.symbols[j].type = "kernel",
         LastOf("kernel", img.symbols, j)
  PROVE  KernelSymbolAddress = segs[SegmentFound(VAddr(img.symbols[j]))].vaddr
<1>1. PICK k \in DOMAIN PulledSymbols :
        PulledSymbols[k] = img.symbols[j] /\ LastOf("kernel", PulledSymbols, k)
  BY KernelPulled
<1>2. syms = Given
  BY DEF LoaderInv
<1>3. DOMAIN syms = DOMAIN PulledSymbols /\ k \in DOMAIN syms
  BY <1>2 DEF Given
<1>4. \A i \in DOMAIN syms : /\ syms[i].addr = VAddr(PulledSymbols[i])
                             /\ syms[i].kernel = (PulledSymbols[i].type = "kernel")
  BY <1>2 DEF Given
<1>5. syms[k].kernel /\ syms[k].addr = VAddr(img.symbols[j])
  BY <1>1, <1>3, <1>4
<1>6. \A i \in DOMAIN syms : i > k => ~ syms[i].kernel
  BY <1>1, <1>3, <1>4 DEF LastOf
<1>7. Looked(k)
  BY DEF Looked
<1> QED
  BY <1>3, <1>5, <1>6, <1>7 DEF KernelInv

-----------------------------------------------------------------------------
(* Tidy segments.                                                          *)

\* Alignments are powers of two, as alignUp asserts (amd_hsa_code_util.hpp:182): of two
\* the larger is a multiple of the smaller.
AlignmentsNest == \A a, b \in Aligns \ {0} : a <= b => \E m \in Nat : b = m * a

\* A section that is tidy behind another one has the same alignment in the file and in memory.
LEMMA TidyAlign ==
  ASSUME AlignmentsNest, NEW sec, SectionOK(sec), NEW before, SectionOK(before),
         ~ NoBits(sec), ~ NoBits(before), sec.align \in FileAlign .. before.align,
         NEW q \in Nat
  PROVE  /\ ShAlign(sec) = Larger(memAlign(sec), 1)
         /\ \E p \in Nat : q * ShAlign(before) = p * ShAlign(sec)
<1>1. /\ sec.align \in Aligns /\ before.align \in Aligns /\ sec.memalign = 0
      /\ sec.align \in Nat /\ before.align \in Nat /\ FileAlign \in Nat \ {0}
  BY AlignsAre, ElfImageAssumption DEF SectionOK, SectionRecords, NoBits, Unset
<1>2. ShAlign(sec) = sec.align /\ ShAlign(before) = before.align
  BY <1>1 DEF ShAlign, Larger
<1>3. Larger(memAlign(sec), 1) = sec.align
  BY <1>1 DEF memAlign, Larger
<1>4. sec.align \in Aligns \ {0} /\ before.align \in Aligns \ {0} /\ sec.align <= before.align
  BY <1>1
<1>5. PICK m \in Nat : before.align = m * sec.align
  BY <1>4 DEF AlignmentsNest
<1>6. q * before.align = (q * m) * sec.align /\ q * m \in Nat
  BY <1>1, <1>5, MultipleOfMultiple
<1> QED
  BY <1>2, <1>3, <1>6

\* What has bits is as large in the file as in memory.
LEMMA SameSize ==
  ASSUME NEW sec, SectionOK(sec), ~ NoBits(sec)
  PROVE  memSize(sec) = FileSize(sec) /\ FileSize(sec) \in Nat /\ ShAlign(sec) \in Nat \ {0}
<1>1. sec.memsize = 0 /\ sec.size \in Nat /\ sec.align \in Nat /\ FileAlign \in Nat \ {0}
  BY AlignsAre, ElfImageAssumption DEF SectionOK, SectionRecords, NoBits, Unset
<1> QED
  BY <1>1 DEF memSize, FileSize, ShSize, ShAlign, Larger

\* The m-th section of segment s, and whether it is as far behind the first one in the
\* file as in memory, with all before it.
SecAt(im, s, m) == im.sections[Secs(im, s)[m]]

InStep(im, s, offsets, m) ==
  LET first == offsets[Secs(im, s)[1]]
  IN /\ offsets[Secs(im, s)[m]] = first + PlacesOf(im, s)[m].addr
     /\ PlacesOf(im, s)[m].memsz = PlacesOf(im, s)[m].filesz
     /\ \E q \in Nat : first = q * ShAlign(SecAt(im, s, m))

\* The sections of a segment, where they are and where the next one goes.
LEMMA SecsAre ==
  ASSUME CodeInv, frozen, NEW s \in DOMAIN img.segments, NEW m \in DOMAIN Secs(img, s)
  PROVE  /\ Secs(img, s)[m] \in DOMAIN img.sections
         /\ SectionOK(SecAt(img, s, m))
         /\ file.offsets[Secs(img, s)[m]] \in Nat
         /\ m \in 1 .. Len(Secs(img, s)) /\ Len(Secs(img, s)) \in Nat
         /\ PlacesOf(img, s)[m] = PlaceAfter(SecAt(img, s, m), PlacesOf(img, s)[m - 1])
         /\ PlacesOf(img, s)[m] \in PlaceRecords /\ PlacesOf(img, s)[m - 1] \in PlaceRecords
         /\ PlacesOf(img, s)[m - 1].filesz <= PlacesOf(img, s)[m - 1].memsz
         /\ PlacesOf(img, s)[0] = FirstPlace
<1>1. /\ ImageOK(img) /\ Secs(img, s) \in Seq(DOMAIN img.sections)
      /\ FileInOrder(img, file.offsets)
  BY DEF CodeInv, ImageOK, Secs, FileInv
<1>2. m \in 1 .. Len(Secs(img, s)) /\ Len(Secs(img, s)) \in Nat
  BY <1>1
<1>3. Secs(img, s)[m] \in DOMAIN img.sections
  BY <1>1, <1>2, ElementOfSeq
<1>4. SectionOK(SecAt(img, s, m))
  BY <1>1, <1>3, ImageParts DEF ImageOK, SectionOK, SecAt
<1>5. file.offsets[Secs(img, s)[m]] \in Nat
  BY <1>1, <1>3 DEF FileInOrder
<1>6. m \in 0 .. Len(Secs(img, s)) /\ m - 1 \in 0 .. Len(Secs(img, s))
  BY <1>2
<1>7. /\ PlacesOf(img, s)[m] = PlaceAfter(SecAt(img, s, m), PlacesOf(img, s)[m - 1])
      /\ PlacesOf(img, s)[0] = FirstPlace
  BY <1>1, <1>2, PlacesAre DEF PlacesOf, SecAt
<1>8. \A k \in 0 .. Len(Secs(img, s)) : /\ PlacesOf(img, s)[k] \in PlaceRecords
                                        /\ PlacesOf(img, s)[k].filesz <= PlacesOf(img, s)[k].memsz
  BY <1>1, PlacesAre DEF PlacesOf
<1> QED
  BY <1>2, <1>3, <1>4, <1>5, <1>6, <1>7, <1>8

\* Where a place is behind another one.
LEMMA PlaceParts ==
  ASSUME NEW sec, NEW before
  PROVE  LET a == Larger(memAlign(sec), 1)
         IN /\ PlaceAfter(sec, before).addr = AlignUp(before.memsz, a)
            /\ PlaceAfter(sec, before).memsz = AlignUp(before.memsz, a) + memSize(sec)
            /\ PlaceAfter(sec, before).filesz = AlignUp(before.filesz, a) + FileSize(sec)
BY DEF PlaceAfter

\* The first section of a segment is in step, if it has bits,
LEMMA FirstInStep ==
  ASSUME CodeInv, frozen, NEW s \in DOMAIN img.segments, 1 \in DOMAIN Secs(img, s),
         ~ NoBits(SecAt(img, s, 1))
  PROVE  InStep(img, s, file.offsets, 1)
<1> DEFINE sec == SecAt(img, s, 1)
<1>1. SectionOK(sec) /\ FileInOrder(img, file.offsets)
  BY SecsAre DEF CodeInv, FileInv
<1>2. PlacesOf(img, s)[1] = PlaceAfter(sec, FirstPlace)
  BY SecsAre
<1>3. PICK a \in Nat \ {0} : a = Larger(memAlign(sec), 1)
  BY <1>1, SectionSizes
<1>4. AlignUp(0, a) = 0
  BY AlignUpZero
<1>5. memSize(sec) = FileSize(sec) /\ FileSize(sec) \in Nat /\ ShAlign(sec) \in Nat \ {0}
  BY <1>1, SameSize
<1>6. PlacesOf(img, s)[1].addr = 0 /\ PlacesOf(img, s)[1].memsz = PlacesOf(img, s)[1].filesz
  BY <1>2, <1>3, <1>4, <1>5, PlaceParts DEF FirstPlace
<1>7. PICK o \in Nat : o = file.offsets[Secs(img, s)[1]]
  BY SecsAre
<1>8. PICK end \in Nat : o = AlignUp(end, ShAlign(sec))
  BY <1>1, <1>7, SecsAre DEF FileInOrder, StartBehind, SecAt
<1>9. \E q \in Nat : o = q * ShAlign(sec)
  <2>1. PICK b \in Nat \ {0} : b = ShAlign(sec)
    BY <1>5
  <2>2. (end + b - 1) \div b \in Nat
    BY QuotientBounds
  <2> QED
    BY <1>8, <2>1, <2>2 DEF AlignUp
<1>10. o = o + PlacesOf(img, s)[1].addr
  BY <1>6
<1> QED
  BY <1>6, <1>7, <1>9, <1>10 DEF InStep

\* and so is one that is tidy behind one that is.
LEMMA NextInStep ==
  ASSUME AlignmentsNest, CodeInv, frozen, NEW s \in DOMAIN img.segments,
         NEW m \in DOMAIN Secs(img, s), m > 1,
         ~ NoBits(SecAt(img, s, m)), ~ NoBits(SecAt(img, s, m - 1)),
         Secs(img, s)[m] = Secs(img, s)[m - 1] + 1,
         SecAt(img, s, m).align \in FileAlign .. SecAt(img, s, m - 1).align,
         InStep(img, s, file.offsets, m - 1)
  PROVE  InStep(img, s, file.offsets, m)
<1> DEFINE sec == SecAt(img, s, m)
           before == SecAt(img, s, m - 1)
           i == Secs(img, s)[m]
           place == PlacesOf(img, s)
<1>1. /\ m \in 1 .. Len(Secs(img, s)) /\ Len(Secs(img, s)) \in Nat
      /\ i \in DOMAIN img.sections /\ SectionOK(sec) /\ file.offsets[i] \in Nat
      /\ place[m] = PlaceAfter(sec, place[m - 1])
  BY SecsAre
<1>2. m - 1 \in DOMAIN Secs(img, s) /\ 1 \in DOMAIN Secs(img, s)
  <2>1. Secs(img, s) \in Seq(DOMAIN img.sections)
    BY DEF CodeInv, ImageOK, Secs
  <2> QED
    BY <1>1, <2>1
<1>3. /\ Secs(img, s)[m - 1] \in DOMAIN img.sections /\ SectionOK(before)
      /\ file.offsets[Secs(img, s)[m - 1]] \in Nat
      /\ place[m - 1] \in PlaceRecords
      /\ place[m - 1] = PlaceAfter(before, place[m - 1 - 1])
      /\ place[m - 1 - 1] \in PlaceRecords
  BY <1>2, SecsAre
<1>4. PICK o \in Nat, first \in Nat, addr \in Nat :
        /\ o = file.offsets[Secs(img, s)[m - 1]]
        /\ first = file.offsets[Secs(img, s)[1]]
        /\ addr = place[m - 1].addr
  BY <1>2, <1>3, SecsAre DEF PlaceRecords
<1>5. PICK q \in Nat : first = q * ShAlign(before)
  BY <1>4 DEF InStep
<1>6. PICK a \in Nat \ {0} : a = ShAlign(sec)
  BY <1>1, SameSize
<1>7. PICK p \in Nat : first = p * a /\ a = Larger(memAlign(sec), 1)
  BY <1>1, <1>3, <1>5, <1>6, TidyAlign
<1>8. PICK size \in Nat : size = FileSize(before) /\ size = memSize(before)
  BY <1>3, SameSize
<1>9. o = first + addr /\ place[m - 1].memsz = place[m - 1].filesz
  BY <1>4 DEF InStep
<1>10. place[m - 1].memsz = addr + size
  BY <1>3, <1>4, <1>8, PlaceAfterIs
<1>11. file.offsets[i] = AlignUp(o + size, a)
  <2>1. i > 1 /\ i - 1 = Secs(img, s)[m - 1]
    <3>1. Secs(img, s)[m - 1] \in Nat \ {0}
      BY <1>3, ImageParts DEF CodeInv
    <3> QED
      BY <3>1
  <2>2. FileInOrder(img, file.offsets)
    BY DEF CodeInv, FileInv
  <2>3. file.offsets[i] = StartBehind(img.sections[i],
                                      file.offsets[i - 1] + FileSize(img.sections[i - 1]))
    BY <1>1, <2>1, <2>2 DEF FileInOrder
  <2> QED
    BY <1>4, <1>6, <1>8, <2>1, <2>3 DEF StartBehind, SecAt
<1>12. AlignUp(o + size, a) = first + AlignUp(addr + size, a)
  <2>1. PICK x \in Nat : x = addr + size
    OBVIOUS
  <2>2. AlignUp(p * a + x, a) = p * a + AlignUp(x, a)
    BY AlignUpBehind
  <2>3. AlignUp(first + x, a) = first + AlignUp(x, a)
    BY <1>7, <2>2
  <2>4. o + size = first + x
    BY <1>9, <2>1
  <2> QED
    BY <2>1, <2>3, <2>4
<1>13. place[m].addr = AlignUp(addr + size, a)
  BY <1>1, <1>7, <1>10, PlaceParts
<1>14. place[m].memsz = place[m].filesz
  <2>1. memSize(sec) = FileSize(sec)
    BY <1>1, SameSize
  <2>2. /\ place[m].memsz = AlignUp(place[m - 1].memsz, a) + memSize(sec)
        /\ place[m].filesz = AlignUp(place[m - 1].filesz, a) + FileSize(sec)
    BY <1>1, <1>7, PlaceParts
  <2> QED
    BY <1>9, <2>1, <2>2
<1> QED
  BY <1>4, <1>6, <1>7, <1>11, <1>12, <1>13, <1>14 DEF InStep

\* By induction, every section of a tidy segment that has bits is in step.
LEMMA TidyInStep ==
  ASSUME AlignmentsNest, CodeInv, frozen, NEW s \in DOMAIN img.segments, Tidy(Secs(img, s)),
         NEW k \in DOMAIN Secs(img, s), ~ NoBits(SecAt(img, s, k))
  PROVE  InStep(img, s, file.offsets, k)
<1> DEFINE Done(m) == NoBits(SecAt(img, s, m)) \/ InStep(img, s, file.offsets, m)
           S == {m \in 0 .. k : m >= 1 => Done(m)}
<1>1. k \in 1 .. Len(Secs(img, s)) /\ Len(Secs(img, s)) \in Nat
      /\ DOMAIN Secs(img, s) = 1 .. Len(Secs(img, s))
  BY SecsAre DEF CodeInv, ImageOK, Secs
<1>2. k \in Nat /\ S \in SUBSET (0 .. k) /\ 0 \in S
  BY <1>1
<1>3. ASSUME NEW i \in 1 .. k, i - 1 \in S PROVE i \in S
  <2>1. i \in DOMAIN Secs(img, s)
    BY <1>1
  <2>2. CASE NoBits(SecAt(img, s, i))
    BY <2>2
  <2>3. CASE ~ NoBits(SecAt(img, s, i)) /\ i = 1
    <3>1. InStep(img, s, file.offsets, i)
      BY <2>1, <2>3, FirstInStep
    <3> QED
      BY <3>1
  <2>4. CASE ~ NoBits(SecAt(img, s, i)) /\ i # 1
    <3>1. i \in 2 .. Len(Secs(img, s)) /\ i > 1 /\ i - 1 >= 1
      BY <1>1, <2>4
    <3>2. /\ ~ NoBits(SecAt(img, s, i - 1))
          /\ Secs(img, s)[i] = Secs(img, s)[i - 1] + 1
          /\ SecAt(img, s, i).align \in FileAlign .. SecAt(img, s, i - 1).align
      BY <2>4, <3>1 DEF Tidy, SecAt
    <3>3. InStep(img, s, file.offsets, i - 1)
      BY <1>3, <3>1, <3>2
    <3>4. InStep(img, s, file.offsets, i)
      BY <2>1, <2>4, <3>1, <3>2, <3>3, NextInStep
    <3> QED
      BY <3>4
  <2> QED
    BY <2>2, <2>3, <2>4
<1> HIDE DEF S
<1>4. S = 0 .. k
  BY <1>2, <1>3, InductionUpTo
<1>5. k \in S /\ k >= 1
  BY <1>1, <1>4
<1> QED
  BY <1>5 DEF S

\* What a segment has in the file does not become less with a section.
LEMMA FilesGrow ==
  ASSUME CodeInv, frozen, NEW s \in DOMAIN img.segments, NEW k \in DOMAIN Secs(img, s)
  PROVE  PlacesOf(img, s)[k].filesz <= PlacesOf(img, s)[Len(Secs(img, s))].filesz
<1> DEFINE n == Len(Secs(img, s))
           place == PlacesOf(img, s)
           S == {m \in 0 .. n : m >= k => place[k].filesz <= place[m].filesz}
<1>1. k \in 1 .. n /\ n \in Nat /\ DOMAIN Secs(img, s) = 1 .. n
  BY SecsAre DEF CodeInv, ImageOK, Secs
<1>2. S \in SUBSET (0 .. n) /\ 0 \in S
  BY <1>1
<1>3. place[k].filesz \in Nat
  BY SecsAre DEF PlaceRecords
<1>4. ASSUME NEW i \in 1 .. n, i - 1 \in S PROVE i \in S
  <2>1. i \in DOMAIN Secs(img, s)
    BY <1>1
  <2> DEFINE sec == SecAt(img, s, i)
  <2>2. /\ place[i] = PlaceAfter(sec, place[i - 1]) /\ SectionOK(sec)
        /\ place[i] \in PlaceRecords /\ place[i - 1] \in PlaceRecords
    BY <2>1, SecsAre
  <2>3. PICK a \in Nat \ {0}, z \in Nat : a = Larger(memAlign(sec), 1) /\ z = FileSize(sec)
    BY <2>2, SectionSizes
  <2>4. PICK x \in Nat, y \in Nat, w \in Nat :
          x = place[k].filesz /\ y = place[i - 1].filesz /\ w = AlignUp(y, a)
    BY <1>3, <2>2, AlignUpIs DEF PlaceRecords
  <2>5. y <= w /\ place[i].filesz = w + z
    BY <2>2, <2>3, <2>4, AlignUpIs, PlaceParts
  <2>6. i - 1 >= k => x <= y
    BY <1>4, <2>4
  <2>7. CASE i = k
    BY <1>3, <2>7
  <2>8. CASE i # k
    <3>1. i >= k => i - 1 >= k
      BY <1>1, <2>8
    <3>2. i >= k => x <= w + z
      BY <2>5, <2>6, <3>1
    <3>3. i >= k => place[k].filesz <= place[i].filesz
      BY <2>4, <2>5, <3>2
    <3> QED
      BY <3>3
  <2> QED
    BY <2>7, <2>8
<1> HIDE DEF S
<1>5. S = 0 .. n
  BY <1>1, <1>2, <1>4, InductionUpTo
<1>6. n \in S /\ n >= k
  BY <1>1, <1>5
<1> QED
  BY <1>6 DEF S

\* In a tidy segment nothing is behind what has no bits.
LEMMA BssLast ==
  ASSUME CodeInv, frozen, OneBss(img), NEW s \in DOMAIN img.segments, Tidy(Secs(img, s)),
         NEW k \in DOMAIN Secs(img, s), NoBits(SecAt(img, s, k))
  PROVE  k = Len(Secs(img, s))
<1>1. k \in 1 .. Len(Secs(img, s)) /\ Len(Secs(img, s)) \in Nat
      /\ DOMAIN Secs(img, s) = 1 .. Len(Secs(img, s))
  BY SecsAre DEF CodeInv, ImageOK, Secs
<1> SUFFICES ASSUME k # Len(Secs(img, s)) PROVE FALSE
  OBVIOUS
<1>2. PICK m \in 2 .. Len(Secs(img, s)) : m = k + 1 /\ m - 1 = k
  BY <1>1
<1>3. NoBits(SecAt(img, s, m))
  BY <1>2 DEF Tidy, SecAt
<1>4. m \in DOMAIN Secs(img, s)
  BY <1>1
<1>5. PICK i, j : i = Secs(img, s)[k] /\ j = Secs(img, s)[m]
  OBVIOUS
<1>6. /\ i \in DOMAIN img.sections /\ j \in DOMAIN img.sections
      /\ img.sections[i].kind = "bss" /\ img.sections[j].kind = "bss"
  BY <1>3, <1>4, <1>5, SecsAre DEF NoBits, SecAt
<1>7. Listed(img.segments, i, s, k) /\ Listed(img.segments, j, s, m)
  BY <1>4, <1>5 DEF Listed, Secs
<1>8. img.sections[i].alloc = img.segments[s].type /\ img.sections[j].alloc = img.segments[s].type
  BY <1>6, <1>7 DEF OneBss
<1>9. i = j
  BY <1>6, <1>8 DEF OneBss
<1>10. m = k
  BY <1>7, <1>9 DEF CodeInv, ImageOK, ListedOnce
<1>11. k \in Nat /\ k # k + 1
  BY <1>1
<1> QED
  BY <1>2, <1>10, <1>11

\* Once it is loaded, what has bits is where its address says,
LEMMA BitsInPlace ==
  ASSUME AlignmentsNest, CodeInv, LoaderInv, ContentsInv, loading = "done",
         NEW s \in DOMAIN img.segments, Tidy(Secs(img, s)),
         NEW k \in DOMAIN Secs(img, s), ~ NoBits(SecAt(img, s, k))
  PROVE  SectionInPlace(Secs(img, s)[k])
<1> DEFINE i == Secs(img, s)[k]
           sec == SecAt(img, s, k)
           place == PlacesOf(img, s)
<1>1. /\ ImageOK(img) /\ frozen /\ segs # << >> /\ segs = file.segments
  BY DataSegmentsAre DEF CodeInv, LoaderInv
<1>2. /\ i \in DOMAIN img.sections /\ SectionOK(sec) /\ sec = img.sections[i]
      /\ place[k] \in PlaceRecords
      /\ place[k] = PlaceAfter(sec, place[k - 1]) /\ place[k - 1] \in PlaceRecords
      /\ k \in 1 .. Len(Secs(img, s)) /\ Len(Secs(img, s)) \in Nat
  BY <1>1, SecsAre DEF SecAt
<1>3. s \in DOMAIN segs /\ Pushed(img, s, file.offsets, segs[s])
  BY <1>1, SegmentInFile
<1>4. PICK size \in Nat : size = memSize(sec) /\ size = FileSize(sec)
  BY <1>2, SameSize
<1>5. PICK v \in Nat, addr \in Nat :
        /\ v = segs[s].vaddr /\ addr = place[k].addr
        /\ Addr(img, file.segments, i) = v + addr
  BY <1>1, AddrIs
<1>6. PICK first \in Nat : first = segs[s].offset /\ first = file.offsets[Secs(img, s)[1]]
  <2>1. Secs(img, s) \in Seq(DOMAIN img.sections)
    BY <1>1 DEF ImageOK, Secs
  <2>2. 1 \in DOMAIN Secs(img, s) /\ Secs(img, s) # << >>
    BY <1>2, <2>1
  <2> QED
    BY <1>1, <1>3, <2>2, SecsAre DEF Pushed
<1>7. /\ file.offsets[i] = first + addr
      /\ place[k].memsz = place[k].filesz
  BY <1>1, <1>5, <1>6, TidyInStep DEF InStep
<1>8. place[k].filesz = addr + size
  BY <1>2, <1>4, <1>5, <1>7, PlaceAfterIs
<1>9. addr + size <= segs[s].imageSize /\ segs[s].imageSize \in Nat
  <2>1. place[k].filesz <= place[Len(Secs(img, s))].filesz
    BY <1>1, FilesGrow
  <2>2. segs[s].imageSize = place[Len(Secs(img, s))].filesz
    BY <1>3 DEF Pushed
  <2>3. segs[s].imageSize \in Nat
    BY <1>3, SegmentsGiven DEF Fits
  <2> QED
    BY <1>8, <2>1, <2>2, <2>3
<1>10. ASSUME NEW at \in 0 .. size - 1
       PROVE  OnGpu(Addr(img, file.segments, i) + at) = {[sec |-> i, at |-> at]}
  <2>1. PICK x \in 0 .. segs[s].imageSize - 1 : x = addr + at
    <3>1. PICK z \in Nat : z = segs[s].imageSize /\ addr + size <= z
      BY <1>9
    <3>2. addr + at \in 0 .. z - 1
      BY <3>1
    <3> QED
      BY <3>1, <3>2
  <2>2. OnGpu(v + x) = InFile(first + x)
    BY <1>3, <1>5, <1>6, OnGpuIs
  <2>3. InFile(file.offsets[i] + at) = {[sec |-> i, at |-> at]}
    BY <1>1, <1>2, <1>4, InFileIs
  <2>4. file.offsets[i] + at = first + x
    BY <1>7, <2>1
  <2>5. Addr(img, file.segments, i) + at = v + x
    BY <1>5, <2>1
  <2> QED
    BY <2>2, <2>3, <2>4, <2>5
<1>11. ~ NoBits(sec)
  OBVIOUS
<1> HIDE DEF i, sec
<1>12. SectionInPlace(i)
  BY <1>2, <1>4, <1>10, <1>11 DEF SectionInPlace
<1> QED
  BY <1>12 DEF i

\* and what has none is left zero.
LEMMA NoBitsZero ==
  ASSUME CodeInv, LoaderInv, ContentsInv, loading = "done", OneBss(img),
         NEW s \in DOMAIN img.segments, Tidy(Secs(img, s)),
         NEW k \in DOMAIN Secs(img, s), NoBits(SecAt(img, s, k))
  PROVE  SectionInPlace(Secs(img, s)[k])
<1> DEFINE i == Secs(img, s)[k]
           sec == SecAt(img, s, k)
           place == PlacesOf(img, s)
<1>1. /\ ImageOK(img) /\ frozen /\ segs # << >> /\ segs = file.segments
  BY DataSegmentsAre DEF CodeInv, LoaderInv
<1>2. /\ i \in DOMAIN img.sections /\ SectionOK(sec) /\ sec = img.sections[i]
      /\ place[k] \in PlaceRecords
      /\ place[k] = PlaceAfter(sec, place[k - 1]) /\ place[k - 1] \in PlaceRecords
      /\ place[k - 1].filesz <= place[k - 1].memsz
  BY <1>1, SecsAre DEF SecAt
<1>3. s \in DOMAIN segs /\ Pushed(img, s, file.offsets, segs[s])
  BY <1>1, SegmentInFile
<1>4. k = Len(Secs(img, s))
  BY <1>1, BssLast
<1>5. PICK v \in Nat, addr \in Nat :
        /\ v = segs[s].vaddr /\ addr = place[k].addr
        /\ Addr(img, file.segments, i) = v + addr
  BY <1>1, AddrIs
<1>6. PICK size \in Nat : size = memSize(sec)
  BY <1>2, SectionSizes
<1>7. segs[s].memSize = addr + size
  BY <1>2, <1>3, <1>4, <1>5, <1>6, PlaceAfterIs DEF Pushed
<1>8. segs[s].imageSize \in Nat /\ segs[s].imageSize <= addr
  <2>1. segs[s].imageSize = place[k].filesz
    BY <1>3, <1>4 DEF Pushed
  <2>2. PICK a \in Nat \ {0} : a = Larger(memAlign(sec), 1)
    BY <1>2, SectionSizes
  <2>3. FileSize(sec) = 0
    BY DEF FileSize
  <2>4. PICK x \in Nat, y \in Nat : x = place[k - 1].filesz /\ y = place[k - 1].memsz /\ x <= y
    BY <1>2 DEF PlaceRecords
  <2>5. AlignUp(x, a) <= AlignUp(y, a) /\ AlignUp(x, a) \in Nat
    BY <2>4, AlignUpMonotone, AlignUpIs
  <2>6. place[k].filesz = AlignUp(x, a) + 0 /\ place[k].addr = AlignUp(y, a)
    BY <1>2, <2>2, <2>3, <2>4, PlaceParts
  <2> QED
    BY <1>5, <2>1, <2>5, <2>6
<1>9. ASSUME NEW at \in 0 .. size - 1
      PROVE  CtxDev[Addr(img, file.segments, i) + at] = ZERO
  <2>1. PICK x \in segs[s].imageSize .. segs[s].memSize - 1 : x = addr + at
    <3>1. PICK z \in Nat : z = segs[s].imageSize /\ z <= addr
      BY <1>8
    <3>2. addr + at \in z .. addr + size - 1
      BY <3>1
    <3> QED
      BY <1>7, <3>1, <3>2
  <2>2. CtxDev[v + x] = ZERO
    BY <1>3, <1>5, OnGpuIs
  <2>3. Addr(img, file.segments, i) + at = v + x
    BY <1>5, <2>1
  <2> QED
    BY <2>2, <2>3
<1>10. NoBits(sec)
  OBVIOUS
<1> HIDE DEF i, sec
<1>11. SectionInPlace(i)
  BY <1>2, <1>6, <1>9, <1>10 DEF SectionInPlace
<1> QED
  BY <1>11 DEF i

-----------------------------------------------------------------------------
(* The theorems.                                                           *)

\* It gives the types.
LEMMA CodeLoadInvImpliesTypeOK == CodeLoadInv => TypeOK
<1> SUFFICES ASSUME CodeInv, LoaderInv PROVE TypeOK
  BY DEF CodeLoadInv
<1>1. img.sections \in Seq([kind : DataKinds \cup {"hsatext", "note", "symtab", "rela",
                                                   "imageinit", "samplerinit"},
                            alloc : Allocs \cup {"code_agent", "none"},
                            of : 0 .. SectionLimit,
                            size : Nat, align : Nat, memsize : Nat, memalign : Nat])
  <2> DEFINE Sections == [kind : DataKinds \cup {"hsatext", "note", "symtab", "rela",
                                                 "imageinit", "samplerinit"},
                          alloc : Allocs \cup {"code_agent", "none"},
                          of : 0 .. SectionLimit,
                          size : Nat, align : Nat, memsize : Nat, memalign : Nat]
  <2>1. SectionRecords \subseteq Sections
    BY AlignsAre DEF SectionRecords
  <2>2. img.sections \in Seq(SectionRecords)
    BY ImageParts DEF CodeInv
  <2> HIDE DEF Sections
  <2>3. img.sections \in Seq(Sections)
    BY <2>1, <2>2, SeqMonotonic
  <2> QED
    BY <2>3 DEF Sections
<1>2. /\ \A s \in DOMAIN img.segments : img.segments[s].sections \in Seq(DOMAIN img.sections)
      /\ \A j \in DOMAIN img.symbols : img.symbols[j].section \in 0 .. Len(img.sections)
  BY DEF CodeInv, ImageOK
<1> QED
  BY <1>1, <1>2 DEF TypeOK, CodeInv, LoaderInv

\* It gives what the loader needs, of the segments that were read back.
LEMMA CodeLoadInvImpliesLoaderNeeds == CodeLoadInv => LoaderNeeds
<1> SUFFICES ASSUME CodeInv, LoaderInv, loading \notin {"create", "crashed"},
                    NEW s \in DOMAIN segs
             PROVE  /\ segs[s].imageSize <= segs[s].memSize
                    /\ s > 1 => segs[s].vaddr >= segs[s-1].vaddr + segs[s-1].memSize
  BY DEF CodeLoadInv, LoaderNeeds
<1> QED
  BY SegmentsGiven DEF Fits, InLine

\* It gives that only what is lacking makes loading fail.
LEMMA CodeLoadInvImpliesFailsOnlyIfLacking == CodeLoadInv => FailsOnlyIfLacking
<1> DEFINE kernels == {j \in DOMAIN img.symbols : img.symbols[j].type = "kernel"}
<1> SUFFICES ASSUME CodeInv, LoaderInv PROVE FailsOnlyIfLacking
  BY DEF CodeLoadInv
<1>1. ASSUME loading = "crashed", img.versions # << >>, ~ (Head(img.versions) >= 2),
             \A j \in kernels : ~ NoBits(img.sections[img.symbols[j].section])
      PROVE  img.segments = << >>
  <2>1. ~ ReadsNoBits
    BY <1>1, FirstUnreadIs DEF ReadsNoBits
  <2>2. frozen /\ DataSegments = << >>
    BY <1>1, <2>1 DEF LoaderInv
  <2>3. file.segments = << >>
    BY <1>1, <2>2, DataSegmentsAre
  <2>4. Len(img.segments) = 0
    BY <2>2, <2>3 DEF CodeInv, FileInv
  <2> QED
    BY <2>4, ImageParts DEF CodeInv
<1>2. ASSUME loading = "done", NEW first \in kernels, \A j \in kernels : first <= j,
             img.sections[img.symbols[first].section].kind = "hsatext",
             \A i \in DOMAIN img.sections :
               i # img.symbols[first].section => img.sections[i].kind # "hsatext",
             added[img.symbols[first].section] # 0
      PROVE  KernelSymbolAddress # None
  <2>1. HeaderRead(img.symbols[first])
    <3>1. OneText(img) /\ KernelInText(img, first)
      BY <1>2 DEF OneText, KernelInText
    <3>2. img.symbols[first].value + KernelAlign <= img.sections[img.symbols[first].section].size
      BY <1>2, <3>1 DEF CodeInv, Placed
    <3> QED
      BY <1>2, <3>2 DEF HeaderRead, Executable, ShSize, NoBits
  <2>2. PICK k \in DOMAIN PulledSymbols : PulledSymbols[k] = img.symbols[first]
    <3>1. Len(img.symbols) \in Nat /\ DOMAIN img.symbols = 1 .. Len(img.symbols)
      BY FirstUnreadIs
    <3>2. ASSUME NEW i \in DOMAIN img.symbols, img.symbols[i].type = "kernel", i <= first
          PROVE  HeaderRead(img.symbols[i])
      <4>1. i = first
        BY <1>2, <3>1, <3>2
      <4> QED
        BY <2>1, <4>1
    <3> QED
      BY <1>2, <3>2, KernelPulled
  <2>3. k \in DOMAIN syms /\ syms[k].kernel
    <3>1. syms = Given
      BY <1>2 DEF LoaderInv
    <3> QED
      BY <1>2, <2>2, <3>1 DEF Given
  <2>4. KernelSeen
    BY <1>2, <2>3 DEF KernelSeen
  <2>5. KernelSymbolAddress \in Nat
    BY <1>2, <2>4 DEF LoaderInv
  <2> QED
    BY <2>5, LoaderAssumption
<1> QED
  BY <1>1, <1>2 DEF FailsOnlyIfLacking

\* It gives that the address returned holds the kernel.
LEMMA CodeLoadInvImpliesEntryHoldsKernel == CodeLoadInv => EntryHoldsKernel
<1> DEFINE kernels == {j \in DOMAIN img.symbols : img.symbols[j].type = "kernel"}
           last == CHOOSE j \in kernels : \A k \in kernels : k <= j
           sym == img.symbols[last]
<1> SUFFICES ASSUME CodeInv, LoaderInv, ContentsInv, KernelInv, loading = "done",
                    kernels # {}, \A j \in kernels : HeaderRead(img.symbols[j]),
                    sym.value = 0,
                    NEW s \in DOMAIN img.segments, img.segments[s].sections = <<sym.section>>
             PROVE  /\ KernelSymbolAddress # None
                    /\ OnGpu(KernelSymbolAddress) = {[sec |-> sym.section, at |-> 0]}
  BY DEF CodeLoadInv, EntryHoldsKernel
<1>1. /\ ImageOK(img) /\ frozen /\ segs # << >>
      /\ Len(img.symbols) \in Nat /\ DOMAIN img.symbols = 1 .. Len(img.symbols)
  BY ImageParts DEF CodeInv, LoaderInv
<1>2. segs = file.segments
  BY <1>1, DataSegmentsAre DEF LoaderInv
<1>3. last \in kernels /\ \A k \in kernels : k <= last
  <2>1. kernels \in SUBSET (0 .. Len(img.symbols))
    BY <1>1
  <2>2. \E j \in kernels : \A k \in kernels : j >= k
    BY <1>1, <2>1, GreatestElement
  <2>3. \E j \in kernels : \A k \in kernels : k <= j
    BY <1>1, <2>2
  <2> HIDE DEF kernels
  <2> QED
    BY <2>3
<1> HIDE DEF last
<1>4. LastOf("kernel", img.symbols, last)
  BY <1>1, <1>3 DEF LastOf
<1>5. KernelSymbolAddress = segs[SegmentFound(VAddr(sym))].vaddr
  BY <1>3, <1>4, LastKernelGiven
<1> DEFINE i == sym.section
<1>6. /\ i \in DOMAIN img.sections
      /\ Addr(img, file.segments, i) = segs[s].vaddr
      /\ segs[s].vaddr \in Nat
      /\ segs[s].imageSize = FileSize(img.sections[i])
      /\ segs[s].offset = file.offsets[i]
  BY <1>1, <1>2, AloneInSegment DEF Secs
<1>7. VAddr(sym) = segs[s].vaddr
  BY <1>6 DEF VAddr
<1>8. s \in DOMAIN segs
  BY <1>1, <1>2, SegmentInFile
<1>9. KernelSymbolAddress = segs[s].vaddr
  BY <1>5, <1>7, <1>8, FoundStartsThere
<1>10. 0 \in 0 .. FileSize(img.sections[i]) - 1
  <2>1. HeaderRead(sym)
    BY <1>3
  <2>2. FileSize(img.sections[i]) = ShSize(img.sections[i])
    BY <2>1 DEF FileSize, HeaderRead
  <2>3. 0 + KernelAlign <= ShSize(img.sections[i])
    BY <2>1 DEF HeaderRead
  <2>4. FileSize(img.sections[i]) \in Nat
    BY <1>1, <1>6, ImageParts, SectionSizes DEF ImageOK, SectionOK
  <2> QED
    BY <2>2, <2>3, <2>4, HsaCodeAssumption
<1>11. OnGpu(segs[s].vaddr + 0) = InFile(segs[s].offset + 0)
  BY <1>6, <1>8, <1>10, OnGpuIs
<1>12. InFile(file.offsets[i] + 0) = {[sec |-> i, at |-> 0]}
  BY <1>1, <1>6, <1>10, InFileIs
<1> QED
  BY <1>6, <1>9, <1>11, <1>12, LoaderAssumption

\* It gives that the sections of tidy segments are in place.
LEMMA CodeLoadInvImpliesTidyInPlace ==
  ASSUME AlignmentsNest
  PROVE  CodeLoadInv => TidyInPlace
<1> SUFFICES ASSUME CodeInv, LoaderInv, ContentsInv, loading = "done",
                    NEW s \in DOMAIN img.segments, Tidy(Secs(img, s)),
                    NEW k \in DOMAIN Secs(img, s)
             PROVE  SectionInPlace(Secs(img, s)[k])
  BY DEF CodeLoadInv, TidyInPlace, Secs
<1>1. OneBss(img)
  BY DEF CodeInv
<1> QED
  BY <1>1, BitsInPlace, NoBitsZero

\* The image, and what has been read of it, are of their types (amd_elf_image.hpp).
THEOREM CodeTypeCorrect == Spec => []TypeOK
<1> QED
  BY InitInv, NextInv, CodeLoadInvImpliesTypeOK, PTL DEF Spec

\* Whatever a finalizer builds, the data segments that are read back ascend, do not
\* overlap and are no larger in the file than in memory (amd_elf_image.cpp:773-794).
THEOREM LoaderCanRely == Spec => []LoaderNeeds
<1> QED
  BY InitInv, NextInv, CodeLoadInvImpliesLoaderNeeds, PTL DEF Spec

\* Whatever a finalizer builds, loading it crashes only for want of a segment or a version
\* or for a kernel's symbol in a section without bits, and finds no kernel only where the
\* first is given a section of data, has no code, or may have it in another section than its
\* symbol says (amd_hsa_code.cpp:291-361, amd_elf_image.cpp:934-952, executable.cpp:43-47).
THEOREM LoadFailsOnlyForLack == Spec => []FailsOnlyIfLacking
<1> QED
  BY InitInv, NextInv, CodeLoadInvImpliesFailsOnlyIfLacking, PTL DEF Spec

\* Whatever a finalizer builds, the address the loader returns for the last kernel holds
\* the kernel's first word, if its code has a segment to itself (executable.cpp:79-141).
THEOREM EntryCorrect == Spec => []EntryHoldsKernel
<1> QED
  BY InitInv, NextInv, CodeLoadInvImpliesEntryHoldsKernel, PTL DEF Spec

\* Whatever a finalizer builds, with alignments that are powers of two the sections of a
\* tidy segment are loaded to their addresses, and what has no bits is left zero
\* (amd_elf_image.cpp:773-794, executable.cpp:59-77).
THEOREM TidyCorrect == AlignmentsNest => (Spec => []TidyInPlace)
<1> SUFFICES ASSUME AlignmentsNest PROVE Spec => []TidyInPlace
  OBVIOUS
<1>1. CodeLoadInv => TidyInPlace
  BY CodeLoadInvImpliesTidyInPlace
<1> QED
  BY <1>1, InitInv, NextInv, PTL DEF Spec

=============================================================================
