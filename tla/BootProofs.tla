----------------------------- MODULE BootProofs -----------------------------
(***************************************************************************)
(* Proofs about ElfLoader, for every image, every placement of the three   *)
(* memory regions and every chunk size, and about the start-up of CrtStart *)
(* on the memory that the loader leaves, for every link map.               *)
(***************************************************************************)
EXTENDS CrtStart, SequenceTheorems, TLAPS

\* The current program header is well typed while the loop is at one.
LEMMA SegmentType ==
  ASSUME image \in Images, n \in 1 .. Len(image.segments)
  PROVE  /\ Segment.paddr \in Words /\ Segment.filesz \in Words
         /\ Segment.memsz \in Words /\ Segment.offset \in Words
         /\ Segment.load \in BOOLEAN /\ Segment.exec \in BOOLEAN
         /\ Len(image.segments) \in Nat
  BY ImageAssumption DEF Segment

\* A range that passes the loader's test lies in one of the three regions.
LEMMA ValidInside ==
  ASSUME NEW address \in Nat, NEW length \in Nat, Valid(address, length),
         NEW a \in address .. address + length - 1
  PROVE  InRegions(a)
<1>1. length # 0
  OBVIOUS
<1>2. PICK r \in Regions : RangeFits(r, address, length)
  BY <1>1 DEF Valid
<1>3. r.start \in Nat /\ r.size \in Nat
  BY <1>2, RegionAssumption
<1>4. a \in r.start .. r.start + r.size - 1
  BY <1>2, <1>3 DEF RangeFits
<1> QED
  BY <1>4 DEF InRegions

\* The file contents of a segment that SegmentError accepts lie inside.
LEMMA FileInside ==
  ASSUME image \in Images, n \in 1 .. Len(image.segments),
         SegmentError(Segment) = "OK",
         NEW a \in Segment.paddr .. Segment.paddr + Segment.filesz - 1
  PROVE  InRegions(a)
<1> DEFINE s == Segment
<1>1. s.paddr \in Nat /\ s.filesz \in Nat /\ s.memsz \in Nat
  BY SegmentType, RegionAssumption DEF Words
<1>2. s.memsz >= s.filesz /\ Valid(s.paddr, s.memsz)
  <2>1. CASE s.memsz < s.filesz \/ s.offset + s.filesz > image.data_length
    BY <2>1 DEF SegmentError
  <2>2. CASE /\ s.memsz >= s.filesz /\ s.offset + s.filesz <= image.data_length
             /\ ~Valid(s.paddr, s.memsz)
    BY <2>2, <1>1 DEF SegmentError
  <2>3. s.offset \in Nat /\ image.data_length \in Nat
    BY SegmentType, ImageAssumption, RegionAssumption DEF Words
  <2> QED
    BY <2>1, <2>2, <2>3, <1>1
<1>3. a \in s.paddr .. s.paddr + s.memsz - 1
  BY <1>1, <1>2
<1> QED
  BY <1>1, <1>2, <1>3, ValidInside

\* simulator_write_mem keeps the memory well typed.
LEMMA WriteZeroType ==
  ASSUME mem \in [Words -> Nat \cup {Old}], NEW address, NEW length,
         Write(address, length, LAMBDA b : Zero)
  PROVE  mem' \in [Words -> Nat \cup {Old}]
  BY DEF Write, Zero

\* simulator_write_mem of file contents keeps the memory well typed.
LEMMA WriteFileType ==
  ASSUME mem \in [Words -> Nat \cup {Old}], NEW address \in Nat, NEW length \in Nat,
         NEW offset \in Nat,
         Write(address, length, LAMBDA b : FileByte(offset + b))
  PROVE  mem' \in [Words -> Nat \cup {Old}]
  BY RegionAssumption DEF Write, FileByte, Words

\* The loader starts well typed, before the first program header.
LEMMA InitTypeOK == Init => TypeOK
<1> SUFFICES ASSUME Init PROVE TypeOK
  OBVIOUS
<1>1. Len(image.segments) \in Nat
  BY ImageAssumption DEF Init
<1>2. 0 \in Words
  BY RegionAssumption DEF Words
<1>3. mem \in [Words -> Nat \cup {Old}]
  BY DEF Init
<1>4. n \in 1 .. Len(image.segments) + 1
  BY <1>1 DEF Init
<1> QED
  BY <1>2, <1>3, <1>4 DEF Init, TypeOK

\* Every step of the loader keeps the types.
LEMMA StepTypeOK == TypeOK /\ [Next]_vars => TypeOK'
<1> SUFFICES ASSUME TypeOK, [Next]_vars PROVE TypeOK'
  OBVIOUS
<1> USE DEF Finish
<1>0. Len(image.segments) \in Nat
  BY ImageAssumption DEF TypeOK
<1>Header. CASE Header
  BY <1>Header DEF Header, TypeOK, Segment
<1>Skip. CASE SkipSegment
  BY <1>Skip, <1>0 DEF SkipSegment, TypeOK, Segment
<1>Refuse. CASE RefuseSegment
  BY <1>Refuse DEF RefuseSegment, TypeOK, Segment
<1>Copy. CASE CopySegment
  <2>1. n \in 1 .. Len(image.segments)
    BY <1>Copy, <1>0 DEF CopySegment, TypeOK
  <2>2. Segment.paddr \in Nat /\ Segment.filesz \in Nat /\ Segment.memsz \in Nat
        /\ Segment.offset \in Nat
    BY <2>1, SegmentType, RegionAssumption DEF TypeOK, Words
  <2>3. mem' \in [Words -> Nat \cup {Old}]
    BY <1>Copy, <2>2, WriteFileType DEF CopySegment, TypeOK
  <2>4. zero_address' \in Words
    BY <1>Copy, <2>2, RegionAssumption DEF CopySegment, Words
  <2>5. Segment.memsz >= Segment.filesz
    BY <1>Copy, <2>2 DEF CopySegment, SegmentError
  <2>6. remaining' \in Nat /\ remaining' = Segment.memsz - Segment.filesz
    BY <1>Copy, <2>2, <2>5 DEF CopySegment
  <2>7. entry_is_executable' \in BOOLEAN
    BY <1>Copy DEF CopySegment
  <2> QED
    BY <1>Copy, <2>1, <2>2, <2>3, <2>4, <2>6, <2>7 DEF CopySegment, TypeOK, Segment
<1>Zero. CASE ZeroChunk
  <2>1. n \in 1 .. Len(image.segments)
    BY <1>Zero, <1>0 DEF ZeroChunk, TypeOK
  <2>2. Segment.filesz \in Nat /\ Segment.memsz \in Nat
    BY <2>1, SegmentType, RegionAssumption DEF TypeOK, Words
  <2>3. ChunkSize \in Nat /\ ChunkSize <= remaining
    BY RegionAssumption DEF ChunkSize, TypeOK
  <2>4. CASE Valid(zero_address, ChunkSize)
    <3>1. mem' \in [Words -> Nat \cup {Old}]
      BY <1>Zero, <2>4, WriteZeroType DEF ZeroChunk, TypeOK
    <3>2. zero_address' \in Words
      BY <1>Zero, <2>4, <2>3, RegionAssumption DEF ZeroChunk, TypeOK, Words
    <3>3. remaining' \in Nat /\ remaining' <= remaining
      BY <1>Zero, <2>4, <2>3 DEF ZeroChunk, TypeOK
    <3> QED
      BY <1>Zero, <2>4, <2>1, <2>2, <3>1, <3>2, <3>3 DEF ZeroChunk, TypeOK, Segment
  <2>5. CASE ~Valid(zero_address, ChunkSize)
    BY <1>Zero, <2>5 DEF ZeroChunk, TypeOK, Segment
  <2> QED
    BY <2>4, <2>5
<1>Next. CASE NextSegment
  BY <1>Next, <1>0 DEF NextSegment, TypeOK, Segment
<1>Entry. CASE EntryChecked
  BY <1>Entry DEF EntryChecked, TypeOK, Segment
<1>Layout. CASE Layout
  <2>1. pc' = "done"
    BY <1>Layout DEF Layout
  <2> QED
    BY <1>Layout, <2>1 DEF Layout, TypeOK, Segment
<1>Stutter. CASE UNCHANGED vars
  BY <1>Stutter DEF vars, TypeOK, Segment
<1> QED
  BY <1>Header, <1>Skip, <1>Refuse, <1>Copy, <1>Zero, <1>Next, <1>Entry,
     <1>Layout, <1>Stutter DEF Next

\* A step writes, if anything, inside the regions.
LEMMA StepWritesInside == TypeOK /\ WritesInside /\ [Next]_vars => WritesInside'
<1> SUFFICES ASSUME TypeOK, WritesInside, [Next]_vars,
                    NEW a \in Words, mem'[a] # Old
             PROVE  InRegions(a)
  BY DEF WritesInside, InRegions
<1>0. Len(image.segments) \in Nat
  BY ImageAssumption DEF TypeOK
<1>1. CASE mem' = mem
  BY <1>1 DEF WritesInside
<1>Copy. CASE CopySegment
  <2>1. n \in 1 .. Len(image.segments)
    BY <1>Copy, <1>0 DEF CopySegment, TypeOK
  <2>2. CASE a \in Segment.paddr .. Segment.paddr + Segment.filesz - 1
    BY <1>Copy, <2>1, <2>2, FileInside DEF CopySegment, TypeOK
  <2>3. CASE a \notin Segment.paddr .. Segment.paddr + Segment.filesz - 1
    <3>1. mem'[a] = mem[a]
      BY <1>Copy, <2>3 DEF CopySegment, Write
    <3> QED
      BY <3>1 DEF WritesInside
  <2> QED
    BY <2>2, <2>3
<1>Zero. CASE ZeroChunk /\ mem' # mem
  <2>1. ChunkSize \in Nat /\ zero_address \in Nat
    BY RegionAssumption DEF ChunkSize, TypeOK, Words
  <2>2. Valid(zero_address, ChunkSize)
    BY <1>Zero DEF ZeroChunk
  <2>3. CASE a \in zero_address .. zero_address + ChunkSize - 1
    BY <2>1, <2>2, <2>3, ValidInside
  <2>4. CASE a \notin zero_address .. zero_address + ChunkSize - 1
    <3>1. mem'[a] = mem[a]
      BY <1>Zero, <2>2, <2>4 DEF ZeroChunk, Write
    <3> QED
      BY <3>1 DEF WritesInside
  <2> QED
    BY <2>3, <2>4
<1>2. mem' = mem \/ CopySegment \/ (ZeroChunk /\ mem' # mem)
  BY DEF Next, vars, Header, SkipSegment, RefuseSegment, NextSegment,
         EntryChecked, Layout
<1> QED
  BY <1>1, <1>Copy, <1>Zero, <1>2

\* The loader's variables keep their types, and its zeroing loop stays within
\* what the segment reserves, for every image.
THEOREM LoaderTypes == Spec => []TypeOK
<1>1. Init => TypeOK
  BY InitTypeOK
<1>2. TypeOK /\ [Next]_vars => TypeOK'
  BY StepTypeOK
<1> QED
  BY <1>1, <1>2, PTL DEF Spec

\* load_elf_with_layout never writes outside the ITCM, the DTCM and the DDR,
\* whatever the program headers of the image say.
THEOREM LoaderWritesInside == Spec => []WritesInside
<1>1. Init => TypeOK /\ WritesInside
  BY InitTypeOK DEF Init, WritesInside
<1>2. TypeOK /\ WritesInside /\ [Next]_vars => TypeOK' /\ WritesInside'
  BY StepTypeOK, StepWritesInside
<1> QED
  BY <1>1, <1>2, PTL DEF Spec
-----------------------------------------------------------------------------
(* Segments are loaded whole or not at all.                                *)

SegmentBytes(s) == s.paddr .. s.paddr + s.memsz - 1

\* What the memory holds while segment n is being zeroed: its file contents,
\* zeroes as far as the loop has come, and otherwise what was there before.
Partial(a) ==
  IF a \in Segment.paddr .. Segment.paddr + Segment.filesz - 1
  THEN FileByte(Segment.offset + (a - Segment.paddr))
  ELSE IF a \in Segment.paddr + Segment.filesz ..
                Segment.paddr + Segment.memsz - remaining - 1
       THEN Zero ELSE Expected(a, n - 1)

\* The loop that zeroes works on a segment that passed the checks, and its
\* uint32_t address has not wrapped while anything remains.
ZeroInv ==
  pc = "zero" =>
    /\ Segment.load
    /\ Segment.memsz >= Segment.filesz
    /\ Valid(Segment.paddr, Segment.memsz)
    /\ remaining # 0 => zero_address = Segment.paddr + Segment.memsz - remaining
    /\ \A a \in Words : mem[a] = Partial(a)

HeaderInv == pc = "header" => n = 1 /\ \A a \in Words : mem[a] = Old

LoadInv == TypeOK /\ HeaderInv /\ MemoryIsImage /\ ZeroInv

\* What SegmentError accepts.
LEMMA Accepted ==
  ASSUME image \in Images, n \in 1 .. Len(image.segments), SegmentError(Segment) = "OK"
  PROVE  Segment.memsz >= Segment.filesz /\ Valid(Segment.paddr, Segment.memsz)
<1> DEFINE s == Segment
<1>1. s.filesz \in Nat /\ s.memsz \in Nat /\ s.offset \in Nat /\ image.data_length \in Nat
  BY SegmentType, ImageAssumption, RegionAssumption DEF Words
<1>2. CASE s.memsz < s.filesz \/ s.offset + s.filesz > image.data_length
  BY <1>2 DEF SegmentError
<1>3. CASE /\ s.memsz >= s.filesz /\ s.offset + s.filesz <= image.data_length
           /\ ~Valid(s.paddr, s.memsz)
  BY <1>3, <1>1 DEF SegmentError
<1> QED
  BY <1>1, <1>2, <1>3

\* A range that the loader accepts ends within the address space, and so is
\* every part of it accepted.
LEMMA PartOfValid ==
  ASSUME NEW address \in Nat, NEW length \in Nat, Valid(address, length), length # 0
  PROVE  /\ address + length <= AddrModulus
         /\ \A lower, size \in Nat :
              address <= lower /\ lower + size <= address + length => Valid(lower, size)
<1>1. PICK r \in Regions : RangeFits(r, address, length)
  BY DEF Valid
<1>2. r.start \in Nat /\ r.size \in Nat /\ r.start + r.size <= AddrModulus
      /\ AddrModulus \in Nat
  BY <1>1, RegionAssumption
<1>3. \A lower, size \in Nat :
        address <= lower /\ lower + size <= address + length => RangeFits(r, lower, size)
  BY <1>1, <1>2 DEF RangeFits
<1>4. address + length <= AddrModulus
  BY <1>1, <1>2 DEF RangeFits
<1> QED
  BY <1>1, <1>3, <1>4 DEF Valid

\* Before the first segment the memory is as it was.
LEMMA ExpectedNothing ==
  ASSUME NEW a PROVE Expected(a, 0) = Old
  BY DEF Expected, Covering

\* A segment that does not cover an address does not change it.
LEMMA ExpectedElsewhere ==
  ASSUME NEW a, NEW m \in Nat \ {0},
         ~image.segments[m].load \/ a \notin SegmentBytes(image.segments[m])
  PROVE  Expected(a, m) = Expected(a, m - 1)
<1>1. Covering(a, m) = Covering(a, m - 1)
  BY DEF Covering, SegmentBytes
<1> QED
  BY <1>1 DEF Expected

\* The last segment that covers an address decides what is there.
LEMMA ExpectedLast ==
  ASSUME NEW a, NEW m \in Nat \ {0},
         image.segments[m].load, a \in SegmentBytes(image.segments[m])
  PROVE  Expected(a, m) =
           LET s == image.segments[m]
           IN  IF a < s.paddr + s.filesz THEN FileByte(s.offset + (a - s.paddr)) ELSE Zero
<1> DEFINE C == Covering(a, m)
           top == CHOOSE x \in C : \A j \in C : x >= j
<1>1. m \in C /\ C \subseteq 1 .. m
  BY DEF Covering, SegmentBytes
<1>2. \A j \in C : m >= j
  BY <1>1
<1>3. top \in C /\ \A j \in C : top >= j
  BY <1>1, <1>2
<1> HIDE DEF C, top
<1>4. top = m
  BY <1>1, <1>3
<1> QED
  BY <1>1, <1>4 DEF Expected, C, top

\* What is expected depends on the image and on the segments that cover.
LEMMA ExpectedByCover ==
  ASSUME image' = image, NEW a, Covering(a, n - 1)' = Covering(a, n)
  PROVE  Expected(a, n - 1)' = Expected(a, n)
<1> DEFINE Of(C) ==
      LET s == image.segments[CHOOSE x \in C : \A j \in C : x >= j]
      IN  IF C = {} THEN Old
          ELSE IF a < s.paddr + s.filesz THEN FileByte(s.offset + (a - s.paddr))
          ELSE Zero
<1>1. Expected(a, n) = Of(Covering(a, n))
  BY DEF Expected
<1>2. Expected(a, n - 1)' = Of(Covering(a, n - 1)')
  BY DEF Expected
<1> HIDE DEF Of
<1> QED
  BY <1>1, <1>2

\* The loader starts at the header with the memory as it was.
LEMMA InitLoadInv == Init => LoadInv
  BY InitTypeOK DEF Init, LoadInv, HeaderInv, MemoryIsImage, ZeroInv

\* Every step keeps memory and loop in step with the image.
LEMMA StepLoadInv == LoadInv /\ [Next]_vars => LoadInv'
<1> SUFFICES ASSUME LoadInv, [Next]_vars PROVE LoadInv'
  OBVIOUS
<1> USE DEF Finish
<1>t. TypeOK /\ TypeOK' /\ HeaderInv /\ MemoryIsImage /\ ZeroInv
  BY StepTypeOK DEF LoadInv
<1>0. Len(image.segments) \in Nat /\ n \in Nat \ {0} /\ image' = image
  BY <1>t, ImageAssumption
  DEF TypeOK, Next, vars, Header, SkipSegment, RefuseSegment, CopySegment, ZeroChunk,
      NextSegment, EntryChecked, Layout
<1>still. ASSUME UNCHANGED <<mem, n>>, pc' \in {"segments", "layout", "done"},
                 \A a \in Words : mem[a] = Expected(a, n - 1)
          PROVE  LoadInv'
  <2>1. \A a : Expected(a, n - 1)' = Expected(a, n - 1)
    BY <1>0, <1>still DEF Expected, Covering
  <2> QED
    BY <1>t, <1>still, <2>1 DEF LoadInv, HeaderInv, MemoryIsImage, ZeroInv
<1>Header. CASE Header
  <2>1. n = 1 /\ \A a \in Words : mem[a] = Old
    BY <1>t, <1>Header DEF Header, HeaderInv
  <2>2. \A a \in Words : mem[a] = Expected(a, n - 1)
    BY <2>1, ExpectedNothing
  <2>3. UNCHANGED <<mem, n>> /\ pc' \in {"segments", "done"}
    BY <1>Header DEF Header
  <2> QED
    BY <1>still, <2>2, <2>3
<1>Skip. CASE SkipSegment
  <2>1. /\ mem' = mem /\ n' = n + 1 /\ pc' = "segments"
        /\ \A a \in Words : mem[a] = Expected(a, n - 1)
    BY <1>t, <1>Skip DEF SkipSegment, MemoryIsImage
  <2>2. \A a \in Words : Expected(a, n) = Expected(a, n - 1)
    BY <1>0, <1>Skip, ExpectedElsewhere DEF SkipSegment, Segment
  <2>3. n' - 1 = n
    BY <1>0, <2>1
  <2>4. \A a : Expected(a, n - 1)' = Expected(a, n)
    <3> SUFFICES ASSUME NEW a PROVE Expected(a, n - 1)' = Expected(a, n)
      OBVIOUS
    <3>1. Covering(a, n - 1)' = Covering(a, n)
      BY <1>0, <2>3 DEF Covering
    <3> QED
      BY <1>0, <3>1, ExpectedByCover
  <2>5. MemoryIsImage'
    BY <2>1, <2>2, <2>4 DEF MemoryIsImage
  <2> QED
    BY <1>t, <2>1, <2>5 DEF LoadInv, HeaderInv, ZeroInv
<1>Refuse. CASE RefuseSegment
  BY <1>t, <1>still, <1>Refuse DEF RefuseSegment, MemoryIsImage
<1>Copy. CASE CopySegment
  <2>1. n \in 1 .. Len(image.segments)
    BY <1>Copy, <1>0 DEF CopySegment
  <2>2. /\ Segment.paddr \in Nat /\ Segment.filesz \in Nat /\ Segment.memsz \in Nat
        /\ Segment.offset \in Nat /\ AddrModulus \in Nat \ {0}
    BY <1>t, <2>1, SegmentType, RegionAssumption DEF TypeOK, Words
  <2>3. Segment.memsz >= Segment.filesz /\ Valid(Segment.paddr, Segment.memsz)
    BY <1>t, <1>Copy, <2>1, Accepted DEF TypeOK, CopySegment
  <2>4. /\ pc' = "zero" /\ n' = n /\ Segment' = Segment /\ Segment.load
        /\ remaining' = Segment.memsz - Segment.filesz
        /\ zero_address' = (Segment.paddr + Segment.filesz) % AddrModulus
    BY <1>Copy DEF CopySegment, Segment
  <2>5. remaining' # 0 => zero_address' = Segment.paddr + Segment.memsz - remaining'
    <3> SUFFICES ASSUME remaining' # 0
        PROVE zero_address' = Segment.paddr + Segment.memsz - remaining'
      OBVIOUS
    <3>1. Segment.memsz # 0 /\ Segment.filesz < Segment.memsz
      BY <2>2, <2>3, <2>4
    <3>2. Segment.paddr + Segment.memsz <= AddrModulus
      BY <2>2, <2>3, <3>1, PartOfValid
    <3>3. Segment.paddr + Segment.filesz \in 0 .. AddrModulus - 1
      BY <2>2, <3>1, <3>2
    <3>4. (Segment.paddr + Segment.filesz) % AddrModulus = Segment.paddr + Segment.filesz
      BY <2>2, <3>3
    <3> QED
      BY <2>2, <2>4, <3>4
  <2>6. \A a \in Words : mem'[a] = Partial(a)'
    <3> SUFFICES ASSUME NEW a \in Words PROVE mem'[a] = Partial(a)'
      OBVIOUS
    <3>1. mem[a] = Expected(a, n - 1)
      BY <1>t, <1>Copy DEF CopySegment, MemoryIsImage
    <3>2. Expected(a, n - 1)' = Expected(a, n - 1)
      BY <1>0, <2>4 DEF Expected, Covering
    <3>3. Segment.paddr + Segment.memsz - remaining' - 1 = Segment.paddr + Segment.filesz - 1
      BY <2>2, <2>4
    <3>4. mem'[a] = IF a \in Segment.paddr .. Segment.paddr + Segment.filesz - 1
                    THEN FileByte(Segment.offset + (a - Segment.paddr)) ELSE mem[a]
      BY <1>Copy DEF CopySegment, Write
    <3>5. Segment.paddr + Segment.filesz .. Segment.paddr + Segment.filesz - 1 = {}
      BY <2>2
    <3> QED
      BY <2>4, <3>1, <3>2, <3>3, <3>4, <3>5 DEF Partial
  <2> QED
    BY <1>t, <2>3, <2>4, <2>5, <2>6 DEF LoadInv, HeaderInv, MemoryIsImage, ZeroInv
<1>Zero. CASE ZeroChunk
  <2>1. n \in 1 .. Len(image.segments)
    BY <1>Zero, <1>0, <1>t DEF ZeroChunk, TypeOK
  <2>2. /\ Segment.paddr \in Nat /\ Segment.filesz \in Nat /\ Segment.memsz \in Nat
        /\ Segment.offset \in Nat /\ AddrModulus \in Nat \ {0} /\ remaining \in Nat \ {0}
        /\ remaining <= Segment.memsz - Segment.filesz
    BY <1>t, <1>Zero, <2>1, SegmentType, RegionAssumption DEF TypeOK, Words, ZeroChunk
  <2>3. /\ Segment.load /\ Segment.memsz >= Segment.filesz
        /\ Valid(Segment.paddr, Segment.memsz)
        /\ zero_address = Segment.paddr + Segment.memsz - remaining
        /\ \A a \in Words : mem[a] = Partial(a)
    BY <1>t, <1>Zero DEF ZeroChunk, ZeroInv
  <2>4. ChunkSize \in Nat \ {0} /\ ChunkSize <= remaining
    BY <2>2, RegionAssumption DEF ChunkSize
  <2>5. /\ Segment.paddr + Segment.memsz <= AddrModulus
        /\ Valid(zero_address, ChunkSize)
    <3>1. Segment.memsz # 0
      BY <2>2
    <3>2. /\ zero_address \in Nat /\ Segment.paddr <= zero_address
          /\ zero_address + ChunkSize <= Segment.paddr + Segment.memsz
      BY <2>2, <2>3, <2>4
    <3> QED
      BY <2>2, <2>3, <2>4, <3>1, <3>2, PartOfValid
  <2>6. /\ pc' = "zero" /\ n' = n /\ Segment' = Segment
        /\ remaining' = remaining - ChunkSize
        /\ zero_address' = (zero_address + ChunkSize) % AddrModulus
    BY <1>Zero, <2>5 DEF ZeroChunk, Segment
  <2>7. remaining' # 0 => zero_address' = Segment.paddr + Segment.memsz - remaining'
    <3> SUFFICES ASSUME remaining' # 0
        PROVE zero_address' = Segment.paddr + Segment.memsz - remaining'
      OBVIOUS
    <3>1. zero_address + ChunkSize = Segment.paddr + Segment.memsz - remaining'
      BY <2>2, <2>3, <2>4, <2>6
    <3>2. zero_address + ChunkSize \in 0 .. AddrModulus - 1
      <4>1. remaining' \in Nat /\ remaining' >= 1 /\ remaining' <= Segment.memsz
        BY <2>2, <2>4, <2>6
      <4> QED
        BY <2>2, <2>5, <3>1, <4>1
    <3>3. (zero_address + ChunkSize) % AddrModulus = zero_address + ChunkSize
      BY <2>2, <3>2
    <3> QED
      BY <2>6, <3>1, <3>3
  <2>8. \A a \in Words : mem'[a] = Partial(a)'
    <3> SUFFICES ASSUME NEW a \in Words PROVE mem'[a] = Partial(a)'
      OBVIOUS
    <3> DEFINE chunk == Segment.paddr + Segment.memsz - remaining
    <3>1. mem[a] = Partial(a)
      BY <2>3
    <3>2. Expected(a, n - 1)' = Expected(a, n - 1)
      BY <1>0, <2>6 DEF Expected, Covering
    <3>3. mem'[a] = IF a \in chunk .. chunk + ChunkSize - 1 THEN Zero ELSE mem[a]
      BY <1>Zero, <2>3, <2>5 DEF ZeroChunk, Write
    <3>4. Partial(a)' =
            IF a \in Segment.paddr .. Segment.paddr + Segment.filesz - 1
            THEN FileByte(Segment.offset + (a - Segment.paddr))
            ELSE IF a \in Segment.paddr + Segment.filesz .. chunk + ChunkSize - 1
                 THEN Zero ELSE Expected(a, n - 1)
      <4>1. Segment.paddr + Segment.memsz - remaining' - 1 = chunk + ChunkSize - 1
        BY <2>2, <2>4, <2>6
      <4> QED
        BY <2>6, <3>2, <4>1 DEF Partial
    <3>5. a \in Int /\ chunk \in Int /\ Segment.paddr + Segment.filesz <= chunk
      BY <2>2, RegionAssumption DEF Words
    <3> HIDE DEF chunk
    <3>6. CASE a \in chunk .. chunk + ChunkSize - 1
      BY <2>2, <2>4, <3>3, <3>4, <3>5, <3>6
    <3>7. CASE a \notin chunk .. chunk + ChunkSize - 1
      <4>1. a \in Segment.paddr + Segment.filesz .. chunk + ChunkSize - 1
              <=> a \in Segment.paddr + Segment.filesz .. chunk - 1
        BY <2>2, <2>4, <3>5, <3>7
      <4>2. Partial(a) =
              IF a \in Segment.paddr .. Segment.paddr + Segment.filesz - 1
              THEN FileByte(Segment.offset + (a - Segment.paddr))
              ELSE IF a \in Segment.paddr + Segment.filesz .. chunk - 1
                   THEN Zero ELSE Expected(a, n - 1)
        <5>1. Segment.paddr + Segment.memsz - remaining - 1 = chunk - 1
          BY <2>2 DEF chunk
        <5> QED
          BY <5>1 DEF Partial
      <4> QED
        BY <3>1, <3>3, <3>4, <3>7, <4>1, <4>2
    <3> QED
      BY <3>6, <3>7
  <2> QED
    BY <1>t, <2>3, <2>6, <2>7, <2>8 DEF LoadInv, HeaderInv, MemoryIsImage, ZeroInv
<1>Next. CASE NextSegment
  <2>1. n \in 1 .. Len(image.segments)
    BY <1>Next, <1>0, <1>t DEF NextSegment, TypeOK
  <2>2. /\ Segment.paddr \in Nat /\ Segment.filesz \in Nat /\ Segment.memsz \in Nat
        /\ Segment.load /\ Segment.memsz >= Segment.filesz
        /\ \A a \in Words : mem[a] = Partial(a)
    BY <1>t, <1>Next, <2>1, SegmentType, RegionAssumption DEF TypeOK, Words, NextSegment, ZeroInv
  <2>3. remaining = 0 /\ mem' = mem /\ n' = n + 1 /\ pc' = "segments"
    BY <1>Next DEF NextSegment
  <2>4. \A a \in Words : mem[a] = Expected(a, n)
    <3> SUFFICES ASSUME NEW a \in Words PROVE Partial(a) = Expected(a, n)
      BY <2>2
    <3>1. a \in Int
      BY RegionAssumption DEF Words
    <3>2. CASE a \in SegmentBytes(Segment)
      <4>1. Expected(a, n) =
              IF a < Segment.paddr + Segment.filesz
              THEN FileByte(Segment.offset + (a - Segment.paddr)) ELSE Zero
        BY <1>0, <2>2, <3>2, ExpectedLast DEF Segment
      <4> QED
        BY <2>2, <2>3, <3>1, <3>2, <4>1 DEF Partial, SegmentBytes
    <3>3. CASE a \notin SegmentBytes(Segment)
      <4>1. Expected(a, n) = Expected(a, n - 1)
        BY <1>0, <3>3, ExpectedElsewhere DEF Segment
      <4> QED
        BY <2>2, <2>3, <3>1, <3>3, <4>1 DEF Partial, SegmentBytes
    <3> QED
      BY <3>2, <3>3
  <2>5. n' - 1 = n
    BY <1>0, <2>3
  <2>6. \A a : Expected(a, n - 1)' = Expected(a, n)
    <3> SUFFICES ASSUME NEW a PROVE Expected(a, n - 1)' = Expected(a, n)
      OBVIOUS
    <3>1. Covering(a, n - 1)' = Covering(a, n)
      BY <1>0, <2>5 DEF Covering
    <3> QED
      BY <1>0, <3>1, ExpectedByCover
  <2>7. MemoryIsImage'
    BY <2>3, <2>4, <2>6 DEF MemoryIsImage
  <2> QED
    BY <1>t, <2>3, <2>7 DEF LoadInv, HeaderInv, ZeroInv
<1>Entry. CASE EntryChecked
  BY <1>t, <1>still, <1>Entry DEF EntryChecked, MemoryIsImage
<1>Layout. CASE Layout
  <2>1. UNCHANGED <<mem, n>> /\ pc' = "done"
    BY <1>Layout DEF Layout
  <2> QED
    BY <1>t, <1>still, <1>Layout, <2>1 DEF Layout, MemoryIsImage
<1>Stutter. CASE UNCHANGED vars
  <2>1. UNCHANGED <<mem, image, pc, n, zero_address, remaining>>
    BY <1>Stutter DEF vars
  <2>2. \A a : Expected(a, n - 1)' = Expected(a, n - 1)
    BY <2>1 DEF Expected, Covering
  <2>3. Segment' = Segment /\ \A a : Partial(a)' = Partial(a)
    BY <2>1, <2>2 DEF Partial, Segment
  <2> QED
    BY <1>t, <2>1, <2>2, <2>3 DEF LoadInv, HeaderInv, MemoryIsImage, ZeroInv
<1> QED
  BY <1>Header, <1>Skip, <1>Refuse, <1>Copy, <1>Zero, <1>Next, <1>Entry,
     <1>Layout, <1>Stutter DEF Next

\* For every image, however its segments overlap and wherever the loader gives
\* up, the memory holds the segments before that one whole and nothing else;
\* no chunk of zeroes of a segment that passed validate_segment is refused.
THEOREM LoaderMemoryIsImage == Spec => []MemoryIsImage
<1>1. LoadInv => MemoryIsImage
  BY DEF LoadInv
<1> QED
  BY <1>1, InitLoadInv, StepLoadInv, PTL DEF Spec


-----------------------------------------------------------------------------
(***************************************************************************)
(* Start-up.                                                               *)
(***************************************************************************)
Running == {"_start", "clear", "constructors", "main", "finalize", "destructors"}
Cores == Running \cup {"off", "lost", "halted"}
\* .bss has been cleared.
Cleaned == {"constructors", "main", "finalize", "destructors"}

Count(bounds) == (bounds[2] - bounds[1]) \div WordSize
Prefix(s, j) == [i \in 1 .. j |-> s[i]]
Callable(bounds, j) == \A i \in 1 .. j : FunctionsIn(bounds)[i].id \notin {Reset, Unknown}

\* The loader is done and the core changes .bss and _ret only.
RamInv ==
  core # "off" =>
    /\ pc = "done"
    /\ \A a \in Words : a \notin Between(link.bss) \cup RetWord(link) => ram[a] = mem[a]

\* Nothing but the end of the start-up code stores a result.
RetInv == core \in Running => ram[link.ret] \in Nat \cup {Old, Sentinel}

ClearInv ==
  /\ core = "clear" =>
       /\ registered = 0 /\ calls = <<>>
       /\ cursor \in Nat /\ link.bss[1] <= cursor /\ Aligned(cursor)
       /\ link.bss[1] <= link.bss[2] /\ Aligned(link.bss[2])
       /\ \A a \in Words : a \in link.bss[1] .. cursor - 1 => ram[a] = Zero
  /\ core \in Cleaned =>
       /\ Aligned(link.bss[2])
       /\ \A a \in Words : a \in Between(link.bss) => ram[a] = Zero

\* The table of destructors, while it is not yet being walked.
Late(count) == IF count < MaxAtexit THEN count ELSE MaxAtexit
AtexitInv ==
  core \in {"constructors", "main"} =>
    registered \in 0 .. MaxCalls /\ atexit = [i \in 1 .. Late(registered) |-> i - 1]

\* Constructors up to the cursor have been called; main has been after all.
ConstructorInv ==
  /\ core = "constructors" =>
       \E j \in 0 .. Count(link.init) :
         /\ cursor = link.init[1] + j * WordSize
         /\ calls = Prefix(FunctionsIn(link.init), j) /\ Callable(link.init, j)
  /\ core = "main" =>
       /\ calls = FunctionsIn(link.init) \o <<Event("main", 0)>>
       /\ Callable(link.init, Count(link.init))
       /\ \A a \in Words : a \in RetWord(link) => ram[a] = Sentinel

\* What has been called when j of the late destructors have been, and the array
\* of destructors in the order of the calls.
Called(count, j) ==
  FunctionsIn(link.init) \o <<Event("main", 0), Event("return", count)>>
    \o [i \in 1 .. j |-> Event("atexit", Late(count) - i)]
Backwards == Reverse(FunctionsIn(link.fini))

DestructorInv ==
  /\ core \in {"finalize", "destructors"} => a0 \in {0, 1}
  /\ core = "finalize" =>
       /\ registered \in 0 .. MaxCalls
       /\ \E count \in 0 .. MaxCalls :
         /\ cursor \in 0 .. Late(count)
         /\ atexit \in Seq(Nat) /\ Len(atexit) >= Late(count)
         /\ \A i \in 1 .. Late(count) : atexit[i] = i - 1
         /\ calls = Called(count, Late(count) - cursor)
  /\ core = "destructors" =>
       \E count \in 0 .. MaxCalls : \E j \in 0 .. Count(link.fini) :
         /\ cursor = link.fini[2] - j * WordSize
         /\ calls = Called(count, Late(count)) \o Prefix(Backwards, j)

BootInv ==
  /\ TypeOK /\ core \in Cores /\ RamInv /\ RetInv /\ ClearInv /\ AtexitInv
  /\ ConstructorInv /\ DestructorInv /\ ExitIsComplete

-----------------------------------------------------------------------------
(***************************************************************************)
(* Words and sequences.                                                    *)
(***************************************************************************)
LEMMA Times ==
  ASSUME NEW w \in Nat \ {0}, NEW i \in Nat, NEW j \in Nat
  PROVE  /\ i * w \in Nat /\ (i + 1) * w = i * w + w
         /\ i < j => i * w + w <= j * w
         /\ i < j <=> i * w < j * w
         /\ i = j <=> i * w = j * w
<1>1. i * w \in Nat /\ j * w \in Nat /\ (i + 1) * w = i * w + w
  OBVIOUS
<1>2. ASSUME NEW a \in Nat, NEW b \in Nat, a < b PROVE a * w + w <= b * w
  <2>1. PICK d \in Nat : b = a + 1 + d
    <3>1. b - a - 1 \in Nat /\ b = a + 1 + (b - a - 1)
      BY <1>2
    <3> QED
      BY <3>1
  <2>2. b * w = a * w + w + d * w /\ d * w \in Nat
    BY <2>1
  <2> QED
    BY <2>2
<1> QED
  BY <1>1, <1>2

LEMMA Divides ==
  ASSUME NEW w \in Nat \ {0}, NEW a \in Nat, a % w = 0
  PROVE  a \div w \in Nat /\ a = (a \div w) * w
OBVIOUS

LEMMA ModTimes ==
  ASSUME NEW w \in Nat \ {0}, NEW q \in Nat
  PROVE  (q * w) % w = 0 /\ (q * w) \div w = q
OBVIOUS

\* From one aligned address to the next.
LEMMA NextAligned ==
  ASSUME NEW a \in Nat, NEW b \in Nat, Aligned(a), Aligned(b), a < b
  PROVE  a + WordSize <= b /\ Aligned(a + WordSize) /\ a + WordSize \in Nat
<1>1. WordSize \in Nat \ {0}
  BY CrtAssumption
<1>2. PICK p \in Nat : a = p * WordSize
  BY <1>1, Divides DEF Aligned
<1>3. PICK q \in Nat : b = q * WordSize
  BY <1>1, Divides DEF Aligned
<1>4. p < q
  BY <1>1, <1>2, <1>3, Times
<1>5. a + WordSize = (p + 1) * WordSize /\ a + WordSize <= b
  BY <1>1, <1>2, <1>3, <1>4, Times
<1>6. p + 1 \in Nat
  OBVIOUS
<1>7. Aligned(a + WordSize)
  BY <1>1, <1>5, <1>6, ModTimes DEF Aligned
<1> QED
  BY <1>1, <1>5, <1>7

\* A longer prefix.
LEMMA Longer ==
  ASSUME NEW S, NEW s \in Seq(S), NEW j \in Nat, j < Len(s)
  PROVE  Append(Prefix(s, j), s[j + 1]) = Prefix(s, j + 1)
<1>1. j + 1 \in 1 .. Len(s) /\ s[j + 1] \in S
  OBVIOUS
<1>2. Prefix(s, j) \in Seq(S) /\ Len(Prefix(s, j)) = j
  BY DEF Prefix
<1>3. Prefix(s, j + 1) \in Seq(S) /\ Len(Prefix(s, j + 1)) = j + 1
  BY DEF Prefix
<1>4. ASSUME NEW i \in 1 .. j + 1
      PROVE  Append(Prefix(s, j), s[j + 1])[i] = Prefix(s, j + 1)[i]
  BY <1>2 DEF Prefix
<1> QED
  BY <1>1, <1>2, <1>3, <1>4, SeqEqual

LEMMA WholePrefix ==
  ASSUME NEW S, NEW s \in Seq(S)
  PROVE  Prefix(s, Len(s)) = s /\ Prefix(s, 0) = <<>>
<1>1. Prefix(s, Len(s)) \in Seq(S) /\ Len(Prefix(s, Len(s))) = Len(s)
  BY DEF Prefix
<1>2. \A i \in 1 .. Len(s) : Prefix(s, Len(s))[i] = s[i]
  BY DEF Prefix
<1>3. Prefix(s, Len(s)) = s
  BY <1>1, <1>2, SeqEqual
<1>4. Prefix(s, 0) \in Seq(S) /\ Len(Prefix(s, 0)) = 0
  BY DEF Prefix
<1> QED
  BY <1>3, <1>4, EmptySeq

LEMMA AppendConcat ==
  ASSUME NEW S, NEW T, NEW s \in Seq(S), NEW t \in Seq(T), NEW e
  PROVE  Append(s \o t, e) = s \o Append(t, e)
<1> DEFINE U == S \cup T \cup {e}
<1>1. s \in Seq(U) /\ t \in Seq(U) /\ e \in U
  BY SeqMonotonic
<1> HIDE DEF U
<1>2. Append(s \o t, e) \in Seq(U) /\ (s \o Append(t, e)) \in Seq(U)
  BY <1>1
<1>3. Len(Append(s \o t, e)) = Len(s \o Append(t, e))
  BY <1>1
<1>4. ASSUME NEW i \in 1 .. Len(s \o Append(t, e)) PROVE Append(s \o t, e)[i] = (s \o Append(t, e))[i]
  BY <1>1
<1> QED
  BY <1>2, <1>3, <1>4, SeqEqual

LEMMA OwnSeq == ASSUME NEW n1 \in Nat, NEW s, s = [i \in 1 .. n1 |-> s[i]]
                PROVE  s \in Seq({s[i] : i \in 1 .. n1}) /\ Len(s) = n1
OBVIOUS

-----------------------------------------------------------------------------
(***************************************************************************)
(* What a link map is.                                                     *)
(***************************************************************************)
LEMMA LinkTypes ==
  ASSUME TypeOK
  PROVE  /\ WordSize \in Nat \ {0} /\ MaxAtexit \in Nat /\ MaxCalls \in Nat
         /\ link.bss[1] \in Nat /\ link.bss[2] \in Nat /\ Aligned(link.bss[1])
         /\ link.ret \in Words /\ RetWord(link) \cap Between(link.bss) = {}
         /\ AddrModulus \in Nat \ {0}
BY LinkAssumption, CrtAssumption, RegionAssumption DEF TypeOK, Placed, link

\* The words of an array, and that nothing changes them.
LEMMA ArrayTypes ==
  ASSUME TypeOK, NEW b \in {link.init, link.fini}
  PROVE  /\ b[1] \in Nat /\ b[2] \in Nat /\ Count(b) \in Nat
         /\ b[2] = b[1] + Count(b) * WordSize
         /\ \A i \in 1 .. Count(b) :
              LET a == b[1] + (i - 1) * WordSize
              IN  a \in Words /\ a \notin Between(link.bss) \cup RetWord(link)
<1>1. /\ b[1] \in Nat /\ b[2] \in b[1] .. AddrModulus /\ (b[2] - b[1]) % WordSize = 0
      /\ Between(b) \cap (Between(link.bss) \cup RetWord(link)) = {}
  BY LinkAssumption DEF TypeOK, Placed, link
<1>2. AddrModulus \in Nat /\ WordSize \in Nat \ {0} /\ b[2] \in Nat /\ b[2] - b[1] \in Nat
  BY <1>1, LinkTypes
<1>3. Count(b) \in Nat /\ b[2] - b[1] = Count(b) * WordSize
  BY <1>1, <1>2, Divides DEF Count
<1>4. ASSUME NEW i \in 1 .. Count(b)
      PROVE  b[1] + (i - 1) * WordSize \in Words /\ b[1] + (i - 1) * WordSize \in Between(b)
  <2>1. i - 1 \in Nat /\ i - 1 < Count(b)
    BY <1>3
  <2>2. (i - 1) * WordSize \in Nat /\ (i - 1) * WordSize < Count(b) * WordSize
    BY <1>2, <1>3, <2>1, Times
  <2> QED
    BY <1>1, <1>2, <1>3, <2>2 DEF Between, Words
<1> QED
  BY <1>1, <1>2, <1>3, <1>4

\* The functions of an array are a sequence.
LEMMA FunctionTypes ==
  ASSUME TypeOK, NEW b \in {link.init, link.fini}
  PROVE  LET f == FunctionsIn(b)
         IN  /\ f \in Seq({f[i] : i \in 1 .. Count(b)}) /\ Len(f) = Count(b)
             /\ \A i \in 1 .. Count(b) : f[i] = Event("array", Pointer(mem[b[1] + (i - 1) * WordSize]))
<1> DEFINE f == FunctionsIn(b)
<1>1. f = [i \in 1 .. Count(b) |-> Event("array", Pointer(mem[b[1] + (i - 1) * WordSize]))]
  BY DEF FunctionsIn, Count
<1>2. f = [i \in 1 .. Count(b) |-> f[i]]
  BY <1>1
<1>3. Count(b) \in Nat
  BY ArrayTypes
<1> HIDE DEF f
<1>4. f \in Seq({f[i] : i \in 1 .. Count(b)}) /\ Len(f) = Count(b)
  BY <1>2, <1>3, OwnSeq
<1> QED
  BY <1>1, <1>4 DEF f

\* What does not change while the core runs.
LEMMA Frame ==
  ASSUME TypeOK, UNCHANGED loader
  PROVE  /\ TypeOK' /\ link' = link /\ mem' = mem /\ pc' = pc
         /\ FunctionsIn(link.init)' = FunctionsIn(link.init)
         /\ FunctionsIn(link.fini)' = FunctionsIn(link.fini)
         /\ Backwards' = Backwards
         /\ \A count, j : Called(count, j)' = Called(count, j)
         /\ \A j : Callable(link.init, j)' <=> Callable(link.init, j)
<1>1. link' = link /\ mem' = mem /\ pc' = pc
  BY DEF loader, vars, link
<1>2. TypeOK'
  BY StepTypeOK DEF loader
<1>3. /\ FunctionsIn(link.init)' = FunctionsIn(link.init)
      /\ FunctionsIn(link.fini)' = FunctionsIn(link.fini)
  BY <1>1 DEF FunctionsIn, Pointer
<1> QED
  BY <1>1, <1>2, <1>3 DEF Backwards, Called, Callable

\* The steps of the core.
CoreNext == Run \/ UseStatic \/ Stop

LEMMA CoreFrame == ASSUME CoreNext PROVE UNCHANGED loader
BY DEF CoreNext, Run, UseStatic, Stop, PowerOn, Start, ClearWord, Cleared, CallConstructor,
       CallMain, MainReturns, CallFinalizer, Finalized, CallDestructor, Exit

\* Who stores, and where.
LEMMA Stores ==
  ASSUME TypeOK, ClearInv, CoreNext
  PROVE  \/ PowerOn
         \/ /\ core # "off" /\ core' # "off" /\ ram' = ram
         \/ /\ ClearWord /\ core' = core
            /\ \E a \in Nat : /\ StoreWord(a, Zero) /\ a = cursor
                              /\ a .. a + WordSize - 1 \subseteq Between(link.bss)
         \/ CallMain /\ StoreWord(link.ret, Sentinel)
         \/ Exit /\ StoreWord(link.ret, Value(a0))
<1>1. CASE ClearWord
  <2>1. /\ cursor \in Nat /\ link.bss[1] <= cursor /\ Aligned(cursor)
        /\ Aligned(link.bss[2]) /\ cursor < link.bss[2]
    BY <1>1 DEF ClearWord, ClearInv
  <2>2. cursor + WordSize <= link.bss[2] /\ link.bss[1] \in Nat /\ link.bss[2] \in Nat
        /\ WordSize \in Nat
    BY <2>1, NextAligned, LinkTypes
  <2>3. cursor .. cursor + WordSize - 1 \subseteq Between(link.bss)
    BY <2>1, <2>2 DEF Between
  <2> QED
    BY <1>1, <2>1, <2>3 DEF ClearWord
<1>2. CASE CallMain \/ Exit
  BY <1>2 DEF CallMain, Exit
<1>3. CASE CoreNext /\ ~PowerOn /\ ~ClearWord /\ ~CallMain /\ ~Exit
  <2>1. CASE Start \/ Cleared \/ Stop \/ UseStatic
    BY <2>1 DEF Start, Cleared, Stop, UseStatic, Halt
  <2>2. CASE CallConstructor
    BY <2>2 DEF CallConstructor
  <2>3. CASE MainReturns \/ CallFinalizer \/ Finalized
    BY <2>3 DEF MainReturns, CallFinalizer, Finalized
  <2>4. CASE CallDestructor
    BY <2>4 DEF CallDestructor
  <2> QED
    BY <1>3, <2>1, <2>2, <2>3, <2>4 DEF CoreNext, Run
<1> QED
  BY <1>1, <1>2, <1>3

LEMMA RamStep ==
  ASSUME TypeOK, RamInv, ClearInv, CoreNext
  PROVE  RamInv'
<1>1. link' = link /\ mem' = mem /\ pc' = pc
  BY CoreFrame, Frame
<1>2. CASE PowerOn
  BY <1>1, <1>2 DEF PowerOn, RamInv
<1>3. CASE core # "off" /\ ram' = ram
  BY <1>1, <1>3 DEF RamInv
<1>4. ASSUME core # "off", NEW address, NEW v, StoreWord(address, v),
             address .. address + WordSize - 1 \subseteq Between(link.bss) \cup RetWord(link)
      PROVE  RamInv'
  BY <1>1, <1>4 DEF RamInv, StoreWord
<1>5. CASE ClearWord /\ \E a \in Nat : StoreWord(a, Zero) /\ a .. a + WordSize - 1 \subseteq Between(link.bss)
  BY <1>4, <1>5 DEF ClearWord
<1>6. CASE (CallMain /\ StoreWord(link.ret, Sentinel)) \/ (Exit /\ StoreWord(link.ret, Value(a0)))
  <2>1. core # "off"
    BY <1>6 DEF CallMain, Exit
  <2>2. link.ret .. link.ret + WordSize - 1 \subseteq Between(link.bss) \cup RetWord(link)
    BY DEF RetWord
  <2> QED
    BY <1>4, <1>6, <2>1, <2>2
<1> QED
  BY <1>2, <1>3, <1>5, <1>6, Stores

LEMMA RetStep ==
  ASSUME TypeOK, RetInv, ClearInv, CoreNext
  PROVE  RetInv'
<1>1. link' = link /\ link.ret \in Words /\ WordSize \in Nat \ {0}
      /\ RetWord(link) \cap Between(link.bss) = {}
  BY CoreFrame, Frame, LinkTypes
<1>2. link.ret \in RetWord(link)
  BY <1>1 DEF RetWord, Words
<1>3. CASE PowerOn
  <2>1. ram' = mem
    BY <1>3 DEF PowerOn
  <2>2. mem[link.ret] \in Nat \cup {Old}
    BY <1>1 DEF TypeOK
  <2> QED
    BY <1>1, <2>1, <2>2 DEF RetInv
<1>4. CASE ram' = ram /\ (core' \in Running => core \in Running)
  BY <1>1, <1>4 DEF RetInv
<1>5. CASE ClearWord /\ \E a \in Nat : StoreWord(a, Zero) /\ a .. a + WordSize - 1 \subseteq Between(link.bss)
  <2>1. ram'[link.ret] = ram[link.ret]
    BY <1>1, <1>2, <1>5 DEF StoreWord
  <2>2. core \in Running
    BY <1>5 DEF ClearWord, Running
  <2> QED
    BY <1>1, <2>1, <2>2 DEF RetInv
<1>6. CASE StoreWord(link.ret, Sentinel)
  <2>1. ram'[link.ret] = Sentinel
    BY <1>1, <1>2, <1>6 DEF StoreWord, RetWord
  <2> QED
    BY <1>1, <2>1 DEF RetInv
<1>7. CASE Exit
  BY <1>7 DEF Exit, Halt, RetInv, Running
<1>8. CoreNext /\ ~PowerOn => (core' \in Running => core \in Running)
  BY DEF CoreNext, Run, UseStatic, Stop, Start, ClearWord, Cleared, CallConstructor, Running,
         CallMain, MainReturns, CallFinalizer, Finalized, CallDestructor, Exit, Halt
<1> QED
  BY <1>3, <1>4, <1>5, <1>6, <1>7, <1>8, Stores

LEMMA ClearStep ==
  ASSUME TypeOK, ClearInv, CoreNext
  PROVE  ClearInv'
<1>1. link' = link /\ link.bss[1] \in Nat /\ link.bss[2] \in Nat /\ Aligned(link.bss[1])
      /\ RetWord(link) \cap Between(link.bss) = {} /\ WordSize \in Nat \ {0}
  BY CoreFrame, Frame, LinkTypes
<1>2. ASSUME core' \notin Cleaned \cup {"clear"} PROVE ClearInv'
  BY <1>2 DEF ClearInv
<1>3. ASSUME core \in Cleaned, core' \in Cleaned,
             \A a \in Words : a \in Between(link.bss) => ram'[a] = ram[a]
      PROVE  ClearInv'
  BY <1>1, <1>3 DEF ClearInv, Cleaned
<1>4. CASE Start
  <2>1. CASE ClearError(link.bss[1], link.bss[2])
    BY <1>2, <1>4, <2>1 DEF Start, Halt, Cleaned
  <2>2. CASE ~ClearError(link.bss[1], link.bss[2])
    <3>1. core' = "clear" /\ cursor' = link.bss[1] /\ calls' = <<>> /\ registered' = 0
      BY <1>4, <2>2 DEF Start
    <3>2. link.bss[1] <= link.bss[2] /\ Aligned(link.bss[2])
      BY <1>1, <2>2 DEF ClearError
    <3>3. link.bss[1] .. link.bss[1] - 1 = {}
      BY <1>1
    <3> QED
      BY <1>1, <3>1, <3>2, <3>3 DEF ClearInv, Cleaned
  <2> QED
    BY <2>1, <2>2
<1>5. CASE ClearWord
  <2>1. /\ core = "clear" /\ core' = "clear" /\ cursor' = cursor + WordSize
        /\ UNCHANGED <<registered, calls>> /\ cursor < link.bss[2] /\ StoreWord(cursor, Zero)
    BY <1>5 DEF ClearWord
  <2>2. /\ registered = 0 /\ calls = <<>>
        /\ cursor \in Nat /\ link.bss[1] <= cursor /\ Aligned(cursor)
        /\ link.bss[1] <= link.bss[2] /\ Aligned(link.bss[2])
        /\ \A a \in Words : a \in link.bss[1] .. cursor - 1 => ram[a] = Zero
    BY <2>1 DEF ClearInv
  <2>3. Aligned(cursor') /\ cursor' \in Nat /\ link.bss[1] <= cursor'
    BY <1>1, <2>1, <2>2, NextAligned
  <2>4. \A a \in Words : a \in link.bss[1] .. cursor' - 1 => ram'[a] = Zero
    BY <1>1, <2>1, <2>2 DEF StoreWord, Words
  <2>5. Aligned(cursor)'
    BY <2>3 DEF Aligned
  <2> QED
    BY <1>1, <2>1, <2>2, <2>3, <2>4, <2>5 DEF ClearInv, Cleaned
<1>6. CASE Cleared
  <2>1. core = "clear" /\ core' = "constructors" /\ cursor >= link.bss[2] /\ ram' = ram
    BY <1>6 DEF Cleared
  <2>2. cursor \in Nat /\ Aligned(link.bss[2])
        /\ \A a \in Words : a \in link.bss[1] .. cursor - 1 => ram[a] = Zero
    BY <2>1 DEF ClearInv
  <2>3. Between(link.bss) \subseteq link.bss[1] .. cursor - 1
    BY <1>1, <2>1, <2>2 DEF Between
  <2> QED
    BY <1>1, <2>1, <2>2, <2>3 DEF ClearInv
<1>7. CASE CallMain
  <2>1. core = "constructors" /\ core' = "main" /\ StoreWord(link.ret, Sentinel)
    BY <1>7 DEF CallMain
  <2>2. \A a \in Words : a \in Between(link.bss) => ram'[a] = ram[a]
    BY <1>1, <2>1 DEF StoreWord, RetWord
  <2> QED
    BY <1>3, <2>1, <2>2 DEF Cleaned
<1>8. CASE PowerOn \/ Exit
  BY <1>2, <1>8 DEF PowerOn, Exit, Halt, Cleaned
<1>9. CASE CallConstructor \/ CallDestructor
  <2>1. ram' = ram /\ core \in Cleaned /\ (core' = core \/ core' \in {"_start", "lost"})
    <3>1. CASE CallConstructor
      BY <3>1 DEF CallConstructor, Cleaned
    <3>2. CASE CallDestructor
      BY <3>2 DEF CallDestructor, Cleaned
    <3> QED
      BY <1>9, <3>1, <3>2
  <2> QED
    BY <1>2, <1>3, <2>1 DEF Cleaned
<1>10. CASE MainReturns \/ CallFinalizer \/ Finalized \/ UseStatic
  <2>1. ram' = ram /\ core \in Cleaned /\ core' \in Cleaned
    BY <1>10 DEF MainReturns, CallFinalizer, Finalized, UseStatic, Cleaned
  <2> QED
    BY <1>3, <2>1
<1>11. CASE Stop
  BY <1>2, <1>11 DEF Stop, Cleaned
<1> QED
  BY <1>4, <1>5, <1>6, <1>7, <1>8, <1>9, <1>10, <1>11 DEF CoreNext, Run

-----------------------------------------------------------------------------
(***************************************************************************)
(* Calls.                                                                  *)
(***************************************************************************)
\* The table of destructors after n1 registrations.
Entries(n1) == [i \in 1 .. Late(n1) |-> i - 1]

LEMMA LateType == ASSUME NEW c \in Nat PROVE Late(c) \in Nat /\ Late(c) <= c /\ Late(c) <= MaxAtexit
BY CrtAssumption DEF Late

LEMMA EntriesType ==
  ASSUME NEW c \in Nat
  PROVE  Entries(c) \in Seq(Nat) /\ Len(Entries(c)) = Late(c)
<1>1. Late(c) \in Nat
  BY LateType
<1> HIDE DEF Late
<1>2. \A i \in 1 .. Late(c) : i - 1 \in Nat
  BY <1>1
<1> QED
  BY <1>1, <1>2 DEF Entries

\* Registering one more, or being refused.
LEMMA RegisterOne ==
  ASSUME NEW c \in Nat, atexit = Entries(c), Atexit(c)
  PROVE  atexit' = Entries(c + 1)
<1>1. MaxAtexit \in Nat /\ atexit \in Seq(Nat) /\ Len(atexit) = Late(c)
  BY EntriesType, CrtAssumption
<1>2. CASE c < MaxAtexit
  <2>1. Late(c) = c /\ Late(c + 1) = c + 1
    BY <1>1, <1>2 DEF Late
  <2>2. atexit' = Append(atexit, c)
    BY <1>1, <1>2, <2>1 DEF Atexit
  <2>3. Entries(c + 1) \in Seq(Nat) /\ Len(Entries(c + 1)) = c + 1
    BY <2>1, EntriesType
  <2>4. atexit' \in Seq(Nat) /\ Len(atexit') = c + 1
    BY <1>1, <2>1, <2>2
  <2>5. ASSUME NEW i \in 1 .. c + 1 PROVE atexit'[i] = Entries(c + 1)[i]
    <3>1. Entries(c + 1)[i] = i - 1
      BY <2>1 DEF Entries
    <3>2. CASE i = c + 1
      BY <1>1, <2>1, <2>2, <3>1, <3>2
    <3>3. CASE i \in 1 .. c
      <4>1. atexit[i] = i - 1
        BY <2>1, <3>3 DEF Entries
      <4> QED
        BY <1>1, <2>1, <2>2, <3>1, <3>3, <4>1
    <3> QED
      BY <3>2, <3>3
  <2> QED
    BY <2>3, <2>4, <2>5, SeqEqual
<1>3. CASE ~(c < MaxAtexit)
  <2>1. Late(c) = MaxAtexit /\ Late(c + 1) = MaxAtexit
    BY <1>1, <1>3 DEF Late
  <2> QED
    BY <1>1, <2>1 DEF Atexit, Entries
<1> QED
  BY <1>2, <1>3

LEMMA AtexitStep ==
  ASSUME TypeOK, ClearInv, AtexitInv, CoreNext
  PROVE  AtexitInv'
<1>1. MaxAtexit \in Nat /\ MaxCalls \in Nat
  BY CrtAssumption
<1>2. ASSUME core' \notin {"constructors", "main"} PROVE AtexitInv'
  BY <1>2 DEF AtexitInv
<1>3. ASSUME core \in {"constructors", "main"}, RegisterOrNot PROVE AtexitInv'
  <2>1. registered \in 0 .. MaxCalls /\ atexit = Entries(registered)
    BY <1>3 DEF AtexitInv, Entries
  <2>2. CASE UNCHANGED <<atexit, registered>>
    BY <2>1, <2>2 DEF AtexitInv, Entries, Late
  <2>3. CASE Register
    <3>1. registered' = registered + 1 /\ registered' \in 0 .. MaxCalls /\ Atexit(registered)
      BY <1>1, <2>1, <2>3 DEF Register
    <3>2. atexit' = Entries(registered + 1)
      BY <2>1, <3>1, RegisterOne
    <3> QED
      BY <3>1, <3>2 DEF AtexitInv, Entries, Late
  <2> QED
    BY <1>3, <2>2, <2>3 DEF RegisterOrNot
<1>4. CASE Cleared
  <2>1. registered = 0 /\ registered' = 0 /\ atexit' = <<>>
    BY <1>4 DEF Cleared, ClearInv
  <2>2. Late(0) = 0
    BY <1>1 DEF Late
  <2>3. Entries(0) = <<>>
    BY <2>2, EntriesType, EmptySeq
  <2> QED
    BY <1>1, <2>1, <2>3 DEF AtexitInv, Entries, Late
<1>5. CASE CallConstructor
  BY <1>2, <1>3, <1>5 DEF CallConstructor, RegisterOrNot
<1>6. CASE CallMain \/ UseStatic
  BY <1>3, <1>6 DEF CallMain, UseStatic, RegisterOrNot
<1>7. CASE Start \/ ClearWord \/ PowerOn \/ Exit \/ MainReturns \/ CallFinalizer \/ Finalized
           \/ Stop
  BY <1>2, <1>7 DEF Start, ClearWord, PowerOn, Exit, Halt, MainReturns, CallFinalizer, Finalized,
                    Stop
<1>8. CASE CallDestructor
  BY <1>2, <1>8 DEF CallDestructor
<1> QED
  BY <1>4, <1>5, <1>6, <1>7, <1>8 DEF CoreNext, Run

LEMMA ConstructorStep ==
  ASSUME TypeOK, RamInv, ClearInv, ConstructorInv, CoreNext
  PROVE  ConstructorInv'
<1> DEFINE F == FunctionsIn(link.init)
           c == Count(link.init)
<1>1. link' = link /\ mem' = mem /\ F' = F /\ \A j : Callable(link.init, j)' <=> Callable(link.init, j)
  BY CoreFrame, Frame
<1>2. WordSize \in Nat \ {0} /\ link.ret \in Words
  BY LinkTypes
<1>3. /\ link.init[1] \in Nat /\ link.init[2] \in Nat /\ c \in Nat
      /\ link.init[2] = link.init[1] + c * WordSize
      /\ \A i \in 1 .. c :
           LET a == link.init[1] + (i - 1) * WordSize
           IN  a \in Words /\ a \notin Between(link.bss) \cup RetWord(link)
  BY ArrayTypes
<1>4. /\ F \in Seq({F[i] : i \in 1 .. c}) /\ Len(F) = c
      /\ \A i \in 1 .. c : F[i] = Event("array", Pointer(mem[link.init[1] + (i - 1) * WordSize]))
  BY FunctionTypes
<1>5. ASSUME core' \notin {"constructors", "main"} PROVE ConstructorInv'
  BY <1>5 DEF ConstructorInv
<1> HIDE DEF F
<1>6. ASSUME core' = "constructors", NEW j \in 0 .. c, cursor' = link.init[1] + j * WordSize,
             calls' = Prefix(F, j), Callable(link.init, j)
      PROVE  ConstructorInv'
  <2>1. calls' = Prefix(FunctionsIn(link.init)', j) /\ Callable(link.init, j)'
    BY <1>1, <1>6 DEF F
  <2> QED
    BY <1>1, <1>6, <2>1 DEF ConstructorInv, Prefix
<1>7. CASE Cleared
  <2>1. core' = "constructors" /\ cursor' = link.init[1] /\ calls' = <<>>
    BY <1>7 DEF Cleared, ClearInv
  <2>2. Prefix(F, 0) = <<>>
    BY <1>4, WholePrefix
  <2>3. Callable(link.init, 0) /\ link.init[1] = link.init[1] + 0 * WordSize /\ 0 \in 0 .. c
    BY <1>2, <1>3 DEF Callable
  <2> QED
    BY <1>6, <2>1, <2>2, <2>3
<1>8. CASE core = "constructors"
  <2>1. PICK j \in 0 .. c : /\ cursor = link.init[1] + j * WordSize
                            /\ calls = Prefix(F, j) /\ Callable(link.init, j)
    BY <1>8 DEF ConstructorInv, F
  <2>2. j \in Nat /\ j * WordSize \in Nat /\ (j + 1) * WordSize = j * WordSize + WordSize
        /\ (j < c <=> j * WordSize < c * WordSize) /\ c * WordSize \in Nat
    BY <1>2, <1>3, Times
  <2>3. cursor < link.init[2] <=> j < c
    BY <1>3, <2>1, <2>2
  <2>4. CASE CallConstructor
    <3> DEFINE f == Pointer(ram[cursor])
    <3>1. CASE f \in {Reset, Unknown}
      <4>1. core' \in {"_start", "lost"}
        BY <2>4, <3>1 DEF CallConstructor
      <4> QED
        BY <1>5, <4>1
    <3>2. CASE f \notin {Reset, Unknown}
      <4>1. calls' = Append(calls, Event("array", f)) /\ cursor' = cursor + WordSize
            /\ core' = "constructors"
        BY <2>4, <3>2 DEF CallConstructor
      <4>2. j < c /\ j + 1 \in 1 .. c /\ (j + 1) - 1 = j
        BY <1>3, <2>2, <2>3, <2>4 DEF CallConstructor
      <4>3. ram[cursor] = mem[cursor]
        BY <1>3, <1>8, <2>1, <4>2 DEF RamInv
      <4>4. F[j + 1] = Event("array", f)
        BY <1>4, <2>1, <4>2, <4>3
      <4>5. calls' = Prefix(F, j + 1)
        BY <1>4, <2>1, <2>2, <4>1, <4>2, <4>4, Longer
      <4>6. F[j + 1].id = f
        BY <4>4 DEF Event
      <4>7. Callable(link.init, j + 1)
        BY <2>1, <2>2, <3>2, <4>6 DEF Callable, F
      <4>8. cursor' = link.init[1] + (j + 1) * WordSize /\ j + 1 \in 0 .. c
        <5>1. link.init[1] \in Nat /\ WordSize \in Nat /\ j + 1 \in 0 .. c
          BY <1>2, <1>3, <4>2
        <5> DEFINE x == j * WordSize
                   y == (j + 1) * WordSize
        <5>2. x \in Nat /\ y = x + WordSize /\ cursor' = (link.init[1] + x) + WordSize
          BY <2>1, <2>2, <4>1
        <5> HIDE DEF x, y
        <5>3. cursor' = link.init[1] + y
          BY <5>1, <5>2
        <5> QED
          BY <5>1, <5>3 DEF y
      <4> QED
        BY <1>6, <4>1, <4>5, <4>7, <4>8
    <3> QED
      BY <3>1, <3>2
  <2>5. CASE CallMain
    <3>1. core' = "main" /\ calls' = Append(calls, Event("main", 0)) /\ StoreWord(link.ret, Sentinel)
          /\ ~(cursor < link.init[2])
      BY <1>3, <2>1, <2>2, <2>5 DEF CallMain
    <3>2. j = c
      BY <1>3, <2>3, <3>1
    <3>3. calls = F
      BY <1>4, <2>1, <3>2, WholePrefix
    <3>4. calls' = F \o <<Event("main", 0)>>
      <4> DEFINE S == {F[i] : i \in 1 .. c}
                 e == Event("main", 0)
      <4> HIDE DEF S, e
      <4>1. F \in Seq(S)
        BY <1>4 DEF S
      <4>2. Append(F, e) = F \o <<e>>
        BY <4>1
      <4> QED
        BY <3>1, <3>3, <4>2 DEF e
    <3>5. \A a \in Words : a \in RetWord(link) => ram'[a] = Sentinel
      BY <3>1 DEF StoreWord, RetWord
    <3>6. Callable(link.init, c)'
      BY <1>1, <2>1, <3>2
    <3>7. calls' = FunctionsIn(link.init)' \o <<Event("main", 0)>>
      BY <1>1, <3>4 DEF F
    <3> QED
      BY <1>1, <3>1, <3>5, <3>6, <3>7 DEF ConstructorInv
  <2>6. CASE Stop
    BY <1>5, <2>6 DEF Stop
  <2> QED
    BY <1>8, <2>4, <2>5, <2>6 DEF CoreNext, Run, UseStatic, PowerOn, Start, ClearWord, Cleared,
       MainReturns, CallFinalizer, Finalized, CallDestructor, Exit
<1>9. CASE UseStatic
  <2>1. core = "main" /\ core' = "main" /\ calls' = calls /\ ram' = ram
    BY <1>9 DEF UseStatic
  <2>2. /\ calls' = FunctionsIn(link.init)' \o <<Event("main", 0)>> /\ Callable(link.init, c)'
        /\ \A a \in Words : a \in RetWord(link) => ram'[a] = Sentinel
    BY <1>1, <2>1 DEF ConstructorInv, F
  <2> QED
    BY <1>1, <2>1, <2>2 DEF ConstructorInv
<1>10. CASE PowerOn \/ Start \/ ClearWord \/ MainReturns \/ CallFinalizer \/ Finalized \/ Exit
  BY <1>5, <1>10 DEF PowerOn, Start, ClearWord, MainReturns, CallFinalizer, Finalized, Exit, Halt
<1>11. CASE CallDestructor
  BY <1>5, <1>11 DEF CallDestructor
<1>12. CASE Stop
  BY <1>5, <1>12 DEF Stop
<1>13. CASE CallConstructor \/ CallMain
  BY <1>8, <1>13 DEF CallConstructor, CallMain
<1> QED
  BY <1>7, <1>9, <1>10, <1>11, <1>12, <1>13 DEF CoreNext, Run

\* The sequences that Called is made of.
LEMMA CalledTypes ==
  ASSUME TypeOK, NEW count \in Nat
  PROVE  /\ \E S : \A j \in Nat : Called(count, j) \in Seq(S)
         /\ \A j \in Nat :
              Append(Called(count, j), Event("atexit", Late(count) - (j + 1))) = Called(count, j + 1)
<1> DEFINE F == FunctionsIn(link.init)
           c == Count(link.init)
           m == <<Event("main", 0), Event("return", count)>>
           ev(i) == Event("atexit", Late(count) - i)
           T(j) == [i \in 1 .. j |-> ev(i)]
           S == {F[i] : i \in 1 .. c} \cup {Event("main", 0), Event("return", count)}
           E == {ev(i) : i \in Nat}
<1>1. F \in Seq({F[i] : i \in 1 .. c})
  BY FunctionTypes
<1>2. F \o m \in Seq(S)
  <2>1. F \in Seq(S) /\ m \in Seq(S)
    BY <1>1, SeqMonotonic
  <2> HIDE DEF F, m, S
  <2> QED
    BY <2>1
<1>3. ASSUME NEW j \in Nat
      PROVE  T(j) \in Seq(E) /\ Append(T(j), ev(j + 1)) = T(j + 1) /\ T(j + 1) \in Seq(E)
  <2>1. \A i \in Nat : ev(i) \in E
    OBVIOUS
  <2> HIDE DEF ev, E
  <2>2. T(j) \in Seq(E) /\ Len(T(j)) = j
    BY <2>1
  <2>3. T(j + 1) \in Seq(E) /\ Len(T(j + 1)) = j + 1
    BY <2>1
  <2>4. ev(j + 1) \in E
    BY <2>1
  <2>5. Append(T(j), ev(j + 1)) \in Seq(E) /\ Len(Append(T(j), ev(j + 1))) = j + 1
    BY <2>2, <2>4
  <2>6. ASSUME NEW i \in 1 .. j + 1 PROVE Append(T(j), ev(j + 1))[i] = T(j + 1)[i]
    <3>1. CASE i = j + 1
      BY <2>2, <2>4, <3>1
    <3>2. CASE i \in 1 .. j
      BY <2>2, <2>4, <3>2
    <3> QED
      BY <3>1, <3>2
  <2> QED
    BY <2>2, <2>3, <2>5, <2>6, SeqEqual
<1>4. \A j \in Nat : Called(count, j) = (F \o m) \o T(j)
  BY DEF Called
<1>5. ASSUME NEW j \in Nat PROVE Called(count, j) \in Seq(S \cup E)
  <2>1. (F \o m) \in Seq(S \cup E) /\ T(j) \in Seq(S \cup E)
    BY <1>2, <1>3, SeqMonotonic
  <2> DEFINE x == F \o m
             y == T(j)
             U == S \cup E
  <2> HIDE DEF x, y, U
  <2>2. x \o y \in Seq(U)
    BY <2>1 DEF x, y, U
  <2> QED
    BY <1>4, <2>2 DEF x, y, U
<1>6. ASSUME NEW j \in Nat PROVE Append(Called(count, j), ev(j + 1)) = Called(count, j + 1)
  <2> DEFINE x == F \o m
             y == T(j)
             z == ev(j + 1)
  <2>1. x \in Seq(S) /\ y \in Seq(E)
    BY <1>2, <1>3
  <2>2. Append(y, z) = T(j + 1)
    BY <1>3
  <2>3. Called(count, j) = x \o y /\ Called(count, j + 1) = x \o T(j + 1)
    <3>1. \A k \in Nat : Called(count, k) = x \o T(k)
      BY <1>4
    <3> HIDE DEF x, T
    <3>2. Called(count, j) = x \o T(j)
      BY <3>1
    <3>3. j + 1 \in Nat
      OBVIOUS
    <3>4. Called(count, j + 1) = x \o T(j + 1)
      BY <3>1, <3>3
    <3> QED
      BY <3>2, <3>4
  <2> HIDE DEF x, y, z, S, E
  <2>4. Append(x \o y, z) = x \o Append(y, z)
    BY <2>1, AppendConcat
  <2>5. Append(Called(count, j), z) = Called(count, j + 1)
    BY <2>2, <2>3, <2>4
  <2> QED
    BY <2>5 DEF z
<1> QED
  BY <1>5, <1>6

\* The array of destructors from its end.
LEMMA BackwardsTypes ==
  ASSUME TypeOK
  PROVE  LET d == Count(link.fini)
         IN  /\ Backwards \in Seq({Backwards[i] : i \in 1 .. d}) /\ Len(Backwards) = d
             /\ \A i \in 1 .. d :
                  Backwards[i] = Event("array", Pointer(mem[link.fini[1] + (d - i) * WordSize]))
<1> DEFINE d == Count(link.fini)
           F == FunctionsIn(link.fini)
<1>1. /\ Len(F) = d /\ d \in Nat
      /\ \A i \in 1 .. d : F[i] = Event("array", Pointer(mem[link.fini[1] + (i - 1) * WordSize]))
  BY FunctionTypes, ArrayTypes
<1> HIDE DEF d, F
<1>2. Backwards = [i \in 1 .. d |-> F[(d - i) + 1]]
  BY <1>1 DEF Backwards, Reverse, F
<1>3. Backwards = [i \in 1 .. d |-> Backwards[i]]
  BY <1>2
<1>4. Backwards \in Seq({Backwards[i] : i \in 1 .. d}) /\ Len(Backwards) = d
  BY <1>1, <1>3, OwnSeq
<1>5. ASSUME NEW i \in 1 .. d
      PROVE  Backwards[i] = Event("array", Pointer(mem[link.fini[1] + (d - i) * WordSize]))
  <2>1. (d - i) + 1 \in 1 .. d /\ ((d - i) + 1) - 1 = d - i
    BY <1>1
  <2> QED
    BY <1>1, <1>2, <2>1
<1> QED
  BY <1>4, <1>5 DEF d

LEMMA DestructorStep ==
  ASSUME TypeOK, RamInv, AtexitInv, ConstructorInv, DestructorInv, CoreNext
  PROVE  DestructorInv'
<1> DEFINE d == Count(link.fini)
<1>1. /\ link' = link /\ mem' = mem /\ Backwards' = Backwards
      /\ \A count, j : Called(count, j)' = Called(count, j)
  BY CoreFrame, Frame
<1>2. WordSize \in Nat \ {0} /\ MaxAtexit \in Nat /\ MaxCalls \in Nat
  BY LinkTypes
<1>3. /\ link.fini[1] \in Nat /\ link.fini[2] \in Nat /\ d \in Nat
      /\ link.fini[2] = link.fini[1] + d * WordSize
      /\ \A i \in 1 .. d :
           LET a == link.fini[1] + (i - 1) * WordSize
           IN  a \in Words /\ a \notin Between(link.bss) \cup RetWord(link)
  BY ArrayTypes
<1>4. ASSUME core' \notin {"finalize", "destructors"} PROVE DestructorInv'
  BY <1>4 DEF DestructorInv
<1> HIDE DEF d
<1>5. CASE MainReturns
  <2>1. /\ core = "main" /\ core' = "finalize" /\ a0' \in {0, 1} /\ cursor' = Len(atexit)
        /\ calls' = Append(calls, Event("return", registered)) /\ UNCHANGED <<atexit, registered>>
    BY <1>5 DEF MainReturns
  <2>2. registered \in 0 .. MaxCalls /\ atexit = Entries(registered)
    BY <2>1 DEF AtexitInv, Entries
  <2>3. /\ Late(registered) \in Nat /\ atexit \in Seq(Nat) /\ Len(atexit) = Late(registered)
        /\ \A i \in 1 .. Late(registered) : atexit[i] = i - 1
    BY <2>2, LateType, EntriesType DEF Entries
  <2>4. calls' = Called(registered, 0)
    <3> DEFINE F == FunctionsIn(link.init)
               S == {F[i] : i \in 1 .. Count(link.init)}
               x == Event("main", 0)
               y == Event("return", registered)
               z == [i \in 1 .. 0 |-> Event("atexit", Late(registered) - i)]
    <3>1. F \in Seq(S)
      BY FunctionTypes
    <3>2. calls = F \o <<x>>
      BY <2>1 DEF ConstructorInv
    <3>3. calls' = Append(calls, y)
      BY <2>1
    <3>4. Called(registered, 0) = (F \o <<x, y>>) \o z
      BY DEF Called
    <3>5. z = <<>>
      OBVIOUS
    <3> HIDE DEF F, S, x, y, z
    <3>6. Append(F \o <<x>>, y) = F \o Append(<<x>>, y) /\ Append(<<x>>, y) = <<x, y>>
      <4>1. <<x>> \in Seq({x})
        OBVIOUS
      <4>2. Append(F \o <<x>>, y) = F \o Append(<<x>>, y)
        BY <3>1, <4>1, AppendConcat
      <4>3. Append(<<x>>, y) = <<x, y>>
        <5>1. <<x>> \in Seq({x, y}) /\ Len(<<x>>) = 1 /\ <<x>>[1] = x
          OBVIOUS
        <5>2. <<x, y>> \in Seq({x, y}) /\ Len(<<x, y>>) = 2 /\ <<x, y>>[1] = x /\ <<x, y>>[2] = y
          OBVIOUS
        <5>3. /\ Append(<<x>>, y) \in Seq({x, y}) /\ Len(Append(<<x>>, y)) = 2
              /\ Append(<<x>>, y)[1] = x /\ Append(<<x>>, y)[2] = y
          BY <5>1, AppendProperties
        <5> DEFINE u == Append(<<x>>, y)
                   v == <<x, y>>
                   U == {x, y}
        <5>4. u \in Seq(U) /\ v \in Seq(U) /\ Len(u) = 2 /\ Len(v) = 2 /\ u[1] = v[1] /\ u[2] = v[2]
          BY <5>2, <5>3
        <5> HIDE DEF u, v, U
        <5>5. Len(u) = Len(v) /\ \A i \in 1 .. Len(u) : u[i] = v[i]
          BY <5>4
        <5>6. u = v
          BY <5>4, <5>5, SeqEqual
        <5> QED
          BY <5>6 DEF u, v
      <4> QED
        BY <4>2, <4>3
    <3>7. (F \o <<x, y>>) \o <<>> = F \o <<x, y>>
      <4> DEFINE U == S \cup {x, y}
      <4>1. F \in Seq(U)
        BY <3>1, SeqMonotonic
      <4>2. x \in U /\ y \in U
        OBVIOUS
      <4> HIDE DEF U
      <4>3. F \o <<x, y>> \in Seq(U)
        BY <4>1, <4>2
      <4> QED
        BY <4>3, ConcatEmptySeq
    <3> QED
      BY <3>2, <3>3, <3>4, <3>5, <3>6, <3>7
  <2>5. Late(registered) - cursor' = 0 /\ cursor' \in 0 .. Late(registered)
    BY <2>1, <2>3
  <2>6. \E count \in 0 .. MaxCalls :
         /\ cursor' \in 0 .. Late(count)
         /\ atexit' \in Seq(Nat) /\ Len(atexit') >= Late(count)
         /\ \A i \in 1 .. Late(count) : atexit'[i] = i - 1
         /\ calls' = Called(count, Late(count) - cursor)'
    <3>1. Len(atexit') >= Late(registered)
      BY <2>1, <2>3
    <3>2. PICK count \in 0 .. MaxCalls : count = registered
      BY <2>2
    <3>3. Called(count, Late(count) - cursor)' = Called(count, 0)
      <4>1. Late(count) - cursor' = 0
        BY <2>5, <3>2
      <4> QED
        BY <1>1, <4>1 DEF Called, Late
    <3>4. calls' = Called(count, Late(count) - cursor)'
      BY <2>4, <3>2, <3>3
    <3> QED
      BY <2>1, <2>3, <2>5, <3>1, <3>2, <3>4
  <2> QED
    BY <2>1, <2>2, <2>6 DEF DestructorInv, Late
<1>6. CASE core = "finalize" /\ (CallFinalizer \/ Finalized)
  <2>1. PICK count \in 0 .. MaxCalls :
         /\ cursor \in 0 .. Late(count)
         /\ atexit \in Seq(Nat) /\ Len(atexit) >= Late(count)
         /\ \A i \in 1 .. Late(count) : atexit[i] = i - 1
         /\ calls = Called(count, Late(count) - cursor)
    BY <1>6 DEF DestructorInv
  <2>2. count \in Nat /\ Late(count) \in Nat /\ a0 \in {0, 1} /\ registered \in 0 .. MaxCalls
    <3>1. count \in Nat /\ Late(count) \in Nat
      BY <1>2, LateType
    <3>2. a0 \in {0, 1} /\ registered \in 0 .. MaxCalls
      BY <1>6 DEF DestructorInv
    <3> QED
      BY <3>1, <3>2
  <2>3. CASE CallFinalizer
    <3>1. /\ core' = "finalize" /\ a0' = a0 /\ cursor > 0 /\ cursor' = cursor - 1
          /\ calls' = Append(calls, Event("atexit", atexit[cursor])) /\ RegisterOrNot
      BY <1>6, <2>3 DEF CallFinalizer
    <3> DEFINE j == Late(count) - cursor
    <3>2. j \in Nat /\ j + 1 = Late(count) - cursor' /\ atexit[cursor] = Late(count) - (j + 1)
          /\ cursor' \in 0 .. Late(count)
      BY <2>1, <2>2, <3>1
    <3> HIDE DEF j
    <3>3. calls' = Called(count, j + 1)
      BY <2>1, <2>2, <3>1, <3>2, CalledTypes DEF j
    <3>4. calls' = Called(count, Late(count) - cursor)'
      <4>1. Called(count, Late(count) - cursor)' = Called(count, j + 1)
        BY <1>1, <3>2 DEF Called, Late
      <4> QED
        BY <3>3, <4>1
    <3>5. /\ atexit' \in Seq(Nat) /\ Len(atexit') >= Late(count)
          /\ \A i \in 1 .. Late(count) : atexit'[i] = i - 1
          /\ registered' \in 0 .. MaxCalls
      <4>1. CASE UNCHANGED <<atexit, registered>>
        BY <2>1, <2>2, <4>1
      <4>2. CASE Register
        <5>1. registered' = registered + 1 /\ registered' \in 0 .. MaxCalls /\ registered \in Nat
              /\ (atexit' = atexit \/ atexit' = Append(atexit, registered))
          BY <1>2, <2>2, <4>2 DEF Register, Atexit
        <5>2. Len(atexit) \in Nat /\ \A i \in 1 .. Late(count) : i \in 1 .. Len(atexit)
          BY <2>1, <2>2
        <5>3. CASE atexit' = atexit
          BY <2>1, <2>2, <5>1, <5>3
        <5>4. CASE atexit' = Append(atexit, registered)
          <6>1. /\ atexit' \in Seq(Nat) /\ Len(atexit') = Len(atexit) + 1
                /\ \A i \in 1 .. Len(atexit) : atexit'[i] = atexit[i]
            BY <2>1, <5>1, <5>4, AppendProperties
          <6>2. Len(atexit') >= Late(count)
            BY <2>1, <2>2, <5>2, <6>1
          <6>3. \A i \in 1 .. Late(count) : atexit'[i] = i - 1
            BY <2>1, <5>2, <6>1
          <6> QED
            BY <5>1, <6>1, <6>2, <6>3
        <5> QED
          BY <5>1, <5>3, <5>4
      <4> QED
        BY <3>1, <4>1, <4>2 DEF RegisterOrNot
    <3> QED
      BY <2>2, <3>1, <3>2, <3>4, <3>5 DEF DestructorInv, Late
  <2>4. CASE Finalized
    <3>1. core' = "destructors" /\ a0' = a0 /\ cursor = 0 /\ cursor' = link.fini[2] /\ calls' = calls
      BY <1>6, <2>4 DEF Finalized
    <3>2. calls' = Called(count, Late(count))
      BY <2>1, <2>2, <3>1
    <3>3. calls' = Called(count, Late(count)) \o Prefix(Backwards, 0)
      <4>1. Prefix(Backwards, 0) = <<>>
        BY BackwardsTypes, WholePrefix
      <4>2. PICK S : Called(count, Late(count)) \in Seq(S)
        BY <2>2, CalledTypes
      <4> QED
        BY <3>2, <4>1, <4>2, ConcatEmptySeq
    <3>4. cursor' = link.fini[2] - 0 * WordSize /\ 0 \in 0 .. d
      BY <1>2, <1>3, <3>1
    <3>5. calls' = (Called(count, Late(count)) \o Prefix(Backwards, 0))'
      BY <1>1, <3>3 DEF Late, Prefix
    <3> QED
      BY <1>1, <2>2, <3>1, <3>4, <3>5 DEF DestructorInv, d
  <2> QED
    BY <1>6, <2>3, <2>4
<1>7. CASE CallDestructor
  <2> DEFINE f == Pointer(ram[cursor - WordSize])
  <2>1. core = "destructors" /\ cursor # link.fini[1] /\ a0' = a0 /\ a0 \in {0, 1}
        /\ cursor' = cursor - WordSize
    BY <1>7 DEF CallDestructor, DestructorInv
  <2>2. CASE f \in {Reset, Unknown}
    <3>1. core' \in {"_start", "lost"}
      BY <1>7, <2>2 DEF CallDestructor
    <3> QED
      BY <1>4, <3>1
  <2>3. CASE f \notin {Reset, Unknown}
    <3>1. core' = "destructors" /\ calls' = Append(calls, Event("array", f))
      BY <1>7, <2>1, <2>3 DEF CallDestructor
    <3>2. PICK count \in 0 .. MaxCalls, j \in 0 .. d :
            /\ cursor = link.fini[2] - j * WordSize
            /\ calls = Called(count, Late(count)) \o Prefix(Backwards, j)
      BY <2>1 DEF DestructorInv, d
    <3>3. j \in Nat /\ count \in Nat /\ Late(count) \in Nat
      BY <1>2, <1>3, LateType
    <3>4. j # d
      BY <1>2, <1>3, <2>1, <3>2, Times
    <3>5. j < d /\ j + 1 \in 0 .. d /\ j + 1 \in 1 .. d /\ d - (j + 1) \in Nat /\ d - j \in 1 .. d
          /\ (d - j) - 1 = d - (j + 1)
      BY <1>3, <3>3, <3>4
    <3>6. cursor - WordSize = link.fini[1] + (d - (j + 1)) * WordSize
          /\ cursor - WordSize = link.fini[2] - (j + 1) * WordSize
      <4>1. d * WordSize = (d - (j + 1)) * WordSize + (j + 1) * WordSize
            /\ (j + 1) * WordSize = j * WordSize + WordSize
        BY <1>2, <1>3, <3>3, <3>5
      <4>2. d * WordSize \in Nat /\ j * WordSize \in Nat /\ (j + 1) * WordSize \in Nat
            /\ (d - (j + 1)) * WordSize \in Nat /\ link.fini[1] \in Nat /\ WordSize \in Nat
            /\ link.fini[2] = link.fini[1] + d * WordSize
        BY <1>2, <1>3, <3>3, <3>5, Times
      <4> DEFINE dw == d * WordSize
                 jw == j * WordSize
                 kw == (j + 1) * WordSize
                 rw == (d - (j + 1)) * WordSize
      <4>3. dw = rw + kw /\ kw = jw + WordSize /\ dw \in Nat /\ jw \in Nat /\ kw \in Nat
            /\ rw \in Nat /\ link.fini[1] \in Nat /\ WordSize \in Nat
            /\ link.fini[2] = link.fini[1] + dw /\ cursor = link.fini[2] - jw
        BY <3>2, <4>1, <4>2
      <4> HIDE DEF dw, jw, kw, rw
      <4>4. cursor - WordSize = link.fini[1] + rw /\ cursor - WordSize = link.fini[2] - kw
        BY <4>3
      <4> QED
        BY <4>4 DEF rw, kw
    <3>7. ram[cursor - WordSize] = mem[cursor - WordSize]
      BY <1>3, <2>1, <3>5, <3>6 DEF RamInv
    <3>8. Backwards[j + 1] = Event("array", f)
      BY <3>5, <3>6, <3>7, BackwardsTypes DEF d
    <3>9. Append(Prefix(Backwards, j), Backwards[j + 1]) = Prefix(Backwards, j + 1)
      BY <3>3, <3>5, BackwardsTypes, Longer DEF d
    <3>10. calls' = Called(count, Late(count)) \o Prefix(Backwards, j + 1)
      <4> DEFINE p == Prefix(Backwards, j)
                 T == {Backwards[i] : i \in 1 .. d}
                 e == Backwards[j + 1]
      <4>1. p \in Seq(T)
        <5>1. \A i \in 1 .. j : Backwards[i] \in T
          BY <1>3, <3>3, <3>5
        <5>2. p = [i \in 1 .. j |-> Backwards[i]]
          BY DEF Prefix
        <5> HIDE DEF p, T
        <5> QED
          BY <3>3, <5>1, <5>2
      <4>2. PICK S : Called(count, Late(count)) \in Seq(S)
        BY <3>3, CalledTypes
      <4>3. calls' = Append(Called(count, Late(count)) \o p, e)
        BY <3>1, <3>2, <3>8
      <4>4. Append(p, e) = Prefix(Backwards, j + 1)
        BY <3>9
      <4> HIDE DEF p, T, e
      <4>5. Append(Called(count, Late(count)) \o p, e) = Called(count, Late(count)) \o Append(p, e)
        BY <4>1, <4>2, AppendConcat
      <4> QED
        BY <4>3, <4>4, <4>5
    <3>11. calls' = (Called(count, Late(count)) \o Prefix(Backwards, j + 1))'
      BY <1>1, <3>10 DEF Late, Prefix
    <3>12. cursor' = link.fini[2] - (j + 1) * WordSize
      BY <2>1, <3>6
    <3> QED
      BY <1>1, <2>1, <3>1, <3>5, <3>11, <3>12 DEF DestructorInv, d
  <2> QED
    BY <2>2, <2>3
<1>8. CASE PowerOn \/ Start \/ ClearWord \/ Cleared \/ CallMain \/ Exit \/ UseStatic \/ Stop
  BY <1>4, <1>8 DEF PowerOn, Start, ClearWord, Cleared, CallMain, Exit, UseStatic, Stop, Halt
<1>9. CASE CallConstructor
  BY <1>4, <1>9 DEF CallConstructor
<1>10. CASE CallFinalizer \/ Finalized
  BY <1>6, <1>10 DEF CallFinalizer, Finalized
<1> QED
  BY <1>5, <1>7, <1>8, <1>9, <1>10 DEF CoreNext, Run

LEMMA ExitStep ==
  ASSUME TypeOK, RetInv, DestructorInv, ExitIsComplete, CoreNext
  PROVE  ExitIsComplete'
<1>1. link' = link /\ FunctionsIn(link.init)' = FunctionsIn(link.init)
      /\ FunctionsIn(link.fini)' = FunctionsIn(link.fini)
  BY CoreFrame, Frame
<1>2. ASSUME core' # "halted" PROVE ExitIsComplete'
  BY <1>2 DEF ExitIsComplete
<1>3. CASE Exit
  <2>1. /\ core = "destructors" /\ cursor = link.fini[1] /\ StoreWord(link.ret, Value(a0))
        /\ halt' = (IF a0 = 0 THEN "mpause" ELSE "ebreak") /\ UNCHANGED <<calls, a0>>
    BY <1>3 DEF Exit, Halt
  <2>2. a0 \in {0, 1}
    BY <2>1 DEF DestructorInv
  <2>3. ram'[link.ret] = Value(a0)
    BY <2>1, LinkTypes DEF StoreWord, Words
  <2>4. PICK count \in 0 .. MaxCalls, j \in 0 .. Count(link.fini) :
            /\ cursor = link.fini[2] - j * WordSize
            /\ calls = Called(count, Late(count)) \o Prefix(Backwards, j)
    BY <2>1 DEF DestructorInv
  <2>5. j = Count(link.fini)
    <3> DEFINE d == Count(link.fini)
    <3>1. /\ d \in Nat /\ j \in Nat /\ WordSize \in Nat \ {0} /\ link.fini[1] \in Nat
          /\ link.fini[2] = link.fini[1] + d * WordSize
      BY ArrayTypes, LinkTypes
    <3>2. d * WordSize \in Nat /\ j * WordSize \in Nat /\ (j = d <=> j * WordSize = d * WordSize)
      BY <3>1, Times
    <3>3. link.fini[1] = (link.fini[1] + d * WordSize) - j * WordSize
      BY <2>1, <2>4, <3>1
    <3>4. j * WordSize = d * WordSize
      BY <3>1, <3>2, <3>3
    <3> QED
      BY <3>2, <3>4
  <2>6. Prefix(Backwards, j) = Backwards
    BY <2>5, BackwardsTypes, WholePrefix
  <2>7. calls' = FunctionsIn(link.init)' \o <<Event("main", 0), Event("return", count)>>
                   \o [i \in 1 .. Late(count) |-> Event("atexit", Late(count) - i)]
                   \o Reverse(FunctionsIn(link.fini)')
    BY <1>1, <2>1, <2>4, <2>6 DEF Called, Backwards
  <2>8. ram'[link.ret'] = Value(a0') /\ (halt' = "mpause" <=> a0' = 0)
    BY <1>1, <2>1, <2>2, <2>3
  <2> QED
    BY <2>7, <2>8 DEF ExitIsComplete, Late
<1>4. CASE (Start \/ Stop) /\ core' = "halted"
  <2>1. core \in Running /\ ram' = ram
    BY <1>4 DEF Start, Stop, Running
  <2>2. ram'[link.ret'] \in Nat \cup {Old, Sentinel}
    BY <1>1, <2>1 DEF RetInv
  <2>3. ram'[link.ret'] \notin {Value(0), Value(1)}
    BY <2>2 DEF Old, Sentinel, Value
  <2> QED
    BY <2>3 DEF ExitIsComplete, Value
<1>5. CASE PowerOn \/ ClearWord \/ Cleared \/ CallMain \/ UseStatic \/ MainReturns
           \/ CallFinalizer \/ Finalized
  BY <1>2, <1>5 DEF PowerOn, ClearWord, Cleared, CallMain, UseStatic, MainReturns,
                    CallFinalizer, Finalized
<1>6. CASE CallConstructor
  BY <1>2, <1>6 DEF CallConstructor
<1>7. CASE CallDestructor
  BY <1>2, <1>7 DEF CallDestructor
<1> QED
  BY <1>2, <1>3, <1>4, <1>5, <1>6, <1>7 DEF CoreNext, Run

LEMMA CoresStep == ASSUME core \in Cores, CoreNext PROVE core' \in Cores
<1>1. CASE CallConstructor
  BY <1>1 DEF CallConstructor, Cores, Running
<1>2. CASE CallDestructor
  BY <1>2 DEF CallDestructor, Cores, Running
<1> QED
  BY <1>1, <1>2 DEF CoreNext, Run, UseStatic, Stop, PowerOn, Start, ClearWord, Cleared, Halt,
     CallMain, MainReturns, CallFinalizer, Finalized, Exit, Cores, Running

-----------------------------------------------------------------------------
LEMMA InitBootInv == BootInit => BootInv
<1> SUFFICES ASSUME BootInit PROVE BootInv
  OBVIOUS
<1>1. TypeOK
  BY InitTypeOK DEF BootInit
<1> QED
  BY <1>1 DEF BootInit, BootInv, Cores, Running, Cleaned, RamInv, RetInv, ClearInv, AtexitInv,
              ConstructorInv, DestructorInv, ExitIsComplete

LEMMA StepBootInv == BootInv /\ [BootNext]_bootVars => BootInv'
<1> SUFFICES ASSUME BootInv, [BootNext]_bootVars PROVE BootInv'
  OBVIOUS
<1>1. CASE CoreNext
  <2>1. TypeOK'
    BY <1>1, CoreFrame, Frame DEF BootInv
  <2> QED
    BY <1>1, <2>1, RamStep, RetStep, ClearStep, AtexitStep, ConstructorStep, DestructorStep,
       ExitStep, CoresStep DEF BootInv
<1>2. CASE Next /\ UNCHANGED coreVars
  <2>1. pc # "done"
    BY <1>2 DEF Next, Header, SkipSegment, RefuseSegment, CopySegment, ZeroChunk, NextSegment,
               EntryChecked, Layout
  <2>2. core = "off" /\ core' = "off"
    BY <1>2, <2>1 DEF BootInv, RamInv, coreVars
  <2>3. TypeOK'
    BY <1>2, StepTypeOK DEF BootInv
  <2> QED
    BY <2>2, <2>3 DEF BootInv, Cores, Running, Cleaned, RamInv, RetInv, ClearInv, AtexitInv,
                      ConstructorInv, DestructorInv, ExitIsComplete
<1>3. CASE UNCHANGED bootVars
  <2>1. UNCHANGED loader /\ UNCHANGED coreVars
    BY <1>3 DEF bootVars
  <2>2. /\ TypeOK' /\ link' = link /\ mem' = mem /\ pc' = pc
        /\ FunctionsIn(link.init)' = FunctionsIn(link.init)
        /\ FunctionsIn(link.fini)' = FunctionsIn(link.fini)
        /\ Backwards' = Backwards
    BY <2>1, Frame DEF BootInv
  <2>3. /\ ram' = ram /\ core' = core /\ cursor' = cursor /\ a0' = a0 /\ calls' = calls
        /\ atexit' = atexit /\ registered' = registered /\ halt' = halt
    BY <2>1 DEF coreVars
  <2>4. RamInv' /\ RetInv' /\ ClearInv' /\ AtexitInv' /\ core' \in Cores
    BY <2>2, <2>3 DEF BootInv, RamInv, RetInv, ClearInv, AtexitInv
  <2>5. ConstructorInv'
    BY <2>2, <2>3 DEF BootInv, ConstructorInv, Callable
  <2>6. DestructorInv' /\ ExitIsComplete'
    BY <2>2, <2>3 DEF BootInv, DestructorInv, ExitIsComplete, Called
  <2> QED
    BY <2>2, <2>4, <2>5, <2>6 DEF BootInv
<1> QED
  BY <1>1, <1>2, <1>3 DEF BootNext, CoreNext

LEMMA Booted == BootSpec => []BootInv
BY InitBootInv, StepBootInv, PTL DEF BootSpec

\* Whatever the loader left in memory, and however often a null pointer in an
\* array sent the core back to _start, main is called only after a whole .bss
\* was cleared and every constructor ran once, in order (coralnpu_start.S,
\* crt_section_clear).
THEOREM MainFindsCleanImage == BootSpec => []MainSeesCleanImage
<1>1. BootInv => MainSeesCleanImage
  <2> SUFFICES ASSUME BootInv, core = "main" PROVE MainSeesCleanImage
    BY DEF MainSeesCleanImage
  <2>1. /\ Aligned(link.bss[1]) /\ Aligned(link.bss[2])
        /\ \A a \in Words : a \in Between(link.bss) => ram[a] = Zero
    BY LinkTypes DEF BootInv, ClearInv, Cleaned
  <2>2. /\ calls = FunctionsIn(link.init) \o <<Event("main", 0)>>
        /\ Callable(link.init, Count(link.init))
        /\ \A a \in Words : a \in RetWord(link) => ram[a] = Sentinel
    BY DEF BootInv, ConstructorInv
  <2>3. DOMAIN FunctionsIn(link.init) = 1 .. Count(link.init)
    BY DEF FunctionsIn, Count
  <2>4. Bootable
    BY <2>1, <2>2, <2>3 DEF Bootable, Callable
  <2>5. \A a \in Words : a \notin Between(link.bss) \cup RetWord(link) => ram[a] = mem[a]
    BY DEF BootInv, RamInv
  <2> QED
    BY <2>1, <2>2, <2>4, <2>5 DEF MainSeesCleanImage, RetWord
<1> QED
  BY <1>1, Booted, PTL

\* A result in _ret means that main returned it and that everything which had to
\* run after main did, in the right order, also when the table of destructors
\* was full or a destructor registered another (coralnpu_start.S, cxx_guards.cc).
THEOREM ResultsAreComplete == BootSpec => []ExitIsComplete
<1>1. BootInv => ExitIsComplete
  BY DEF BootInv
<1> QED
  BY <1>1, Booted, PTL
=============================================================================
