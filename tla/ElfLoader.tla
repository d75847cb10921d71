----------------------------- MODULE ElfLoader -----------------------------
(***************************************************************************)
(* The loader of dispatch images, runtime/sim/simulator_elf_loader.c.      *)
(* It copies the PT_LOAD segments of an ELF32 image into the simulator's   *)
(* memory one after the other, zeroes what a segment reserves beyond its   *)
(* file contents in chunks of a small buffer, and looks up the symbols     *)
(* that tell the host where the request and the firmware heap are.         *)
(*                                                                         *)
(* An address is a number below AddrModulus (2^32).  Sums that the code    *)
(* computes in uint64_t are exact here; those in uint32_t wrap.            *)
(***************************************************************************)
EXTENDS Integers, Sequences

CONSTANTS
    Images,       \* the images that may be given to the loader
    AddrModulus,  \* 2^32
    Itcm, Dtcm, Ddr,  \* records start, size: simulator_api.h
    Chunk         \* size of the buffer of zeros, 256

Regions == {Itcm, Dtcm, Ddr}

ASSUME RegionAssumption ==
    /\ AddrModulus \in Nat \ {0}
    /\ Chunk \in Nat \ {0}
    /\ \A r \in Regions :
          /\ r.start \in Nat /\ r.size \in Nat
          /\ r.start + r.size <= AddrModulus

\* What the fields of an ELF header, a program header and a symbol can hold.
Words == 0 .. AddrModulus - 1

ASSUME ImageAssumption ==
    \A m \in Images :
        /\ m.entry \in Words
        /\ m.data_length \in Nat
        /\ Len(m.segments) \in Nat
        /\ \A n \in 1 .. Len(m.segments) :
              LET s == m.segments[n]
              IN  /\ s.paddr \in Words /\ s.filesz \in Words
                  /\ s.memsz \in Words /\ s.offset \in Words
                  /\ s.load \in BOOLEAN /\ s.exec \in BOOLEAN

VARIABLES
    mem,        \* the simulator's memory
    image,      \* the argument
    pc,         \* "header", "segments", "zero", "layout" or "done"
    n,          \* the program header the loop is at
    zero_address, remaining,   \* the locals of the loop that zeroes
    entry_is_executable,
    layout,     \* out_layout
    result

vars == <<mem, image, pc, n, zero_address, remaining, entry_is_executable,
          layout, result>>

(***************************************************************************)
(* A cell of memory holds what was there before, a zero, or byte b of the  *)
(* image, written as b + 1.                                                *)
(***************************************************************************)
Old == -1
Zero == 0
FileByte(b) == b + 1

\* out_layout after memset
ZeroLayout == [start_pc |-> 0, dispatch_request_addr |-> 0,
               dispatch_request_size |-> 0, heap_start_addr |-> 0,
               heap_end_addr |-> 0]

Segment == image.segments[n]

\* iree_hal_coralnpu_range_fits: the sums are 64-bit wide.
RangeFits(region, address, length) ==
    /\ address >= region.start
    /\ address + length <= region.start + region.size

\* validate_segment, and the same test in copy_segment.
Valid(address, size) == size = 0 \/ \E r \in Regions : RangeFits(r, address, size)

Write(address, length, value(_)) ==
    mem' = [a \in Words |->
              IF a \in address .. address + length - 1
              THEN value(a - address) ELSE mem[a]]

Init ==
    /\ mem = [a \in Words |-> Old]
    /\ image \in Images
    /\ pc = "header"
    /\ n = 1
    /\ zero_address = 0
    /\ remaining = 0
    /\ entry_is_executable = FALSE
    /\ layout = ZeroLayout
    /\ result = "OK"

Finish(code) == pc' = "done" /\ result' = code

\* The checks of the ELF header and of the program header table.
Header ==
    /\ pc = "header"
    /\ IF image.header_ok
       THEN pc' = "segments" /\ UNCHANGED result
       ELSE Finish("INVALID_ARGUMENT")
    /\ UNCHANGED <<mem, image, n, zero_address, remaining, entry_is_executable,
                   layout>>

SkipSegment ==
    /\ pc = "segments" /\ n <= Len(image.segments)
    /\ ~Segment.load
    /\ n' = n + 1
    /\ UNCHANGED <<mem, image, pc, zero_address, remaining, entry_is_executable,
                   layout, result>>

\* Mutant: only the file contents are validated.
SegmentErrorFileOnly(s) ==
    CASE s.memsz < s.filesz \/ s.offset + s.filesz > image.data_length
            -> "INVALID_ARGUMENT"
      [] /\ s.memsz >= s.filesz /\ s.offset + s.filesz <= image.data_length
         /\ ~Valid(s.paddr, s.filesz) -> "OUT_OF_RANGE"
      [] OTHER -> "OK"

\* What is wrong with a PT_LOAD segment.
SegmentError(s) ==
    CASE s.memsz < s.filesz \/ s.offset + s.filesz > image.data_length
            -> "INVALID_ARGUMENT"
      [] /\ s.memsz >= s.filesz /\ s.offset + s.filesz <= image.data_length
         /\ ~Valid(s.paddr, s.memsz) -> "OUT_OF_RANGE"
      [] OTHER -> "OK"

RefuseSegment ==
    /\ pc = "segments" /\ n <= Len(image.segments)
    /\ Segment.load
    /\ SegmentError(Segment) # "OK"
    /\ Finish(SegmentError(Segment))
    /\ UNCHANGED <<mem, image, n, zero_address, remaining, entry_is_executable,
                   layout>>

\* The file contents of a segment that passed the checks.
CopySegment ==
    /\ pc = "segments" /\ n <= Len(image.segments)
    /\ Segment.load
    /\ SegmentError(Segment) = "OK"
    /\ entry_is_executable' =
          (entry_is_executable \/ /\ Segment.exec
                                  /\ image.entry >= Segment.paddr
                                  /\ image.entry < Segment.paddr + Segment.memsz)
    /\ Write(Segment.paddr, Segment.filesz, LAMBDA b : FileByte(Segment.offset + b))
    /\ zero_address' = (Segment.paddr + Segment.filesz) % AddrModulus
    /\ remaining' = Segment.memsz - Segment.filesz
    /\ pc' = "zero"
    /\ UNCHANGED <<image, n, layout, result>>

ChunkSize == IF remaining < Chunk THEN remaining ELSE Chunk

\* Mutant: a whole buffer of zeros is written for the last chunk too.
ZeroChunkWhole ==
    /\ pc = "zero" /\ remaining # 0
    /\ Write(zero_address, Chunk, LAMBDA b : Zero)
    /\ zero_address' = (zero_address + ChunkSize) % AddrModulus
    /\ remaining' = remaining - ChunkSize
    /\ UNCHANGED <<image, pc, n, entry_is_executable, layout, result>>

\* One chunk of zeros; copy_segment tests the range of each chunk again.
ZeroChunk ==
    /\ pc = "zero" /\ remaining # 0
    /\ IF Valid(zero_address, ChunkSize)
       THEN /\ Write(zero_address, ChunkSize, LAMBDA b : Zero)
            /\ zero_address' = (zero_address + ChunkSize) % AddrModulus
            /\ remaining' = remaining - ChunkSize
            /\ UNCHANGED <<pc, result>>
       ELSE Finish("OUT_OF_RANGE") /\ UNCHANGED <<mem, zero_address, remaining>>
    /\ UNCHANGED <<image, n, entry_is_executable, layout>>

NextSegment ==
    /\ pc = "zero" /\ remaining = 0
    /\ n' = n + 1
    /\ pc' = "segments"
    /\ UNCHANGED <<mem, image, zero_address, remaining, entry_is_executable,
                   layout, result>>

EntryChecked ==
    /\ pc = "segments" /\ n > Len(image.segments)
    /\ IF entry_is_executable
       THEN /\ pc' = "layout"
            /\ layout' = [layout EXCEPT !.start_pc = image.entry]
            /\ UNCHANGED result
       ELSE Finish("INVALID_ARGUMENT") /\ UNCHANGED layout
    /\ UNCHANGED <<mem, image, n, zero_address, remaining, entry_is_executable>>

(***************************************************************************)
(* find_symbol walks the sections in order.  A symbol table that is        *)
(* malformed ends the search; otherwise the first defined symbol of that   *)
(* name wins.                                                              *)
(***************************************************************************)
Hits(section, name) ==
    {j \in DOMAIN section.symbols :
        section.symbols[j].defined /\ section.symbols[j].name = name}

\* The sections at which the search for `name` stops.
Stops(name) ==
    {i \in DOMAIN image.sections :
        /\ image.sections[i].symtab
        /\ image.sections[i].malformed \/ Hits(image.sections[i], name) # {}}

First(S) == CHOOSE i \in S : \A j \in S : i <= j

FindError(name) ==
    CASE ~image.section_table_ok -> "INVALID_ARGUMENT"
      [] image.section_table_ok /\ Stops(name) = {} -> "NOT_FOUND"
      [] /\ image.section_table_ok /\ Stops(name) # {}
         /\ image.sections[First(Stops(name))].malformed -> "INVALID_ARGUMENT"
      [] OTHER -> "OK"

FindSymbol(name) ==
    LET section == image.sections[First(Stops(name))]
    IN  section.symbols[First(Hits(section, name))]

Names == <<"coralnpu_dispatch_request", "__heap_start", "__heap_end">>

\* The first lookup that fails decides the status.
SymbolError ==
    LET bad == {i \in DOMAIN Names : FindError(Names[i]) # "OK"}
    IN  IF bad = {} THEN "OK" ELSE FindError(Names[First(bad)])

\* The three symbols, which must lie in the DTCM.  The heap is given by its
\* two ends; the uint32_t difference is taken only when they are in order.
LayoutError(request, heap_start, heap_end) ==
    IF /\ RangeFits(Dtcm, request.value, request.size)
       /\ heap_end.value >= heap_start.value
       /\ RangeFits(Dtcm, heap_start.value, heap_end.value - heap_start.value)
    THEN "OK" ELSE "OUT_OF_RANGE"

Layout ==
    /\ pc = "layout"
    /\ IF SymbolError # "OK"
       THEN Finish(SymbolError) /\ UNCHANGED layout
       ELSE LET request == FindSymbol(Names[1])
                heap_start == FindSymbol(Names[2])
                heap_end == FindSymbol(Names[3])
            IN  /\ layout' = [layout EXCEPT
                      !.dispatch_request_addr = request.value,
                      !.dispatch_request_size = request.size,
                      !.heap_start_addr = heap_start.value,
                      !.heap_end_addr = heap_end.value]
                /\ Finish(LayoutError(request, heap_start, heap_end))
    /\ UNCHANGED <<mem, image, n, zero_address, remaining, entry_is_executable>>

Next ==
    \/ Header \/ SkipSegment \/ RefuseSegment \/ CopySegment
    \/ ZeroChunk \/ NextSegment \/ EntryChecked \/ Layout

Spec == Init /\ [][Next]_vars

(***************************************************************************)
(* Properties.                                                             *)
(***************************************************************************)
\* Types; the loop that zeroes never has more left than the segment reserves.
TypeOK ==
    /\ mem \in [Words -> Nat \cup {Old}]
    /\ image \in Images
    /\ pc \in {"header", "segments", "zero", "layout", "done"}
    /\ n \in 1 .. Len(image.segments) + 1
    /\ zero_address \in Words
    /\ remaining \in Nat
    /\ pc = "zero" => /\ n <= Len(image.segments)
                      /\ remaining <= Segment.memsz - Segment.filesz
    /\ entry_is_executable \in BOOLEAN

InRegions(a) == \E r \in Regions : a \in r.start .. r.start + r.size - 1

\* Nothing outside the ITCM, the DTCM and the DDR is ever written, by the
\* copies or by the zeroes, for a segment that touches the end of a region or
\* of the address space too.
WritesInside ==
    \A a \in Words : mem[a] # Old => InRegions(a)

\* The first m segments that cover an address, and what the last of them puts
\* there.
Covering(a, m) ==
    {i \in 1 .. m :
        /\ image.segments[i].load
        /\ a \in image.segments[i].paddr ..
                 image.segments[i].paddr + image.segments[i].memsz - 1}

Expected(a, m) ==
    LET s == image.segments[CHOOSE i \in Covering(a, m) :
                                \A j \in Covering(a, m) : i >= j]
    IN  IF Covering(a, m) = {} THEN Old
        ELSE IF a < s.paddr + s.filesz THEN FileByte(s.offset + (a - s.paddr))
        ELSE Zero

\* A segment is loaded whole or not at all: between two segments, and wherever
\* the loader gives up, every address holds what the last segment before that
\* covers it says, zeroes included, and no other address has changed.  In
\* particular no chunk of a segment that passed validate_segment is refused by
\* copy_segment.
MemoryIsImage ==
    pc \in {"segments", "layout", "done"} =>
        \A a \in Words : mem[a] = Expected(a, n - 1)
=============================================================================
