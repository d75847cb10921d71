------------------------------- MODULE MCBoot -------------------------------
(* A small address space: the ITCM at 0, the DTCM at 12, the DDR ending where *)
(* addresses end.  Chunks and words of 2 bytes, sections aligned to 4.        *)
EXTENDS CrtStart

MCItcm == [start |-> 0, size |-> 10]
MCDtcm == [start |-> 12, size |-> 8]
MCDdr == [start |-> 28, size |-> 4]

Sym(name, value, size) ==
  [name |-> name, value |-> value, size |-> size, defined |-> TRUE]

Table(request, heap_start, heap_end) ==
  [symtab |-> TRUE, malformed |-> FALSE, symbols |->
      <<[Sym("__heap_end", 1, 0) EXCEPT !.defined = FALSE],
        Sym("coralnpu_dispatch_request", request, 2),
        Sym("__heap_start", heap_start, 0), Sym("__heap_end", heap_end, 0)>>]

Good == <<[Table(12, 14, 18) EXCEPT !.symtab = FALSE], Table(12, 14, 18)>>

Text == [paddr |-> 0, filesz |-> 2, memsz |-> 2, offset |-> 0, load |-> TRUE, exec |-> TRUE]

NoFunctions == LinkMap(2, 0, 0, 0, 0, <<>>)

Make(segments, sections) ==
  [header_ok |-> TRUE, section_table_ok |-> TRUE, entry |-> 1, data_length |-> 4,
   segments |-> segments, sections |-> sections, link |-> NoFunctions]

\* Functions are numbered by where their pointer is; padding is a null pointer.
Linked(constructors, destructors, data, bss) ==
  LET map == LinkMap(3, constructors, destructors, data, bss, <<>>)
      end == map.fini[2]
      functions == [b \in map.init[1] .. end - 1 |->
                      IF b >= map.init[1] + constructors * WordSize /\ b < map.init[2]
                      THEN Reset ELSE b]
      file == map.bss[1] - Dtcm.start
  IN  [header_ok |-> TRUE, section_table_ok |-> TRUE, entry |-> 0,
       data_length |-> end + file, sections |-> Good,
       segments |-> <<[paddr |-> 0, filesz |-> end, memsz |-> end, offset |-> 0,
                       load |-> TRUE, exec |-> TRUE],
                      [paddr |-> Dtcm.start, filesz |-> file,
                       memsz |-> map.bss[2] - Dtcm.start, offset |-> end,
                       load |-> TRUE, exec |-> FALSE]>>,
       link |-> [map EXCEPT !.functions = functions]]

Programs ==
  {p \in {Linked(c, d, data, bss) : c \in 0 .. 2, d \in 0 .. 3, data \in {0, 1}, bss \in 0 .. 4} :
     p.segments[1].memsz <= Itcm.size}

\* Two segments that may overlap each other and the edges of the regions; the
\* image has no symbols.
PlacedAt == [paddr : {7, 18, 27, 29, 31}, filesz : {0, 1, 3}, memsz : 0 .. 4,
           offset : {0, 2}, load : {TRUE}, exec : {FALSE}]

Shapes == {Make(<<Text, a, b>>, <<>>) : a \in PlacedAt,
              b \in {s \in PlacedAt : s.paddr \in {7, 29} /\ s.offset = 2}}

Symbols == {Make(<<Text>>, <<Table(r, s, e)>>) :
              r \in {11, 12, 18, 19}, s \in {11, 12, 20, 21}, e \in {12, 18, 20, 21}}

Faults ==
  {[Make(<<Text>>, Good) EXCEPT !.header_ok = FALSE],
   [Make(<<Text>>, Good) EXCEPT !.section_table_ok = FALSE],
   [Make(<<Text>>, Good) EXCEPT !.entry = 2],
   Make(<<[Text EXCEPT !.load = FALSE], Text>>, Good),
   Make(<<[Text EXCEPT !.exec = FALSE]>>, Good),
   Make(<<Text>>, <<>>),
   Make(<<Text>>, <<[Table(12, 14, 18) EXCEPT !.malformed = TRUE], Table(12, 14, 18)>>),
   Make(<<Text>>, <<Table(12, 14, 18), [Table(19, 19, 19) EXCEPT !.malformed = TRUE]>>)}

MCImages == Programs \cup Shapes \cup Symbols \cup Faults
=============================================================================
