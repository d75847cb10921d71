----------------------------- MODULE MatrixCode -----------------------------
(***************************************************************************)
(* Functions on accumulator tiles and what they compute: the vector code   *)
(* that CoralNPUVectorToMatrix.cpp takes and the matrix code that it and   *)
(* CoralNPUMatrixToLLVM.cpp make of it.                                    *)
(*                                                                         *)
(* A function is a sequence of operations, some of them loops, of loops    *)
(* too: an M or N tile loop around the accumulating one.  A value is       *)
(* the result of an operation, <<"op", id>>, the k-th result or iter_arg   *)
(* of a loop, <<"res", id, k>> and <<"iter", id, k>>, or one of the values *)
(* below that no operation of the function produces.                       *)
(*                                                                         *)
(* Numbers are not modelled.  A row of a tile is the sequence of what was  *)
(* added to it, in order, so that a product that is lost, repeated, moved  *)
(* or computed wrongly shows.                                              *)
(*                                                                         *)
(* An operand of a contraction has the element type `ty' it is read with   *)
(* and the form in which the contraction gets it: as it is, behind a sign  *)
(* (or float) or a zero extension to the type of the accumulator, or       *)
(* behind a broadcast that repeats elements.  A transfer has the rows that *)
(* its mask and bounds leave, and may be permuted.                         *)
(***************************************************************************)
EXTENDS Integers, Sequences, SequencesExt

CONSTANTS
  NumRows,    \* rows of a tile, 4
  TileShift,  \* position of the tile in a row descriptor, 27
  Addresses   \* where a row can be in memory

ASSUME RowAssumption == NumRows \in 1 .. 2 ^ TileShift

Rows == 0 .. NumRows - 1

ZeroValue == <<"zero">>      \* a constant splat of zero
ConstValue == <<"const">>    \* another constant
FuncArg == <<"farg">>
Result(x) == <<"op", x.id>>

\* The operations of a function with those of its loops, in textual order.
\* Operations that the passes make have no identity, 0.
RECURSIVE Flat(_)
Flat(code) ==
  FlattenSeq([i \in DOMAIN code |->
    <<code[i]>> \o IF code[i].k = "loop" THEN Flat(code[i].body) ELSE <<>>])

Ids(code) == {x.id : x \in Range(Flat(code))}
Op(code, id) == CHOOSE x \in Range(Flat(code)) : x.id = id

\* The values that one operation uses, and the operation with others.
Operands(x) ==
  CASE x.k = "contract" -> <<x.acc>>
    [] x.k = "loop" -> x.inits \o x.yields
    [] x.k \in {"write", "use"} -> <<x.val>>
    [] OTHER -> <<>>

WithOperands(x, F(_)) ==
  CASE x.k = "contract" -> [x EXCEPT !.acc = F(@)]
    [] x.k = "loop" -> [x EXCEPT !.inits = [i \in DOMAIN @ |-> F(@[i])],
                                 !.yields = [i \in DOMAIN @ |-> F(@[i])]]
    [] x.k \in {"write", "use"} -> [x EXCEPT !.val = F(@)]
    [] OTHER -> x

\* Every operation turned into a sequence of operations, where it is, those
\* of a loop before the loop.
Rewrite(code, F(_)) ==
  LET RECURSIVE In(_)
      In(c) ==
        FlattenSeq([i \in DOMAIN c |->
          F(IF c[i].k = "loop" THEN [c[i] EXCEPT !.body = In(@)] ELSE c[i])])
  IN  In(code)

\* replaceAllUsesWith, for all values at once, and the exchange of one
\* operation for others.
ReplaceUses(code, F(_)) == Rewrite(code, LAMBDA x : <<WithOperands(x, F)>>)
Exchange(code, id, items) == Rewrite(code, LAMBDA x : IF x.id = id THEN items ELSE <<x>>)

\* How often a value is used.
Uses(code, v) ==
  LET ops == FlattenSeq([i \in DOMAIN Flat(code) |-> Operands(Flat(code)[i])])
  IN  Cardinality({i \in DOMAIN ops : ops[i] = v})

\* A row of memory, in the given iteration of the outermost loop around.
RowAddress(ref, r, i) == ref.base + r * ref.stride + i * ref.step
RowAddresses(ref, i) == {RowAddress(ref, r, i) : r \in Rows}

\* A contraction's operands are indexed by its maps for lhs, rhs and acc.  A
\* matrix instruction takes the rows from lhs and the columns from rhs.
FreeDim(x, i) == CHOOSE d \in Range(x.maps[i]) : d # x.reduction
Transposed(x) == x.maps[3] # <<FreeDim(x, 1), FreeDim(x, 2)>>

\* What a contraction does with a product, and what a matrix instruction does:
\* the integer one, vtmms, takes both operands as signed.
Effect(x) ==
  [kind |-> x.kind, transposed |-> Transposed(x),
   unsigned |-> {o \in {"lhs", "rhs"} : x[o].form = "zext"}]
InstructionEffect == [kind |-> "add", transposed |-> FALSE, unsigned |-> {}]

-----------------------------------------------------------------------------
(* Execution.  s.config is what msetmtype set, s.iv the iterations of the  *)
(* loops around, the outermost first.                                      *)

Start ==
  [mem |-> [a \in Addresses |-> << <<"mem", a>> >>],
   tile |-> [t \in {} |-> <<>>],
   env |-> [v \in {ZeroValue, ConstValue, FuncArg} |->
              [r \in Rows |-> IF v = ZeroValue THEN <<>> ELSE <<v>>]],
   seen |-> <<>>,
   config |-> "none",
   iv |-> <<>>]

Define(s, v, value) == [s EXCEPT !.env = (v :> value) @@ @]
SetTile(s, t, value) == [s EXCEPT !.tile = (t :> value) @@ @]
Address(s, ref, r) == RowAddress(ref, r, IF s.iv = <<>> THEN 0 ELSE s.iv[1] - 1)

\* A matrix multiplication adds the product it should only if the core is set
\* up for the one type of the contraction, its operands and the instruction,
\* and all elements of the operands are there.
Product(s, x) ==
  IF x.types = {s.config} /\ x.whole
  THEN <<"product", x.p, s.iv, InstructionEffect>> ELSE <<"wrong">>

\* A tile as a transfer x moves it: a row of a permuted one is a column.
Moved(x, tile) ==
  IF x.permuted THEN [r \in Rows |-> << <<"column", r, tile>> >>] ELSE tile

Step(s, x) ==
  CASE x.k = "contract" ->
         Define(s, Result(x), [r \in Rows |->
           Append(s.env[x.acc][r], <<"product", x.p, s.iv, Effect(x)>>)])
    [] x.k = "read" ->
         LET there == Moved(x, [r \in Rows |-> s.mem[Address(s, x.src, r)]])
         IN  Define(s, Result(x),
                    [r \in Rows |-> IF r \in x.rows THEN there[r] ELSE << <<"padding">> >>])
    [] x.k = "other" -> Define(s, Result(x), [r \in Rows |-> << <<"other", x.p>> >>])
    [] x.k = "write" ->
         LET Row(a) == CHOOSE r \in x.rows : Address(s, x.dst, r) = a
         IN  [s EXCEPT !.mem = [a \in {Address(s, x.dst, r) : r \in x.rows} |->
                                  Moved(x, s.env[x.val])[Row(a)]] @@ @]
    [] x.k = "use" -> [s EXCEPT !.seen = Append(@, s.env[x.val])]
    [] x.k = "config" -> [s EXCEPT !.config = x.ty]
    [] x.k = "vtzero" -> SetTile(s, x.tile, [r \in Rows |-> <<>>])
    [] x.k = "mm" ->
         SetTile(s, x.tile, [r \in Rows |-> Append(s.tile[x.tile][r], Product(s, x))])
    [] x.k = "vtle" ->
         LET t == x.tss \div 2 ^ TileShift
             old == IF t \in DOMAIN s.tile THEN s.tile[t] ELSE [r \in Rows |-> << <<"unset">> >>]
         IN  SetTile(s, t, [old EXCEPT ![x.tss % 2 ^ TileShift] = s.mem[Address(s, x.row, 0)]])
    [] x.k = "vtse" ->
         [s EXCEPT !.mem[Address(s, x.row, 0)] =
            s.tile[x.tss \div 2 ^ TileShift][x.tss % 2 ^ TileShift]]

Bind(s, tag, l, values) ==
  [s EXCEPT !.env = [v \in {<<tag, l, k>> : k \in DOMAIN values} |-> values[v[3]]] @@ @]

RECURSIVE Run(_, _)
Run(start, code) ==
  LET RunLoop(s, x) ==
        LET Iterate(t, j) ==
              LET in == Bind([t.s EXCEPT !.iv = Append(s.iv, j)], "iter", x.id, t.values)
                  e == Run(in, x.body)
              IN  [s |-> e, values |-> [k \in DOMAIN x.yields |-> e.env[x.yields[k]]]]
            end == FoldLeft(Iterate,
                            [s |-> s, values |-> [k \in DOMAIN x.inits |-> s.env[x.inits[k]]]],
                            [j \in 1 .. x.trips |-> j])
        IN  Bind([end.s EXCEPT !.iv = s.iv], "res", x.id, end.values)
  IN  FoldLeft(LAMBDA s, x : IF x.k = "loop" THEN RunLoop(s, x) ELSE Step(s, x), start, code)

\* What can be observed of a function: the memory it leaves, and the values
\* that its other operations are given.
Meaning(code) == LET s == Run(Start, code) IN [mem |-> s.mem, seen |-> s.seen]
=============================================================================
