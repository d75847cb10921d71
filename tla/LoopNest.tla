------------------------------ MODULE LoopNest ------------------------------
(***************************************************************************)
(* What the tile size passes know of the root operation of a dispatch      *)
(* (compiler/Transforms/CoralNPUTileSizeSelection.cpp): the classes of its *)
(* loops and the estimated footprint of a tile.                            *)
(*                                                                         *)
(* A root is a record:                                                     *)
(*   kind      "linalg", "pack", "unpack", "other", "none" (the function   *)
(*             has no compute op) or "untilable" (no TilingInterface root) *)
(*   contraction, reverse   it is a matmul-like op, it reverses a tensor   *)
(*   elemBits  width of the result's elements, 0 for no int or float       *)
(*   iter      loop -> "parallel" or "reduction"                           *)
(*   ranges    loop -> static trip count, or Dynamic                       *)
(*   inputs    how many operands are inputs; the others are results        *)
(*   operands  each [bits, shape, map]; bits = 0 for what is not a tensor  *)
(*   perm, innerPos, innerTiles   of pack and unpack                       *)
(* An entry of a map is an affine expression: the coefficient of every     *)
(* loop, the size of the tensor dimension and whether MLIR can bound it.   *)
(***************************************************************************)
EXTENDS Integers, Sequences, FiniteSets, Functions

Dynamic == -1

Least(a, b) == IF a <= b THEN a ELSE b
Greatest(a, b) == IF a >= b THEN a ELSE b
CeilDiv(a, b) == (a + b - 1) \div b
AlignDown(x, a) == x - (x % a)
Product(f) == FoldFunction(LAMBDA x, y : x * y, 1, f)

Loops(r) == DOMAIN r.ranges

-----------------------------------------------------------------------------
(* CoralNPUTilingAnalysis.                                                 *)

HasComputeOps(r) == r.kind # "none"

\* An i1 element counts as a byte, every other sub-byte type is refused.
ElemSizeBytes(r) == IF r.elemBits = 1 THEN 1 ELSE r.elemBits \div 8

AnalysisFails(r) ==
  /\ HasComputeOps(r)
  /\ \/ r.kind = "untilable"
     \/ r.elemBits < 8 /\ r.elemBits # 1
     \/ Dynamic \in Range(r.ranges)

ParallelLoops(r) == {d \in Loops(r) : r.iter[d] = "parallel"}
ReductionLoops(r) == {d \in Loops(r) : r.iter[d] = "reduction"}

\* AffineMap::isFunctionOfDim
InMap(m, d) == \E k \in DOMAIN m : m[k].coef[d] # 0
InLhs(r, d) == InMap(r.operands[1].map, d)
InRhs(r, d) == InMap(r.operands[2].map, d)

IsDim(expr, d) == \A l \in DOMAIN expr.coef : expr.coef[l] = IF l = d THEN 1 ELSE 0

IsDepthwiseConvLike(r) ==
  LET channel == Cardinality(ParallelLoops(r))
      filter == r.operands[2].map
  IN  /\ r.inputs = 2 /\ Len(r.operands) = 3
      /\ channel >= 3 /\ Cardinality(ReductionLoops(r)) >= 2
      /\ channel \in ParallelLoops(r)
      /\ \A k \in 1 .. 3 : InMap(r.operands[k].map, channel)
      /\ \A k \in DOMAIN filter :
           \E d \in ReductionLoops(r) \cup {channel} : IsDim(filter[k], d)

\* refineLinalgOpLoops distinguishes loops only for two inputs and more.
Refines(r) == r.kind = "linalg" /\ r.inputs >= 2

BatchLoops(r) ==
  {d \in ParallelLoops(r) :
     Refines(r) /\ InLhs(r, d) /\ InRhs(r, d) /\ ~IsDepthwiseConvLike(r)}

UnrollLoops(r) ==
  {d \in ParallelLoops(r) : Refines(r) /\ ~InLhs(r, d) /\ InRhs(r, d)}

VectorLoops(r) == ParallelLoops(r) \ (BatchLoops(r) \cup UnrollLoops(r))

\* The classes in the order in which the DTCM pass shrinks them.
Class(r) == <<VectorLoops(r), UnrollLoops(r), BatchLoops(r), ReductionLoops(r)>>

-----------------------------------------------------------------------------
(* estimateFootprint.  A tile size of 0 leaves the loop untiled.           *)

TileOf(size, range) == IF size = 0 THEN range ELSE size

Abs(x) == IF x < 0 THEN -x ELSE x

\* Mutant: the span of an index expression loses its last element.
SpanOpen(expr, sizes) ==
  IF expr.bounded /\ \A d \in DOMAIN sizes : expr.coef[d] = 0 \/ sizes[d] > 0
  THEN Greatest(1, SumFunction([d \in DOMAIN sizes |-> Abs(expr.coef[d]) * (sizes[d] - 1)]))
  ELSE expr.full

\* Upper bound - lower bound + 1 of an index expression over a tile, or the
\* whole dimension when getBoundForAffineExpr finds no bounds.
Span(expr, sizes) ==
  IF expr.bounded /\ \A d \in DOMAIN sizes : expr.coef[d] = 0 \/ sizes[d] > 0
  THEN SumFunction([d \in DOMAIN sizes |-> Abs(expr.coef[d]) * (sizes[d] - 1)]) + 1
  ELSE expr.full

LinalgElements(r, k, sizes) ==
  LET resolved == [d \in Loops(r) |-> TileOf(sizes[d], r.ranges[d])]
      m == r.operands[k].map
  IN  Product([j \in DOMAIN m |-> Span(m[j], resolved)])

\* The inner tile of tensor dimension `dim` of a pack or unpack.
InnerTile(r, dim) ==
  IF \E k \in DOMAIN r.innerPos : r.innerPos[k] = dim
  THEN r.innerTiles[CHOOSE k \in DOMAIN r.innerPos : r.innerPos[k] = dim]
  ELSE 1

Permuted(r, l) == IF r.perm = <<>> THEN l ELSE r.perm[l]

PackElements(r, k, sizes) ==
  LET shape == r.operands[k].shape
      Source(l) == LET dim == Permuted(r, l)
                   IN  IF sizes[l] = 0 THEN shape[dim]
                       ELSE Least(shape[dim], sizes[l] * InnerTile(r, dim))
      Dest(l) == IF l \in Loops(r) THEN Least(shape[l], TileOf(sizes[l], shape[l]))
                 ELSE shape[l]
  IN  CASE k = 1 -> Product([l \in Loops(r) |-> Source(l)])
        [] k = 2 -> Product([l \in DOMAIN shape |-> Dest(l)])
        [] OTHER -> Product(shape)

UnpackElements(r, k, sizes) ==
  LET shape == r.operands[k].shape
      Dest(l) == Least(shape[l], TileOf(sizes[l], shape[l]))
      Outer(l) == LET dim == Permuted(r, l)
                  IN  IF sizes[l] = 0 THEN shape[dim]
                      ELSE Least(shape[dim], CeilDiv(sizes[l], InnerTile(r, dim)))
      inner == DOMAIN shape \ Loops(r)
  IN  CASE k = 1 -> Product([l \in Loops(r) |-> Outer(l)])
                      * Product([l \in inner |-> shape[l]])
        [] k = 2 -> Product([l \in DOMAIN shape |-> Dest(l)])
        [] OTHER -> Product(shape)

\* Other tiled ops: an operand of the loops' rank is tiled like the loops.
OtherElements(r, k, sizes) ==
  LET shape == r.operands[k].shape
      Static(l) == IF shape[l] = Dynamic THEN 1 ELSE shape[l]
      Tiled(l) == IF sizes[l] = 0 \/ shape[l] = Dynamic THEN Static(l)
                  ELSE Least(shape[l], sizes[l])
  IN  IF DOMAIN shape = Loops(r) THEN Product([l \in DOMAIN shape |-> Tiled(l)])
      ELSE Product([l \in DOMAIN shape |-> Static(l)])

Elements(r, k, sizes) ==
  CASE r.kind = "linalg" -> LinalgElements(r, k, sizes)
    [] r.kind = "pack" -> PackElements(r, k, sizes)
    [] r.kind = "unpack" -> UnpackElements(r, k, sizes)
    [] OTHER -> OtherElements(r, k, sizes)

\* Bits are divided by 8 and rounded down: an i1 operand weighs nothing.
ElementBytes(o) == o.bits \div 8

EstimateFootprint(r, sizes) ==
  SumFunction([k \in DOMAIN r.operands |->
                 IF r.operands[k].bits = 0 THEN 0
                 ELSE Elements(r, k, sizes) * ElementBytes(r.operands[k])])
=============================================================================
