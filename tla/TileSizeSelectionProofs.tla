---------------------- MODULE TileSizeSelectionProofs ----------------------
(* Theorems about TileSizeSelection, for every root, target and option.    *)
EXTENDS TileSizeSelection, FiniteSetTheorems, WellFoundedInduction, TLAPS

Register2 == {"vector_common_parallel", "vector_reduction"}

\* The input is one of the inputs, whatever the passes have done.
InputOK ==
  input \in [root : Roots, target : Targets, options : OptionSets, dtcmSizeKb : DtcmSizes]

\* Once there is something to tile, every loop has a positive trip count.
Tilable == HasComputeOps(Root) /\ ~AnalysisFails(Root)

\* What the config holds: the register levels come together and tile a loop
\* within its range; the cache levels too, each loop in exactly one of them.
ConfigOK ==
  DOMAIN config # {} =>
    /\ Tilable
    /\ Register2 \subseteq DOMAIN config
    /\ \A l \in Register2 :
         /\ config[l] \in [Loops(Root) -> Nat]
         /\ \A d \in Loops(Root) : config[l][d] <= Root.ranges[d]
    /\ "cache_parallel" \in DOMAIN config =>
         /\ "cache_reduction" \in DOMAIN config
         /\ \A d \in Loops(Root) :
              IF d \in ParallelLoops(Root)
              THEN config["cache_parallel"][d] \in 1 .. Root.ranges[d] /\ config["cache_reduction"][d] = 0
              ELSE config["cache_reduction"][d] \in 1 .. Root.ranges[d] /\ config["cache_parallel"][d] = 0

\* The search holds a usable tile for every loop and positive alignments.
SearchOK ==
  pc = "shrink" =>
    /\ Tilable
    /\ DOMAIN config # {}
    /\ align \in [1 .. 4 -> Nat \ {0}]
    /\ tiles \in [Loops(Root) -> Nat]
    /\ \A d \in Loops(Root) : tiles[d] \in 1 .. Root.ranges[d]

Inv == InputOK /\ ConfigOK /\ SearchOK

\* A nonempty set of naturals has a least element for an order that contains
\* < and is well founded,
LEMMA LeastByOrder ==
  ASSUME NEW S, S \subseteq Nat, S # {}, NEW R, IsWellFoundedOn(R, Nat),
         \A x, y \in Nat : y < x => <<y, x>> \in R
  PROVE  \E x \in S : \A y \in S : x <= y
<1>1. PICK x \in S : \A y \in S : ~(<<y, x>> \in R)
  BY WFMin
<1>2. ASSUME NEW y \in S PROVE x <= y
  <2>1. x \in Nat /\ y \in Nat /\ ~(<<y, x>> \in R)
    BY <1>1
  <2>2. ~(y < x)
    BY <2>1, Zenon
  <2> QED
    BY <2>1, <2>2
<1> QED
  BY <1>2

\* and < is.
LEMMA LeastElement ==
  ASSUME NEW S, S \subseteq Nat, S # {}
  PROVE  \E x \in S : \A y \in S : x <= y
<1>1. \A x, y \in Nat : y < x => <<y, x>> \in OpToRel(<, Nat)
  BY Zenon DEF OpToRel
<1> QED
  BY <1>1, NatLessThanWellFounded, LeastByOrder, Zenon

\* A nonempty set of naturals contains the loop that MinOf names.
LEMMA MinExists ==
  ASSUME NEW S, S \subseteq Nat, S # {}
  PROVE  MinOf(S) \in S
<1>1. \E x \in S : \A y \in S : x <= y
  BY LeastElement
<1> QED
  BY <1>1 DEF MinOf

\* A nonempty bounded set of naturals has a greatest element.
LEMMA MaxExists ==
  ASSUME NEW S, S \subseteq Nat, S # {}, NEW bound \in Nat, \A x \in S : x <= bound
  PROVE  MaxOf(S) \in S /\ \A y \in S : MaxOf(S) >= y
<1> DEFINE T == {b \in Nat : \A x \in S : x <= b}
<1>1. T \subseteq Nat /\ T # {}
  OBVIOUS
<1>2. PICK m \in T : \A y \in T : m <= y
  BY <1>1, LeastElement
<1>3. m \in Nat /\ \A x \in S : x <= m
  BY <1>2
<1>4. m \in S
  <2>1. SUFFICES ASSUME m \notin S PROVE FALSE
    OBVIOUS
  <2>2. \A x \in S : x <= m - 1
    BY <1>3, <2>1
  <2>3. m - 1 \in Nat
    <3>1. PICK x : x \in S
      OBVIOUS
    <3>2. x \in Nat /\ x <= m - 1
      BY <2>2, <3>1
    <3> QED
      BY <1>3, <3>2
  <2>4. m - 1 \in T
    BY <2>2, <2>3
  <2>5. m <= m - 1
    BY <1>2, <2>4
  <2> QED
    BY <1>3, <2>5
<1> QED
  BY <1>3, <1>4 DEF MaxOf

\* alignDown to a positive alignment that fits leaves at least the alignment.
LEMMA AlignDownBounds ==
  ASSUME NEW x \in Nat, NEW a \in Nat \ {0}, x >= a
  PROVE  AlignDown(x, a) \in 1 .. x
<1>1. x % a \in 0 .. a - 1
  OBVIOUS
<1> QED
  BY <1>1 DEF AlignDown

\* Halving a tile of at least twice the alignment leaves a usable tile.
LEMMA HalfBounds ==
  ASSUME NEW x \in Nat, NEW a \in Nat \ {0}, x >= 2 * a
  PROVE  AlignDown(x \div 2, a) \in 1 .. x
<1>1. x \div 2 \in Nat /\ x \div 2 >= a /\ x \div 2 <= x
  OBVIOUS
<1> QED
  BY <1>1, AlignDownBounds

\* The trip counts of a tilable root.
LEMMA Ranges ==
  ASSUME InputOK, Tilable, NEW d \in Loops(Root)
  PROVE  /\ Root.ranges[d] \in Nat \ {0}
         /\ d \in ParallelLoops(Root) <=> d \notin ReductionLoops(Root)
<1>1. Root \in Roots
  BY DEF InputOK, Root
<1>2. Root.ranges[d] # Dynamic
  BY DEF Tilable, AnalysisFails, Range, Loops
<1> QED
  BY <1>1, <1>2, RootAssumption DEF Loops, ParallelLoops, ReductionLoops

\* The vector width of a tilable root is positive.
LEMMA Width == ASSUME InputOK, Tilable PROVE VectorWidth \in Nat \ {0}
<1>1. Root \in Roots /\ input.target \in Targets
  BY DEF InputOK, Root
<1> QED
  BY <1>1, WidthAssumption DEF Tilable, VectorWidth

\* The number of vectors that cover a loop.
LEMMA CeilDivBounds ==
  ASSUME NEW a \in Nat, NEW b \in Nat \ {0}
  PROVE  CeilDiv(a, b) \in Nat /\ CeilDiv(a, b) <= a
<1> DEFINE n == a + b - 1
           q == n \div b
<1>1. n \in Nat
  OBVIOUS
<1>2. q \in Int /\ b * q <= n /\ n < b * (q + 1)
  BY <1>1
<1>3. q >= 0
  <2>1. SUFFICES ASSUME q + 1 <= 0 PROVE FALSE
    BY <1>2
  <2>2. b * (q + 1) <= 0
    BY <1>2, <2>1
  <2> QED
    BY <1>1, <1>2, <2>2
<1>4. q <= a
  <2>1. SUFFICES ASSUME q >= a + 1 PROVE FALSE
    BY <1>2
  <2>2. b * q >= b * (a + 1)
    BY <1>2, <2>1
  <2>3. b * (a + 1) = b * a + b /\ b * a >= a
    OBVIOUS
  <2> QED
    BY <1>2, <2>2, <2>3
<1> QED
  BY <1>2, <1>3, <1>4 DEF CeilDiv

\* The unroll factor is a natural number.
LEMMA UnrollFactorType ==
  ASSUME InputOK, Tilable, UnrollLoops(Root) # {}, NEW v \in Nat
  PROVE  UnrollFactor(v) \in Nat
<1> DEFINE S == {CeilDiv(Root.ranges[d], VectorWidth) : d \in UnrollLoops(Root)}
<1>1. UnrollLoops(Root) \subseteq Loops(Root)
  BY DEF UnrollLoops, ParallelLoops
<1>2. MaxTripCount \in Nat /\ \A d \in Loops(Root) : Root.ranges[d] <= MaxTripCount
  BY RootAssumption, TripCountAssumption DEF InputOK, Root, Loops
<1>3. ASSUME NEW d \in UnrollLoops(Root)
      PROVE  CeilDiv(Root.ranges[d], VectorWidth) \in 0 .. MaxTripCount
  <2>1. Root.ranges[d] \in Nat /\ Root.ranges[d] <= MaxTripCount
    BY <1>1, <1>2, Ranges
  <2> QED
    BY <1>2, <2>1, Width, CeilDivBounds
<1>4. S \subseteq Nat /\ S # {} /\ \A x \in S : x <= MaxTripCount
  BY <1>3
<1> HIDE DEF S
<1>5. MaxOf(S) \in Nat
  BY <1>2, <1>4, MaxExists
<1>6. Opt.numVectorRegisters \in Nat
  BY OptionAssumption DEF InputOK, Opt
<1> DEFINE limit == Greatest(1, (Opt.numVectorRegisters - 1) \div (1 + v))
<1>7. limit \in Nat
  BY <1>6 DEF Greatest
<1>8. UnrollFactor(v) = Least(limit, MaxOf(S))
  BY DEF UnrollFactor, S
<1> QED
  BY <1>5, <1>7, <1>8 DEF Least

\* With unrolled loops both alignments of the parallel loops are naturals.
LEMMA AlignmentTypes ==
  ASSUME InputOK, Tilable
  PROVE  /\ Alignments.reduction \in Nat
         /\ UnrollLoops(Root) # {} => Alignments.vector \in Nat /\ Alignments.unroll \in Nat
<1>1. /\ Opt.vectorAlignment \in Nat /\ Opt.unrollAlignment \in Nat
      /\ Opt.reductionAlignment \in Nat
  BY OptionAssumption DEF InputOK, Opt
<1>2. CASE HasMatrix
  BY <1>2 DEF Alignments
<1>3. CASE ~HasMatrix
  <2>1. Alignments = ResolveAlignments
    BY <1>3 DEF Alignments
  <2>2. Alignments.reduction \in Nat
    BY <1>1, <2>1 DEF ResolveAlignments
  <2>3. ASSUME UnrollLoops(Root) # {}
        PROVE  Alignments.vector \in Nat /\ Alignments.unroll \in Nat
    <3> DEFINE vec == IF Opt.vectorAlignment # 0 THEN Opt.vectorAlignment ELSE Least(VectorWidth, 8)
               unr == IF Opt.unrollAlignment # 0 THEN Opt.unrollAlignment
                      ELSE VectorWidth * UnrollFactor(vec)
    <3>1. vec \in Nat
      BY <1>1, Width DEF Least
    <3>2. Alignments.vector = vec /\ Alignments.unroll = unr
      BY <2>1, <2>3 DEF ResolveAlignments
    <3> HIDE DEF vec
    <3>3. UnrollFactor(vec) \in Nat /\ VectorWidth \in Nat
      BY <2>3, <3>1, UnrollFactorType, Width
    <3>4. unr \in Nat
      BY <1>1, <3>3
    <3> QED
      BY <3>1, <3>2, <3>4
  <2> QED
    BY <2>2, <2>3
<1> QED
  BY <1>2, <1>3

\* The register pass tiles every loop within its range.
LEMMA RegisterTypes ==
  ASSUME InputOK, Tilable
  PROVE  /\ RegisterParallel \in [Loops(Root) -> Nat]
         /\ RegisterReduction \in [Loops(Root) -> Nat]
         /\ \A d \in Loops(Root) : /\ RegisterParallel[d] <= Root.ranges[d]
                                   /\ RegisterReduction[d] <= Root.ranges[d]
<1>1. ASSUME NEW d \in Loops(Root)
      PROVE  RegisterReduction[d] \in Nat /\ RegisterReduction[d] <= Root.ranges[d]
  BY Ranges, AlignmentTypes DEF RegisterReduction, Least
<1>2. ASSUME NEW d \in Loops(Root)
      PROVE  RegisterParallel[d] \in Nat /\ RegisterParallel[d] <= Root.ranges[d]
  <2>1. Root.ranges[d] \in Nat \ {0} /\ VectorWidth \in Nat
    BY Ranges, Width
  <2>2. CASE UnrollLoops(Root) = {}
    BY <2>1, <2>2 DEF RegisterParallel, Least, UnrollTile
  <2>3. CASE UnrollLoops(Root) # {}
    <3>1. Alignments.vector \in Nat /\ Alignments.unroll \in Nat
      BY <2>3, AlignmentTypes
    <3> QED
      BY <2>1, <2>3, <3>1 DEF RegisterParallel, Least, UnrollTile
  <2> QED
    BY <2>2, <2>3
<1> QED
  BY <1>1, <1>2 DEF RegisterParallel, RegisterReduction

\* Every loop of a tilable root is in one of the four classes.
LEMMA Classified ==
  ASSUME InputOK, Tilable, NEW d \in Loops(Root)
  PROVE  ClassOf(d) \in 1 .. 4 /\ d \in Class(Root)[ClassOf(d)]
<1>1. \E c \in 1 .. 4 : d \in Class(Root)[c]
  <2>1. CASE d \in ReductionLoops(Root)
    BY <2>1 DEF Class
  <2>2. CASE d \in UnrollLoops(Root)
    BY <2>2 DEF Class
  <2>3. CASE d \in BatchLoops(Root)
    BY <2>3 DEF Class
  <2>4. CASE d \in VectorLoops(Root)
    BY <2>4 DEF Class
  <2> QED
    BY <2>1, <2>2, <2>3, <2>4, Ranges DEF VectorLoops
<1> QED
  BY <1>1 DEF ClassOf

\* The classes hold loops only.
LEMMA ClassLoops == ASSUME NEW c \in 1 .. 4 PROVE Class(Root)[c] \subseteq Loops(Root)
<1>1. /\ ParallelLoops(Root) \subseteq Loops(Root) /\ ReductionLoops(Root) \subseteq Loops(Root)
      /\ UnrollLoops(Root) \subseteq ParallelLoops(Root)
      /\ BatchLoops(Root) \subseteq ParallelLoops(Root)
      /\ VectorLoops(Root) \subseteq ParallelLoops(Root)
  BY DEF ParallelLoops, ReductionLoops, UnrollLoops, BatchLoops, VectorLoops
<1> QED
  BY <1>1 DEF Class

\* The alignments that the DTCM pass reads from the config are positive.
LEMMA RegisterAlignType ==
  ASSUME InputOK, ConfigOK, DOMAIN config # {}
  PROVE  RegisterAlign \in [1 .. 4 -> Nat \ {0}]
<1>1. Tilable
  BY DEF ConfigOK
<1>2. MaxTripCount \in Nat /\ \A d \in Loops(Root) : Root.ranges[d] <= MaxTripCount
  BY RootAssumption, TripCountAssumption DEF InputOK, Root, Loops
<1>3. ASSUME NEW c \in 1 .. 4, NEW l \in Register2
      PROVE  LargestTile(Class(Root)[c], config[l]) \in Nat \ {0}
  <2> DEFINE S == {1} \cup {config[l][d] : d \in Class(Root)[c]}
  <2>1. ASSUME NEW d \in Class(Root)[c]
        PROVE  config[l][d] \in Nat /\ config[l][d] <= MaxTripCount
    <3>1. d \in Loops(Root)
      BY ClassLoops
    <3>2. Root.ranges[d] \in Nat /\ Root.ranges[d] <= MaxTripCount
      BY <1>1, <1>2, <3>1, Ranges
    <3>3. config[l][d] \in Nat /\ config[l][d] <= Root.ranges[d]
      BY <3>1 DEF ConfigOK
    <3> QED
      BY <1>2, <3>2, <3>3
  <2>2. S \subseteq Nat /\ 1 \in S /\ \A x \in S : x <= MaxTripCount + 1
    BY <1>2, <2>1
  <2>3. LargestTile(Class(Root)[c], config[l]) = MaxOf(S)
    BY DEF LargestTile
  <2> HIDE DEF S
  <2>4. MaxTripCount + 1 \in Nat /\ S # {}
    BY <1>2, <2>2
  <2>5. MaxOf(S) \in S /\ \A y \in S : MaxOf(S) >= y
    BY <2>2, <2>4, MaxExists
  <2>6. PICK x : x = MaxOf(S)
    OBVIOUS
  <2>7. x \in Nat /\ x >= 1
    BY <2>2, <2>5, <2>6, Zenon
  <2> QED
    BY <2>3, <2>6, <2>7
<1> QED
  BY <1>3 DEF RegisterAlign, Register2

\* The search begins with a usable tile for every loop.
LEMMA FirstTileBounds ==
  ASSUME InputOK, Tilable, NEW d \in Loops(Root), NEW a \in Nat \ {0}
  PROVE  FirstTile(d, a) \in 1 .. Root.ranges[d]
<1> DEFINE range == Root.ranges[d]
           aligned == IF range <= a THEN range ELSE AlignDown(range, a)
<1>1. range \in Nat \ {0}
  BY Ranges
<1>2. aligned \in 1 .. range
  BY <1>1, AlignDownBounds
<1>3. FirstTile(d, a) \in {aligned, Least(aligned, MaxParallelTileSize)}
  BY DEF FirstTile, AlignTile
<1>4. MaxParallelTileSize \in {16, 64}
  BY DEF MaxParallelTileSize
<1> HIDE DEF aligned
<1> QED
  BY <1>1, <1>2, <1>3, <1>4 DEF Least

\* The passes start without a config.
LEMMA InitInv == Init => Inv
  BY DEF Init, Inv, InputOK, ConfigOK, SearchOK, Register2

\* Every pass and every iteration of the search keeps the invariant.
LEMMA StepInv == Inv /\ [Next]_vars => Inv'
<1> SUFFICES ASSUME Inv, [Next]_vars PROVE Inv'
  OBVIOUS
<1> USE DEF Root, Loops
<1>1. input' = input
  BY DEF Next, vars, Skip, AnalysisFailure, Finish, Register, DtcmWithoutRegister, DtcmStart,
         Shrink, FallBack, GiveUp, Accept, WorkgroupMissing, Workgroup, Stop
<1>2. InputOK'
  BY <1>1 DEF Inv, InputOK
<1>3. Tilable' = Tilable
  BY <1>1 DEF Tilable
<1>4. ASSUME config' = config, pc' # "shrink" PROVE Inv'
  BY <1>1, <1>2, <1>3, <1>4 DEF Inv, ConfigOK, SearchOK
<1>5. CASE UNCHANGED vars
  BY <1>1, <1>2, <1>3, <1>5 DEF vars, Inv, ConfigOK, SearchOK
<1>6. CASE Skip \/ AnalysisFailure \/ Finish \/ DtcmWithoutRegister \/ GiveUp \/ WorkgroupMissing
  BY <1>4, <1>6 DEF Skip, AnalysisFailure, Finish, DtcmWithoutRegister, GiveUp,
                    WorkgroupMissing, Stop
<1>7. CASE Register
  <2>1. Tilable
    BY <1>7 DEF Register, Ready, Applies, Tilable
  <2>2. pc' # "shrink"
    BY <1>7 DEF Register, Ready, Enter
  <2>3. ConfigOK'
    <3>1. /\ DOMAIN config' = Register2
          /\ config'["vector_reduction"] = RegisterReduction
          /\ config'["vector_common_parallel"] = RegisterParallel
      BY <1>7 DEF Register, Register2
    <3> QED
      BY <1>1, <1>3, <2>1, <3>1, RegisterTypes DEF Inv, ConfigOK, Register2
  <2> QED
    BY <1>2, <2>2, <2>3 DEF Inv, SearchOK
<1>8. CASE DtcmStart
  <2>1. /\ config' = config /\ DOMAIN config # {} /\ align' = RegisterAlign
        /\ tiles' = [d \in Loops(Root) |-> FirstTile(d, RegisterAlign[ClassOf(d)])]
    BY <1>8 DEF DtcmStart
  <2>2. Tilable
    BY <2>1 DEF Inv, ConfigOK
  <2>3. align' \in [1 .. 4 -> Nat \ {0}]
    BY <2>1, RegisterAlignType DEF Inv
  <2>4. ASSUME NEW d \in Loops(Root) PROVE tiles'[d] \in 1 .. Root.ranges[d]
    <3>1. RegisterAlign[ClassOf(d)] \in Nat \ {0}
      BY <2>1, <2>2, <2>3, Classified DEF Inv
    <3> QED
      BY <2>1, <2>2, <3>1, FirstTileBounds DEF Inv
  <2>5. tiles' \in [Loops(Root) -> Nat]
    BY <2>1, <2>2, <2>4, Ranges DEF Inv
  <2>6. ConfigOK'
    BY <1>1, <1>3, <2>1 DEF Inv, ConfigOK
  <2> QED
    BY <1>1, <1>2, <1>3, <2>1, <2>2, <2>3, <2>4, <2>5, <2>6 DEF Inv, SearchOK
<1>9. CASE Shrink
  <2>1. /\ pc = "shrink" /\ pc' = pc /\ config' = config /\ align' = align
    BY <1>9 DEF Shrink
  <2>2. /\ Tilable /\ align \in [1 .. 4 -> Nat \ {0}] /\ tiles \in [Loops(Root) -> Nat]
        /\ \A d \in Loops(Root) : tiles[d] \in 1 .. Root.ranges[d]
    BY <2>1 DEF Inv, SearchOK
  <2>3. PICK c \in 1 .. 4 :
          /\ CanShrink(c) # {}
          /\ tiles' = [tiles EXCEPT ![MinOf(CanShrink(c))] = AlignDown(@ \div 2, align[c])]
    BY <1>9 DEF Shrink
  <2> DEFINE m == MinOf(CanShrink(c))
  <2>4. m \in Loops(Root) /\ tiles[m] >= 2 * align[c]
    <3>1. CanShrink(c) \subseteq Loops(Root)
      BY ClassLoops DEF CanShrink
    <3>2. Loops(Root) \subseteq Nat
      BY RootAssumption DEF Inv, InputOK
    <3>3. m \in CanShrink(c)
      BY <2>3, <3>1, <3>2, MinExists
    <3> QED
      BY <3>1, <3>3 DEF CanShrink
  <2> HIDE DEF m
  <2>5. AlignDown(tiles[m] \div 2, align[c]) \in 1 .. tiles[m]
    BY <2>2, <2>4, HalfBounds
  <2>6. /\ tiles' \in [Loops(Root) -> Nat]
        /\ \A d \in Loops(Root) : tiles'[d] \in 1 .. Root.ranges[d]
    <3>1. tiles' = [tiles EXCEPT ![m] = AlignDown(tiles[m] \div 2, align[c])]
      BY <2>3 DEF m
    <3>2. Root.ranges[m] \in Nat /\ tiles[m] <= Root.ranges[m]
      BY <2>2, <2>4, Ranges DEF Inv
    <3> QED
      BY <2>2, <2>4, <2>5, <3>1, <3>2
  <2>7. ConfigOK'
    BY <1>1, <1>3, <2>1 DEF Inv, ConfigOK
  <2> QED
    BY <1>1, <1>2, <1>3, <2>1, <2>2, <2>6, <2>7 DEF Inv, SearchOK
<1>10. CASE FallBack
  <2>1. /\ pc = "shrink" /\ config' = config /\ align' = <<1, 1, 1, 1>>
        /\ tiles' = [d \in Loops(Root) |-> Root.ranges[d]]
    BY <1>10 DEF FallBack, Stuck
  <2>2. Tilable /\ DOMAIN config # {}
    BY <2>1 DEF Inv, SearchOK
  <2>3. align' \in [1 .. 4 -> Nat \ {0}]
    BY <2>1
  <2>4. /\ tiles' \in [Loops(Root) -> Nat]
        /\ \A d \in Loops(Root) : tiles'[d] \in 1 .. Root.ranges[d]
    BY <2>1, <2>2, Ranges DEF Inv
  <2>5. ConfigOK'
    BY <1>1, <1>3, <2>1 DEF Inv, ConfigOK
  <2> QED
    BY <1>1, <1>2, <1>3, <2>1, <2>2, <2>3, <2>4, <2>5 DEF Inv, SearchOK
<1>11. CASE Accept
  <2>1. /\ pc = "shrink" /\ pc' = "pass"
        /\ config' = IF fallback THEN With(With(config, CacheItems), FallbackItems)
                                 ELSE With(config, CacheItems)
    BY <1>11 DEF Accept
  <2>2. /\ Tilable /\ DOMAIN config # {} /\ tiles \in [Loops(Root) -> Nat]
        /\ \A d \in Loops(Root) : tiles[d] \in 1 .. Root.ranges[d]
    BY <2>1 DEF Inv, SearchOK
  <2>3. /\ Register2 \subseteq DOMAIN config
        /\ \A l \in Register2 :
             /\ config[l] \in [Loops(Root) -> Nat]
             /\ \A d \in Loops(Root) : config[l][d] <= Root.ranges[d]
    BY <2>2 DEF Inv, ConfigOK
  <2>4. /\ DOMAIN config' = DOMAIN config \cup {"cache_parallel", "cache_reduction"}
        /\ config'["cache_parallel"] = Only(ParallelLoops(Root), tiles)
        /\ config'["cache_reduction"] = Only(ReductionLoops(Root), tiles)
        /\ \A l \in Register2 : config'[l] = config[l] \/ config'[l] = FallbackItems[l]
    BY <2>1, <2>3 DEF With, CacheItems, FallbackItems, Register2
  <2>5. ASSUME NEW l \in Register2
        PROVE  /\ FallbackItems[l] \in [Loops(Root) -> Nat]
               /\ \A d \in Loops(Root) : FallbackItems[l][d] <= Root.ranges[d]
    BY <2>2, Ranges DEF Inv, FallbackItems, Only, Least, Register2
  <2>6. ConfigOK'
    <3>1. /\ Register2 \subseteq DOMAIN config'
          /\ \A l \in Register2 :
               /\ config'[l] \in [Loops(Root) -> Nat]
               /\ \A d \in Loops(Root) : config'[l][d] <= Root.ranges[d]
      BY <2>3, <2>4, <2>5
    <3>2. ASSUME NEW d \in Loops(Root)
          PROVE  IF d \in ParallelLoops(Root)
                 THEN config'["cache_parallel"][d] \in 1 .. Root.ranges[d] /\ config'["cache_reduction"][d] = 0
                 ELSE config'["cache_reduction"][d] \in 1 .. Root.ranges[d] /\ config'["cache_parallel"][d] = 0
      BY <2>2, <2>4, Ranges DEF Inv, Only
    <3> QED
      BY <1>1, <1>3, <2>2, <2>4, <3>1, <3>2 DEF ConfigOK
  <2> QED
    BY <1>2, <2>1, <2>6 DEF Inv, SearchOK
<1>12. CASE Workgroup
  <2>1. /\ pc' # "shrink" /\ DOMAIN config' = DOMAIN config \cup {"distribution"}
        /\ "cache_parallel" \in DOMAIN config
        /\ \A l \in Register2 \cup {"cache_parallel", "cache_reduction"} :
             l \in DOMAIN config => config'[l] = config[l]
    BY <1>12 DEF Workgroup, Ready, Enter, With, Register2
  <2>2. DOMAIN config # {} /\ "cache_reduction" \in DOMAIN config
    BY <2>1 DEF Inv, ConfigOK
  <2> QED
    BY <1>1, <1>2, <1>3, <2>1, <2>2 DEF Inv, ConfigOK, SearchOK, Register2
<1> QED
  BY <1>5, <1>6, <1>7, <1>8, <1>9, <1>10, <1>11, <1>12 DEF Next

\* Whatever the root operation, the target and the options, the DTCM pass
\* searches among usable tiles only and tiles every loop exactly once at the
\* cache level, within its range: no size collapses to 0, "untiled".
THEOREM TilesAlwaysUsable == Spec => []TilesUsable
<1>1. Inv => TilesUsable
  BY DEF Inv, ConfigOK, SearchOK, TilesUsable, Configured
<1> QED
  BY <1>1, InitInv, StepInv, PTL DEF Spec

-----------------------------------------------------------------------------
(* The register tiles cut the cache tiles evenly.                          *)

RegTile(d) == config["vector_common_parallel"][d] + config["vector_reduction"][d]
ClassLevel(c) == IF c = 4 THEN "vector_reduction" ELSE "vector_common_parallel"

\* A register tile is the whole range, or the largest of its class, or too
\* small to matter.
Shape(c, d) ==
  \/ RegTile(d) \in {0, 1, Root.ranges[d]}
  \/ \A e \in Class(Root)[c] : RegTile(e) <= RegTile(d)

ShapeOK ==
  DOMAIN config # {} =>
    \A c \in 1 .. 4 : \A d \in Class(Root)[c] :
      RegTile(d) = config[ClassLevel(c)][d] /\ Shape(c, d)

\* The tile `size' of a loop is cut evenly by the register tile `register'.
CutsEvenly(register, size) ==
  register > 0 /\ size # MaxParallelTileSize => size % register = 0

\* Until it falls back, the search keeps the tiles even.
EvenSearch ==
  pc = "shrink" /\ ~fallback =>
    /\ align = RegisterAlign
    /\ \A d \in Loops(Root) : CutsEvenly(RegTile(d), tiles[d])

EvenConfig ==
  "cache_parallel" \in DOMAIN config =>
    \A d \in Loops(Root) : CutsEvenly(RegTile(d), CacheTile(d))

EvenInv == Inv /\ ShapeOK /\ EvenSearch /\ EvenConfig

\* What alignDown returns is a multiple of the alignment.
LEMMA AlignDownMultiple ==
  ASSUME NEW x \in Nat, NEW a \in Nat \ {0}
  PROVE  AlignDown(x, a) % a = 0
<1> DEFINE n == x \div a
           r == x % a
<1>1. n \in Nat /\ r \in 0 .. a - 1 /\ x = n * a + r
  OBVIOUS
<1>2. (n * a) % a = 0
  <2> HIDE DEF n
  <2> QED
    BY <1>1
<1>3. x - r = n * a
  <2>1. n * a \in Nat
    BY <1>1
  <2> HIDE DEF n, r
  <2> QED
    BY <1>1, <2>1
<1> QED
  BY <1>2, <1>3 DEF AlignDown

\* A loop has one of the two register levels.
LEMMA RegTileType ==
  ASSUME InputOK, ConfigOK, DOMAIN config # {}, NEW d \in Loops(Root)
  PROVE  RegTile(d) \in Nat
<1>1. config["vector_common_parallel"] \in [Loops(Root) -> Nat]
      /\ config["vector_reduction"] \in [Loops(Root) -> Nat]
  BY DEF ConfigOK, Register2
<1> QED
  BY <1>1 DEF RegTile

\* The register tiles of a class are at most its alignment, and the largest
\* is the alignment.
LEMMA AlignIsLargest ==
  ASSUME InputOK, ConfigOK, ShapeOK, DOMAIN config # {},
         NEW c \in 1 .. 4, NEW d \in Class(Root)[c]
  PROVE  /\ RegTile(d) <= RegisterAlign[c]
         /\ RegTile(d) \in {0, 1, Root.ranges[d], RegisterAlign[c]}
<1> DEFINE S == {1} \cup {config[ClassLevel(c)][e] : e \in Class(Root)[c]}
<1>1. ASSUME NEW e \in Class(Root)[c]
      PROVE  RegTile(e) = config[ClassLevel(c)][e] /\ RegTile(e) \in Nat
  BY ClassLoops, RegTileType DEF ShapeOK
<1>2. S = {1} \cup {RegTile(e) : e \in Class(Root)[c]}
  BY <1>1
<1>3. RegisterAlign[c] = MaxOf(S)
  BY DEF RegisterAlign, LargestTile, ClassLevel
<1>4. MaxTripCount \in Nat /\ \A e \in Loops(Root) : Root.ranges[e] <= MaxTripCount
  BY RootAssumption, TripCountAssumption DEF InputOK, Root, Loops
<1>5. ASSUME NEW e \in Class(Root)[c] PROVE RegTile(e) <= MaxTripCount + 1
  <2>1. e \in Loops(Root) /\ Tilable
    BY ClassLoops DEF ConfigOK
  <2>2. ClassLevel(c) \in Register2
    BY DEF ClassLevel, Register2
  <2>3. config[ClassLevel(c)][e] <= Root.ranges[e]
    BY <2>1, <2>2 DEF ConfigOK
  <2> QED
    BY <1>1, <1>4, <2>1, <2>3, Ranges
<1>6. S \subseteq Nat /\ S # {} /\ \A x \in S : x <= MaxTripCount + 1
  BY <1>1, <1>2, <1>4, <1>5
<1>7. RegTile(d) \in S /\ 1 \in S
  BY <1>2
<1> HIDE DEF S
<1>8. MaxOf(S) \in S /\ \A y \in S : MaxOf(S) >= y
  <2>1. MaxTripCount + 1 \in Nat
    BY <1>4
  <2> QED
    BY <1>6, <2>1, MaxExists
<1> DEFINE L == MaxOf(S)
<1> HIDE DEF L
<1>9. L \in Nat /\ L \in S /\ \A y \in S : L >= y
  BY <1>6, <1>8 DEF L
<1>10. RegTile(d) <= L /\ RegTile(d) \in Nat
  BY <1>1, <1>7, <1>9
<1>11. ASSUME \A e \in Class(Root)[c] : RegTile(e) <= RegTile(d), RegTile(d) # 0
       PROVE  RegTile(d) = L
  <2>1. \A y \in S : y <= RegTile(d)
    BY <1>2, <1>10, <1>11
  <2> QED
    BY <1>9, <1>10, <2>1
<1>12. Shape(c, d)
  BY DEF ShapeOK
<1> QED
  BY <1>3, <1>10, <1>11, <1>12 DEF Shape, L

\* A number is a multiple of 1 and of itself.
LEMMA TrivialMultiples ==
  ASSUME NEW x \in Nat \ {0} PROVE x % 1 = 0 /\ x % x = 0
OBVIOUS

\* The search begins with even tiles,
LEMMA FirstTileEven ==
  ASSUME InputOK, ConfigOK, ShapeOK, DOMAIN config # {}, NEW d \in Loops(Root)
  PROVE  CutsEvenly(RegTile(d), FirstTile(d, RegisterAlign[ClassOf(d)]))
<1> DEFINE a == RegisterAlign[ClassOf(d)]
           range == Root.ranges[d]
           aligned == AlignTile(range, a)
           reg == RegTile(d)
<1>1. Tilable /\ ClassOf(d) \in 1 .. 4 /\ d \in Class(Root)[ClassOf(d)]
  BY Classified DEF ConfigOK
<1>2. a \in Nat \ {0} /\ range \in Nat \ {0} /\ reg \in Nat
  BY <1>1, RegisterAlignType, Ranges, RegTileType
<1>3. reg <= a /\ reg \in {0, 1, range, a}
  BY <1>1, AlignIsLargest
<1>4. reg <= range
  <2>1. reg = config[ClassLevel(ClassOf(d))][d] /\ ClassLevel(ClassOf(d)) \in Register2
    BY <1>1 DEF ShapeOK, ClassLevel, Register2
  <2> QED
    BY <2>1 DEF ConfigOK
<1>5. FirstTile(d, a) \in {aligned, MaxParallelTileSize}
  BY DEF FirstTile, Least
<1> HIDE DEF a, range, reg
<1>6. aligned \in Nat \ {0} /\ (reg > 0 => aligned % reg = 0)
  <2>1. CASE range <= a
    <3>1. aligned = range /\ (reg > 0 => reg \in {1, range})
      BY <1>2, <1>3, <1>4, <2>1 DEF AlignTile
    <3> QED
      BY <1>2, <3>1, TrivialMultiples
  <2>2. CASE range > a
    <3>1. aligned = AlignDown(range, a)
      BY <1>2, <2>2 DEF AlignTile
    <3>2. aligned \in Nat \ {0} /\ aligned % a = 0
      BY <1>2, <2>2, <3>1, AlignDownBounds, AlignDownMultiple
    <3>3. reg > 0 => reg \in {1, a}
      BY <1>2, <1>3, <2>2
    <3> QED
      BY <3>2, <3>3, TrivialMultiples
  <2> QED
    BY <1>2, <2>1, <2>2
<1> HIDE DEF aligned
<1>7. CutsEvenly(reg, FirstTile(d, a))
  BY <1>5, <1>6 DEF CutsEvenly
<1> QED
  BY <1>7 DEF a, reg

\* and halving keeps them even.
LEMMA HalfEven ==
  ASSUME InputOK, ConfigOK, ShapeOK, DOMAIN config # {},
         NEW c \in 1 .. 4, NEW d \in Class(Root)[c],
         NEW size \in Nat, size <= Root.ranges[d], size >= 2 * RegisterAlign[c]
  PROVE  CutsEvenly(RegTile(d), AlignDown(size \div 2, RegisterAlign[c]))
<1> DEFINE a == RegisterAlign[c]
           range == Root.ranges[d]
           reg == RegTile(d)
           half == size \div 2
<1>1. d \in Loops(Root) /\ Tilable
  BY ClassLoops DEF ConfigOK
<1>2. a \in Nat \ {0} /\ range \in Nat \ {0} /\ reg \in Nat
  BY <1>1, RegisterAlignType, Ranges, RegTileType
<1>3. reg <= a /\ reg \in {0, 1, range, a}
  BY AlignIsLargest
<1>4. size <= range /\ size >= 2 * a
  OBVIOUS
<1> HIDE DEF a, range, reg
<1>5. reg > 0 => reg \in {1, a}
  BY <1>2, <1>3, <1>4
<1>6. half \in Nat /\ half >= a
  BY <1>2, <1>4
<1> HIDE DEF half
<1>7. AlignDown(half, a) \in Nat \ {0} /\ AlignDown(half, a) % a = 0
  BY <1>2, <1>6, AlignDownBounds, AlignDownMultiple
<1>8. CutsEvenly(reg, AlignDown(half, a))
  BY <1>5, <1>7, TrivialMultiples DEF CutsEvenly
<1> QED
  BY <1>8 DEF a, reg, half

\* The classes of parallel loops do not overlap, and none holds a reduction.
LEMMA ClassesApart ==
  ASSUME InputOK, Tilable, NEW d \in Loops(Root)
  PROVE  /\ d \in VectorLoops(Root) => d \notin UnrollLoops(Root) \cup BatchLoops(Root)
         /\ d \in UnrollLoops(Root) => d \notin BatchLoops(Root)
         /\ d \in ReductionLoops(Root) =>
              d \notin VectorLoops(Root) \cup UnrollLoops(Root) \cup BatchLoops(Root)
<1>1. /\ UnrollLoops(Root) \subseteq ParallelLoops(Root)
      /\ BatchLoops(Root) \subseteq ParallelLoops(Root)
      /\ VectorLoops(Root) \subseteq ParallelLoops(Root)
  BY DEF UnrollLoops, BatchLoops, VectorLoops
<1>2. d \in ReductionLoops(Root) => d \notin ParallelLoops(Root)
  BY Ranges
<1>3. d \in UnrollLoops(Root) => d \notin BatchLoops(Root)
  BY DEF UnrollLoops, BatchLoops
<1> QED
  BY <1>1, <1>2, <1>3 DEF VectorLoops

\* What the register pass gives to the loops of each class.
LEMMA RegisterShape ==
  ASSUME InputOK, Tilable, NEW d \in Loops(Root)
  PROVE  /\ d \in ReductionLoops(Root) =>
              /\ RegisterParallel[d] = 0
              /\ RegisterReduction[d] = Least(Root.ranges[d], Alignments.reduction)
         /\ d \notin ReductionLoops(Root) => RegisterReduction[d] = 0
         /\ UnrollLoops(Root) = {} =>
              /\ d \in VectorLoops(Root) =>
                   RegisterParallel[d] = IF d = MaxOf(VectorLoops(Root))
                                         THEN Least(Root.ranges[d], VectorWidth) ELSE 1
              /\ d \in BatchLoops(Root) => RegisterParallel[d] = 1
         /\ UnrollLoops(Root) # {} =>
              /\ d \in VectorLoops(Root) =>
                   RegisterParallel[d] = Least(Root.ranges[d], Alignments.vector)
              /\ d \in UnrollLoops(Root) =>
                   RegisterParallel[d] = UnrollTile(Least(Root.ranges[d], Alignments.unroll))
              /\ d \in BatchLoops(Root) =>
                   RegisterParallel[d] = IF HasMatrix THEN 1
                                         ELSE Least(Root.ranges[d], Alignments.vector)
<1>1. /\ d \in VectorLoops(Root) => d \notin UnrollLoops(Root) \cup BatchLoops(Root)
      /\ d \in UnrollLoops(Root) => d \notin BatchLoops(Root)
      /\ d \in ReductionLoops(Root) =>
           d \notin VectorLoops(Root) \cup UnrollLoops(Root) \cup BatchLoops(Root)
  BY ClassesApart
<1> QED
  BY <1>1 DEF RegisterParallel, RegisterReduction

\* A class whose register tiles are cut from one size has the shape.
LEMMA OneSize ==
  ASSUME InputOK, Tilable, NEW C, C \subseteq Loops(Root), NEW a \in Nat,
         NEW f, \A d \in C : f[d] = Least(Root.ranges[d], a), NEW d \in C
  PROVE  f[d] = Root.ranges[d] \/ \A e \in C : f[e] <= f[d]
<1>1. \A e \in C : Root.ranges[e] \in Nat
  BY Ranges
<1> QED
  BY <1>1 DEF Least

\* The register pass gives a class such tiles.
LEMMA RegisterEven ==
  ASSUME InputOK, Tilable, NEW c \in 1 .. 4, NEW d \in Class(Root)[c]
  PROVE  LET f == IF c = 4 THEN RegisterReduction ELSE RegisterParallel
         IN  \/ f[d] \in {0, 1, Root.ranges[d]}
             \/ \A e \in Class(Root)[c] : f[e] <= f[d]
<1>1. Class(Root)[c] \subseteq Loops(Root)
  BY ClassLoops
<1>2. VectorWidth \in Nat \ {0}
  BY Width
<1>3. CASE c = 4
  <2>1. Class(Root)[c] = ReductionLoops(Root)
    BY <1>3 DEF Class
  <2>2. \A e \in Class(Root)[c] : RegisterReduction[e] = Least(Root.ranges[e], Alignments.reduction)
    BY <1>1, <2>1, RegisterShape
  <2>3. Alignments.reduction \in Nat
    BY AlignmentTypes
  <2>4. RegisterReduction[d] = Root.ranges[d]
        \/ \A e \in Class(Root)[c] : RegisterReduction[e] <= RegisterReduction[d]
    BY <1>1, <2>2, <2>3, OneSize
  <2> QED
    BY <1>3, <2>4
<1>4. CASE c # 4 /\ UnrollLoops(Root) = {}
  <2>1. CASE c = 1
    <3>1. Class(Root)[c] = VectorLoops(Root)
      BY <2>1 DEF Class
    <3>2. \A e \in Class(Root)[c] :
            /\ Root.ranges[e] \in Nat \ {0}
            /\ RegisterParallel[e] = IF e = MaxOf(VectorLoops(Root))
                                     THEN Least(Root.ranges[e], VectorWidth) ELSE 1
      BY <1>1, <1>4, <3>1, RegisterShape, Ranges
    <3>3. RegisterParallel[d] = 1 \/ \A e \in Class(Root)[c] : RegisterParallel[e] <= RegisterParallel[d]
      BY <1>2, <3>2 DEF Least
    <3> QED
      BY <1>4, <3>3
  <2>2. CASE c = 2
    BY <1>4, <2>2 DEF Class
  <2>3. CASE c = 3
    <3>1. RegisterParallel[d] = 1
      BY <1>1, <1>4, <2>3, RegisterShape DEF Class
    <3> QED
      BY <1>4, <3>1
  <2> QED
    BY <1>4, <2>1, <2>2, <2>3
<1>5. CASE c # 4 /\ UnrollLoops(Root) # {}
  <2>1. Alignments.vector \in Nat /\ Alignments.unroll \in Nat
    BY <1>5, AlignmentTypes
  <2>2. CASE c = 1 \/ (c = 3 /\ ~HasMatrix)
    <3>1. \A e \in Class(Root)[c] : RegisterParallel[e] = Least(Root.ranges[e], Alignments.vector)
      BY <1>1, <1>5, <2>2, RegisterShape DEF Class
    <3>2. RegisterParallel[d] = Root.ranges[d]
          \/ \A e \in Class(Root)[c] : RegisterParallel[e] <= RegisterParallel[d]
      BY <1>1, <2>1, <3>1, OneSize
    <3> QED
      BY <1>5, <3>2
  <2>3. CASE c = 3 /\ HasMatrix
    <3>1. RegisterParallel[d] = 1
      BY <1>1, <1>5, <2>3, RegisterShape DEF Class
    <3> QED
      BY <1>5, <3>1
  <2>4. CASE c = 2
    <3>1. \A e \in Class(Root)[c] :
            /\ Root.ranges[e] \in Nat \ {0}
            /\ RegisterParallel[e] = UnrollTile(Least(Root.ranges[e], Alignments.unroll))
      BY <1>1, <1>5, <2>4, RegisterShape, Ranges DEF Class
    <3>2. RegisterParallel[d] \in {0, 1, Root.ranges[d]}
          \/ \A e \in Class(Root)[c] : RegisterParallel[e] <= RegisterParallel[d]
      BY <2>1, <3>1 DEF Least, UnrollTile
    <3> QED
      BY <1>5, <3>2
  <2> QED
    BY <1>5, <2>2, <2>3, <2>4
<1> QED
  BY <1>3, <1>4, <1>5

\* Nothing is tiled when the passes start.
LEMMA InitEven == Init => EvenInv
<1>1. Init => Inv
  BY InitInv
<1> QED
  BY <1>1 DEF Init, EvenInv, ShapeOK, EvenSearch, EvenConfig

\* Every pass and every iteration of the search keeps the tiles even.
LEMMA StepEven == EvenInv /\ [Next]_vars => EvenInv'
<1> SUFFICES ASSUME EvenInv, [Next]_vars PROVE EvenInv'
  OBVIOUS
<1> USE DEF Root, Loops
<1>1. input' = input
  BY DEF Next, vars, Skip, AnalysisFailure, Finish, Register, DtcmWithoutRegister, DtcmStart,
         Shrink, FallBack, GiveUp, Accept, WorkgroupMissing, Workgroup, Stop
<1>2. Inv /\ Inv' /\ InputOK /\ ConfigOK /\ ShapeOK
  BY StepInv DEF EvenInv, Inv
<1>3. MaxParallelTileSize' = MaxParallelTileSize
  BY <1>1 DEF MaxParallelTileSize, HasMatrix
<1>4. ASSUME config' = config
      PROVE  /\ ShapeOK' /\ EvenConfig' /\ RegisterAlign' = RegisterAlign
             /\ \A d : RegTile(d)' = RegTile(d)
  <2>1. ShapeOK'
    BY <1>1, <1>2, <1>4 DEF ShapeOK, Shape, RegTile, ClassLevel
  <2>2. EvenConfig'
    BY <1>1, <1>3, <1>4 DEF EvenInv, EvenConfig, CutsEvenly, CacheTile, RegTile
  <2>3. RegisterAlign' = RegisterAlign
    BY <1>1, <1>4 DEF RegisterAlign, LargestTile
  <2>4. \A d : RegTile(d)' = RegTile(d)
    BY <1>4 DEF RegTile
  <2> QED
    BY <2>1, <2>2, <2>3, <2>4
<1>5. ASSUME config' = config, pc' # "shrink" PROVE EvenInv'
  BY <1>2, <1>4, <1>5 DEF EvenInv, EvenSearch
<1>6. CASE UNCHANGED vars
  <2>1. EvenSearch'
    BY <1>1, <1>3, <1>4, <1>6 DEF vars, EvenInv, EvenSearch, CutsEvenly
  <2> QED
    BY <1>2, <1>4, <1>6, <2>1 DEF vars, EvenInv
<1>7. CASE Skip \/ AnalysisFailure \/ Finish \/ DtcmWithoutRegister \/ GiveUp \/ WorkgroupMissing
  BY <1>5, <1>7 DEF Skip, AnalysisFailure, Finish, DtcmWithoutRegister, GiveUp,
                    WorkgroupMissing, Stop
<1>8. CASE Register
  <2>1. Tilable
    BY <1>8 DEF Register, Ready, Applies, Tilable
  <2>2. pc' # "shrink"
    BY <1>8 DEF Register, Ready, Enter
  <2>3. /\ DOMAIN config' = Register2
        /\ config'["vector_reduction"] = RegisterReduction
        /\ config'["vector_common_parallel"] = RegisterParallel
    BY <1>8 DEF Register, Register2
  <2>4. ASSUME NEW c \in 1 .. 4, NEW d \in Class(Root)[c]
        PROVE  RegTile(d)' = (IF c = 4 THEN RegisterReduction ELSE RegisterParallel)[d]
    <3>1. d \in Loops(Root)
      BY ClassLoops
    <3>2. RegTile(d)' = RegisterParallel[d] + RegisterReduction[d]
      BY <2>3 DEF RegTile
    <3>3. RegisterParallel[d] \in Nat /\ RegisterReduction[d] \in Nat
      BY <1>2, <2>1, <3>1, RegisterTypes
    <3>4. CASE c = 4
      <4>1. RegisterParallel[d] = 0
        BY <1>2, <2>1, <3>1, <3>4, RegisterShape DEF Class
      <4> QED
        BY <3>2, <3>3, <3>4, <4>1
    <3>5. CASE c # 4
      <4>1. d \notin ReductionLoops(Root)
        BY <1>2, <2>1, <3>1, <3>5, ClassesApart DEF Class
      <4>2. RegisterReduction[d] = 0
        BY <1>2, <2>1, <3>1, <4>1, RegisterShape
      <4> QED
        BY <3>2, <3>3, <3>5, <4>2
    <3> QED
      BY <3>4, <3>5
  <2>5. ASSUME NEW c \in 1 .. 4, NEW d \in Class(Root)[c]
        PROVE  RegTile(d)' = config'[ClassLevel(c)][d] /\ Shape(c, d)'
    <3> DEFINE f == IF c = 4 THEN RegisterReduction ELSE RegisterParallel
    <3>1. \/ f[d] \in {0, 1, Root.ranges[d]}
          \/ \A e \in Class(Root)[c] : f[e] <= f[d]
      BY <1>2, <2>1, RegisterEven
    <3>2. \A e \in Class(Root)[c] : RegTile(e)' = f[e]
      BY <2>4
    <3>3. config'[ClassLevel(c)] = f
      BY <2>3 DEF ClassLevel
    <3> HIDE DEF f
    <3>4. Shape(c, d)'
      BY <1>1, <3>1, <3>2 DEF Shape
    <3> QED
      BY <3>2, <3>3, <3>4
  <2>6. ShapeOK'
    BY <1>1, <2>5 DEF ShapeOK, ClassLevel
  <2>7. EvenConfig' /\ EvenSearch'
    BY <2>2, <2>3 DEF EvenConfig, EvenSearch, Register2
  <2> QED
    BY <1>2, <2>6, <2>7 DEF EvenInv
<1>9. CASE DtcmStart
  <2>1. /\ config' = config /\ DOMAIN config # {} /\ align' = RegisterAlign
        /\ tiles' = [d \in Loops(Root) |-> FirstTile(d, RegisterAlign[ClassOf(d)])]
    BY <1>9 DEF DtcmStart
  <2>2. \A d \in Loops(Root) : CutsEvenly(RegTile(d), tiles'[d])
    BY <1>2, <2>1, FirstTileEven
  <2>3. EvenSearch'
    BY <1>1, <1>3, <1>4, <2>1, <2>2 DEF EvenSearch, CutsEvenly
  <2> QED
    BY <1>2, <1>4, <2>1, <2>3 DEF EvenInv
<1>10. CASE Shrink
  <2>1. /\ pc = "shrink" /\ pc' = pc /\ config' = config /\ align' = align /\ fallback' = fallback
    BY <1>10 DEF Shrink
  <2>2. /\ Tilable /\ DOMAIN config # {} /\ align \in [1 .. 4 -> Nat \ {0}]
        /\ tiles \in [Loops(Root) -> Nat]
        /\ \A d \in Loops(Root) : tiles[d] \in 1 .. Root.ranges[d]
    BY <1>2, <2>1 DEF Inv, SearchOK
  <2>3. PICK c \in 1 .. 4 :
          /\ CanShrink(c) # {}
          /\ tiles' = [tiles EXCEPT ![MinOf(CanShrink(c))] = AlignDown(@ \div 2, align[c])]
    BY <1>10 DEF Shrink
  <2> DEFINE m == MinOf(CanShrink(c))
  <2>4. m \in Loops(Root) /\ m \in Class(Root)[c] /\ tiles[m] >= 2 * align[c]
    <3>1. CanShrink(c) \subseteq Loops(Root)
      BY ClassLoops DEF CanShrink
    <3>2. Loops(Root) \subseteq Nat
      BY <1>2, RootAssumption DEF InputOK
    <3>3. m \in CanShrink(c)
      BY <2>3, <3>1, <3>2, MinExists
    <3> QED
      BY <3>1, <3>3 DEF CanShrink
  <2>5. tiles' = [tiles EXCEPT ![m] = AlignDown(tiles[m] \div 2, align[c])]
    BY <2>3
  <2> HIDE DEF m
  <2>6. ASSUME ~fallback
        PROVE  \A d \in Loops(Root) : CutsEvenly(RegTile(d), tiles'[d])
    <3>1. align = RegisterAlign /\ \A d \in Loops(Root) : CutsEvenly(RegTile(d), tiles[d])
      BY <2>1, <2>6 DEF EvenInv, EvenSearch
    <3>2. tiles[m] \in Nat /\ tiles[m] <= Root.ranges[m] /\ tiles[m] >= 2 * RegisterAlign[c]
      <4>1. Root.ranges[m] \in Nat
        BY <1>2, <2>2, <2>4, Ranges
      <4> QED
        BY <2>2, <2>4, <3>1, <4>1
    <3>3. CutsEvenly(RegTile(m), AlignDown(tiles[m] \div 2, RegisterAlign[c]))
      BY <1>2, <2>2, <2>4, <3>2, HalfEven
    <3>4. tiles'[m] = AlignDown(tiles[m] \div 2, RegisterAlign[c])
      BY <2>2, <2>4, <2>5, <3>1
    <3>5. \A d \in Loops(Root) : d # m => tiles'[d] = tiles[d]
      BY <2>2, <2>5
    <3> QED
      BY <3>1, <3>3, <3>4, <3>5
  <2>7. EvenSearch'
    BY <1>1, <1>3, <1>4, <2>1, <2>6 DEF EvenInv, EvenSearch, CutsEvenly
  <2> QED
    BY <1>2, <1>4, <2>1, <2>7 DEF EvenInv
<1>11. CASE FallBack
  <2>1. config' = config /\ fallback'
    BY <1>11 DEF FallBack
  <2> QED
    BY <1>2, <1>4, <2>1 DEF EvenInv, EvenSearch
<1>12. CASE Accept
  <2>1. /\ pc = "shrink" /\ pc' = "pass"
        /\ config' = IF fallback THEN With(With(config, CacheItems), FallbackItems)
                                 ELSE With(config, CacheItems)
    BY <1>12 DEF Accept
  <2>2. /\ Tilable /\ DOMAIN config # {} /\ tiles \in [Loops(Root) -> Nat]
        /\ \A d \in Loops(Root) : tiles[d] \in 1 .. Root.ranges[d]
    BY <1>2, <2>1 DEF Inv, SearchOK
  <2>3. Register2 \subseteq DOMAIN config
    BY <1>2, <2>2 DEF ConfigOK
  <2>4. /\ config'["cache_parallel"] = Only(ParallelLoops(Root), tiles)
        /\ config'["cache_reduction"] = Only(ReductionLoops(Root), tiles)
        /\ \A l \in Register2 : config'[l] = IF fallback THEN FallbackItems[l] ELSE config[l]
    BY <2>1, <2>3 DEF With, CacheItems, FallbackItems, Register2
  <2>5. ASSUME NEW d \in Loops(Root) PROVE CacheTile(d)' = tiles[d]
    <3>1. d \in ParallelLoops(Root) <=> d \notin ReductionLoops(Root)
      BY <1>2, <2>2, Ranges
    <3> QED
      BY <2>2, <2>4, <3>1 DEF CacheTile, Only
  <2>6. CASE ~fallback
    <3>1. /\ config'["vector_common_parallel"] = config["vector_common_parallel"]
          /\ config'["vector_reduction"] = config["vector_reduction"]
      BY <2>4, <2>6 DEF Register2
    <3>2. \A d : RegTile(d)' = RegTile(d)
      BY <3>1 DEF RegTile
    <3>3. \A d \in Loops(Root) : CutsEvenly(RegTile(d), tiles[d])
      BY <2>1, <2>6 DEF EvenInv, EvenSearch
    <3>4. EvenConfig'
      BY <1>1, <1>3, <2>5, <3>2, <3>3 DEF EvenConfig, CutsEvenly
    <3>5. \A c \in 1 .. 4 : config'[ClassLevel(c)] = config[ClassLevel(c)]
      BY <3>1 DEF ClassLevel
    <3>6. ShapeOK'
      BY <1>1, <1>2, <2>2, <3>2, <3>5 DEF ShapeOK, Shape, ClassLevel
    <3> QED
      BY <1>2, <2>1, <3>4, <3>6 DEF EvenInv, EvenSearch
  <2>7. CASE fallback
    <3> DEFINE p == FallbackItems["vector_common_parallel"]
               r == FallbackItems["vector_reduction"]
    <3>1. ASSUME NEW d \in Loops(Root)
          PROVE  /\ p[d] \in {0, 1} /\ r[d] \in {0, 1}
                 /\ d \in ReductionLoops(Root) => p[d] = 0
                 /\ d \notin ReductionLoops(Root) => r[d] = 0
      <4>1. Least(tiles[d], 1) \in {0, 1}
        BY <2>2 DEF Least
      <4>2. d \in ReductionLoops(Root) => d \notin VectorLoops(Root) \cup UnrollLoops(Root)
        BY <1>2, <2>2, ClassesApart
      <4> QED
        BY <4>1, <4>2 DEF FallbackItems, Only
    <3>2. config'["vector_common_parallel"] = p /\ config'["vector_reduction"] = r
      BY <2>4, <2>7 DEF Register2
    <3> HIDE DEF p, r
    <3>3. ASSUME NEW d \in Loops(Root)
          PROVE  /\ RegTile(d)' \in {0, 1}
                 /\ RegTile(d)' = IF d \in ReductionLoops(Root) THEN r[d] ELSE p[d]
      BY <3>1, <3>2 DEF RegTile
    <3>4. EvenConfig'
      <4>1. ASSUME NEW d \in Loops(Root) PROVE CutsEvenly(RegTile(d), CacheTile(d))'
        <5>1. CacheTile(d)' \in Nat \ {0}
          <6>1. Root.ranges[d] \in Nat
            BY <1>2, <2>2, Ranges
          <6> QED
            BY <2>2, <2>5, <6>1
        <5> QED
          BY <3>3, <5>1, TrivialMultiples DEF CutsEvenly
      <4> QED
        BY <1>1, <4>1 DEF EvenConfig
    <3>5. ASSUME NEW c \in 1 .. 4, NEW d \in Class(Root)[c]
          PROVE  RegTile(d)' = config'[ClassLevel(c)][d] /\ Shape(c, d)'
      <4>1. d \in Loops(Root)
        BY ClassLoops
      <4>2. d \in ReductionLoops(Root) <=> c = 4
        BY <1>2, <2>2, <4>1, ClassesApart DEF Class
      <4>3. RegTile(d)' = config'[ClassLevel(c)][d]
        BY <3>2, <3>3, <4>1, <4>2 DEF ClassLevel
      <4> QED
        BY <3>3, <4>1, <4>3 DEF Shape
    <3>6. ShapeOK'
      BY <1>1, <3>5 DEF ShapeOK, ClassLevel
    <3> QED
      BY <1>2, <2>1, <3>4, <3>6 DEF EvenInv, EvenSearch
  <2> QED
    BY <2>6, <2>7
<1>13. CASE Workgroup
  <2>1. /\ pc' # "shrink" /\ DOMAIN config # {}
        /\ "cache_parallel" \in DOMAIN config
        /\ \A l \in Register2 \cup {"cache_parallel", "cache_reduction"} :
             l \in DOMAIN config => config'[l] = config[l]
    BY <1>13 DEF Workgroup, Ready, Enter, With, Register2
  <2>2. Register2 \cup {"cache_parallel", "cache_reduction"} \subseteq DOMAIN config
    BY <1>2, <2>1 DEF ConfigOK
  <2>3. \A l \in Register2 \cup {"cache_parallel", "cache_reduction"} : config'[l] = config[l]
    BY <2>1, <2>2
  <2>4. \A d : RegTile(d)' = RegTile(d) /\ CacheTile(d)' = CacheTile(d)
    BY <2>3 DEF RegTile, CacheTile, Register2
  <2>5. \A c \in 1 .. 4 : config'[ClassLevel(c)] = config[ClassLevel(c)]
    BY <2>3 DEF ClassLevel, Register2
  <2>6. ShapeOK'
    BY <1>1, <1>2, <2>1, <2>4, <2>5 DEF ShapeOK, Shape, ClassLevel
  <2>7. EvenConfig'
    BY <1>1, <1>3, <2>1, <2>4 DEF EvenInv, EvenConfig, CutsEvenly
  <2> QED
    BY <1>2, <2>1, <2>6, <2>7 DEF EvenInv, EvenSearch
<1> QED
  BY <1>6, <1>7, <1>8, <1>9, <1>10, <1>11, <1>12, <1>13 DEF Next

\* Whatever the root operation, the target and the options, the register tiles
\* cut the cache tiles evenly however the DTCM pass shrank and fell back; the
\* only exception is a tile at the cap, which is applied after aligning.
THEOREM RegisterTilesDivide == Spec => []MultiplesUnlessCapped
<1>1. EvenInv => MultiplesUnlessCapped
  BY DEF EvenInv, EvenConfig, CutsEvenly, RegTile, MultiplesUnlessCapped, Configured
<1> QED
  BY <1>1, InitEven, StepEven, PTL DEF Spec

-----------------------------------------------------------------------------
(* Sums and products over finite sets.                                     *)

\* What a sum or a product over a finite set takes next, and its value from that
\* of the rest.
Taken(s) == CHOOSE x \in s : TRUE
Combine(times, a, b) == IF times THEN a * b ELSE a + b
Neutral(times) == IF times THEN 1 ELSE 0
FoldStep(times, c, g, s) ==
  IF s = {} THEN Neutral(times) ELSE Combine(times, c[Taken(s)], g[s \ {Taken(s)}])

\* g is the value of the fold of c over each subset of its domain.
IsFold(times, c, g) == g = [s \in SUBSET (DOMAIN c) |-> FoldStep(times, c, g, s)]

\* Taking an element of a set leaves a smaller set.
LEMMA Rest ==
  ASSUME NEW S, IsFiniteSet(S), NEW s \in SUBSET S, s # {}
  PROVE  /\ IsFiniteSet(s) /\ Taken(s) \in s /\ s \ {Taken(s)} \in SUBSET S
         /\ Cardinality(s) \in Nat /\ Cardinality(s) >= 1
         /\ Cardinality(s \ {Taken(s)}) = Cardinality(s) - 1
<1>1. IsFiniteSet(s) /\ Taken(s) \in s
  BY FS_Subset DEF Taken
<1>2. Cardinality(s) \in Nat /\ Cardinality(s) # 0
  BY <1>1, FS_CardinalityType, FS_EmptySet
<1>3. Cardinality(s \ {Taken(s)}) = Cardinality(s) - 1
  BY <1>1, FS_RemoveElement
<1> QED
  BY <1>1, <1>2, <1>3

\* Induction on the naturals, for a set of naturals,
LEMMA NatSets ==
  ASSUME NEW T, 0 \in T, \A n \in Nat : n \in T => n + 1 \in T
  PROVE  \A n \in Nat : n \in T
<1> SUFFICES ASSUME \E n \in Nat : n \notin T PROVE FALSE
  OBVIOUS
<1> DEFINE B == {n \in Nat : n \notin T}
<1>1. PICK m \in B : \A y \in B : m <= y
  <2>1. B \subseteq Nat /\ B # {}
    OBVIOUS
  <2> QED
    BY <2>1, LeastElement
<1>2. m \in Nat /\ m # 0 /\ m \notin T
  BY <1>1
<1>3. m - 1 \in Nat /\ m - 1 \notin B
  BY <1>1, <1>2
<1>4. (m - 1) + 1 \in T
  BY <1>3
<1> QED
  BY <1>2, <1>4

\* and on the subsets of a finite set.
LEMMA SetSets ==
  ASSUME NEW S, IsFiniteSet(S), NEW T, {} \in T,
         \A s \in SUBSET S : s # {} /\ s \ {Taken(s)} \in T => s \in T
  PROVE  \A s \in SUBSET S : s \in T
<1> DEFINE N == {n \in Nat : \A s \in SUBSET S : Cardinality(s) = n => s \in T}
<1>1. 0 \in N
  <2>1. ASSUME NEW s \in SUBSET S, Cardinality(s) = 0 PROVE s = {}
    BY <2>1, FS_Subset, FS_EmptySet
  <2> QED
    BY <2>1
<1>2. ASSUME NEW n \in Nat, n \in N PROVE n + 1 \in N
  <2>1. ASSUME NEW s \in SUBSET S, Cardinality(s) = n + 1 PROVE s \in T
    <3>1. CASE s = {}
      BY <3>1
    <3>2. CASE s # {}
      <4> DEFINE t == s \ {Taken(s)}
      <4>1. t \in SUBSET S /\ Cardinality(t) = Cardinality(s) - 1
        BY <3>2, Rest
      <4> HIDE DEF t
      <4>2. t \in T
        BY <1>2, <2>1, <4>1
      <4> USE DEF t
      <4> QED
        BY <3>2, <4>2
    <3> QED
      BY <3>1, <3>2
  <2> QED
    BY <2>1
<1> HIDE DEF N
<1>3. \A n \in Nat : n \in N
  BY <1>1, <1>2, NatSets
<1>4. ASSUME NEW s \in SUBSET S PROVE Cardinality(s) \in Nat
  BY FS_Subset, FS_CardinalityType
<1> QED
  BY <1>3, <1>4 DEF N

\* A finite sum or product exists.
LEMMA FoldExists ==
  ASSUME NEW c, IsFiniteSet(DOMAIN c), NEW times \in BOOLEAN
  PROVE  \E g : IsFold(times, c, g)
<1> DEFINE S == DOMAIN c
           D(n) == {s \in SUBSET S : Cardinality(s) <= n}
           N == {n \in Nat : \E g : g = [s \in D(n) |-> FoldStep(times, c, g, s)]}
<1>1. \A s \in SUBSET S : IsFiniteSet(s) /\ Cardinality(s) \in Nat /\ Cardinality(s) <= Cardinality(S)
  BY FS_Subset, FS_CardinalityType
<1>2. 0 \in N
  <2> DEFINE g == [s \in D(0) |-> Neutral(times)]
  <2>1. \A s \in D(0) : s = {}
    BY <1>1, FS_EmptySet
  <2>2. g = [s \in D(0) |-> FoldStep(times, c, g, s)]
    BY <2>1 DEF FoldStep
  <2> QED
    BY <2>2
<1>3. ASSUME NEW n \in Nat, n \in N PROVE n + 1 \in N
  <2>1. PICK h : h = [s \in D(n) |-> FoldStep(times, c, h, s)]
    BY <1>3
  <2> DEFINE g == [s \in D(n + 1) |-> FoldStep(times, c, h, s)]
  <2>2. ASSUME NEW s \in D(n) PROVE g[s] = h[s]
    <3>1. s \in D(n + 1)
      BY <1>1
    <3> QED
      BY <2>1, <3>1
  <2>3. ASSUME NEW s \in D(n + 1) PROVE FoldStep(times, c, h, s) = FoldStep(times, c, g, s)
    <3>1. CASE s = {}
      BY <3>1 DEF FoldStep
    <3>2. CASE s # {}
      <4> DEFINE t == s \ {Taken(s)}
      <4>1. t \in D(n)
        <5>1. s \in SUBSET S /\ Cardinality(s) <= n + 1
          OBVIOUS
        <5>2. t \in SUBSET S /\ Cardinality(t) = Cardinality(s) - 1 /\ Cardinality(s) \in Nat
          BY <3>2, <5>1, Rest
        <5> HIDE DEF t
        <5> QED
          BY <5>1, <5>2
      <4>2. g[s \ {Taken(s)}] = h[s \ {Taken(s)}]
        BY <2>2, <4>1
      <4> HIDE DEF g
      <4> QED
        BY <4>2 DEF FoldStep
    <3> QED
      BY <3>1, <3>2
  <2>4. g = [s \in D(n + 1) |-> FoldStep(times, c, g, s)]
    <3>1. g = [s \in D(n + 1) |-> FoldStep(times, c, h, s)]
      OBVIOUS
    <3> HIDE DEF g
    <3> QED
      BY <2>3, <3>1
  <2> HIDE DEF g
  <2>5. \E k : k = [s \in D(n + 1) |-> FoldStep(times, c, k, s)]
    BY <2>4
  <2>6. n + 1 \in Nat
    OBVIOUS
  <2> HIDE DEF D
  <2> QED
    BY <2>5, <2>6
<1> HIDE DEF N
<1>4. \A n \in Nat : n \in N
  BY <1>2, <1>3, NatSets
<1>5. D(Cardinality(S)) = SUBSET S
  BY <1>1
<1>6. Cardinality(S) \in N
  BY <1>4, FS_CardinalityType
<1>7. PICK g : g = [s \in D(Cardinality(S)) |-> FoldStep(times, c, g, s)]
  BY <1>6 DEF N
<1> QED
  BY <1>5, <1>7 DEF IsFold

\* What the definitions of SumFunction and Product expand to.
SumFold(c) ==
  CHOOSE g : g = [s \in SUBSET (DOMAIN c) |->
                    IF s = {} THEN 0
                    ELSE c[CHOOSE x \in s : TRUE] + g[s \ {CHOOSE x \in s : TRUE}]]

ProductFold(c) ==
  CHOOSE g : g = [s \in SUBSET (DOMAIN c) |->
                    IF s = {} THEN 1
                    ELSE c[CHOOSE x \in s : TRUE] * g[s \ {CHOOSE x \in s : TRUE}]]

\* The sum of a function is that sum,
LEMMA SumIsFold ==
  ASSUME NEW c, IsFiniteSet(DOMAIN c)
  PROVE  \E g : IsFold(FALSE, c, g) /\ SumFunction(c) = g[DOMAIN c]
<1>1. PICK h : IsFold(FALSE, c, h)
  BY FoldExists
<1>2. h = [s \in SUBSET (DOMAIN c) |->
             IF s = {} THEN 0 ELSE c[CHOOSE x \in s : TRUE] + h[s \ {CHOOSE x \in s : TRUE}]]
  BY <1>1 DEF IsFold, FoldStep, Combine, Neutral, Taken
<1>3. SumFold(c) = [s \in SUBSET (DOMAIN c) |->
             IF s = {} THEN 0
             ELSE c[CHOOSE x \in s : TRUE] + SumFold(c)[s \ {CHOOSE x \in s : TRUE}]]
  BY <1>2 DEF SumFold
<1>4. IsFold(FALSE, c, SumFold(c))
  BY <1>3 DEF IsFold, FoldStep, Combine, Neutral, Taken
<1>5. SumFunction(c) = SumFold(c)[DOMAIN c]
  BY Zenon DEF SumFunction, SumFunctionOnSet, FoldFunctionOnSet, MapThenFoldSet, SumFold
<1> QED
  BY <1>4, <1>5

\* and so is its product.
LEMMA ProductIsFold ==
  ASSUME NEW c, IsFiniteSet(DOMAIN c)
  PROVE  \E g : IsFold(TRUE, c, g) /\ Product(c) = g[DOMAIN c]
<1>1. PICK h : IsFold(TRUE, c, h)
  BY FoldExists
<1>2. h = [s \in SUBSET (DOMAIN c) |->
             IF s = {} THEN 1 ELSE c[CHOOSE x \in s : TRUE] * h[s \ {CHOOSE x \in s : TRUE}]]
  BY <1>1 DEF IsFold, FoldStep, Combine, Neutral, Taken
<1>3. ProductFold(c) = [s \in SUBSET (DOMAIN c) |->
             IF s = {} THEN 1
             ELSE c[CHOOSE x \in s : TRUE] * ProductFold(c)[s \ {CHOOSE x \in s : TRUE}]]
  BY <1>2 DEF ProductFold
<1>4. IsFold(TRUE, c, ProductFold(c))
  BY <1>3 DEF IsFold, FoldStep, Combine, Neutral, Taken
<1>5. Product(c) = ProductFold(c)[DOMAIN c]
  BY Zenon DEF Product, FoldFunction, FoldFunctionOnSet, MapThenFoldSet, ProductFold
<1> QED
  BY <1>4, <1>5

\* Adding and multiplying stay within the integers and the naturals and are
\* monotone.
LEMMA CombineTypes ==
  ASSUME NEW times \in BOOLEAN
  PROVE  /\ \A a, b \in Int : Combine(times, a, b) \in Int
         /\ \A a, b \in Nat : Combine(times, a, b) \in Nat
         /\ \A a, b, u, v \in Int :
              (times => a >= 0 /\ b >= 0) /\ a <= u /\ b <= v
                => Combine(times, a, b) <= Combine(times, u, v)
<1>1. \A a, b \in Nat : a * b \in Nat
  OBVIOUS
<1>2. ASSUME NEW a \in Nat, NEW b \in Nat, NEW u \in Int, NEW v \in Int, a <= u, b <= v
      PROVE  a * b <= u * v
  <2>1. a * b <= u * b
    BY <1>2
  <2>2. u * b <= u * v
    BY <1>2
  <2> DEFINE p == a * b
             q == u * b
             w == u * v
  <2>3. p \in Int /\ q \in Int /\ w \in Int /\ p <= q /\ q <= w
    BY <2>1, <2>2
  <2> HIDE DEF p, q, w
  <2>4. p <= w
    BY <2>3
  <2> QED
    BY <2>4 DEF p, w
<1> QED
  BY <1>1, <1>2 DEF Combine

\* So are sums and products of any number of terms:
LEMMA FoldType ==
  ASSUME NEW c, IsFiniteSet(DOMAIN c), NEW times \in BOOLEAN, NEW g, IsFold(times, c, g),
         NEW V, V = Int \/ V = Nat, \A x \in DOMAIN c : c[x] \in V
  PROVE  \A s \in SUBSET (DOMAIN c) : g[s] \in V
<1> DEFINE S == DOMAIN c
           T == {s \in SUBSET S : g[s] \in V}
<1>1. \A s \in SUBSET S : g[s] = FoldStep(times, c, g, s)
  BY DEF IsFold
<1>2. {} \in T
  <2>1. g[{}] = Neutral(times)
    BY <1>1 DEF FoldStep
  <2> QED
    BY <2>1 DEF Neutral
<1>3. ASSUME NEW s \in SUBSET S, s # {}, s \ {Taken(s)} \in T PROVE s \in T
  <2>1. c[Taken(s)] \in V /\ g[s \ {Taken(s)}] \in V
    BY <1>3, Rest
  <2>2. g[s] = Combine(times, c[Taken(s)], g[s \ {Taken(s)}])
    BY <1>1, <1>3 DEF FoldStep
  <2> QED
    BY <2>1, <2>2, CombineTypes
<1> HIDE DEF T
<1>4. \A s \in SUBSET S : s \in T
  BY <1>2, <1>3, SetSets
<1> QED
  BY <1>4 DEF T

\* by induction on the subsets of the domain.
LEMMA FoldMonotone ==
  ASSUME NEW c, NEW e, DOMAIN c = DOMAIN e, IsFiniteSet(DOMAIN c), NEW times \in BOOLEAN,
         NEW g, IsFold(times, c, g), NEW h, IsFold(times, e, h),
         \A x \in DOMAIN c : c[x] \in Int /\ e[x] \in Int /\ c[x] <= e[x] /\ (times => c[x] >= 0)
  PROVE  g[DOMAIN c] <= h[DOMAIN c]
<1> DEFINE S == DOMAIN c
           T == {s \in SUBSET S : g[s] <= h[s]}
<1>1. \A s \in SUBSET S : /\ g[s] = FoldStep(times, c, g, s)
                          /\ h[s] = FoldStep(times, e, h, s)
  BY DEF IsFold
<1>2. {} \in T
  <2>1. g[{}] = Neutral(times) /\ h[{}] = Neutral(times)
    BY <1>1 DEF FoldStep
  <2> QED
    BY <2>1 DEF Neutral
<1>3. \A s \in SUBSET S : g[s] \in Int /\ h[s] \in Int /\ (times => g[s] >= 0)
  <2>1. \A s \in SUBSET S : g[s] \in Int /\ h[s] \in Int
    BY FoldType
  <2>2. ASSUME times PROVE \A s \in SUBSET S : g[s] \in Nat
    <3>1. \A x \in DOMAIN c : c[x] \in Nat
      BY <2>2
    <3> QED
      BY <3>1, FoldType
  <2> QED
    BY <2>1, <2>2
<1>4. ASSUME NEW s \in SUBSET S, s # {}, s \ {Taken(s)} \in T PROVE s \in T
  <2> DEFINE x == Taken(s)
             t == s \ {Taken(s)}
  <2>1. x \in S /\ t \in SUBSET S /\ g[t] <= h[t]
    BY <1>4, Rest
  <2>2. g[s] = Combine(times, c[x], g[t]) /\ h[s] = Combine(times, e[x], h[t])
    BY <1>1, <1>4 DEF FoldStep
  <2> HIDE DEF x, t
  <2>3. Combine(times, c[x], g[t]) <= Combine(times, e[x], h[t])
    BY <1>3, <2>1, CombineTypes
  <2> QED
    BY <2>2, <2>3
<1> HIDE DEF T
<1>5. \A s \in SUBSET S : s \in T
  BY <1>2, <1>4, SetSets
<1> QED
  BY <1>5 DEF T

\* Sums and products of integers, and of naturals.
LEMMA FoldTypes ==
  ASSUME NEW c, IsFiniteSet(DOMAIN c)
  PROVE  /\ (\A x \in DOMAIN c : c[x] \in Int) => SumFunction(c) \in Int /\ Product(c) \in Int
         /\ (\A x \in DOMAIN c : c[x] \in Nat) => SumFunction(c) \in Nat /\ Product(c) \in Nat
<1>1. PICK g : IsFold(FALSE, c, g) /\ SumFunction(c) = g[DOMAIN c]
  BY SumIsFold
<1>2. PICK h : IsFold(TRUE, c, h) /\ Product(c) = h[DOMAIN c]
  BY ProductIsFold
<1>3. ASSUME NEW V, V = Int \/ V = Nat, \A x \in DOMAIN c : c[x] \in V
      PROVE  SumFunction(c) \in V /\ Product(c) \in V
  <2>1. \A s \in SUBSET (DOMAIN c) : g[s] \in V /\ h[s] \in V
    BY <1>1, <1>2, <1>3, FoldType
  <2> QED
    BY <1>1, <1>2, <2>1
<1> QED
  BY <1>3

\* They grow with what is added or multiplied.
LEMMA SumMonotone ==
  ASSUME NEW c, NEW e, DOMAIN c = DOMAIN e, IsFiniteSet(DOMAIN c),
         \A x \in DOMAIN c : c[x] \in Int /\ e[x] \in Int /\ c[x] <= e[x]
  PROVE  SumFunction(c) <= SumFunction(e)
<1>1. PICK g : IsFold(FALSE, c, g) /\ SumFunction(c) = g[DOMAIN c]
  BY SumIsFold
<1>2. PICK h : IsFold(FALSE, e, h) /\ SumFunction(e) = h[DOMAIN c]
  BY SumIsFold
<1>3. g[DOMAIN c] <= h[DOMAIN c]
  BY <1>1, <1>2, FoldMonotone
<1> QED
  BY <1>1, <1>2, <1>3

\* The same for products.
LEMMA ProductMonotone ==
  ASSUME NEW c, NEW e, DOMAIN c = DOMAIN e, IsFiniteSet(DOMAIN c),
         \A x \in DOMAIN c : c[x] \in Nat /\ e[x] \in Nat /\ c[x] <= e[x]
  PROVE  Product(c) <= Product(e)
<1>1. \A x \in DOMAIN c : c[x] \in Int /\ e[x] \in Int /\ c[x] <= e[x] /\ c[x] >= 0
  OBVIOUS
<1>2. PICK g : IsFold(TRUE, c, g) /\ Product(c) = g[DOMAIN c]
  BY ProductIsFold
<1>3. PICK h : IsFold(TRUE, e, h) /\ Product(e) = h[DOMAIN c]
  BY ProductIsFold
<1>4. g[DOMAIN c] <= h[DOMAIN c]
  BY <1>1, <1>2, <1>3, FoldMonotone
<1> QED
  BY <1>2, <1>3, <1>4

\* The difference of two sums.
LEMMA SumMinus ==
  ASSUME NEW c, NEW e, NEW d, DOMAIN c = DOMAIN e, DOMAIN c = DOMAIN d, IsFiniteSet(DOMAIN c),
         \A x \in DOMAIN c : c[x] \in Int /\ e[x] \in Int /\ d[x] = c[x] - e[x]
  PROVE  SumFunction(d) = SumFunction(c) - SumFunction(e)
<1> DEFINE S == DOMAIN c
<1>1. PICK f : IsFold(FALSE, d, f) /\ SumFunction(d) = f[S]
  BY SumIsFold
<1>2. PICK g : IsFold(FALSE, c, g) /\ SumFunction(c) = g[S]
  BY SumIsFold
<1>3. PICK h : IsFold(FALSE, e, h) /\ SumFunction(e) = h[S]
  BY SumIsFold
<1>4. \A s \in SUBSET S : g[s] \in Int /\ h[s] \in Int
  BY <1>2, <1>3, FoldType
<1> DEFINE T == {s \in SUBSET S : f[s] = g[s] - h[s]}
<1>5. \A s \in SUBSET S : /\ f[s] = FoldStep(FALSE, d, f, s)
                          /\ g[s] = FoldStep(FALSE, c, g, s)
                          /\ h[s] = FoldStep(FALSE, e, h, s)
  BY <1>1, <1>2, <1>3 DEF IsFold
<1>6. {} \in T
  <2>1. f[{}] = 0 /\ g[{}] = 0 /\ h[{}] = 0
    BY <1>5 DEF FoldStep, Neutral
  <2> QED
    BY <2>1
<1>7. ASSUME NEW s \in SUBSET S, s # {}, s \ {Taken(s)} \in T PROVE s \in T
  <2> DEFINE x == Taken(s)
             t == s \ {Taken(s)}
  <2>1. x \in S /\ t \in SUBSET S /\ f[t] = g[t] - h[t]
    BY <1>7, Rest
  <2>2. f[s] = d[x] + f[t] /\ g[s] = c[x] + g[t] /\ h[s] = e[x] + h[t]
    BY <1>5, <1>7 DEF FoldStep, Combine
  <2> HIDE DEF x, t
  <2> QED
    BY <1>4, <2>1, <2>2
<1> HIDE DEF T
<1>8. \A s \in SUBSET S : s \in T
  BY <1>6, <1>7, SetSets
<1> QED
  BY <1>1, <1>2, <1>3, <1>8 DEF T

-----------------------------------------------------------------------------
(* The footprint estimate.                                                 *)

\* A product of naturals grows with its factors.
LEMMA Products ==
  ASSUME NEW c, NEW e, DOMAIN c = DOMAIN e, IsFiniteSet(DOMAIN c),
         \A x \in DOMAIN c : c[x] \in Nat /\ e[x] \in Nat /\ c[x] <= e[x]
  PROVE  Product(c) \in Nat /\ Product(e) \in Nat /\ Product(c) <= Product(e)
  BY FoldTypes, ProductMonotone

\* The weights of a span.
LEMMA SpanTerms ==
  ASSUME NEW coef \in Int, NEW a \in Nat \ {0}, NEW b \in Nat \ {0}, a <= b
  PROVE  /\ Abs(coef) * (a - 1) \in Nat /\ Abs(coef) * (b - 1) \in Nat
         /\ Abs(coef) * (a - 1) <= Abs(coef) * (b - 1)
<1> DEFINE w == Abs(coef)
<1>1. w \in Nat /\ a - 1 \in Nat /\ b - 1 \in Nat /\ a - 1 <= b - 1
  BY DEF Abs
<1> HIDE DEF w
<1>2. w * (a - 1) \in Nat /\ w * (b - 1) \in Nat /\ w * (a - 1) <= w * (b - 1)
  BY <1>1
<1> QED
  BY <1>2 DEF w

\* The span of an index expression grows with the tile.
LEMMA Spans ==
  ASSUME NEW D, IsFiniteSet(D), NEW s \in [D -> Nat \ {0}], NEW t \in [D -> Nat \ {0}],
         \A d \in D : s[d] <= t[d],
         NEW expr, expr.coef \in [D -> Int], expr.full \in Nat
  PROVE  Span(expr, s) \in Nat /\ Span(expr, t) \in Nat /\ Span(expr, s) <= Span(expr, t)
<1> DEFINE f(z) == [d \in D |-> Abs(expr.coef[d]) * (z[d] - 1)]
<1>1. /\ Span(expr, s) = IF expr.bounded THEN SumFunction(f(s)) + 1 ELSE expr.full
      /\ Span(expr, t) = IF expr.bounded THEN SumFunction(f(t)) + 1 ELSE expr.full
  BY DEF Span
<1>2. \A d \in D : f(s)[d] \in Nat /\ f(t)[d] \in Nat /\ f(s)[d] <= f(t)[d]
  BY SpanTerms
<1>3. DOMAIN f(s) = D /\ DOMAIN f(t) = D
  OBVIOUS
<1> HIDE DEF f
<1>4. SumFunction(f(s)) \in Nat /\ SumFunction(f(t)) \in Nat
  BY <1>2, <1>3, FoldTypes
<1>5. SumFunction(f(s)) <= SumFunction(f(t))
  BY <1>2, <1>3, SumMonotone
<1> QED
  BY <1>1, <1>4, <1>5

\* The tiles of a root that the estimate is asked for.
Tilings(r) == [Loops(r) -> Nat \ {0}]
Smaller(r, s, t) == \A d \in Loops(r) : s[d] <= t[d]

\* Smaller tiles of a linalg operation are estimated to need no more elements,
LEMMA LinalgGrows ==
  ASSUME NEW r \in Roots, r.kind = "linalg", NEW k \in DOMAIN r.operands,
         NEW s \in Tilings(r), NEW t \in Tilings(r), Smaller(r, s, t)
  PROVE  /\ LinalgElements(r, k, s) \in Nat /\ LinalgElements(r, k, t) \in Nat
         /\ LinalgElements(r, k, s) <= LinalgElements(r, k, t)
<1> DEFINE m == r.operands[k].map
           f(z) == [j \in DOMAIN m |-> Span(m[j], z)]
<1>1. /\ IsFiniteSet(Loops(r)) /\ IsFiniteSet(DOMAIN m)
      /\ \A j \in DOMAIN m : m[j].coef \in [Loops(r) -> Int] /\ m[j].full \in Nat
  BY ShapeAssumption
<1>2. ASSUME NEW z \in Tilings(r) PROVE LinalgElements(r, k, z) = Product(f(z))
  <2>1. [d \in Loops(r) |-> TileOf(z[d], r.ranges[d])] = z
    BY DEF Tilings, TileOf
  <2> QED
    BY <2>1 DEF LinalgElements
<1>3. \A j \in DOMAIN m : f(s)[j] \in Nat /\ f(t)[j] \in Nat /\ f(s)[j] <= f(t)[j]
  BY <1>1, Spans DEF Tilings, Smaller
<1>4. DOMAIN f(s) = DOMAIN m /\ DOMAIN f(t) = DOMAIN m
  OBVIOUS
<1>5. LinalgElements(r, k, s) = Product(f(s)) /\ LinalgElements(r, k, t) = Product(f(t))
  BY <1>2
<1> HIDE DEF f, m
<1>6. Product(f(s)) \in Nat /\ Product(f(t)) \in Nat /\ Product(f(s)) <= Product(f(t))
  BY <1>1, <1>3, <1>4, Products
<1> QED
  BY <1>5, <1>6

\* nor do smaller tiles of a pack,
LEMMA PackGrows ==
  ASSUME NEW r \in Roots, r.kind = "pack", NEW k \in DOMAIN r.operands,
         NEW s \in Tilings(r), NEW t \in Tilings(r), Smaller(r, s, t)
  PROVE  /\ PackElements(r, k, s) \in Nat /\ PackElements(r, k, t) \in Nat
         /\ PackElements(r, k, s) <= PackElements(r, k, t)
<1> DEFINE shape == r.operands[k].shape
           source(z) == [l \in Loops(r) |->
                           LET dim == Permuted(r, l)
                           IN  IF z[l] = 0 THEN shape[dim]
                               ELSE Least(shape[dim], z[l] * InnerTile(r, dim))]
           dest(z) == [l \in DOMAIN shape |->
                         IF l \in Loops(r) THEN Least(shape[l], TileOf(z[l], shape[l])) ELSE shape[l]]
<1>1. /\ IsFiniteSet(Loops(r)) /\ IsFiniteSet(DOMAIN shape)
      /\ \A l \in DOMAIN shape : shape[l] \in Nat
      /\ k = 1 => \A l \in Loops(r) : /\ Permuted(r, l) \in DOMAIN shape
                                      /\ InnerTile(r, Permuted(r, l)) \in Nat \ {0}
  BY ShapeAssumption
<1>2. \A l \in Loops(r) : s[l] \in Nat \ {0} /\ t[l] \in Nat \ {0} /\ s[l] <= t[l]
  BY DEF Tilings, Smaller
<1>3. CASE k = 1
  <2>1. PackElements(r, k, s) = Product(source(s)) /\ PackElements(r, k, t) = Product(source(t))
    BY <1>3 DEF PackElements
  <2>2. ASSUME NEW l \in Loops(r)
        PROVE  source(s)[l] \in Nat /\ source(t)[l] \in Nat /\ source(s)[l] <= source(t)[l]
    <3> DEFINE w == shape[Permuted(r, l)]
               i == InnerTile(r, Permuted(r, l))
               a == s[l] * i
               b == t[l] * i
    <3>1. w \in Nat /\ i \in Nat
      BY <1>1, <1>3
    <3>2. source(s)[l] = Least(w, a) /\ source(t)[l] = Least(w, b)
      BY <1>2
    <3> HIDE DEF i, w
    <3>3. a \in Nat /\ b \in Nat /\ a <= b
      BY <1>2, <3>1
    <3> HIDE DEF a, b, source
    <3> QED
      BY <3>1, <3>2, <3>3 DEF Least
  <2>3. DOMAIN source(s) = Loops(r) /\ DOMAIN source(t) = Loops(r)
    OBVIOUS
  <2> HIDE DEF source
  <2>4. /\ Product(source(s)) \in Nat /\ Product(source(t)) \in Nat
        /\ Product(source(s)) <= Product(source(t))
    BY <1>1, <2>2, <2>3, Products
  <2> QED
    BY <2>1, <2>4
<1>4. CASE k = 2
  <2>1. PackElements(r, k, s) = Product(dest(s)) /\ PackElements(r, k, t) = Product(dest(t))
    BY <1>4 DEF PackElements
  <2>2. \A l \in DOMAIN shape : dest(s)[l] \in Nat /\ dest(t)[l] \in Nat /\ dest(s)[l] <= dest(t)[l]
    BY <1>1, <1>2 DEF Least, TileOf
  <2>3. DOMAIN dest(s) = DOMAIN shape /\ DOMAIN dest(t) = DOMAIN shape
    OBVIOUS
  <2> HIDE DEF dest, shape
  <2>4. Product(dest(s)) \in Nat /\ Product(dest(t)) \in Nat /\ Product(dest(s)) <= Product(dest(t))
    BY <1>1, <2>2, <2>3, Products
  <2> QED
    BY <2>1, <2>4
<1>5. CASE k # 1 /\ k # 2
  <2>1. PackElements(r, k, s) = Product(shape) /\ PackElements(r, k, t) = Product(shape)
    BY <1>5 DEF PackElements
  <2> HIDE DEF shape
  <2>2. Product(shape) \in Nat
    BY <1>1, FoldTypes
  <2> QED
    BY <2>1, <2>2
<1> QED
  BY <1>3, <1>4, <1>5

\* More elements need no fewer tiles.
LEMMA CeilDivGrows ==
  ASSUME NEW a \in Nat, NEW b \in Nat, a <= b, NEW n \in Nat \ {0}
  PROVE  /\ CeilDiv(a, n) \in Nat /\ CeilDiv(b, n) \in Nat
         /\ CeilDiv(a, n) <= CeilDiv(b, n)
<1> DEFINE x == a + n - 1
           y == b + n - 1
           p == x \div n
           q == y \div n
<1>1. CeilDiv(a, n) = p /\ CeilDiv(b, n) = q /\ CeilDiv(a, n) \in Nat /\ CeilDiv(b, n) \in Nat
  BY CeilDivBounds DEF CeilDiv
<1>2. x \in Nat /\ y \in Nat /\ x <= y
  OBVIOUS
<1> HIDE DEF x, y
<1>3. p \in Nat /\ q \in Nat /\ n * p <= x /\ y < n * (q + 1)
  BY <1>1, <1>2
<1> HIDE DEF p, q
<1>4. p <= q
  <2>1. SUFFICES ASSUME p >= q + 1 PROVE FALSE
    BY <1>3
  <2> DEFINE u == n * p
             v == n * (q + 1)
  <2>2. u \in Nat /\ v \in Nat /\ u >= v
    BY <1>3, <2>1
  <2>3. u <= x /\ y < v
    BY <1>3
  <2> HIDE DEF u, v
  <2> QED
    BY <1>2, <2>2, <2>3
<1> QED
  BY <1>1, <1>4

\* of an unpack,
LEMMA UnpackGrows ==
  ASSUME NEW r \in Roots, r.kind = "unpack", NEW k \in DOMAIN r.operands,
         NEW s \in Tilings(r), NEW t \in Tilings(r), Smaller(r, s, t)
  PROVE  /\ UnpackElements(r, k, s) \in Nat /\ UnpackElements(r, k, t) \in Nat
         /\ UnpackElements(r, k, s) <= UnpackElements(r, k, t)
<1> DEFINE shape == r.operands[k].shape
           inner == [l \in DOMAIN shape \ Loops(r) |-> shape[l]]
           outer(z) == [l \in Loops(r) |->
                          LET dim == Permuted(r, l)
                          IN  IF z[l] = 0 THEN shape[dim]
                              ELSE Least(shape[dim], CeilDiv(z[l], InnerTile(r, dim)))]
           dest(z) == [l \in DOMAIN shape |-> Least(shape[l], TileOf(z[l], shape[l]))]
<1>1. /\ IsFiniteSet(Loops(r)) /\ IsFiniteSet(DOMAIN shape)
      /\ \A l \in DOMAIN shape : shape[l] \in Nat
      /\ k = 1 => \A l \in Loops(r) : /\ Permuted(r, l) \in DOMAIN shape
                                      /\ InnerTile(r, Permuted(r, l)) \in Nat \ {0}
      /\ k = 2 => DOMAIN shape = Loops(r)
  BY ShapeAssumption
<1>2. \A l \in Loops(r) : s[l] \in Nat \ {0} /\ t[l] \in Nat \ {0} /\ s[l] <= t[l]
  BY DEF Tilings, Smaller
<1>3. CASE k = 1
  <2>1. /\ UnpackElements(r, k, s) = Product(outer(s)) * Product(inner)
        /\ UnpackElements(r, k, t) = Product(outer(t)) * Product(inner)
    BY <1>3 DEF UnpackElements
  <2>2. ASSUME NEW l \in Loops(r)
        PROVE  outer(s)[l] \in Nat /\ outer(t)[l] \in Nat /\ outer(s)[l] <= outer(t)[l]
    <3> DEFINE w == shape[Permuted(r, l)]
               i == InnerTile(r, Permuted(r, l))
    <3>1. w \in Nat /\ i \in Nat \ {0}
      BY <1>1, <1>3
    <3>2. outer(s)[l] = Least(w, CeilDiv(s[l], i)) /\ outer(t)[l] = Least(w, CeilDiv(t[l], i))
      BY <1>2
    <3> HIDE DEF i, w
    <3>3. /\ CeilDiv(s[l], i) \in Nat /\ CeilDiv(t[l], i) \in Nat
          /\ CeilDiv(s[l], i) <= CeilDiv(t[l], i)
      BY <1>2, <3>1, CeilDivGrows
    <3> HIDE DEF outer
    <3> QED
      BY <3>1, <3>2, <3>3 DEF Least
  <2>3. DOMAIN outer(s) = Loops(r) /\ DOMAIN outer(t) = Loops(r)
    OBVIOUS
  <2>4. Product(inner) \in Nat
    <3>1. IsFiniteSet(DOMAIN shape \ Loops(r))
      BY <1>1, FS_Difference
    <3>2. DOMAIN inner = DOMAIN shape \ Loops(r) /\ \A l \in DOMAIN inner : inner[l] \in Nat
      BY <1>1
    <3> HIDE DEF inner
    <3> QED
      BY <3>1, <3>2, FoldTypes
  <2> HIDE DEF outer, inner
  <2>5. Product(outer(s)) \in Nat /\ Product(outer(t)) \in Nat /\ Product(outer(s)) <= Product(outer(t))
    BY <1>1, <2>2, <2>3, Products
  <2> DEFINE u == Product(outer(s))
             v == Product(outer(t))
             w == Product(inner)
  <2>6. u \in Nat /\ v \in Nat /\ w \in Nat /\ u <= v
    BY <2>4, <2>5
  <2> HIDE DEF u, v, w
  <2>7. u * w \in Nat /\ v * w \in Nat /\ u * w <= v * w
    BY <2>6
  <2> QED
    BY <2>1, <2>7 DEF u, v, w
<1>4. CASE k = 2
  <2>1. UnpackElements(r, k, s) = Product(dest(s)) /\ UnpackElements(r, k, t) = Product(dest(t))
    BY <1>4 DEF UnpackElements
  <2>2. \A l \in DOMAIN shape : dest(s)[l] \in Nat /\ dest(t)[l] \in Nat /\ dest(s)[l] <= dest(t)[l]
    BY <1>1, <1>2, <1>4 DEF Least, TileOf
  <2>3. DOMAIN dest(s) = DOMAIN shape /\ DOMAIN dest(t) = DOMAIN shape
    OBVIOUS
  <2> HIDE DEF dest, shape
  <2>4. Product(dest(s)) \in Nat /\ Product(dest(t)) \in Nat /\ Product(dest(s)) <= Product(dest(t))
    BY <1>1, <2>2, <2>3, Products
  <2> QED
    BY <2>1, <2>4
<1>5. CASE k # 1 /\ k # 2
  <2>1. UnpackElements(r, k, s) = Product(shape) /\ UnpackElements(r, k, t) = Product(shape)
    BY <1>5 DEF UnpackElements
  <2> HIDE DEF shape
  <2>2. Product(shape) \in Nat
    BY <1>1, FoldTypes
  <2> QED
    BY <2>1, <2>2
<1> QED
  BY <1>3, <1>4, <1>5

\* or of another operation,
LEMMA OtherGrows ==
  ASSUME NEW r \in Roots, NEW k \in DOMAIN r.operands,
         NEW s \in Tilings(r), NEW t \in Tilings(r), Smaller(r, s, t)
  PROVE  /\ OtherElements(r, k, s) \in Nat /\ OtherElements(r, k, t) \in Nat
         /\ OtherElements(r, k, s) <= OtherElements(r, k, t)
<1> DEFINE shape == r.operands[k].shape
           static(l) == IF shape[l] = Dynamic THEN 1 ELSE shape[l]
           plain == [l \in DOMAIN shape |-> static(l)]
           tiled(z) == [l \in DOMAIN shape |->
                          IF z[l] = 0 \/ shape[l] = Dynamic THEN static(l) ELSE Least(shape[l], z[l])]
<1>1. /\ IsFiniteSet(DOMAIN shape)
      /\ \A l \in DOMAIN shape : shape[l] = Dynamic \/ shape[l] \in Nat
  BY ShapeAssumption
<1>2. \A l \in Loops(r) : s[l] \in Nat \ {0} /\ t[l] \in Nat \ {0} /\ s[l] <= t[l]
  BY DEF Tilings, Smaller
<1>3. CASE DOMAIN shape = Loops(r)
  <2>1. OtherElements(r, k, s) = Product(tiled(s)) /\ OtherElements(r, k, t) = Product(tiled(t))
    BY <1>3 DEF OtherElements
  <2>2. \A l \in DOMAIN shape : tiled(s)[l] \in Nat /\ tiled(t)[l] \in Nat /\ tiled(s)[l] <= tiled(t)[l]
    BY <1>1, <1>2, <1>3 DEF Least
  <2>3. DOMAIN tiled(s) = DOMAIN shape /\ DOMAIN tiled(t) = DOMAIN shape
    OBVIOUS
  <2> HIDE DEF tiled, shape
  <2>4. Product(tiled(s)) \in Nat /\ Product(tiled(t)) \in Nat /\ Product(tiled(s)) <= Product(tiled(t))
    BY <1>1, <2>2, <2>3, Products
  <2> QED
    BY <2>1, <2>4
<1>4. CASE DOMAIN shape # Loops(r)
  <2>1. OtherElements(r, k, s) = Product(plain) /\ OtherElements(r, k, t) = Product(plain)
    BY <1>4 DEF OtherElements
  <2>2. DOMAIN plain = DOMAIN shape /\ \A l \in DOMAIN plain : plain[l] \in Nat
    BY <1>1
  <2> HIDE DEF plain
  <2>3. Product(plain) \in Nat
    BY <1>1, <2>2, FoldTypes
  <2> QED
    BY <2>1, <2>3
<1> QED
  BY <1>3, <1>4

\* hence of any,
LEMMA ElementsGrow ==
  ASSUME NEW r \in Roots, NEW k \in DOMAIN r.operands,
         NEW s \in Tilings(r), NEW t \in Tilings(r), Smaller(r, s, t)
  PROVE  /\ Elements(r, k, s) \in Nat /\ Elements(r, k, t) \in Nat
         /\ Elements(r, k, s) <= Elements(r, k, t)
<1>1. CASE r.kind = "linalg"
  BY <1>1, LinalgGrows DEF Elements
<1>2. CASE r.kind = "pack"
  BY <1>2, PackGrows DEF Elements
<1>3. CASE r.kind = "unpack"
  BY <1>3, UnpackGrows DEF Elements
<1>4. CASE r.kind \notin {"linalg", "pack", "unpack"}
  BY <1>4, OtherGrows DEF Elements
<1> QED
  BY <1>1, <1>2, <1>3, <1>4

\* nor more bytes.
LEMMA FootprintGrows ==
  ASSUME NEW r \in Roots, NEW s \in Tilings(r), NEW t \in Tilings(r), Smaller(r, s, t)
  PROVE  /\ EstimateFootprint(r, s) \in Nat /\ EstimateFootprint(r, t) \in Nat
         /\ EstimateFootprint(r, s) <= EstimateFootprint(r, t)
<1> DEFINE f(z) == [k \in DOMAIN r.operands |->
                      IF r.operands[k].bits = 0 THEN 0
                      ELSE Elements(r, k, z) * ElementBytes(r.operands[k])]
<1>1. IsFiniteSet(DOMAIN r.operands) /\ \A k \in DOMAIN r.operands : r.operands[k].bits \in Nat
  BY ShapeAssumption
<1>2. ASSUME NEW k \in DOMAIN r.operands
      PROVE  f(s)[k] \in Nat /\ f(t)[k] \in Nat /\ f(s)[k] <= f(t)[k]
  <2> DEFINE u == Elements(r, k, s)
             v == Elements(r, k, t)
             w == ElementBytes(r.operands[k])
  <2>1. u \in Nat /\ v \in Nat /\ u <= v
    BY ElementsGrow
  <2>2. w \in Nat
    BY <1>1 DEF ElementBytes
  <2>3. /\ f(s)[k] = IF r.operands[k].bits = 0 THEN 0 ELSE u * w
        /\ f(t)[k] = IF r.operands[k].bits = 0 THEN 0 ELSE v * w
    OBVIOUS
  <2> HIDE DEF u, v, w, f
  <2>4. u * w \in Nat /\ v * w \in Nat /\ u * w <= v * w
    BY <2>1, <2>2
  <2> QED
    BY <2>3, <2>4
<1>3. DOMAIN f(s) = DOMAIN r.operands /\ DOMAIN f(t) = DOMAIN r.operands
  OBVIOUS
<1>4. EstimateFootprint(r, s) = SumFunction(f(s)) /\ EstimateFootprint(r, t) = SumFunction(f(t))
  BY DEF EstimateFootprint
<1> HIDE DEF f
<1>5. SumFunction(f(s)) \in Nat /\ SumFunction(f(t)) \in Nat
  BY <1>1, <1>2, <1>3, FoldTypes
<1>6. SumFunction(f(s)) <= SumFunction(f(t))
  BY <1>1, <1>2, <1>3, SumMonotone
<1> QED
  BY <1>4, <1>5, <1>6

\* An index moves by at most its coefficient's share of the span.
LEMMA IndexBounds ==
  ASSUME NEW coef \in Int, NEW n \in Nat \ {0}, NEW x \in Nat, x < n
  PROVE  LET lo == IF coef < 0 THEN coef * (n - 1) ELSE 0
             hi == IF coef < 0 THEN 0 ELSE coef * (n - 1)
         IN  /\ lo \in Int /\ hi \in Int /\ coef * x \in Int
             /\ lo <= coef * x /\ coef * x <= hi
             /\ Abs(coef) * (n - 1) = hi - lo
<1>1. n - 1 \in Nat /\ x <= n - 1
  OBVIOUS
<1>2. CASE coef < 0
  <2>1. coef * (n - 1) <= coef * x /\ coef * x <= 0
    BY <1>1, <1>2
  <2>2. Abs(coef) * (n - 1) = 0 - coef * (n - 1)
    BY <1>2 DEF Abs
  <2> QED
    BY <1>2, <2>1, <2>2
<1>3. CASE ~(coef < 0)
  <2>1. coef * x <= coef * (n - 1) /\ 0 <= coef * x
    BY <1>1, <1>3
  <2>2. Abs(coef) = coef
    BY <1>3 DEF Abs
  <2> QED
    BY <1>3, <2>1, <2>2
<1> QED
  BY <1>2, <1>3

\* A tile touches no more indices of a tensor dimension than the span says.
LEMMA AccessedInSpan ==
  ASSUME NEW D, IsFiniteSet(D), NEW s \in [D -> Nat \ {0}],
         NEW bound \in Nat, \A d \in D : s[d] <= bound,
         NEW expr, expr.coef \in [D -> Int], expr.full \in Nat, expr.bounded
  PROVE  Cardinality(Accessed(expr, s)) \in Nat /\ Cardinality(Accessed(expr, s)) <= Span(expr, s)
<1> DEFINE c(d) == expr.coef[d]
           low == [d \in D |-> IF c(d) < 0 THEN c(d) * (s[d] - 1) ELSE 0]
           high == [d \in D |-> IF c(d) < 0 THEN 0 ELSE c(d) * (s[d] - 1)]
           span == [d \in D |-> Abs(c(d)) * (s[d] - 1)]
           lo == SumFunction(low)
           hi == SumFunction(high)
           used == {d \in D : c(d) # 0}
           index(x) == [d \in D |-> IF d \in used THEN c(d) * x[d] ELSE 0]
           last == {0} \cup {s[d] - 1 : d \in used}
           points == {x \in [used -> 0 .. MaxOf(last)] :
                        \A d \in used : x[d] < s[d]}
<1>1. \A d \in D : c(d) \in Int /\ s[d] \in Nat \ {0}
  OBVIOUS
<1>2. ASSUME NEW d \in D
      PROVE  low[d] \in Int /\ high[d] \in Int /\ span[d] = high[d] - low[d] /\ low[d] <= high[d]
  <2>1. 0 \in Nat /\ 0 < s[d]
    BY <1>1
  <2>2. /\ low[d] \in Int /\ high[d] \in Int /\ c(d) * 0 \in Int
        /\ low[d] <= c(d) * 0 /\ c(d) * 0 <= high[d] /\ span[d] = high[d] - low[d]
    BY <1>1, <2>1, IndexBounds
  <2> HIDE DEF low, high, span
  <2> QED
    BY <1>1, <2>2
<1>3. DOMAIN low = D /\ DOMAIN high = D /\ DOMAIN span = D
  OBVIOUS
<1>4. Accessed(expr, s) = {SumFunction(index(x)) : x \in points}
  BY DEF Accessed
<1>5. Span(expr, s) = SumFunction(span) + 1
  BY DEF Span
<1>6. ASSUME NEW x \in points PROVE SumFunction(index(x)) \in lo .. hi
  <2>1. \A d \in used : x[d] \in Nat /\ x[d] < s[d]
    <3>1. last \subseteq Nat /\ last # {} /\ \A y \in last : y <= bound
      BY <1>1
    <3>2. x \in [used -> 0 .. MaxOf(last)] /\ \A d \in used : x[d] < s[d]
      OBVIOUS
    <3> HIDE DEF last, used, points
    <3>3. MaxOf(last) \in Nat
      BY <3>1, MaxExists
    <3> QED
      BY <3>2, <3>3
  <2>2. ASSUME NEW d \in D
        PROVE  index(x)[d] \in Int /\ low[d] <= index(x)[d] /\ index(x)[d] <= high[d]
    <3>1. CASE d \in used
      BY <1>1, <2>1, <3>1, IndexBounds
    <3>2. CASE d \notin used
      BY <1>1, <3>2
    <3> QED
      BY <3>1, <3>2
  <2>3. DOMAIN index(x) = D
    OBVIOUS
  <2> HIDE DEF low, high, index
  <2>4. lo \in Int /\ hi \in Int /\ SumFunction(index(x)) \in Int
    BY <1>2, <1>3, <2>2, <2>3, FoldTypes
  <2>5. lo <= SumFunction(index(x))
    BY <1>2, <1>3, <2>2, <2>3, SumMonotone
  <2>6. SumFunction(index(x)) <= hi
    BY <1>2, <1>3, <2>2, <2>3, SumMonotone
  <2> QED
    BY <2>4, <2>5, <2>6
<1> HIDE DEF low, high, span, index, points
<1>7. lo \in Int /\ hi \in Int
  BY <1>2, <1>3, FoldTypes
<1>8. lo <= hi
  BY <1>2, <1>3, SumMonotone
<1>9. SumFunction(span) = hi - lo
  BY <1>2, <1>3, SumMinus
<1> HIDE DEF lo, hi
<1>10. IsFiniteSet(lo .. hi) /\ Cardinality(lo .. hi) = (hi - lo) + 1
  <2>1. IsFiniteSet(lo .. hi) /\ Cardinality(lo .. hi) = IF lo > hi THEN 0 ELSE hi - lo + 1
    BY <1>7, FS_Interval
  <2> QED
    BY <1>7, <1>8, <2>1
<1>11. Accessed(expr, s) \subseteq lo .. hi
  BY <1>4, <1>6
<1>12. IsFiniteSet(Accessed(expr, s)) /\ Cardinality(Accessed(expr, s)) <= Cardinality(lo .. hi)
  BY <1>10, <1>11, FS_Subset
<1>13. Cardinality(Accessed(expr, s)) \in Nat
  BY <1>12, FS_CardinalityType
<1> QED
  BY <1>5, <1>7, <1>9, <1>10, <1>12, <1>13

\* The bytes that a tile of a linalg operation touches are within the estimate.
LEMMA TouchedWithinEstimate ==
  ASSUME Root \in Roots, Root.kind = "linalg", NEW s \in Tilings(Root),
         NEW bound \in Nat, \A d \in Loops(Root) : s[d] <= bound
  PROVE  TouchedBytes(s) \in Int /\ TouchedBytes(s) <= EstimateFootprint(Root, s)
<1> DEFINE o == Root.operands
           reach(m) == [j \in DOMAIN m |->
                          IF m[j].bounded THEN Cardinality(Accessed(m[j], s)) ELSE m[j].full]
           spans(m) == [j \in DOMAIN m |-> Span(m[j], s)]
           f == [k \in DOMAIN o |-> Product(reach(o[k].map)) * (o[k].bits \div 8)]
           g == [k \in DOMAIN o |-> IF o[k].bits = 0 THEN 0
                                    ELSE Elements(Root, k, s) * ElementBytes(o[k])]
<1>1. /\ IsFiniteSet(Loops(Root)) /\ IsFiniteSet(DOMAIN o)
      /\ \A k \in DOMAIN o :
           /\ o[k].bits \in Nat /\ IsFiniteSet(DOMAIN o[k].map)
           /\ \A j \in DOMAIN o[k].map : /\ o[k].map[j].coef \in [Loops(Root) -> Int]
                                         /\ o[k].map[j].full \in Nat
  BY ShapeAssumption
<1>2. s \in [Loops(Root) -> Nat \ {0}] /\ \A d \in Loops(Root) : s[d] <= s[d]
  BY DEF Tilings
<1>3. TouchedBytes(s) = SumFunction(f) /\ EstimateFootprint(Root, s) = SumFunction(g)
  BY DEF TouchedBytes, EstimateFootprint
<1>4. ASSUME NEW k \in DOMAIN o PROVE f[k] \in Nat /\ g[k] \in Nat /\ f[k] <= g[k]
  <2> DEFINE m == o[k].map
             w == o[k].bits \div 8
             u == Product(reach(m))
             v == Product(spans(m))
  <2>1. ASSUME NEW j \in DOMAIN m
        PROVE  reach(m)[j] \in Nat /\ spans(m)[j] \in Nat /\ reach(m)[j] <= spans(m)[j]
    <3>1. m[j].coef \in [Loops(Root) -> Int] /\ m[j].full \in Nat
      BY <1>1
    <3>2. Span(m[j], s) \in Nat
      BY <1>1, <1>2, <3>1, Spans
    <3>3. CASE m[j].bounded
      BY <1>1, <1>2, <3>1, <3>2, <3>3, AccessedInSpan
    <3>4. CASE ~m[j].bounded
      <4>1. Span(m[j], s) = m[j].full
        BY <3>4 DEF Span
      <4> QED
        BY <3>1, <3>4, <4>1
    <3> QED
      BY <3>3, <3>4
  <2>2. DOMAIN reach(m) = DOMAIN m /\ DOMAIN spans(m) = DOMAIN m /\ IsFiniteSet(DOMAIN m)
    BY <1>1
  <2>3. Elements(Root, k, s) = v
    <3>1. [d \in Loops(Root) |-> TileOf(s[d], Root.ranges[d])] = s
      BY <1>2 DEF TileOf
    <3> QED
      BY <3>1 DEF Elements, LinalgElements
  <2>4. f[k] = u * w /\ g[k] = IF o[k].bits = 0 THEN 0 ELSE v * w
    BY <2>3 DEF ElementBytes
  <2>5. w \in Nat /\ (o[k].bits = 0 => w = 0)
    BY <1>1
  <2> HIDE DEF reach, spans, m, w, f, g
  <2>6. u \in Nat /\ v \in Nat /\ u <= v
    BY <2>1, <2>2, Products
  <2> HIDE DEF u, v
  <2>7. u * w \in Nat /\ v * w \in Nat /\ u * w <= v * w
    BY <2>5, <2>6
  <2>8. o[k].bits = 0 => u * w = 0
    BY <2>5, <2>6
  <2> QED
    BY <2>4, <2>7, <2>8
<1>5. DOMAIN f = DOMAIN o /\ DOMAIN g = DOMAIN o
  OBVIOUS
<1> HIDE DEF f, g, o
<1>6. SumFunction(f) \in Int
  BY <1>1, <1>4, <1>5, FoldTypes
<1>7. SumFunction(f) <= SumFunction(g)
  BY <1>1, <1>4, <1>5, SumMonotone
<1> QED
  BY <1>3, <1>6, <1>7

-----------------------------------------------------------------------------
(* The accepted tiles fit, and a search that gives up was hopeless.         *)

\* What the config holds at the cache level was accepted by the estimate.
CacheFits ==
  "cache_parallel" \in DOMAIN config => Fits([d \in Loops(Root) |-> CacheTile(d)])

\* The search gives up at tiles of 1 that the estimate refuses.
GaveUpAtOne ==
  pc = "does not fit" => Tilable /\ tiles \in [Loops(Root) -> {1}] /\ ~Fits(tiles)

FitInv == Inv /\ CacheFits /\ GaveUpAtOne

\* Nothing is configured and nothing given up when the passes start.
LEMMA InitFit == Init => FitInv
  BY InitInv DEF Init, FitInv, CacheFits, GaveUpAtOne

\* Every pass and every iteration of the search keeps that.
LEMMA StepFit == FitInv /\ [Next]_vars => FitInv'
<1> SUFFICES ASSUME FitInv, [Next]_vars PROVE FitInv'
  OBVIOUS
<1>1. input' = input
  BY DEF Next, vars, Skip, AnalysisFailure, Finish, Register, DtcmWithoutRegister, DtcmStart,
         Shrink, FallBack, GiveUp, Accept, WorkgroupMissing, Workgroup, Stop
<1>2. Inv /\ Inv' /\ InputOK
  BY StepInv DEF FitInv, Inv
<1>3. Root' = Root /\ DtcmLimitBytes' = DtcmLimitBytes /\ Tilable' = Tilable
  BY <1>1 DEF Root, DtcmLimitBytes, Tilable
<1>4. ASSUME config' = config PROVE CacheFits'
  BY <1>3, <1>4 DEF FitInv, CacheFits, Fits, CacheTile
<1>5. ASSUME config' = config, pc' # "does not fit" PROVE FitInv'
  BY <1>2, <1>4, <1>5 DEF FitInv, GaveUpAtOne
<1>6. CASE UNCHANGED vars
  <2>1. GaveUpAtOne'
    BY <1>3, <1>6 DEF vars, FitInv, GaveUpAtOne, Fits
  <2> QED
    BY <1>2, <1>4, <1>6, <2>1 DEF vars, FitInv
<1>7. CASE Skip \/ AnalysisFailure \/ Finish \/ DtcmWithoutRegister \/ DtcmStart \/ Shrink
           \/ FallBack \/ WorkgroupMissing
  BY <1>5, <1>7 DEF Skip, AnalysisFailure, Finish, DtcmWithoutRegister, DtcmStart, Shrink,
                    FallBack, Stuck, WorkgroupMissing, Stop
<1>8. CASE Register
  <2>1. pc' # "does not fit" /\ "cache_parallel" \notin DOMAIN config'
    BY <1>8 DEF Register, Ready, Enter
  <2> QED
    BY <1>2, <2>1 DEF FitInv, CacheFits, GaveUpAtOne
<1>9. CASE GiveUp
  <2>1. /\ pc = "shrink" /\ ~Fits(tiles) /\ config' = config /\ tiles' = tiles
        /\ \A c \in 1 .. 4 : CanShrink(c) = {} /\ align[c] <= 1
    BY <1>9 DEF GiveUp, Stuck, Stop
  <2>2. /\ Tilable /\ align \in [1 .. 4 -> Nat \ {0}] /\ tiles \in [Loops(Root) -> Nat]
        /\ \A d \in Loops(Root) : tiles[d] \in 1 .. Root.ranges[d]
    BY <1>2, <2>1 DEF Inv, SearchOK
  <2>3. ASSUME NEW d \in Loops(Root) PROVE tiles[d] = 1
    <3>1. PICK c \in 1 .. 4 : d \in Class(Root)[c]
      BY <1>2, <2>2, Classified
    <3>2. align[c] = 1 /\ ~(tiles[d] >= 2 * align[c])
      BY <2>1, <2>2, <3>1 DEF CanShrink
    <3>3. tiles[d] \in Nat /\ tiles[d] >= 1
      BY <1>2, <2>2, Ranges
    <3> QED
      BY <3>2, <3>3
  <2>4. tiles \in [Loops(Root) -> {1}]
    BY <2>2, <2>3
  <2>5. GaveUpAtOne'
    BY <1>3, <2>1, <2>2, <2>4 DEF GaveUpAtOne, Fits
  <2> QED
    BY <1>2, <1>4, <2>1, <2>5 DEF FitInv
<1>10. CASE Accept
  <2>1. /\ pc = "shrink" /\ pc' = "pass" /\ Fits(tiles)
        /\ config' = IF fallback THEN With(With(config, CacheItems), FallbackItems)
                                 ELSE With(config, CacheItems)
    BY <1>10 DEF Accept
  <2>2. /\ Tilable /\ tiles \in [Loops(Root) -> Nat]
    BY <1>2, <2>1 DEF Inv, SearchOK
  <2>3. /\ config'["cache_parallel"] = Only(ParallelLoops(Root), tiles)
        /\ config'["cache_reduction"] = Only(ReductionLoops(Root), tiles)
    BY <2>1 DEF With, CacheItems, FallbackItems
  <2>4. ASSUME NEW d \in Loops(Root) PROVE CacheTile(d)' = tiles[d]
    <3>1. d \in ParallelLoops(Root) <=> d \notin ReductionLoops(Root)
      BY <1>2, <2>2, Ranges
    <3> QED
      BY <2>2, <2>3, <3>1 DEF CacheTile, Only
  <2>5. [d \in Loops(Root) |-> CacheTile(d)'] = tiles
    BY <2>2, <2>4
  <2>6. CacheFits'
    BY <1>3, <2>1, <2>5 DEF CacheFits, Fits
  <2> QED
    BY <1>2, <2>1, <2>6 DEF FitInv, GaveUpAtOne
<1>11. CASE Workgroup
  <2>1. /\ pc' # "does not fit" /\ DOMAIN config # {}
        /\ "cache_parallel" \in DOMAIN config
        /\ \A l \in {"cache_parallel", "cache_reduction"} :
             l \in DOMAIN config => config'[l] = config[l]
    BY <1>11 DEF Workgroup, Ready, Enter, With
  <2>2. "cache_reduction" \in DOMAIN config
    BY <1>2, <2>1 DEF Inv, ConfigOK
  <2>3. \A d : CacheTile(d)' = CacheTile(d)
    BY <2>1, <2>2 DEF CacheTile
  <2>4. CacheFits'
    BY <1>3, <2>1, <2>3 DEF FitInv, CacheFits, Fits
  <2> QED
    BY <1>2, <2>1, <2>4 DEF FitInv, GaveUpAtOne
<1> QED
  BY <1>6, <1>7, <1>8, <1>9, <1>10, <1>11 DEF Next

\* For every linalg operation, target and option, and every size of the DTCM,
\* the data that a tile which the DTCM pass settles on touches, counted index
\* by index, fit the DTCM: the estimate by spans never falls short of them.
THEOREM TilesFitDtcm == Spec => []FitsDtcm
<1>1. FitInv => FitsDtcm
  <2> SUFFICES ASSUME FitInv, Configured, Root.kind = "linalg"
               PROVE  TouchedBytes([d \in Loops(Root) |-> CacheTile(d)]) <= DtcmLimitBytes
    BY DEF FitsDtcm
  <2> DEFINE s == [d \in Loops(Root) |-> CacheTile(d)]
  <2>1. InputOK /\ ConfigOK /\ Tilable /\ Fits(s)
    BY DEF FitInv, Inv, ConfigOK, Configured, CacheFits
  <2>2. Root \in Roots /\ input.dtcmSizeKb \in Nat
    BY <2>1, DtcmAssumption DEF InputOK, Root
  <2>3. s \in Tilings(Root)
    <3>1. ASSUME NEW d \in Loops(Root) PROVE CacheTile(d) \in Nat \ {0}
      <4>1. Root.ranges[d] \in Nat
        BY <2>1, Ranges
      <4> QED
        BY <2>1, <4>1 DEF ConfigOK, Configured, CacheTile
    <3> QED
      BY <3>1 DEF Tilings
  <2>4. MaxTripCount \in Nat /\ \A d \in Loops(Root) : s[d] <= MaxTripCount
    <3>1. MaxTripCount \in Nat /\ \A d \in Loops(Root) : Root.ranges[d] <= MaxTripCount
      BY <2>2, RootAssumption, TripCountAssumption DEF Loops
    <3>2. ASSUME NEW d \in Loops(Root) PROVE CacheTile(d) \in Int /\ CacheTile(d) <= Root.ranges[d]
      <4>1. Root.ranges[d] \in Nat
        BY <2>1, Ranges
      <4> QED
        BY <2>1, <4>1 DEF ConfigOK, Configured, CacheTile
    <3>3. \A d \in Loops(Root) : Root.ranges[d] \in Nat
      BY <2>1, Ranges
    <3> QED
      BY <3>1, <3>2, <3>3
  <2> HIDE DEF s
  <2>5. TouchedBytes(s) \in Int /\ TouchedBytes(s) <= EstimateFootprint(Root, s)
    BY <2>2, <2>3, <2>4, TouchedWithinEstimate
  <2>6. EstimateFootprint(Root, s) \in Nat
    <3>1. Smaller(Root, s, s)
      BY <2>3 DEF Tilings, Smaller
    <3> QED
      BY <2>2, <2>3, <3>1, FootprintGrows
  <2>7. 6 * EstimateFootprint(Root, s) <= 5 * DtcmLimitBytes /\ DtcmLimitBytes \in Nat
    BY <2>1, <2>2 DEF Fits, DtcmLimitBytes
  <2>8. TouchedBytes(s) <= DtcmLimitBytes
    BY <2>5, <2>6, <2>7
  <2> QED
    BY <2>8 DEF s
<1> QED
  BY <1>1, InitFit, StepFit, PTL DEF Spec

\* For every operation, target, option and size of the DTCM: when the DTCM
\* pass fails because the workload does not fit, no choice of tiles whatever
\* would have passed its test; halving and falling back skip nothing that the
\* failure would be wrong about.
THEOREM GivesUpRightly == Spec => []GivesUpOnlyWhenHopeless
<1>1. ASSUME FitInv, pc = "does not fit", NEW s \in Tilings(Root) PROVE ~Fits(s)
  <2>1. InputOK /\ Tilable /\ tiles \in [Loops(Root) -> {1}] /\ ~Fits(tiles)
    BY <1>1 DEF FitInv, Inv, GaveUpAtOne
  <2>2. Root \in Roots /\ input.dtcmSizeKb \in Nat
    BY <2>1, DtcmAssumption DEF InputOK, Root
  <2>3. tiles \in Tilings(Root) /\ Smaller(Root, tiles, s)
    BY <2>1 DEF Tilings, Smaller
  <2>4. /\ EstimateFootprint(Root, tiles) \in Nat /\ EstimateFootprint(Root, s) \in Nat
        /\ EstimateFootprint(Root, tiles) <= EstimateFootprint(Root, s)
    BY <2>2, <2>3, FootprintGrows
  <2>5. DtcmLimitBytes \in Nat
    BY <2>2 DEF DtcmLimitBytes
  <2> QED
    BY <2>1, <2>4, <2>5 DEF Fits
<1>2. ASSUME FitInv, pc = "does not fit"
      PROVE  [Loops(Root) -> 1 .. MaxOf(Range(Root.ranges))] \subseteq Tilings(Root)
  <2> DEFINE S == Range(Root.ranges)
             T == 1 .. MaxOf(S)
  <2>1. CASE Loops(Root) = {}
    <3> HIDE DEF T
    <3>1. [Loops(Root) -> T] \subseteq Tilings(Root)
      BY <2>1 DEF Tilings
    <3> QED
      BY <3>1 DEF T
  <2>2. CASE Loops(Root) # {}
    <3>1. InputOK /\ Tilable
      BY <1>2 DEF FitInv, Inv, GaveUpAtOne
    <3>2. Root \in Roots
      BY <3>1 DEF InputOK, Root
    <3>3. \A d \in Loops(Root) : Root.ranges[d] \in Nat /\ Root.ranges[d] <= MaxTripCount
      BY <3>1, <3>2, Ranges, RootAssumption DEF Loops
    <3>4. S \subseteq Nat /\ S # {} /\ \A x \in S : x <= MaxTripCount
      BY <2>2, <3>3 DEF Range, Loops
    <3> HIDE DEF S
    <3>5. MaxOf(S) \in Nat
      BY <3>4, MaxExists, TripCountAssumption
    <3>6. T \subseteq Nat \ {0}
      BY <3>5
    <3> HIDE DEF T
    <3>7. [Loops(Root) -> T] \subseteq Tilings(Root)
      BY <3>6 DEF Tilings
    <3> QED
      BY <3>7 DEF S, T
  <2> QED
    BY <2>1, <2>2
<1>3. FitInv => GivesUpOnlyWhenHopeless
  <2> DEFINE All == [Loops(Root) -> 1 .. MaxOf(Range(Root.ranges))]
  <2>1. ASSUME FitInv, pc = "does not fit" PROVE \A sizes \in All : ~Fits(sizes)
    <3>1. All \subseteq Tilings(Root)
      BY <1>2, <2>1
    <3> HIDE DEF All
    <3> QED
      BY <1>1, <2>1, <3>1
  <2> QED
    BY <2>1, Zenon DEF GivesUpOnlyWhenHopeless
<1> QED
  BY <1>3, InitFit, StepFit, PTL DEF Spec
=============================================================================
