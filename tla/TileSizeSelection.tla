------------------------- MODULE TileSizeSelection -------------------------
(***************************************************************************)
(* The three tile size passes of the CoralNPU compiler                     *)
(* (compiler/Transforms/CoralNPUTileSizeSelection.cpp), which leave their  *)
(* decisions in the lowering config of the dispatch's root operation:      *)
(* register tiles, then tiles that fit the DTCM found by shrinking, then   *)
(* the workgroup tiles.  One step is one pass, or one iteration of the     *)
(* shrink loop of the DTCM pass.                                           *)
(***************************************************************************)
EXTENDS LoopNest

CONSTANTS
  Roots,       \* the root operations compiled
  Targets,     \* records [coralnpu, vlen, zvtbase]: the executable target
  OptionSets,  \* records of the options of the register pass
  DtcmSizes,   \* the values of dtcmSizeKb
  MaxTripCount,  \* trip counts are 64-bit integers: 2^63 - 1 in the code
  Pipelines    \* the pass sequences run on a function

ASSUME TripCountAssumption == MaxTripCount \in Nat

ASSUME RootAssumption ==
  \A r \in Roots :
    /\ DOMAIN r.ranges \subseteq Nat
    /\ r.iter \in [DOMAIN r.ranges -> {"parallel", "reduction"}]
    /\ \A d \in DOMAIN r.ranges : r.ranges[d] = Dynamic \/ r.ranges[d] \in Nat \ {0}
    /\ \A d \in DOMAIN r.ranges : r.ranges[d] <= MaxTripCount

ASSUME OptionAssumption ==
  \A o \in OptionSets :
    /\ o.numVectorRegisters \in Nat /\ o.vectorAlignment \in Nat
    /\ o.unrollAlignment \in Nat /\ o.reductionAlignment \in Nat

\* What MLIR verifies of an operation, as far as the footprint estimate reads
\* it.  Only the estimate of other operations asks whether a size is dynamic:
\* the shapes of the three linalg kinds are taken to be static.
ASSUME ShapeAssumption ==
  \A r \in Roots :
    /\ IsFiniteSet(Loops(r)) /\ IsFiniteSet(DOMAIN r.operands)
    /\ \A k \in DOMAIN r.operands :
         LET o == r.operands[k]
         IN  /\ o.bits \in Nat
             /\ IsFiniteSet(DOMAIN o.shape) /\ IsFiniteSet(DOMAIN o.map)
             /\ r.kind = "linalg" =>
                  \A j \in DOMAIN o.map :
                    o.map[j].coef \in [Loops(r) -> Int] /\ o.map[j].full \in Nat
             /\ r.kind \in {"pack", "unpack"} =>
                  /\ \A l \in DOMAIN o.shape : o.shape[l] \in Nat
                  /\ k = 1 => \A l \in Loops(r) :
                                /\ Permuted(r, l) \in DOMAIN o.shape
                                /\ InnerTile(r, Permuted(r, l)) \in Nat \ {0}
             /\ r.kind = "unpack" /\ k = 2 => DOMAIN o.shape = Loops(r)
             /\ \A l \in DOMAIN o.shape : o.shape[l] = Dynamic \/ o.shape[l] \in Nat

ASSUME DtcmAssumption == DtcmSizes \subseteq Nat

\* assert(vectorWidth > 0)
ASSUME WidthAssumption ==
  \A r \in Roots, t \in Targets :
    HasComputeOps(r) /\ ~AnalysisFails(r) =>
      (t.vlen \div 8) \div ElemSizeBytes(r) \in Nat \ {0}

VARIABLES
  input,     \* the root, the target and the options: fixed
  todo,      \* the passes still to run
  pc,        \* "pass", "shrink", "done", or why the pipeline stopped
  align,     \* the alignments of the four classes, during the DTCM pass
  tiles,     \* dtcmTileSizes
  fallback,  \* the DTCM pass has given up the register alignments
  config,    \* the lowering config: tiling level -> tile sizes
  pipeline   \* the translation info

vars == <<input, todo, pc, align, tiles, fallback, config, pipeline>>

Root == input.root
Opt == input.options
DtcmLimitBytes == input.dtcmSizeKb * 1024

Levels == {"vector_common_parallel", "vector_reduction", "cache_parallel",
           "cache_reduction", "distribution"}

\* updateConfigItem, for several items.
With(cfg, items) ==
  [l \in DOMAIN cfg \cup DOMAIN items |->
     IF l \in DOMAIN items THEN items[l] ELSE cfg[l]]

MaxOf(S) == CHOOSE x \in S : \A y \in S : x >= y
MinOf(S) == CHOOSE x \in S : \A y \in S : x <= y

Init ==
  /\ input \in [root : Roots, target : Targets, options : OptionSets,
                dtcmSizeKb : DtcmSizes]
  /\ todo \in Pipelines
  /\ pc = "pass"
  /\ align = <<1, 1, 1, 1>>
  /\ tiles = <<>>
  /\ fallback = FALSE
  /\ config = [l \in {} |-> <<>>]
  /\ pipeline = "none"

-----------------------------------------------------------------------------
(* What every pass does first.                                             *)

Enter(pass) == pc = "pass" /\ todo # <<>> /\ Head(todo) = pass

Applies == input.target.coralnpu /\ HasComputeOps(Root)

\* Another backend's function, or one without compute ops, is left alone.
Skip ==
  /\ pc = "pass" /\ todo # <<>>
  /\ ~Applies
  /\ todo' = Tail(todo)
  /\ UNCHANGED <<input, pc, align, tiles, fallback, config, pipeline>>

Stop(why) ==
  /\ pc' = why
  /\ UNCHANGED <<input, todo, align, tiles, fallback, config, pipeline>>

AnalysisFailure ==
  /\ pc = "pass" /\ todo # <<>>
  /\ input.target.coralnpu /\ AnalysisFails(Root)
  /\ Stop("analysis failed")

Ready(pass) == Enter(pass) /\ Applies /\ ~AnalysisFails(Root)

Finish ==
  /\ pc = "pass" /\ todo = <<>>
  /\ Stop("done")

-----------------------------------------------------------------------------
(* The register pass.                                                      *)

VectorWidth == (input.target.vlen \div 8) \div ElemSizeBytes(Root)

HasMatrix == input.target.zvtbase /\ Root.contraction

\* 1 (LHS) + U (RHS) + M_reg * U (accumulators) <= numVectorRegisters, capped
\* by what the longest unrolled loop can use.
UnrollFactor(vectorAlign) ==
  LET limit == Greatest(1, (Opt.numVectorRegisters - 1) \div (1 + vectorAlign))
      full == MaxOf({CeilDiv(Root.ranges[d], VectorWidth) : d \in UnrollLoops(Root)})
  IN  Least(limit, full)

ResolveAlignments ==
  LET default == IF UnrollLoops(Root) = {} THEN VectorWidth ELSE Least(VectorWidth, 8)
      vector == IF UnrollLoops(Root) = {} /\ Opt.parallelAlignment # 0
                THEN Opt.parallelAlignment
                ELSE IF Opt.vectorAlignment # 0 THEN Opt.vectorAlignment ELSE default
      unroll == IF UnrollLoops(Root) = {} THEN 0
                ELSE IF Opt.unrollAlignment # 0 THEN Opt.unrollAlignment
                ELSE VectorWidth * UnrollFactor(vector)
  IN  [vector |-> vector, unroll |-> unroll, reduction |-> Opt.reductionAlignment]

Alignments ==
  IF HasMatrix THEN [vector |-> 4, unroll |-> 4, reduction |-> 1] ELSE ResolveAlignments

\* An unrolled tile of 2 becomes 1.
UnrollTile(size) == IF size = 2 THEN 1 ELSE size

\* Without unrolled loops only the innermost vector loop is widened, to the
\* vector width whatever the alignments resolved to.
RegisterParallel ==
  LET a == Alignments
      plain == UnrollLoops(Root) = {}
      Size(d) ==
        CASE d \in VectorLoops(Root) /\ plain ->
               IF d = MaxOf(VectorLoops(Root)) THEN Least(Root.ranges[d], VectorWidth) ELSE 1
          [] d \in VectorLoops(Root) /\ ~plain -> Least(Root.ranges[d], a.vector)
          [] d \in UnrollLoops(Root) -> UnrollTile(Least(Root.ranges[d], a.unroll))
          [] d \in BatchLoops(Root) ->
               IF plain \/ HasMatrix THEN 1 ELSE Least(Root.ranges[d], a.vector)
          [] OTHER -> 0
  IN  [d \in Loops(Root) |-> Size(d)]

RegisterReduction ==
  [d \in Loops(Root) |->
     IF d \in ReductionLoops(Root) THEN Least(Root.ranges[d], Alignments.reduction) ELSE 0]

Pipeline == IF Root.reverse THEN "CPUDefault" ELSE "CPUDoubleTilingExpert"

\* setCompilationInfo replaces whatever the root carried before.
Register ==
  /\ Ready("register")
  /\ config' = [l \in {"vector_common_parallel", "vector_reduction"} |->
                  IF l = "vector_reduction" THEN RegisterReduction ELSE RegisterParallel]
  /\ pipeline' = Pipeline
  /\ todo' = Tail(todo)
  /\ UNCHANGED <<input, pc, align, tiles, fallback>>

-----------------------------------------------------------------------------
(* The DTCM pass.                                                          *)

DtcmWithoutRegister ==
  /\ Ready("dtcm")
  /\ DOMAIN config = {}
  /\ Stop("missing compilation info")

\* The largest register tile of a class of loops, 1 if there is none.
LargestTile(class, sizes) == MaxOf({1} \cup {sizes[d] : d \in class})

\* The alignments of the vector, unroll, batch and reduction loops.
RegisterAlign ==
  [c \in 1 .. 4 |->
     LargestTile(Class(Root)[c],
                 config[IF c = 4 THEN "vector_reduction" ELSE "vector_common_parallel"])]

ClassOf(d) == CHOOSE c \in 1 .. 4 : d \in Class(Root)[c]

MaxParallelTileSize == IF HasMatrix THEN 64 ELSE 16

AlignTile(size, a) == IF size <= a THEN size ELSE AlignDown(size, a)

\* Mutant: the first tiles are not aligned.
FirstTileUnaligned(d, a) ==
  IF ClassOf(d) \in {1, 2} THEN Least(Root.ranges[d], MaxParallelTileSize) ELSE Root.ranges[d]

\* alignTileSizes, then the cap on the vector and unroll loops.
FirstTile(d, a) ==
  LET range == Root.ranges[d]
      aligned == AlignTile(range, a)
  IN  IF ClassOf(d) \in {1, 2} THEN Least(aligned, MaxParallelTileSize) ELSE aligned

DtcmStart ==
  /\ Ready("dtcm")
  /\ DOMAIN config # {}
  /\ align' = RegisterAlign
  /\ tiles' = [d \in Loops(Root) |-> FirstTile(d, RegisterAlign[ClassOf(d)])]
  /\ fallback' = FALSE
  /\ pc' = "shrink"
  /\ UNCHANGED <<input, todo, config, pipeline>>

\* The 1.2 safety factor.
Fits(sizes) == 6 * EstimateFootprint(Root, sizes) <= 5 * DtcmLimitBytes

\* Mutant: a loop is shrunk below its alignment.
CanShrinkBelow(c) == {d \in Class(Root)[c] : tiles[d] >= align[c]}

\* The loops of class c that shrinkLoops may halve.
CanShrink(c) == {d \in Class(Root)[c] : tiles[d] >= 2 * align[c]}

\* One iteration: the first loop of the first class that can be halved.
Shrink ==
  /\ pc = "shrink" /\ ~Fits(tiles)
  /\ \E c \in 1 .. 4 :
       /\ CanShrink(c) # {}
       /\ \A b \in 1 .. c - 1 : CanShrink(b) = {}
       /\ tiles' = [tiles EXCEPT ![MinOf(CanShrink(c))] = AlignDown(@ \div 2, align[c])]
  /\ UNCHANGED <<input, todo, pc, align, fallback, config, pipeline>>

Stuck == pc = "shrink" /\ ~Fits(tiles) /\ \A c \in 1 .. 4 : CanShrink(c) = {}

\* Mutant: the fallback forgets to reset the alignments.
FallBackAligned ==
  /\ Stuck
  /\ \E c \in 1 .. 4 : align[c] > 1
  /\ fallback' = TRUE
  /\ tiles' = [d \in Loops(Root) |-> Root.ranges[d]]
  /\ UNCHANGED <<input, todo, pc, align, config, pipeline>>

\* Alignment 1 for every loop, from the whole ranges again, without the cap.
FallBack ==
  /\ Stuck
  /\ \E c \in 1 .. 4 : align[c] > 1
  /\ align' = <<1, 1, 1, 1>>
  /\ fallback' = TRUE
  /\ tiles' = [d \in Loops(Root) |-> Root.ranges[d]]
  /\ UNCHANGED <<input, todo, pc, config, pipeline>>

\* Mutant: give up as soon as the search is stuck.
GiveUpEarly ==
  /\ Stuck
  /\ Stop("does not fit")

GiveUp ==
  /\ Stuck
  /\ \A c \in 1 .. 4 : align[c] <= 1
  /\ Stop("does not fit")

Only(class, sizes) == [d \in Loops(Root) |-> IF d \in class THEN sizes[d] ELSE 0]

\* The register tiles after a fallback; batch loops are left untiled.
FallbackItems ==
  LET one == [d \in Loops(Root) |-> Least(tiles[d], 1)]
  IN  [l \in {"vector_common_parallel", "vector_reduction"} |->
         IF l = "vector_reduction" THEN Only(ReductionLoops(Root), one)
         ELSE Only(VectorLoops(Root) \cup UnrollLoops(Root), one)]

CacheItems ==
  [l \in {"cache_parallel", "cache_reduction"} |->
     Only(IF l = "cache_reduction" THEN ReductionLoops(Root) ELSE ParallelLoops(Root), tiles)]

Accept ==
  /\ pc = "shrink" /\ Fits(tiles)
  /\ config' = IF fallback THEN With(With(config, CacheItems), FallbackItems)
                           ELSE With(config, CacheItems)
  /\ pc' = "pass"
  /\ todo' = Tail(todo)
  /\ UNCHANGED <<input, align, tiles, fallback, pipeline>>

-----------------------------------------------------------------------------
(* The workgroup pass.                                                     *)

WorkgroupMissing ==
  /\ Ready("workgroup")
  /\ "cache_parallel" \notin DOMAIN config
  /\ Stop(IF DOMAIN config = {} THEN "missing compilation info" ELSE "missing cache_parallel")

Workgroup ==
  /\ Ready("workgroup")
  /\ "cache_parallel" \in DOMAIN config
  /\ config' = With(config, [l \in {"distribution"} |-> config["cache_parallel"]])
  /\ todo' = Tail(todo)
  /\ UNCHANGED <<input, pc, align, tiles, fallback, pipeline>>

-----------------------------------------------------------------------------
Next ==
  \/ Skip \/ AnalysisFailure \/ Finish
  \/ Register
  \/ DtcmWithoutRegister \/ DtcmStart \/ Shrink \/ FallBack \/ GiveUp \/ Accept
  \/ WorkgroupMissing \/ Workgroup

Spec == Init /\ [][Next]_vars

\* A pass that has begun runs to its end.
FairSpec == Spec /\ WF_vars(Next)

-----------------------------------------------------------------------------
(* Properties.                                                             *)

Configured == pc # "shrink" /\ "cache_parallel" \in DOMAIN config

\* The search never leaves the tiles 1 .. range of a loop, so that what it
\* writes tiles every loop exactly once at the cache level: a size of 0, which
\* later passes take for "untiled", only marks loops of the other kind.
TilesUsable ==
  /\ pc = "shrink" => \A d \in Loops(Root) : tiles[d] \in 1 .. Root.ranges[d]
  /\ Configured =>
       \A d \in Loops(Root) :
         LET parallel == config["cache_parallel"][d]
             reduction == config["cache_reduction"][d]
         IN  IF d \in ParallelLoops(Root)
             THEN parallel \in 1 .. Root.ranges[d] /\ reduction = 0
             ELSE reduction \in 1 .. Root.ranges[d] /\ parallel = 0

CacheTile(d) == config["cache_parallel"][d] + config["cache_reduction"][d]

\* The values an index expression takes on a tile, by enumeration.
Accessed(expr, sizes) ==
  LET used == {d \in DOMAIN sizes : expr.coef[d] # 0}
      Points == {x \in [used -> 0 .. MaxOf({0} \cup {sizes[d] - 1 : d \in used})] :
                   \A d \in used : x[d] < sizes[d]}
      Index(x) == [d \in DOMAIN sizes |-> IF d \in used THEN expr.coef[d] * x[d] ELSE 0]
  IN  {SumFunction(Index(x)) : x \in Points}

\* What a linalg tile really touches: for every operand, the indices that its
\* map reaches from the tile.
TouchedBytes(sizes) ==
  LET Touched(m) == Product([j \in DOMAIN m |->
                       IF m[j].bounded THEN Cardinality(Accessed(m[j], sizes)) ELSE m[j].full])
  IN  SumFunction([k \in DOMAIN Root.operands |->
                     Touched(Root.operands[k].map) * (Root.operands[k].bits \div 8)])

\* The tiles the DTCM pass settles on for a linalg operation with elements of
\* whole bytes fit the DTCM: the data that a tile touches, counted index by
\* index through every operand's map (strides, dilations and windows
\* included), stay below the limit and not only the estimate by spans.
FitsDtcm ==
  Configured /\ Root.kind = "linalg" =>
    TouchedBytes([d \in Loops(Root) |-> CacheTile(d)]) <= DtcmLimitBytes

\* "workload cannot fit in DTCM even with 1x1x... tile size": the pass fails
\* only if no choice of tiles at all would have fitted, however the halving
\* and the fallback went.
GivesUpOnlyWhenHopeless ==
  pc = "does not fit" =>
    \A sizes \in [Loops(Root) -> 1 .. MaxOf(Range(Root.ranges))] :
      (\A d \in Loops(Root) : sizes[d] <= Root.ranges[d]) => ~Fits(sizes)

\* The passes end: the shrink loop, which restarts from the whole ranges when
\* it falls back, shrinks and falls back only finitely often.
Terminates == <>(pc \notin {"pass", "shrink"})

\* The register tiles cut the cache tiles evenly, so that no clean-up loop is
\* needed (docs/design/tiling_levels_explained.md: "DTCM tile sizes must be
\* multiples of Level 2 (Vector) tile sizes"), whatever was shrunk and also
\* after a fallback; the only exception is a tile that is still at the cap,
\* which the code applies after aligning.
MultiplesUnlessCapped ==
  Configured =>
    \A d \in Loops(Root) :
      LET register == config["vector_common_parallel"][d] + config["vector_reduction"][d]
      IN  register > 0 /\ CacheTile(d) # MaxParallelTileSize => CacheTile(d) % register = 0
=============================================================================
