--------------------------- MODULE MatrixLowering ---------------------------
(***************************************************************************)
(* The lowering of contractions to the matrix unit:                        *)
(* CoralNPUVectorToMatrix.cpp, which looks for accumulator chains behind   *)
(* the writes of a function and keeps each chain's accumulator in a tile   *)
(* register, and CoralNPUMatrixToLLVM.cpp, which turns the loads and       *)
(* write-backs of tiles into one access per row.                           *)
(*                                                                         *)
(* The passes rewrite a function in place, so a chain that was found       *)
(* before another one was lowered can refer to operations that are gone    *)
(* by the time it is its turn.  `pc' is "undefined" from then on.          *)
(***************************************************************************)
EXTENDS MatrixCode

CONSTANTS
  Functions,  \* the functions to lower: [zvt |-> BOOLEAN, code |-> ...]
  NumTiles    \* tile registers, 16

VARIABLES
  fn,         \* the function as it was
  code,       \* the function as it is
  pc,         \* "start", "analyze", "lower", "toLLVM", or how it ended
  todo,       \* writes that the walk has not come to
  trace,      \* the write being traced: analyzeChain's locals
  chains,     \* what the walk found
  nextTileId, \* == chains handled, too
  inputElTy,
  rewritten,
  declared    \* element type of coralnpu.matrix.load.w32 and .writeback.w32

vars == <<fn, code, pc, todo, trace, chains, nextTileId, inputElTy, rewritten, declared>>

NoLoop == <<>>
NoTrace == [val |-> <<>>]
AccType(ty) == IF ty = "i8" THEN "i32" ELSE "f32"

\* The walk comes to the writes inside loops, too.
Writes(c) == SelectSeq(Flat(c), LAMBDA x : x.k = "write")

Init ==
  /\ fn \in Functions
  /\ code = fn.code
  /\ pc = "start"
  /\ todo = <<>>
  /\ trace = NoTrace
  /\ chains = <<>>
  /\ nextTileId = 0
  /\ inputElTy = "none"
  /\ rewritten = FALSE
  /\ declared = {}

-----------------------------------------------------------------------------
(* Finding the chains.                                                     *)

getDimPosition(map, d) ==
  IF d \in Range(map) THEN CHOOSE i \in DOMAIN map : map[i] = d ELSE -1

\* Through extensions, signed or not, and broadcasts to what there was before.
traceToSourceValue(o) == [ty |-> o.ty, whole |-> o.form # "bcast"]

\* The element type is that of lhs, behind its extensions; rhs may have another
\* one, and the combining kind is not looked at.
isSupportedMatrixContraction(x) ==
  LET lhsKPos == getDimPosition(x.maps[1], x.reduction)
      rhsKPos == getDimPosition(x.maps[2], x.reduction)
      Size(i, pos) == x.sizes[x.maps[i][pos]]
  IN  /\ \A i \in 1 .. 3 : Len(x.maps[i]) = 2
      /\ lhsKPos # -1 /\ rhsKPos # -1
      /\ Size(1, 3 - lhsKPos) = NumRows
      /\ Size(2, 3 - rhsKPos) = NumRows
      /\ Size(1, lhsKPos) = 1
      /\ <<traceToSourceValue(x.lhs).ty, x.accTy>> \in
           {<<"f32", "f32">>, <<"bf16", "f32">>, <<"i8", "i32">>}

\* runOnOperation.
Begin ==
  /\ pc = "start"
  /\ IF fn.zvt
     THEN pc' = "analyze" /\ todo' = Writes(code)
     ELSE pc' = "done" /\ UNCHANGED todo
  /\ UNCHANGED <<fn, code, trace, chains, nextTileId, inputElTy, rewritten, declared>>

Tracing == pc = "analyze" /\ trace # NoTrace
TracingKeeps == UNCHANGED <<fn, code, pc, nextTileId, inputElTy, rewritten, declared>>

\* The walk comes to the next write of a tile.
NextWrite ==
  /\ pc = "analyze" /\ trace = NoTrace /\ todo # <<>>
  /\ LET w == Head(todo)
     IN  trace' = IF w.tile
                  THEN [write |-> w.id, val |-> w.val, active |-> NoLoop,
                        updates |-> <<>>, ty |-> "none"]
                  ELSE NoTrace
  /\ todo' = Tail(todo)
  /\ UNCHANGED chains /\ TracingKeeps

Abandon == trace' = NoTrace /\ UNCHANGED <<todo, chains>>

\* From the result of a loop to the value it yields.
EnterLoop ==
  /\ Tracing /\ trace.val[1] = "res"
  /\ \/ trace.active # NoLoop /\ Abandon
     \/ /\ trace.active = NoLoop
        /\ LET l == Op(code, trace.val[2])
           IN  trace' = [trace EXCEPT !.active = <<"iter", l.id, trace.val[3]>>,
                                      !.val = l.yields[trace.val[3]]]
        /\ UNCHANGED <<todo, chains>>
  /\ TracingKeeps

\* From the loop's own argument to the value it starts with.
LeaveLoop ==
  /\ Tracing /\ trace.val = trace.active
  /\ trace' = [trace EXCEPT !.active = NoLoop,
                            !.val = Op(code, trace.val[2]).inits[trace.val[3]]]
  /\ UNCHANGED <<todo, chains>> /\ TracingKeeps

DefinedBy(kinds) == trace.val[1] = "op" /\ Op(code, trace.val[2]).k \in kinds

\* Through a contraction to its accumulator.  What is traced last comes first
\* when the function runs.
TraceUpdate ==
  /\ Tracing /\ DefinedBy({"contract"})
  /\ LET x == Op(code, trace.val[2])
     IN  IF isSupportedMatrixContraction(x)
         THEN /\ trace' = [trace EXCEPT !.updates = <<x.id>> \o @,
                                        !.ty = x.lhs.ty, !.val = x.acc]
              /\ UNCHANGED <<todo, chains>>
         ELSE Abandon
  /\ TracingKeeps

TraceUnknown == Tracing /\ DefinedBy({"other"}) /\ Abandon /\ TracingKeeps

\* At a constant, a read, or an argument that is not the loop's own.
TraceInit ==
  /\ Tracing
  /\ \/ trace.val \in {ZeroValue, ConstValue, FuncArg}
     \/ trace.val[1] = "iter" /\ trace.val # trace.active
     \/ DefinedBy({"read"})
  /\ LET found == trace.active = NoLoop /\ trace.updates # <<>>
         chain == [write |-> trace.write, init |-> trace.val,
                   updates |-> trace.updates, ty |-> trace.ty]
     IN  chains' = IF found THEN Append(chains, chain) ELSE chains
  /\ trace' = NoTrace
  /\ UNCHANGED todo /\ TracingKeeps

WalkDone ==
  /\ pc = "analyze" /\ trace = NoTrace /\ todo = <<>>
  /\ pc' = "lower"
  /\ UNCHANGED <<fn, code, todo, trace, chains, nextTileId, inputElTy, rewritten, declared>>

-----------------------------------------------------------------------------
(* Lowering the chains one after the other.                                *)

InitIsRead(c) == c.init[1] = "op"
isConstantZero(v) == v = ZeroValue

InitItem(c, tile) ==
  IF InitIsRead(c)
  THEN [k |-> "load", id |-> 0, tile |-> tile, ref |-> Op(code, c.init[2]).src]
  ELSE [k |-> "vtzero", id |-> 0, tile |-> tile]

\* In a loop the instruction is given what the operands come from, without one
\* the operands themselves, which have the accumulator's type if extended.
Operand(x, o, inLoop) ==
  IF inLoop THEN traceToSourceValue(o)
  ELSE [ty |-> IF o.form \in {"sext", "zext"} THEN x.accTy ELSE o.ty, whole |-> TRUE]

MatMul(c, x, tile, inLoop) ==
  LET operands == {Operand(x, x.lhs, inLoop), Operand(x, x.rhs, inLoop)}
  IN  [k |-> "mm", id |-> 0, tile |-> tile, p |-> x.p,
       types |-> {c.ty} \cup {o.ty : o \in operands},
       whole |-> \A o \in operands : o.whole]

\* The new loop carries all but the accumulator.  Its operations are clones;
\* the values its yield is given are not looked up among them.
Clone == 100

AccIdx(c, l) ==
  IF \E i \in DOMAIN l.inits : l.inits[i] = c.init
  THEN Min({i \in DOMAIN l.inits : l.inits[i] = c.init}) ELSE 1

NewIdx(i, accIdx) == IF i < accIdx THEN i ELSE i - 1

NewLoop(c, l, tile) ==
  LET accIdx == AccIdx(c, l)
      ids == Ids(l.body) \ ({0} \cup Range(c.updates))
      Map(v) ==
        CASE v[1] = "iter" /\ v[2] = l.id /\ v[3] # accIdx ->
               <<"iter", l.id + Clone, NewIdx(v[3], accIdx)>>
          [] v[1] \in {"op", "res", "iter"} /\ v[2] \in ids ->
               [v EXCEPT ![2] = @ + Clone]
          [] OTHER -> v
      New(x) ==
        IF x.k = "contract" /\ x.id \in Range(c.updates)
        THEN MatMul(c, x, tile, TRUE)
        ELSE [WithOperands(x, Map) EXCEPT !.id = IF @ = 0 THEN 0 ELSE @ + Clone]
  IN  [l EXCEPT !.id = @ + Clone,
                !.inits = RemoveAt(@, accIdx),
                !.body = Rewrite(@, LAMBDA x : <<New(x)>>),
                !.yields = RemoveAt(@, accIdx)]

LoopLowered(c, l, tile) ==
  LET accIdx == AccIdx(c, l)
      Replaced(v) ==
        IF v[1] = "res" /\ v[2] = l.id
        THEN IF v[3] = accIdx THEN ZeroValue
             ELSE <<"res", l.id + Clone, NewIdx(v[3], accIdx)>>
        ELSE v
  IN  ReplaceUses(Exchange(code, l.id, <<InitItem(c, tile), NewLoop(c, l, tile)>>),
                  Replaced)

\* Without a loop only the first of the updates is lowered.
UpdateLowered(c, x, tile) ==
  ReplaceUses(Exchange(code, x.id, <<InitItem(c, tile), MatMul(c, x, tile, FALSE)>>),
              LAMBDA v : IF v = Result(x) THEN ZeroValue ELSE v)

StoreItem(w, tile) == [k |-> "store", id |-> 0, tile |-> tile, ref |-> w.dst]

\* The values that some operation uses though no operation produces them.
Dangling(c) ==
  {v \in UNION {Range(Operands(x)) : x \in Range(Flat(c))} :
     v[1] \in {"op", "res", "iter"} /\ v[2] \notin Ids(c)}

LowerChain ==
  /\ pc = "lower" /\ nextTileId < Len(chains)
  /\ nextTileId' = nextTileId + 1
  /\ LET tile == nextTileId
         c == chains[tile + 1]
         w == Op(code, c.write)
         inLoop == w.val[1] = "res"
         lowered ==
           IF inLoop THEN LoopLowered(c, Op(code, w.val[2]), tile)
                     ELSE UpdateLowered(c, Op(code, c.updates[1]), tile)
         known == InitIsRead(c) \/ isConstantZero(c.init)
         gone == known /\ ~ inLoop /\ c.updates[1] \notin Ids(code)
     IN  /\ inputElTy' = c.ty
         /\ \/ /\ tile >= NumTiles
               /\ pc' = "failed"
               /\ UNCHANGED <<code, rewritten, declared>>
            \/ /\ tile < NumTiles /\ ~ known
               /\ UNCHANGED <<pc, code, rewritten, declared>>
            \/ /\ tile < NumTiles /\ gone
               /\ pc' = "undefined"
               /\ UNCHANGED <<code, rewritten, declared>>
            \/ /\ tile < NumTiles /\ known /\ ~ gone
               /\ pc' = IF Dangling(lowered) = {} THEN pc ELSE "undefined"
               /\ code' = Exchange(lowered, w.id, <<StoreItem(w, tile)>>)
               /\ declared' = declared \cup {AccType(c.ty)}
               /\ rewritten' = TRUE
  /\ UNCHANGED <<fn, todo, trace, chains>>

\* One configuration for the function, for the chain looked at last.  The
\* verifier then finds calls that do not have the types of the one function
\* that was declared for all 32-bit elements.
Configure ==
  /\ pc = "lower" /\ nextTileId = Len(chains)
  /\ code' = IF rewritten
             THEN << [k |-> "config", id |-> 0, ty |-> inputElTy] >> \o code
             ELSE code
  /\ pc' = IF Cardinality(declared) > 1 THEN "invalid" ELSE "toLLVM"
  /\ UNCHANGED <<fn, todo, trace, chains, nextTileId, inputElTy, rewritten, declared>>

-----------------------------------------------------------------------------
(* CoralNPUMatrixToLLVM.                                                   *)

tss(tile, row) == tile * 2 ^ TileShift + row

MemOps(x, Row(_)) ==
  [r \in 1 .. NumRows |->
     [k |-> IF x.k = "load" THEN "vtle" ELSE "vtse", id |-> 0,
      tss |-> tss(x.tile, r - 1), row |-> [x.ref EXCEPT !.base = Row(r - 1)]]]

\* Mutant: rows are taken to follow each other in memory.
LowerMatrixMemOpDense(x) == MemOps(x, LAMBDA r : x.ref.base + r)

\* Every access has the descriptor and the place of its row.
lowerMatrixMemOp(x) == MemOps(x, LAMBDA r : x.ref.base + r * x.ref.stride)

MatrixToLLVM ==
  /\ pc = "toLLVM"
  /\ code' = Rewrite(code, LAMBDA x :
               IF x.k \in {"load", "store"} THEN lowerMatrixMemOp(x) ELSE <<x>>)
  /\ pc' = "done"
  /\ UNCHANGED <<fn, todo, trace, chains, nextTileId, inputElTy, rewritten, declared>>

Ended == pc \in {"done", "failed", "invalid", "undefined"} /\ UNCHANGED vars

Next ==
  \/ Begin \/ NextWrite \/ EnterLoop \/ LeaveLoop \/ TraceUpdate \/ TraceUnknown
  \/ TraceInit \/ WalkDone \/ LowerChain \/ Configure \/ MatrixToLLVM \/ Ended

Spec == Init /\ [][Next]_vars

-----------------------------------------------------------------------------
(* What functions the lowering is right for.                               *)

Lowered == {c \in Range(chains) : InitIsRead(c) \/ isConstantZero(c.init)}
Source(id) == Op(fn.code, id)

\* Where an operation is, and the loops around it.
Position(id) == CHOOSE i \in DOMAIN Flat(fn.code) : Flat(fn.code)[i].id = id
Around(id) == {l \in Range(Flat(fn.code)) : l.k = "loop" /\ id \in Ids(l.body)}

\* The chain is one loop that carries nothing else that it computes, or one
\* contraction; and its operands are what the instruction takes.
LoopShape(c) ==
  /\ Source(c.write).val[1] = "res"
  /\ LET l == Source(Source(c.write).val[2])
         n == Source(c.write).val[3]
         Inside(v) == v[1] \in {"op", "res", "iter"} /\ v[2] \in {l.id} \cup Ids(l.body)
     IN  /\ l.inits[n] = c.init /\ \A i \in 1 .. n - 1 : l.inits[i] # c.init
         /\ \A i \in DOMAIN l.yields : Inside(l.yields[i]) => i = n
         /\ Uses(fn.code, Source(c.write).val) = 1
         /\ Uses(fn.code, <<"iter", l.id, n>>) = 1
  /\ \A id \in Range(c.updates) : "bcast" \notin {Source(id).lhs.form, Source(id).rhs.form}

SingleShape(c) ==
  /\ Source(c.write).val = <<"op", c.updates[1]>>
  /\ LET x == Source(c.updates[1])
     IN  {x.lhs.form, x.rhs.form} \cap {"sext", "zext"} = {}

\* The operation in whose place the chain begins once it is lowered.
Place(c) ==
  IF Source(c.write).val[1] = "res" THEN Source(c.write).val[2] ELSE c.updates[1]

\* Nothing writes to where the accumulator is read from between the read and
\* the place where the load is put, or in a loop that only the load is in.
InitKept(c) ==
  InitIsRead(c) =>
    LET read == Source(c.init[2])
        Between(w) ==
          \/ Position(w.id) \in Position(read.id) .. Position(Place(c))
          \/ \E l \in Around(Place(c)) \ Around(read.id) : w.id \in Ids(l.body)
        Everywhere(id, ref) ==
          UNION {RowAddresses(ref, i) :
                   i \in {0} \cup UNION {0 .. l.trips - 1 : l \in Around(id)}}
    IN  \A w \in Range(Writes(fn.code)) :
          Between(w) => Everywhere(w.id, w.dst) \cap Everywhere(read.id, read.src) = {}

\* All of the tile is moved, in order.
WholeTransfer(x) == x.rows = Rows /\ ~ x.permuted

Lowerable ==
  \A c \in Lowered :
    /\ LoopShape(c) \/ SingleShape(c)
    /\ WholeTransfer(Source(c.write))
    /\ InitIsRead(c) => WholeTransfer(Source(c.init[2]))
    /\ \A id \in Range(c.updates) :
         /\ Effect(Source(id)) = InstructionEffect
         /\ {Source(id).lhs.ty, Source(id).rhs.ty} = {chains[Len(chains)].ty}
         /\ Uses(fn.code, <<"op", id>>) = 1
    /\ InitKept(c)

KeepsMeaning == Meaning(code) = Meaning(fn.code)

\* The lowering of a function (runOnOperation of both passes) keeps what it
\* computes, if every chain that it lowers is one loop with one accumulator or
\* one contraction, signed and summing, moves whole tiles, and all of them have
\* one element type, nobody else uses the values on them, and no write comes
\* between the accumulator's read and its first update, inside tile loops too;
\* and it does not fail if there is a tile for every chain.
LowerableIsRight ==
  (pc \in {"done", "failed", "invalid", "undefined"} /\ Lowerable)
    => \/ pc = "done" /\ KeepsMeaning
       \/ pc = "failed" /\ Len(chains) > NumTiles

\* analyzeChain "find[s] the initialization value and all updates" of a chain
\* (CoralNPUVectorToMatrix.cpp:139), and docs/design/matrix_codegen.md says that
\* each is replaced by an instruction that adds to the chain's tile: so what a
\* function writes is the same after the passes.
AllUpdatesReachMemory == pc = "done" => KeepsMeaning
=============================================================================
