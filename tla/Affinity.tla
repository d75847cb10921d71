------------------------------ MODULE Affinity ------------------------------
(***************************************************************************)
(* Which operations run on the NPU, and the profile that says so:          *)
(* CoralNPUAffinityAnnotation.cpp, which preprocessing runs over the       *)
(* module, and CoralNPUDumpAffinityExecutionProfile.cpp, which runs over   *)
(* the result of the stream phase.                                         *)
(*                                                                         *)
(* A program is a sequence of operations, with the types of their operands *)
(* and results, and the device globals they may be placed on.              *)
(***************************************************************************)
EXTENDS Integers, Sequences, FiniteSetsExt, SequencesExt

CONSTANT IoMinThresholdBytes

Bits == [i1 |-> 1, i4 |-> 4, i8 |-> 8, i16 |-> 16, i32 |-> 32, f32 |-> 32, i64 |-> 64]

AllQueues == -1
NoAffinity == [device |-> "", queues |-> 0]
OnDevice(name, queues) == [device |-> name, queues |-> queues]

\* What the two passes see of a program; every dispatch has an entry point.
Tensors == [static : BOOLEAN, element : DOMAIN Bits, elements : Nat]
Operations == [kind : STRING, types : Seq(Tensors), affinity : [device : STRING, queues : Int],
               variants : Seq(Nat) \ {<<>>}, fills : Nat, copies : Nat]
Programs == [analyzable : BOOLEAN, devices : Seq([name : STRING, ids : Seq(STRING)]),
             ops : Seq(Operations)]

SumOver(S, f(_)) == FoldSet(LAMBDA x, sum : f(x) + sum, 0, S)

-----------------------------------------------------------------------------
(* The annotation.                                                         *)

isSupportedComputeOp(op) ==
  op.kind \in {"matmul", "batch_matmul", "mmt4d", "conv_2d_nhwc_hwcf"}

\* A type that is not a ranked tensor has one element.
isSupportedType(type) == type.static /\ type.element \in {"i8", "i16", "i32", "f32"}

estimateBytesForType(type) == type.elements * (Bits[type.element] \div 8)
estimateIOBytes(op) == SumOver(DOMAIN op.types, LAMBDA i : estimateBytesForType(op.types[i]))

shouldExecuteOnCoralNPU(op) ==
  /\ isSupportedComputeOp(op)
  /\ \A i \in DOMAIN op.types : isSupportedType(op.types[i])
  /\ IoMinThresholdBytes < estimateIOBytes(op)

\* Globals whose targets are known, "coralnpu" among them.
CoralNPUGlobals(program) ==
  {i \in DOMAIN program.devices :
     \E j \in DOMAIN program.devices[i].ids : program.devices[i].ids[j] = "coralnpu"}

getCoralNPUDeviceAffinityAttr(program) ==
  IF ~program.analyzable \/ CoralNPUGlobals(program) = {} THEN NoAffinity
  ELSE OnDevice(program.devices[Min(CoralNPUGlobals(program))].name, AllQueues)

\* Mutant: an operation that has an affinity gets another one.
AnnotateOpAlways(op, npu) ==
  IF npu # NoAffinity /\ shouldExecuteOnCoralNPU(op) THEN [op EXCEPT !.affinity = npu] ELSE op

AnnotateOp(op, npu) ==
  IF npu # NoAffinity /\ op.affinity = NoAffinity /\ shouldExecuteOnCoralNPU(op)
  THEN [op EXCEPT !.affinity = npu] ELSE op

Annotate(program) ==
  LET npu == getCoralNPUDeviceAffinityAttr(program)
  IN  [program EXCEPT !.ops = [i \in DOMAIN program.ops |-> AnnotateOp(program.ops[i], npu)]]

-----------------------------------------------------------------------------
(* Between the two passes IREE, with the patch that is part of the         *)
(* repository, makes a dispatch of each operation, with a binding for each *)
(* operand and result and an entry point for each variant, and puts it, the*)
(* fills it needs and the copies of its results in an execution region that*)
(* has the operation's affinity.                                           *)
Streamed(program) ==
  [i \in DOMAIN program.ops |->
     LET op == program.ops[i]
     IN  [affinity |-> op.affinity, fills |-> op.fills, copies |-> op.copies,
          entry_points |-> [v \in DOMAIN op.variants |->
                              [op_count |-> op.variants[v], bindings |-> op.types]]]]

-----------------------------------------------------------------------------
(* The profile.                                                            *)

divideCeil(a, b) == (a + b - 1) \div b

analyzeFunc(func) ==
  LET static == {i \in DOMAIN func.bindings : func.bindings[i].static}
      type(i) == func.bindings[i]
  IN  [opCount |-> func.op_count,
       isDynamic |-> static # DOMAIN func.bindings,
       elementCount |-> SumOver(static, LAMBDA i : type(i).elements),
       logicalDataSize |->
          SumOver(static, LAMBDA i : divideCeil(type(i).elements * Bits[type(i).element], 8))]

\* Each entry point of a dispatch overwrites what the one before said.
dispatchFuncInfo(execute) == analyzeFunc(Last(execute.entry_points))

\* The device IDs of the global, or its name if it has none; an affinity of
\* several queues resolves to the same name as one of a single queue.
getDeviceName(program, affinity) ==
  IF affinity = NoAffinity THEN <<"Default">>
  ELSE LET device == SelectSeq(program.devices, LAMBDA d : d.name = affinity.device)
       IN  IF device = <<>> \/ device[1].ids = <<>> THEN <<affinity.device>> ELSE device[1].ids

analyzeStatistics(executes, affinity) ==
  LET mine == {i \in DOMAIN executes : executes[i].affinity = affinity}
      info(i) == dispatchFuncInfo(executes[i])
      static == {i \in mine : ~info(i).isDynamic}
  IN  [dispatchCount |-> Cardinality(mine),
       fillCount |-> SumOver(mine, LAMBDA i : executes[i].fills),
       copyCount |-> SumOver(mine, LAMBDA i : executes[i].copies),
       staticDispatchCount |-> Cardinality(static),
       hasDynamicDispatch |-> static # mine,
       staticDispatchDataSize |-> SumOver(static, LAMBDA i : info(i).logicalDataSize),
       staticDispatchElements |-> SumOver(static, LAMBDA i : info(i).elementCount),
       staticWorkBytes |-> SumOver(static, LAMBDA i : info(i).logicalDataSize * info(i).opCount),
       staticWorkElements |-> SumOver(static, LAMBDA i : info(i).elementCount * info(i).opCount)]

\* One row per affinity that occurs; without any dispatch the pretty report
\* has none.
Report(program) ==
  LET executes == Streamed(program)
  IN  [affinity \in {executes[i].affinity : i \in DOMAIN executes} |->
         [name |-> getDeviceName(program, affinity),
          stats |-> analyzeStatistics(executes, affinity)]]
=============================================================================
