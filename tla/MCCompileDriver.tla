-------------------------- MODULE MCCompileDriver --------------------------
(* Targets of every route, and inputs of up to three pieces.               *)
EXTENDS CompileDriver

Default == [embedded |-> TRUE, static |-> FALSE, ukernel |-> FALSE, debug |-> FALSE,
            dump |-> FALSE, keep |-> FALSE, attached |-> <<>>]

Keep == [Default EXCEPT !.keep = TRUE, !.attached = <<"inline", "found">>]
System == [Default EXCEPT !.embedded = FALSE, !.debug = TRUE, !.dump = TRUE]
Static == [Default EXCEPT !.embedded = FALSE, !.static = TRUE, !.ukernel = TRUE]

MCPhases == <<"preprocessing", "flow", "stream", "hal", "vm">>

MCOptions ==
  {o \in [mode : {"std", "vm", "hal_executable", "precompile"}, from : 0 .. 4, to : {2, 3, 5},
          format : {"vm_bytecode"}, split : BOOLEAN, profile : {"none", "stderr", "file"}] :
     /\ o.from = 0 \/ o.mode = "std"
     /\ o.profile = "none" \/ (o.mode = "std" /\ o.to = 5)}

-----------------------------------------------------------------------------
Shaped(element, n) == [static |-> TRUE, element |-> element, elements |-> n]
Dynamic(element) == [static |-> FALSE, element |-> element, elements |-> 1]

Op(kind, types, affinity, variants) ==
  [kind |-> kind, types |-> types, affinity |-> affinity, variants |-> variants,
   fills |-> 1, copies |-> 0]

NPU == [name |-> "npu", ids |-> <<"coralnpu", "local">>]
CPU == [name |-> "cpu", ids |-> <<"local">>]

\* Too small by one byte, large enough, of dynamic shape, of an element type
\* that is not supported, not a compute operation; with or without a placement.
Ops ==
  <<Op("matmul", <<Shaped("i8", 4), Shaped("i32", 1)>>, NoAffinity, <<2>>),
    Op("matmul", <<Shaped("i8", 5), Shaped("i32", 1)>>, NoAffinity, <<2, 3>>),
    Op("matmul", <<Shaped("i8", 5), Dynamic("i32")>>, NoAffinity, <<2>>),
    Op("mmt4d", <<Shaped("i4", 33), Shaped("i32", 9)>>, NoAffinity, <<2>>),
    Op("generic", <<Shaped("i32", 9)>>, NoAffinity, <<1>>),
    Op("matmul", <<Shaped("i32", 9)>>, OnDevice("cpu", 1), <<1>>),
    Op("matmul", <<Dynamic("i32")>>, OnDevice("npu", 1), <<1>>)>>

Program == [analyzable |-> TRUE, devices |-> <<CPU, NPU>>, ops |-> Ops]
NoNPU == [Program EXCEPT !.devices = <<CPU>>]
Unanalyzable == [Program EXCEPT !.analyzable = FALSE]
Empty == [Program EXCEPT !.ops = <<>>]

Piece(prog, executables) == [program |-> prog, executables |-> executables]

MCInputs ==
  { << Piece(Program, <<Default, Keep>>), Piece(NoNPU, <<System>>), Piece(Empty, <<>>) >>,
    << Piece(Unanalyzable, <<Static>>), Piece(Program, <<Keep>>) >>,
    << Piece(Program, <<[Static EXCEPT !.attached = <<"found">>]>>) >>,
    << Piece(Empty, <<[Default EXCEPT !.static = TRUE]>>), Piece(Program, <<Default>>) >>,
    << Piece(Empty, <<[Keep EXCEPT !.attached = <<"inline", "missing">>]>>) >> }
=============================================================================
