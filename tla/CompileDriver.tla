--------------------------- MODULE CompileDriver ---------------------------
(***************************************************************************)
(* coralnpu-compile (compiler/tools/coralnpu_compile_lib.cc): it opens the *)
(* input and the output, compiles the input, or each piece of a split      *)
(* input, in an invocation of its own, and keeps the output file only if   *)
(* everything went well.  A standard compilation is interrupted after the  *)
(* stream phase to run the CoralNPU passes on the module, which is taken   *)
(* out of the invocation meanwhile.  The phases, which are IREE's, are     *)
(* opaque except preprocessing, which places operations on the NPU, and the*)
(* one that serializes the executables.                                    *)
(***************************************************************************)
EXTENDS Serialization, Affinity

CONSTANTS
  Phases,         \* the names of the IREE pipeline phases, in order
  Preprocessing,  \* the index of the phase that annotates
  Stream,         \* the index of the stream phase
  Serializing,    \* the index of the phase that serializes executables
  Options,        \* records [mode, from, to, format, split, profile]: the command line
  Inputs          \* an input: the pieces, each its program and the targets of
                  \* its executables

End == Len(Phases)

ASSUME PhaseAssumption ==
  /\ Phases \in Seq(STRING) /\ {"profile", "precompile"} \cap Range(Phases) = {}
  /\ Stream \in 1 .. End /\ Preprocessing \in 1 .. Stream - 1
  /\ Serializing \in Stream + 1 .. End

ASSUME OptionAssumption ==
  \A o \in Options :
    /\ o.mode \in {"std", "vm", "hal_executable", "precompile"}
    /\ o.from \in 0 .. End /\ o.to \in 1 .. End /\ o.split \in BOOLEAN
    /\ o.profile \in {"none", "stderr", "file"}

ASSUME InputAssumption ==
  \A i \in Inputs :
    /\ i # <<>> /\ i \in Seq(Range(i))
    /\ \A k \in DOMAIN i : i[k].executables \in Seq(Target) /\ i[k].program \in Programs

VARIABLES
  opts, input,  \* fixed
  pc,
  format,       \* outputFormat, which some modes overwrite
  piece,        \* the piece being compiled
  inv,          \* the invocation: its phases, its module, what is left to run
  ran,          \* what ran on the module
  program,      \* the module's operations
  reports,      \* the profiles on stderr (or stdout) and in the file
  out,          \* what has been written to the output
  hadFailure,
  code,         \* the exit status
  keptOutput,   \* ireeCompilerOutputKeep was called
  live          \* the objects of the compiler API that exist

driverVars == <<opts, input, pc, format, piece, inv, ran, program,
                reports, out, hadFailure, code, keptOutput, live>>
vars == <<driverVars, serVars>>

NoProgram == [ops |-> <<>>]
NoInv == [from |-> 0, to |-> 0, module |-> "none", plan |-> <<>>]

Init ==
  /\ opts \in Options /\ input \in Inputs
  /\ pc = "open source" /\ format = opts.format
  /\ piece = 0 /\ inv = NoInv /\ ran = <<>> /\ out = <<>>
  /\ hadFailure = FALSE /\ code = 0 /\ keptOutput = FALSE
  /\ live = {"session"}
  /\ program = NoProgram /\ reports = [stderr |-> <<>>, file |-> <<>>]
  /\ SerInit

\* Without splitting, the whole input is one piece.
Pieces == IF opts.split THEN input ELSE <<input[1]>>

\* return: ~MainState destroys what it owns; the file of an output that was
\* not kept is removed.
Return(status) ==
  /\ pc' = "exited"
  /\ code' = status
  /\ live' = live \ {"split sources", "output", "source", "session"}

-----------------------------------------------------------------------------
OpenSource ==
  /\ pc = "open source"
  /\ pc' = "open output" /\ live' = live \cup {"source"}
  /\ UNCHANGED <<opts, input, program, reports, format, piece, inv, ran, out, hadFailure, code, keptOutput, serVars>>

OpenOutput ==
  /\ pc = "open output"
  /\ pc' = IF opts.split THEN "split" ELSE "next"
  /\ live' = live \cup {"output"}
  /\ UNCHANGED <<opts, input, program, reports, format, piece, inv, ran, out, hadFailure, code, keptOutput, serVars>>

Split ==
  /\ pc = "split"
  /\ pc' = "next" /\ live' = live \cup {"split sources"}
  /\ UNCHANGED <<opts, input, program, reports, format, piece, inv, ran, out, hadFailure, code, keptOutput, serVars>>

OpenFails ==
  /\ pc \in {"open source", "open output", "split"}
  /\ Return(1)
  /\ UNCHANGED <<opts, input, program, reports, format, piece, inv, ran, out, hadFailure, keptOutput, serVars>>

-----------------------------------------------------------------------------
(* processBuffer.                                                          *)

BeginPiece ==
  /\ pc = "next" /\ piece < Len(Pieces)
  /\ piece' = piece + 1
  /\ inv' = [NoInv EXCEPT !.from = opts.from, !.to = opts.to]
  /\ ran' = <<>> /\ binaries' = <<>>
  /\ live' = live \cup {"invocation"}
  /\ pc' = "parse"
  /\ UNCHANGED <<opts, input, program, reports, format, out, hadFailure, code, keptOutput, job, objects, files, kept>>

\* The phases after `from` up to `to`.
PhasesBetween(from, to) == [k \in 1 .. (IF to > from THEN to - from ELSE 0) |-> Phases[from + k]]

\* The pipeline that a mode runs first, and where it goes on from there.
FirstPipeline ==
  CASE opts.mode = "std" /\ opts.to = End -> PhasesBetween(opts.from, Stream)
    [] opts.mode = "std" /\ opts.to # End -> PhasesBetween(opts.from, opts.to)
    [] opts.mode = "vm" -> <<>>
    [] opts.mode = "hal_executable" -> <<Phases[Serializing]>>
    [] opts.mode = "precompile" -> <<"precompile">>

Parse ==
  /\ pc = "parse"
  /\ live' = live \cup {"module"}
  /\ inv' = [inv EXCEPT !.module = "owned", !.plan = FirstPipeline,
                        !.to = IF opts.mode = "std" /\ opts.to = End THEN Stream ELSE @]
  /\ format' = IF opts.mode \in {"hal_executable", "precompile"} THEN opts.mode ELSE format
  /\ program' = Pieces[piece].program
  /\ pc' = "pipeline"
  /\ UNCHANGED <<opts, input, reports, piece, ran, out, hadFailure, code, keptOutput, serVars>>

Executables == Pieces[piece].executables
AtSerializing == inv.plan # <<>> /\ Head(inv.plan) = Phases[Serializing]

RunPhase ==
  /\ pc = "pipeline" /\ inv.plan # <<>> /\ Idle
  /\ AtSerializing => Len(binaries) >= Len(Executables)
  /\ ran' = Append(ran, Head(inv.plan))
  /\ program' = IF Head(inv.plan) \in {Phases[Preprocessing], "precompile"}
                THEN Annotate(program) ELSE program
  /\ inv' = [inv EXCEPT !.plan = Tail(@)]
  /\ UNCHANGED <<opts, input, reports, pc, format, piece, out, hadFailure, code, keptOutput, live, serVars>>

\* serializeExecutable, for the executables of the module one by one.
Serialize ==
  /\ pc = "pipeline" /\ AtSerializing
  /\ \/ /\ Len(binaries) < Len(Executables)
        /\ LET k == Len(binaries) + 1 IN SerBegin(<<piece, k>>, Executables[k])
        /\ UNCHANGED <<files, kept, binaries>>
     \/ SerStep
     \/ CreateBinary
  /\ UNCHANGED driverVars

\* Mutant: the result of the last piece decides.
LeavePieceLast(failed) ==
  /\ live' = live \ ({"invocation"} \cup (IF inv.module = "owned" THEN {"module"} ELSE {}))
  /\ inv' = NoInv
  /\ hadFailure' = failed
  /\ pc' = "next"

\* ~InvState: the invocation goes, with the module if it has it.
LeavePiece(failed) ==
  /\ live' = live \ ({"invocation"} \cup (IF inv.module = "owned" THEN {"module"} ELSE {}))
  /\ inv' = NoInv
  /\ hadFailure' = (hadFailure \/ failed)
  /\ pc' = "next"

\* Parsing fails, or a phase does, or IREE refuses to compile from a phase
\* that is not before the one to compile to.
PieceFails ==
  /\ \/ pc = "parse"
     \/ pc = "pipeline" /\ Idle /\ inv.plan # <<>> /\ ~AtSerializing
     \/ pc = "pipeline" /\ opts.mode = "std" /\ inv.from >= inv.to
  /\ LeavePiece(TRUE)
  /\ UNCHANGED <<opts, input, program, reports, format, piece, ran, out, code, keptOutput, serVars>>

SerializeFails ==
  /\ pc = "pipeline" /\ AtSerializing
  /\ SerFails
  /\ LeavePiece(TRUE)
  /\ UNCHANGED <<opts, input, program, reports, format, piece, ran, out, code, keptOutput>>

Intercepted == opts.mode = "std" /\ inv.to = Stream /\ opts.to = End

StealModule ==
  /\ pc = "pipeline" /\ Idle /\ inv.plan = <<>> /\ Intercepted
  /\ inv' = [inv EXCEPT !.module = "stolen"]
  /\ pc' = "profile"
  /\ UNCHANGED <<opts, input, program, reports, format, piece, ran, out, hadFailure, code, keptOutput, live, serVars>>

\* The pass opens its destination anew for each module, which truncates a file;
\* when that fails it writes to stderr.
EmitProfile ==
  LET report == [piece |-> piece, rows |-> Report(program)]
  IN  \/ opts.profile = "none" /\ UNCHANGED reports
      \/ opts.profile # "none" /\ reports' = [reports EXCEPT !.stderr = Append(@, report)]
      \/ opts.profile = "file" /\ reports' = [reports EXCEPT !.file = <<report>>]

\* Mutant: the second half does not move the phase to compile from.
ResumeFromStart ==
  /\ pc = "profile"
  /\ EmitProfile
  /\ ran' = Append(ran, "profile")
  /\ inv' = [inv EXCEPT !.module = "owned", !.to = End, !.plan = PhasesBetween(inv.from, End)]
  /\ pc' = "pipeline"
  /\ UNCHANGED <<opts, input, program, format, piece, out, hadFailure, code, keptOutput, live, serVars>>

Resume ==
  /\ pc = "profile"
  /\ EmitProfile
  /\ ran' = Append(ran, "profile")
  /\ inv' = [from |-> Stream, to |-> End, module |-> "owned", plan |-> PhasesBetween(Stream, End)]
  /\ pc' = "pipeline"
  /\ UNCHANGED <<opts, input, program, format, piece, out, hadFailure, code, keptOutput, live, serVars>>

\* Mutant: the module is not handed back before the early return.
ProfileFailsLeak ==
  /\ pc = "profile"
  /\ LeavePiece(TRUE)
  /\ UNCHANGED <<opts, input, program, reports, format, piece, ran, out, code, keptOutput, serVars>>

\* The module is handed back first, "Restore for cleanup".
ProfileFails ==
  /\ pc = "profile"
  /\ live' = live \ {"invocation", "module"}
  /\ inv' = NoInv
  /\ hadFailure' = TRUE
  /\ pc' = "next"
  /\ UNCHANGED <<opts, input, program, reports, format, piece, ran, out, code, keptOutput, serVars>>

Torn == [piece |-> 0, form |-> "torn", ran |-> <<>>, binaries |-> <<>>]

\* IR when the compilation stops early, else what the output format says.
Output(failed) ==
  /\ pc = "pipeline" /\ Idle /\ inv.plan = <<>> /\ ~Intercepted
  /\ out' = Append(out, IF failed THEN Torn
                        ELSE [piece |-> piece, form |-> IF opts.to # End THEN "ir" ELSE format,
                              ran |-> ran, binaries |-> binaries])
  /\ LeavePiece(failed)
  /\ UNCHANGED <<opts, input, program, reports, format, piece, ran, code, keptOutput, serVars>>

Finish ==
  /\ pc = "next" /\ piece = Len(Pieces)
  /\ keptOutput' = ~hadFailure
  /\ Return(IF hadFailure THEN 1 ELSE 0)
  /\ UNCHANGED <<opts, input, program, reports, format, piece, inv, ran, out, hadFailure, serVars>>

Next ==
  \/ OpenSource \/ OpenOutput \/ Split \/ OpenFails
  \/ BeginPiece \/ Parse \/ RunPhase \/ Serialize \/ PieceFails \/ SerializeFails
  \/ StealModule \/ Resume \/ ProfileFails
  \/ Output(FALSE) \/ Output(TRUE)
  \/ Finish

Spec == Init /\ [][Next]_vars

-----------------------------------------------------------------------------
(* Properties.                                                             *)

\* Resuming from a phase after stream is outside of what the interruption at
\* stream can do: Resume compiles from stream again.
ResumesInTime == opts.mode = "std" /\ opts.to = End => opts.from <= Stream

FormAsked ==
  IF opts.to # End THEN "ir"
  ELSE IF opts.mode \in {"hal_executable", "precompile"} THEN opts.mode ELSE opts.format

\* The command succeeds exactly when it keeps its output, and an output that
\* is kept is whole: one result per piece, in the order of the input and in
\* the form asked for, however many pieces were compiled after one failed,
\* with one binary for every executable if it went past serialization.
KeptOutputIsWhole ==
  pc = "exited" =>
    /\ (code = 0) = keptOutput
    /\ keptOutput =>
         /\ Len(out) = Len(Pieces)
         /\ \A k \in DOMAIN out :
              /\ out[k].piece = k /\ out[k].form = FormAsked
              /\ (ResumesInTime /\ \E i \in DOMAIN out[k].ran : out[k].ran[i] = Phases[Serializing])
                   => out[k].binaries = [j \in DOMAIN Pieces[k].executables |-> <<k, j>>]

\* Interrupting the pipeline is invisible to it: a standard compilation runs
\* the phases asked for once each and in order, and the CoralNPU passes run
\* on the result of the stream phase and before any later phase.
PhasesOnceInOrder ==
  opts.mode = "std" /\ ResumesInTime =>
    \A k \in DOMAIN out :
      out[k] # Torn =>
        out[k].ran = IF opts.to = End
                     THEN PhasesBetween(opts.from, Stream) \o <<"profile">> \o PhasesBetween(Stream, End)
                     ELSE PhasesBetween(opts.from, opts.to)

\* Every report accounts for every operation of its piece once.  Whatever the
\* source placed on a device is reported there, the annotation adds only to the
\* NPU, and nothing of dynamic shape that the source did not put there.  And a
\* command that succeeds has reported on every piece, or, into a file, at
\* least on the last one that the file could be opened for.
ProfileIsPlacement ==
  /\ \A r \in Range(reports.stderr) \cup Range(reports.file) :
       LET source == Pieces[r.piece].program
           npu == getCoralNPUDeviceAffinityAttr(source)
           asked(a) == {i \in DOMAIN source.ops : source.ops[i].affinity = a}
           count(a) == IF a \in DOMAIN r.rows THEN r.rows[a].stats.dispatchCount ELSE 0
           dynamic == {i \in DOMAIN source.ops :
                         \E j \in DOMAIN source.ops[i].types : ~source.ops[i].types[j].static}
       IN  /\ SumFunction([a \in DOMAIN r.rows |-> count(a)]) = Len(source.ops)
           /\ \A a \in {source.ops[i].affinity : i \in DOMAIN source.ops} \ {NoAffinity} :
                count(a) >= Cardinality(asked(a)) /\ (a # npu => count(a) = Cardinality(asked(a)))
           /\ \A a \in DOMAIN r.rows :
                r.rows[a].stats.hasDynamicDispatch => asked(a) \cap dynamic # {}
  /\ pc = "exited" /\ code = 0 /\ opts.mode = "std" /\ opts.to = End =>
       LET pieces == {r.piece : r \in Range(reports.stderr) \cup Range(reports.file)}
       IN  CASE opts.profile = "none" -> pieces = {}
             [] opts.profile = "stderr" -> pieces = DOMAIN Pieces
             [] opts.profile = "file" -> Len(Pieces) \in pieces

\* Nothing outlives the command, on any of its error paths: no source, output,
\* invocation or module (also not one that was taken out of its invocation),
\* and no temporary file but those that keepLinkerArtifacts asks for.
NothingLeaks ==
  pc = "exited" =>
    /\ live = {}
    /\ files = kept
    /\ \A f \in files : LET exe == f[1] IN Pieces[exe[1]].executables[exe[2]].keep
=============================================================================
