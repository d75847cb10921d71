------------------------ MODULE CompileDriverProofs ------------------------
(***************************************************************************)
(* What coralnpu-compile leaves behind, keeps and reports, for every input,*)
(* command line and pipeline, and every step that may fail.                *)
(***************************************************************************)
EXTENDS CompileDriver, SequenceTheorems, FiniteSetTheorems, WellFoundedInduction, TLAPS

Labels == {"open source", "open output", "split", "next", "parse", "pipeline",
           "profile", "exited"}
\* What can be seen to run on a module, and who has the module.
Names == Range(Phases) \cup {"profile", "precompile"}
Owner == {"none", "owned", "stolen"}
\* A piece is being compiled.
Inside == pc \in {"parse", "pipeline", "profile"}

\* What exists at each place of the command, but for what belongs to a piece.
Opened ==
  CASE pc = "open source" -> {"session"}
    [] pc = "open output" -> {"session", "source"}
    [] pc = "split" -> {"session", "source", "output"}
    [] pc = "exited" -> {}
    [] OTHER -> {"session", "source", "output"}
                  \cup (IF opts.split THEN {"split sources"} ELSE {})

\* The objects of the compiler API, and who has the module.
LiveInv ==
  /\ live = Opened \cup (IF Inside THEN {"invocation"} ELSE {})
                   \cup (IF pc \in {"pipeline", "profile"} THEN {"module"} ELSE {})
  /\ pc = "pipeline" => inv.module = "owned"
  /\ pc = "parse" => inv.module = "none"
  /\ pc = "split" => opts.split

\* Files of the executable at work die with it unless they are kept, others
\* are kept; and what is kept was asked for.
FileInv ==
  /\ kept \subseteq files
  /\ \A f \in files : f \in kept \/ (~Idle /\ f[1] = job.exe)
  /\ \A f \in kept : LET exe == f[1] IN Pieces[exe[1]].executables[exe[2]].keep

\* The executable at work is the first one without a binary.
JobInv ==
  ~Idle =>
    /\ pc = "pipeline" /\ AtSerializing
    /\ Len(binaries) < Len(Executables)
    /\ job \in [exe : {<<piece, Len(binaries) + 1>>},
                target : {Executables[Len(binaries) + 1]}, at : Nat \ {0}]
    /\ objects \in Seq([file : {job.exe} \X {"o", "inline", "found", "missing"} \X Nat,
                        written : BOOLEAN])

\* The binaries so far, in the order of the executables.
BinaryInv ==
  Inside =>
    /\ binaries \in Seq(Nat \X Nat) /\ Len(binaries) <= Len(Executables)
    /\ \A j \in 1 .. Len(binaries) : binaries[j] = <<piece, j>>
    /\ (\E i \in DOMAIN ran : ran[i] = Phases[Serializing]) =>
         Len(binaries) = Len(Executables)

\* What has run and what is planned make up the pipeline of the mode, on both
\* sides of the interruption.
Planned ==
  CASE opts.mode = "std" /\ opts.to = End /\ inv.to = Stream -> PhasesBetween(opts.from, Stream)
    [] opts.mode = "std" /\ opts.to = End /\ inv.to # Stream ->
         PhasesBetween(opts.from, Stream) \o <<"profile">> \o PhasesBetween(Stream, End)
    [] OTHER -> FirstPipeline

PlanInv ==
  /\ inv \in [from : Nat, to : Nat, module : Owner, plan : Seq(Names)]
  /\ ran \in Seq(Names)
  /\ pc = "parse" => ran = <<>> /\ inv.from = opts.from /\ inv.to = opts.to
  /\ pc = "pipeline" =>
       /\ ran \o inv.plan = Planned
       /\ opts.mode = "std" =>
            /\ opts.to = End => \/ inv.to = Stream /\ inv.from = opts.from
                                \/ inv.to = End /\ inv.from = Stream
            /\ opts.to # End => inv.to = opts.to /\ inv.from = opts.from
       /\ opts.mode = "std" /\ inv.from >= inv.to => inv.plan = <<>>
  /\ pc = "profile" =>
       /\ opts.mode = "std" /\ opts.to = End
       /\ ran = PhasesBetween(opts.from, Stream)

\* Some modes overwrite the output format once a piece has been parsed.
FormatInv ==
  LET fixed == opts.mode \in {"hal_executable", "precompile"}
  IN  pc \in {"pipeline", "profile"} \/ ~fixed =>
        format = IF fixed THEN opts.mode ELSE opts.format

\* Unless something failed, every piece that is done has its whole output.
Whole(o, k) ==
  /\ o.piece = k /\ o.form = FormAsked
  /\ (\E i \in DOMAIN o.ran : o.ran[i] = Phases[Serializing])
       => o.binaries = [j \in DOMAIN Pieces[k].executables |-> <<k, j>>]

OutInv ==
  /\ piece \in 0 .. Len(Pieces)
  /\ Inside => piece >= 1
  /\ ~hadFailure =>
       /\ Len(out) = IF Inside THEN piece - 1 ELSE piece
       /\ \A k \in 1 .. Len(out) : Whole(out[k], k)
  /\ pc # "exited" => ~keptOutput
  /\ pc = "exited" => (code = 0) = keptOutput /\ (keptOutput => ~hadFailure /\ piece = Len(Pieces))

Typed ==
  /\ opts \in Options /\ input \in Inputs /\ pc \in Labels
  /\ hadFailure \in BOOLEAN /\ keptOutput \in BOOLEAN
  /\ out \in Seq({out[k] : k \in DOMAIN out})

CInv ==
  /\ Typed /\ LiveInv /\ FileInv /\ JobInv /\ BinaryInv /\ PlanInv
  /\ FormatInv /\ OutInv /\ PhasesOnceInOrder

-----------------------------------------------------------------------------
\* The command line and the input stay as they are.
LEMMA Fixed ==
  ASSUME [Next]_vars
  PROVE  opts' = opts /\ input' = input /\ Pieces' = Pieces
<1>1. opts' = opts /\ input' = input
  BY DEF Next, vars, driverVars, OpenSource, OpenOutput, Split, OpenFails, BeginPiece, Parse,
         RunPhase, Serialize, PieceFails, SerializeFails, StealModule, Resume, ProfileFails,
         Output, Finish
<1> QED
  BY <1>1 DEF Pieces

\* The pieces of an input, and the executables of a piece.
LEMMA PieceTypes ==
  ASSUME Typed
  PROVE  /\ Len(Pieces) \in Nat \ {0}
         /\ \A k \in 1 .. Len(Pieces) : Pieces[k].executables \in Seq(Target)
<1>1. /\ input # <<>> /\ input \in Seq(Range(input))
      /\ \A k \in DOMAIN input : input[k].executables \in Seq(Target)
  BY InputAssumption DEF Typed
<1> DEFINE S == Range(input)
<1> HIDE DEF S
<1>2. input \in Seq(S)
  BY <1>1 DEF S
<1>3. Len(input) \in Nat \ {0} /\ DOMAIN input = 1 .. Len(input)
  BY <1>1, <1>2
<1> QED
  BY <1>1, <1>3 DEF Pieces

\* A job is not the absence of one.
LEMMA JobIsJob == ASSUME NEW j, j.at \in Nat \ {0} PROVE j # NoJob
BY DEF NoJob

\* A sequence is one of its own elements.
LEMMA OwnSeq == ASSUME NEW S, NEW s \in Seq(S) PROVE s \in Seq({s[k] : k \in DOMAIN s})
OBVIOUS

\* The phases of a pipeline.
LEMMA PhasesTypes ==
  /\ Phases \in Seq(Names) /\ End \in Nat /\ Stream \in Nat /\ Serializing \in 1 .. End
  /\ Stream < End /\ Phases[Serializing] \in Names
  /\ Phases[Serializing] # "profile" /\ Phases[Serializing] # "precompile"
  /\ {"profile", "precompile"} \subseteq Names
<1>1. /\ DOMAIN Phases = 1 .. End /\ End \in Nat /\ Stream \in Nat
      /\ Serializing \in 1 .. End /\ Stream < End
  BY PhaseAssumption DEF End
<1>2. Phases \in Seq({Phases[k] : k \in DOMAIN Phases})
  BY PhaseAssumption, OwnSeq
<1>3. {Phases[k] : k \in DOMAIN Phases} = Range(Phases)
  BY DEF Range
<1>4. Phases \in Seq(Names)
  BY <1>2, <1>3, SeqMonotonic DEF Names
<1>5. Phases[Serializing] \in Range(Phases)
  BY <1>1 DEF Range
<1> QED
  BY <1>1, <1>4, <1>5, PhaseAssumption DEF Names

\* The phases between two phases are a sequence of phases.
LEMMA BetweenType ==
  ASSUME NEW from \in 0 .. End, NEW to \in 0 .. End
  PROVE  /\ PhasesBetween(from, to) \in Seq(Names)
         /\ from >= to => PhasesBetween(from, to) = <<>>
<1> DEFINE n == IF to > from THEN to - from ELSE 0
<1>1. n \in Nat /\ from + n <= End
  BY PhasesTypes
<1>2. PhasesBetween(from, to) = [k \in 1 .. n |-> Phases[from + k]]
  BY DEF PhasesBetween
<1>3. \A k \in 1 .. n : Phases[from + k] \in Names
  BY <1>1, PhasesTypes DEF End
<1> HIDE DEF n
<1>4. PhasesBetween(from, to) \in Seq(Names) /\ Len(PhasesBetween(from, to)) = n
  BY <1>1, <1>2, <1>3, LenProperties
<1>5. from >= to => n = 0
  BY DEF n
<1> QED
  BY <1>4, <1>5, EmptySeq

\* Every step keeps the types.
LEMMA TypedStep == ASSUME Typed, [Next]_vars PROVE Typed'
<1>1. opts' \in Options /\ input' \in Inputs
  BY Fixed DEF Typed
<1>2. pc' \in Labels /\ hadFailure' \in BOOLEAN /\ keptOutput' \in BOOLEAN
  BY DEF Typed, Labels, Next, vars, driverVars, OpenSource, OpenOutput, Split, OpenFails,
         Return, BeginPiece, Parse, RunPhase, Serialize, PieceFails, SerializeFails, LeavePiece,
         StealModule, Resume, ProfileFails, Output, Finish
<1>3. out' \in Seq({out'[k] : k \in DOMAIN out'})
  <2> DEFINE S == {out[k] : k \in DOMAIN out}
  <2> HIDE DEF S
  <2>1. out \in Seq(S)
    BY DEF Typed, S
  <2>2. ASSUME NEW x, out' = Append(out, x) PROVE out' \in Seq({out'[k] : k \in DOMAIN out'})
    <3>1. out' \in Seq(S \cup {x})
      BY <2>1, <2>2
    <3> QED
      BY <3>1, OwnSeq
  <2>3. CASE Output(FALSE) \/ Output(TRUE)
    BY <2>2, <2>3 DEF Output
  <2>4. out' = out \/ Output(FALSE) \/ Output(TRUE)
    BY DEF Next, vars, driverVars, OpenSource, OpenOutput, Split, OpenFails, BeginPiece, Parse,
           RunPhase, Serialize, PieceFails, SerializeFails, StealModule, Resume, ProfileFails, Finish
  <2>5. CASE out' = out
    BY <2>1, <2>5, OwnSeq
  <2> QED
    BY <2>3, <2>4, <2>5
<1> QED
  BY <1>1, <1>2, <1>3 DEF Typed

\* Whoever returns early, and from wherever, the invocation has its module
\* back when it is destroyed.
LEMMA LiveStep == ASSUME Typed, LiveInv, PlanInv, [Next]_vars PROVE LiveInv'
<1>1. opts' = opts
  BY Fixed
<1>2. pc \in Labels
  BY DEF Typed
<1>3. CASE UNCHANGED vars \/ Serialize
  BY <1>1, <1>3 DEF LiveInv, Opened, Inside, vars, driverVars, Serialize
<1>4. CASE OpenSource \/ OpenOutput \/ Split
  <2>1. opts.split \in BOOLEAN
    BY OptionAssumption DEF Typed
  <2>2. CASE OpenSource
    BY <1>1, <2>2 DEF LiveInv, Opened, Inside, OpenSource
  <2>3. CASE OpenOutput /\ opts.split
    BY <1>1, <2>3 DEF LiveInv, Opened, Inside, OpenOutput
  <2>4. CASE OpenOutput /\ ~opts.split
    BY <1>1, <2>4 DEF LiveInv, Opened, Inside, OpenOutput
  <2>5. CASE Split
    BY <1>1, <2>5 DEF LiveInv, Opened, Inside, Split
  <2> QED
    BY <1>4, <2>1, <2>2, <2>3, <2>4, <2>5
<1>5. CASE OpenFails
  BY <1>1, <1>5 DEF LiveInv, Opened, Inside, OpenFails, Return
<1>6. CASE BeginPiece
  BY <1>1, <1>6 DEF LiveInv, Opened, Inside, BeginPiece, NoInv
<1>7. CASE Parse
  BY <1>1, <1>7 DEF LiveInv, PlanInv, Opened, Inside, Parse
<1>8. CASE RunPhase \/ StealModule \/ Resume
  <2>1. CASE RunPhase
    <3>1. inv'.module = inv.module
      BY <2>1 DEF PlanInv, RunPhase
    <3> QED
      BY <1>1, <2>1, <3>1 DEF LiveInv, Opened, Inside, RunPhase
  <2>2. CASE StealModule
    BY <1>1, <2>2 DEF LiveInv, Opened, Inside, StealModule
  <2>3. CASE Resume
    BY <1>1, <2>3 DEF LiveInv, Opened, Inside, Resume
  <2> QED
    BY <1>8, <2>1, <2>2, <2>3
<1>9. CASE PieceFails \/ SerializeFails \/ Output(FALSE) \/ Output(TRUE)
  BY <1>1, <1>9 DEF LiveInv, Opened, Inside, PieceFails, SerializeFails, Output, LeavePiece
<1>10. CASE ProfileFails
  BY <1>1, <1>10 DEF LiveInv, Opened, Inside, ProfileFails
<1>11. CASE Finish
  BY <1>1, <1>11 DEF LiveInv, Opened, Inside, Finish, Return
<1> QED
  BY <1>3, <1>4, <1>5, <1>6, <1>7, <1>8, <1>9, <1>10, <1>11 DEF Next

\* Every step keeps the form of the output.
LEMMA FormatStep == ASSUME FormatInv, [Next]_vars PROVE FormatInv'
BY Fixed DEF FormatInv, Next, vars, driverVars, OpenSource, OpenOutput, Split, OpenFails,
     Return, BeginPiece, Parse, RunPhase, Serialize, PieceFails, SerializeFails, LeavePiece,
     StealModule, Resume, ProfileFails, Output, Finish

-----------------------------------------------------------------------------
\* Taking the next phase off the plan.
LEMMA Shift ==
  ASSUME NEW S, NEW s \in Seq(S), NEW t \in Seq(S), t # <<>>
  PROVE  /\ Append(s, Head(t)) \in Seq(S) /\ Tail(t) \in Seq(S)
         /\ Append(s, Head(t)) \o Tail(t) = s \o t
<1>1. Append(s, Head(t)) \in Seq(S) /\ Tail(t) \in Seq(S)
  OBVIOUS
<1> DEFINE u == Append(s, Head(t)) \o Tail(t)
           v == s \o t
<1>2. u \in Seq(S) /\ v \in Seq(S)
  BY <1>1
<1>3. Len(u) = Len(v)
  OBVIOUS
<1>4. ASSUME NEW i \in 1 .. Len(u) PROVE u[i] = v[i]
  OBVIOUS
<1>5. u = v
  <2> HIDE DEF u, v
  <2> QED
    BY <1>2, <1>3, <1>4, SeqEqual
<1> QED
  BY <1>1, <1>5

\* The command line.
LEMMA OptionTypes ==
  ASSUME Typed
  PROVE  /\ opts.from \in 0 .. End /\ opts.to \in 1 .. End
         /\ opts.mode \in {"std", "vm", "hal_executable", "precompile"}
BY OptionAssumption DEF Typed

\* The first pipeline of a piece is a sequence of phases and passes.
LEMMA FirstPipelineType ==
  ASSUME Typed
  PROVE  /\ FirstPipeline \in Seq(Names)
         /\ opts.mode = "std" /\ opts.to = End => FirstPipeline = PhasesBetween(opts.from, Stream)
         /\ opts.mode = "std" /\ opts.to # End => FirstPipeline = PhasesBetween(opts.from, opts.to)
<1>1. /\ PhasesBetween(opts.from, Stream) \in Seq(Names)
      /\ PhasesBetween(opts.from, opts.to) \in Seq(Names)
  <2>1. opts.from \in 0 .. End /\ opts.to \in 0 .. End /\ Stream \in 0 .. End
    BY OptionTypes, PhasesTypes
  <2> QED
    BY <2>1, BetweenType
<1>2. <<Phases[Serializing]>> \in Seq(Names) /\ <<"precompile">> \in Seq(Names)
      /\ <<>> \in Seq(Names)
  BY PhasesTypes
<1>3. CASE opts.mode = "std" /\ opts.to = End
  BY <1>1, <1>3 DEF FirstPipeline
<1>4. CASE opts.mode = "std" /\ opts.to # End
  BY <1>1, <1>4 DEF FirstPipeline
<1>5. CASE opts.mode = "vm"
  BY <1>2, <1>5 DEF FirstPipeline
<1>6. CASE opts.mode = "hal_executable"
  BY <1>2, <1>6 DEF FirstPipeline
<1>7. CASE opts.mode = "precompile"
  BY <1>2, <1>7 DEF FirstPipeline
<1> QED
  BY <1>3, <1>4, <1>5, <1>6, <1>7, OptionTypes

\* The two halves of an interrupted pipeline.
LEMMA Resumed ==
  ASSUME Typed
  PROVE  Append(PhasesBetween(opts.from, Stream), "profile") \o PhasesBetween(Stream, End)
         = PhasesBetween(opts.from, Stream) \o <<"profile">> \o PhasesBetween(Stream, End)
<1>1. PhasesBetween(opts.from, Stream) \in Seq(Names)
  <2>1. opts.from \in 0 .. End /\ Stream \in 0 .. End
    BY OptionTypes, PhasesTypes
  <2> QED
    BY <2>1, BetweenType
<1>2. Append(PhasesBetween(opts.from, Stream), "profile") = PhasesBetween(opts.from, Stream) \o <<"profile">>
  <2> DEFINE p == PhasesBetween(opts.from, Stream)
  <2> HIDE DEF p
  <2>1. p \in Seq(Names)
    BY <1>1 DEF p
  <2>2. Append(p, "profile") = p \o <<"profile">>
    BY <2>1
  <2> QED
    BY <2>2 DEF p
<1> QED
  BY <1>2

\* Every step keeps what has run and what is planned together a pipeline.
LEMMA PlanStep == ASSUME Typed, PlanInv, [Next]_vars PROVE PlanInv'
<1>1. opts' = opts /\ FirstPipeline' = FirstPipeline
  BY Fixed DEF FirstPipeline
<1>2. /\ inv \in [from : Nat, to : Nat, module : Owner, plan : Seq(Names)]
      /\ ran \in Seq(Names)
  BY DEF PlanInv
<1>3. /\ opts.from \in Nat /\ opts.to \in Nat /\ End \in Nat /\ Stream \in Nat /\ Stream < End
      /\ Stream \in 0 .. End /\ opts.from \in 0 .. End /\ opts.to \in 0 .. End
  BY OptionTypes, PhasesTypes
<1>4. NoInv \in [from : Nat, to : Nat, module : Owner, plan : Seq(Names)]
  BY DEF NoInv, Owner
<1>5. ASSUME inv' = NoInv, ran' = ran, pc' \in {"next", "exited"} PROVE PlanInv'
  BY <1>2, <1>4, <1>5 DEF PlanInv
<1>6. ASSUME inv' = inv, ran' = ran, pc' = pc \/ pc' \in Labels \ {"parse", "pipeline", "profile"}
      PROVE  PlanInv'
  BY <1>1, <1>6 DEF PlanInv, Planned
<1>7. CASE UNCHANGED vars \/ Serialize
  BY <1>6, <1>7 DEF vars, driverVars, Serialize
<1>8. CASE OpenSource \/ OpenOutput \/ Split \/ OpenFails \/ Finish
  BY <1>6, <1>8 DEF OpenSource, OpenOutput, Split, OpenFails, Finish, Return, Labels
<1>9. CASE BeginPiece
  <2>1. inv' \in [from : Nat, to : Nat, module : Owner, plan : Seq(Names)]
        /\ inv'.from = opts.from /\ inv'.to = opts.to
    BY <1>3, <1>4, <1>9 DEF BeginPiece, NoInv
  <2>2. ran' = <<>> /\ pc' = "parse"
    BY <1>9 DEF BeginPiece
  <2> QED
    BY <1>1, <2>1, <2>2 DEF PlanInv
<1>10. CASE Parse
  <2>1. inv.from = opts.from /\ inv.to = opts.to /\ ran = <<>>
    BY <1>10 DEF PlanInv, Parse
  <2>2. /\ ran' = <<>> /\ pc' = "pipeline" /\ inv'.from = opts.from /\ inv'.plan = FirstPipeline
        /\ inv'.to = IF opts.mode = "std" /\ opts.to = End THEN Stream ELSE opts.to
    BY <1>2, <1>10, <2>1 DEF Parse
  <2>3. inv' \in [from : Nat, to : Nat, module : Owner, plan : Seq(Names)]
    BY <1>2, <1>3, <1>10, FirstPipelineType DEF Parse, Owner
  <2>4. ran' \o inv'.plan = FirstPipeline
    BY <2>2, FirstPipelineType
  <2>5. Planned' = FirstPipeline
    BY <1>1, <1>3, <2>2, FirstPipelineType DEF Planned
  <2>6. opts.mode = "std" /\ inv'.from >= inv'.to => inv'.plan = <<>>
    BY <1>3, <2>2, FirstPipelineType, BetweenType
  <2> QED
    BY <1>1, <1>2, <2>2, <2>3, <2>4, <2>5, <2>6 DEF PlanInv
<1>11. CASE RunPhase
  <2>1. /\ pc = "pipeline" /\ pc' = pc /\ inv.plan # <<>>
        /\ ran' = Append(ran, Head(inv.plan)) /\ inv'.plan = Tail(inv.plan)
        /\ inv'.from = inv.from /\ inv'.to = inv.to /\ inv'.module = inv.module
    BY <1>2, <1>11 DEF RunPhase
  <2>2. ran' \in Seq(Names) /\ inv'.plan \in Seq(Names) /\ ran' \o inv'.plan = ran \o inv.plan
    BY <1>2, <2>1, Shift
  <2>3. inv' \in [from : Nat, to : Nat, module : Owner, plan : Seq(Names)]
    BY <1>2, <1>11, <2>1, <2>2 DEF RunPhase
  <2>4. Planned' = Planned
    BY <1>1, <2>1 DEF Planned
  <2> QED
    BY <1>1, <2>1, <2>2, <2>3, <2>4 DEF PlanInv
<1>12. CASE PieceFails \/ SerializeFails \/ Output(FALSE) \/ Output(TRUE) \/ ProfileFails
  BY <1>5, <1>12 DEF PieceFails, SerializeFails, Output, ProfileFails, LeavePiece
<1>13. CASE StealModule
  <2>1. /\ pc = "pipeline" /\ pc' = "profile" /\ inv.plan = <<>> /\ ran' = ran
        /\ opts.mode = "std" /\ opts.to = End /\ inv.to = Stream
    BY <1>13 DEF StealModule, Intercepted
  <2>2. inv' \in [from : Nat, to : Nat, module : Owner, plan : Seq(Names)]
    BY <1>2, <1>13 DEF StealModule, Owner
  <2>3. ran = PhasesBetween(opts.from, Stream)
    <3>1. ran \o inv.plan = PhasesBetween(opts.from, Stream)
      BY <2>1 DEF PlanInv, Planned
    <3>2. ran \o inv.plan = ran
      BY <1>2, <2>1
    <3> QED
      BY <3>1, <3>2
  <2> QED
    BY <1>1, <1>2, <2>1, <2>2, <2>3 DEF PlanInv
<1>14. CASE Resume
  <2>1. /\ pc = "profile" /\ pc' = "pipeline" /\ ran' = Append(ran, "profile")
        /\ inv' = [from |-> Stream, to |-> End, module |-> "owned", plan |-> PhasesBetween(Stream, End)]
    BY <1>14 DEF Resume
  <2>2. opts.mode = "std" /\ opts.to = End /\ ran = PhasesBetween(opts.from, Stream)
    BY <2>1 DEF PlanInv
  <2>3. PhasesBetween(Stream, End) \in Seq(Names)
    BY <1>3, BetweenType
  <2>4. inv' \in [from : Nat, to : Nat, module : Owner, plan : Seq(Names)] /\ ran' \in Seq(Names)
    BY <1>2, <1>3, <2>1, <2>3, PhasesTypes DEF Owner
  <2>5. inv'.to = End /\ inv'.from = Stream /\ inv'.plan = PhasesBetween(Stream, End)
    BY <2>1
  <2>6. Planned' = PhasesBetween(opts.from, Stream) \o <<"profile">> \o PhasesBetween(Stream, End)
    BY <1>1, <1>3, <2>2, <2>5 DEF Planned
  <2>7. ran' \o inv'.plan = Planned'
    BY <2>1, <2>2, <2>5, <2>6, Resumed
  <2> QED
    BY <1>1, <1>3, <2>1, <2>2, <2>4, <2>5, <2>7 DEF PlanInv
<1> QED
  BY <1>7, <1>8, <1>9, <1>10, <1>11, <1>12, <1>13, <1>14 DEF Next

-----------------------------------------------------------------------------
Job == [exe : {<<piece, Len(binaries) + 1>>}, target : {Executables[Len(binaries) + 1]},
        at : Nat \ {0}]
Object == [file : {job.exe} \X {"o", "inline", "found", "missing"} \X Nat, written : BOOLEAN]

\* The executables of the piece being compiled.
LEMMA ExecutableTypes ==
  ASSUME Typed, OutInv, Inside
  PROVE  /\ piece \in 1 .. Len(Pieces) /\ Executables \in Seq(Target)
         /\ Len(Executables) \in Nat
<1>1. piece \in 1 .. Len(Pieces)
  BY PieceTypes DEF OutInv
<1>2. Executables \in Seq(Target)
  BY <1>1, PieceTypes DEF Executables
<1> QED
  BY <1>1, <1>2

\* Whatever is not a step of the serialization happens between two of them.
LEMMA Between ==
  ASSUME PlanInv, JobInv, Next, ~Serialize, ~SerializeFails
  PROVE  Idle /\ Idle' /\ UNCHANGED <<job, objects, files, kept>>
<1>1. UNCHANGED <<job, objects, files, kept>>
  BY DEF Next, serVars, OpenSource, OpenOutput, Split, OpenFails, BeginPiece, Parse,
         RunPhase, PieceFails, StealModule, Resume, ProfileFails, Output, Finish
<1>2. Idle
  <2>1. pc # "pipeline" => Idle
    BY DEF JobInv
  <2>2. CASE PieceFails /\ pc = "pipeline"
    BY <2>2 DEF PieceFails, PlanInv, JobInv, AtSerializing
  <2> QED
    BY <2>1, <2>2 DEF Next, OpenSource, OpenOutput, Split, OpenFails, BeginPiece, Parse,
         RunPhase, PieceFails, StealModule, Resume, ProfileFails, Output, Finish
<1> QED
  BY <1>1, <1>2 DEF Idle

\* A step of the serialization of an executable.
LEMMA SerStepJob ==
  ASSUME Typed, OutInv, JobInv, Inside, SerStep
  PROVE  /\ ~Idle /\ binaries' = binaries
         /\ job'.exe = job.exe /\ job'.target = job.target /\ job'.at \in Nat \ {0}
         /\ DOMAIN job' = DOMAIN job
         /\ job' = [exe |-> job'.exe, target |-> job'.target, at |-> job'.at]
         /\ objects' \in Seq(Object)
<1>1. ~Idle /\ binaries' = binaries /\ job' = [job EXCEPT !.at = @ + 1]
  BY DEF SerStep, Advance, EmitObject, AttachObjects, Link, At, NextStage
<1>2. /\ Len(binaries) < Len(Executables)
      /\ job \in Job /\ objects \in Seq(Object)
  BY <1>1 DEF JobInv, Job, Object
<1>3. /\ job'.exe = job.exe /\ job'.target = job.target /\ job'.at \in Nat \ {0}
      /\ DOMAIN job' = DOMAIN job
      /\ job' = [exe |-> job'.exe, target |-> job'.target, at |-> job'.at]
  BY <1>1, <1>2 DEF Job
<1>4. ASSUME Advance \/ Link PROVE objects' \in Seq(Object)
  BY <1>2, <1>4 DEF Advance, Link
<1>5. ASSUME EmitObject PROVE objects' \in Seq(Object)
  <2>1. [file |-> File("o", 0), written |-> TRUE] \in Object
    BY DEF File, Object
  <2> QED
    BY <1>5, <2>1 DEF EmitObject
<1>6. ASSUME AttachObjects PROVE objects' \in Seq(Object)
  <2> DEFINE a == job.target.attached
             o == [k \in DOMAIN a |-> [file |-> File(a[k], k), written |-> a[k] = "found"]]
  <2>1. a \in Seq({"inline", "found", "missing"})
    <3>1. Len(binaries) + 1 \in 1 .. Len(Executables)
          /\ Executables \in Seq(Target)
      BY <1>1, <1>2, ExecutableTypes DEF JobInv
    <3>2. job.target = Executables[Len(binaries) + 1]
      BY <1>2 DEF Job
    <3>3. job.target \in Target
      BY <3>1, <3>2, ElementOfSeq
    <3> QED
      BY <3>3 DEF Target
  <2>2. objects' = objects \o o
    BY <1>6 DEF AttachObjects
  <2> HIDE DEF a
  <2>3. \A k \in DOMAIN a : [file |-> File(a[k], k), written |-> a[k] = "found"] \in Object
    BY <2>1 DEF File, Object
  <2>4. o \in Seq(Object)
    BY <2>1, <2>3
  <2> HIDE DEF o
  <2> QED
    BY <1>2, <2>2, <2>4
<1>7. objects' \in Seq(Object)
  BY <1>4, <1>5, <1>6 DEF SerStep
<1> QED
  BY <1>1, <1>3, <1>7

\* Every step keeps the serialization at the first executable without a binary.
LEMMA JobStep == ASSUME Typed, OutInv, PlanInv, JobInv, BinaryInv, [Next]_vars PROVE JobInv'
<1>1. Pieces' = Pieces
  BY Fixed
<1>2. CASE UNCHANGED vars
  BY <1>1, <1>2 DEF vars, driverVars, serVars, JobInv, Idle, AtSerializing, Executables
<1>3. CASE Serialize
  <2>1. pc = "pipeline" /\ AtSerializing /\ UNCHANGED driverVars
    BY <1>3 DEF Serialize
  <2>2. pc' = "pipeline" /\ AtSerializing' /\ piece' = piece /\ Executables' = Executables /\ Inside
    BY <1>1, <2>1 DEF driverVars, AtSerializing, Executables, Inside
  <2>3. CASE SerStep
    <3>1. ~Idle
      BY <2>2, <2>3, SerStepJob
    <3>2. Len(binaries) < Len(Executables) /\ job \in Job
      BY <3>1 DEF JobInv, Job
    <3>3. /\ binaries' = binaries /\ job'.exe = job.exe /\ job'.target = job.target
          /\ job'.at \in Nat \ {0}
          /\ job' = [exe |-> job'.exe, target |-> job'.target, at |-> job'.at]
          /\ objects' \in Seq(Object)
      BY <2>2, <2>3, SerStepJob
    <3>4. job' \in Job
      BY <3>2, <3>3 DEF Job
    <3>5. objects' \in Seq([file : {job'.exe} \X {"o", "inline", "found", "missing"} \X Nat,
                            written : BOOLEAN])
      BY <3>3 DEF Object
    <3> QED
      BY <2>2, <3>2, <3>3, <3>4, <3>5 DEF JobInv, Job
  <2>4. CASE CreateBinary
    BY <2>4 DEF CreateBinary, SerReturn, JobInv, Idle
  <2>5. ASSUME NEW k, k = Len(binaries) + 1, Len(binaries) < Len(Executables),
               SerBegin(<<piece, k>>, Executables[k]), binaries' = binaries
        PROVE  JobInv'
    <3>1. job' = [exe |-> <<piece, k>>, target |-> Executables[k], at |-> 1] /\ objects' = <<>>
      BY <2>5 DEF SerBegin
    <3>2. job' \in Job
      BY <2>5, <3>1 DEF Job
    <3> QED
      BY <2>2, <2>5, <3>1, <3>2 DEF JobInv, Job
  <2> QED
    BY <1>3, <2>3, <2>4, <2>5 DEF Serialize
<1>4. CASE SerializeFails
  BY <1>4 DEF SerializeFails, SerFails, SerReturn, JobInv, Idle
<1>5. CASE Next /\ ~Serialize /\ ~SerializeFails
  BY <1>5, Between DEF JobInv
<1> QED
  BY <1>2, <1>3, <1>4, <1>5

\* A temporary file of the executable at work.
LEMMA OwnFiles ==
  ASSUME JobInv, ~Idle
  PROVE  \A f \in TemporaryObjects : f[1] = job.exe /\ f \in files
<1>1. objects \in Seq(Object)
  BY DEF JobInv, Object
<1>2. ASSUME NEW k \in DOMAIN objects PROVE objects[k].file[1] = job.exe
  <2>1. objects[k] \in Object
    BY <1>1
  <2> QED
    BY <2>1 DEF Object
<1> QED
  BY <1>2 DEF TemporaryObjects

\* What the linker's options keep belongs to an executable that asked for it.
LEMMA KeepAsked ==
  ASSUME JobInv, ~Idle, job.target.keep, NEW f, f[1] = job.exe
  PROVE  LET exe == f[1] IN Pieces[exe[1]].executables[exe[2]].keep
<1>1. job \in Job
  BY DEF JobInv, Job
<1>2. job.exe[1] = piece /\ job.exe[2] = Len(binaries) + 1
  BY <1>1 DEF Job
<1>3. job.target = Pieces[job.exe[1]].executables[job.exe[2]]
  BY <1>1, <1>2 DEF Job, Executables
<1> QED
  BY <1>3

\* Artifacts go when serializeExecutable returns.
LEMMA Returned ==
  ASSUME FileInv, NEW keep, kept \subseteq keep, keep \subseteq files, SerReturn(keep),
         \A f \in keep : LET exe == f[1] IN Pieces[exe[1]].executables[exe[2]].keep,
         Pieces' = Pieces
  PROVE  FileInv'
<1>1. files' = files \ (Mine \ keep) /\ kept' = keep
  BY DEF SerReturn
<1>2. keep \subseteq files'
  BY <1>1
<1>3. ASSUME NEW f \in files' PROVE f \in keep
  BY <1>1, <1>3 DEF FileInv, Mine
<1> QED
  BY <1>1, <1>2, <1>3 DEF FileInv

\* Every step keeps the temporary files those of the executable at work.
LEMMA FileStep == ASSUME Typed, OutInv, PlanInv, JobInv, FileInv, [Next]_vars PROVE FileInv'
<1>1. Pieces' = Pieces
  BY Fixed
<1>2. CASE UNCHANGED vars
  BY <1>1, <1>2 DEF vars, serVars, FileInv, Idle
<1>3. ASSUME SerStep, Inside PROVE FileInv'
  <2>1. ~Idle /\ job'.exe = job.exe /\ job'.at \in Nat \ {0}
    BY <1>3, SerStepJob
  <2>2. ~Idle'
    BY <2>1, JobIsJob DEF Idle
  <2>3. CASE Advance
    BY <1>1, <2>1, <2>2, <2>3 DEF Advance, FileInv
  <2>4. CASE EmitObject
    BY <1>1, <2>1, <2>2, <2>4 DEF EmitObject, FileInv, File
  <2>5. CASE AttachObjects
    <3>1. kept' = kept /\ files \subseteq files' /\ \A f \in files' \ files : f[1] = job.exe
      BY <2>5 DEF AttachObjects, File
    <3> QED
      BY <1>1, <2>1, <2>2, <3>1 DEF FileInv
  <2>6. CASE Link
    <3>1. File("so", 0)[1] = job.exe
      BY DEF File
    <3>2. files' = files \cup {File("so", 0)}
      BY <2>6 DEF Link
    <3>3. CASE ~job.target.keep
      <4>1. kept' = kept
        BY <2>6, <3>3 DEF Link
      <4> QED
        BY <1>1, <2>1, <2>2, <3>1, <3>2, <4>1 DEF FileInv
    <3>4. CASE job.target.keep
      <4>1. kept' = kept \cup TemporaryObjects \cup {File("so", 0)}
        BY <2>6, <3>4 DEF Link
      <4>2. ASSUME NEW f \in kept'
            PROVE  f \in files' /\ LET exe == f[1] IN Pieces[exe[1]].executables[exe[2]].keep
        <5>1. CASE f \in kept
          BY <3>2, <5>1 DEF FileInv
        <5>2. CASE f \in TemporaryObjects \cup {File("so", 0)}
          <6>1. f[1] = job.exe /\ f \in files'
            BY <2>1, <3>1, <3>2, <5>2, OwnFiles
          <6> QED
            BY <2>1, <3>4, <6>1, KeepAsked
        <5> QED
          BY <4>1, <5>1, <5>2
      <4>3. ASSUME NEW f \in files' PROVE f \in kept' \/ f[1] = job.exe
        BY <3>2, <4>1 DEF FileInv
      <4> QED
        BY <1>1, <2>1, <2>2, <4>2, <4>3 DEF FileInv
    <3> QED
      BY <3>3, <3>4
  <2> QED
    BY <1>3, <2>3, <2>4, <2>5, <2>6 DEF SerStep
<1>4. CASE Serialize
  <2>1. CASE SerStep
    BY <1>3, <1>4, <2>1 DEF Serialize, Inside
  <2>2. CASE CreateBinary
    <3>1. SerReturn(kept)
      BY <2>2 DEF CreateBinary
    <3> QED
      BY <1>1, <3>1, Returned DEF FileInv
  <2>3. CASE Idle /\ UNCHANGED <<files, kept>>
    BY <1>1, <2>3 DEF FileInv
  <2> QED
    BY <1>4, <2>1, <2>2, <2>3 DEF Serialize, SerBegin
<1>5. CASE SerializeFails
  <2>1. ~Idle
    BY <1>5 DEF SerializeFails, SerFails
  <2>2. SerReturn(IF At("link") /\ job.target.keep THEN kept \cup TemporaryObjects ELSE kept)
    BY <1>5 DEF SerializeFails, SerFails
  <2>3. CASE At("link") /\ job.target.keep
    <3>1. SerReturn(kept \cup TemporaryObjects)
      BY <2>2, <2>3
    <3>2. kept \cup TemporaryObjects \subseteq files
      BY DEF FileInv, TemporaryObjects
    <3>3. \A f \in kept \cup TemporaryObjects :
            LET exe == f[1] IN Pieces[exe[1]].executables[exe[2]].keep
      BY <2>1, <2>3, OwnFiles, KeepAsked DEF FileInv
    <3> QED
      BY <1>1, <3>1, <3>2, <3>3, Returned
  <2>4. CASE ~(At("link") /\ job.target.keep)
    <3>1. SerReturn(kept)
      BY <2>2, <2>4
    <3> QED
      BY <1>1, <3>1, Returned DEF FileInv
  <2> QED
    BY <2>3, <2>4
<1>6. CASE Next /\ ~Serialize /\ ~SerializeFails
  <2>1. Idle /\ Idle' /\ UNCHANGED <<files, kept>>
    BY <1>6, Between
  <2> QED
    BY <1>1, <2>1 DEF FileInv
<1> QED
  BY <1>2, <1>4, <1>5, <1>6

-----------------------------------------------------------------------------
\* A binary is added for the executable that has just been serialized, and the
\* pipeline goes past the serialization when all have one.
LEMMA BinaryStep ==
  ASSUME Typed, OutInv, PlanInv, JobInv, BinaryInv, [Next]_vars
  PROVE  BinaryInv'
<1>1. Pieces' = Pieces
  BY Fixed
<1>2. ASSUME UNCHANGED <<piece, binaries, ran>>, Inside PROVE BinaryInv'
  BY <1>1, <1>2 DEF BinaryInv, Executables
<1>3. CASE UNCHANGED vars
  <2>1. UNCHANGED <<piece, binaries, ran, pc>>
    BY <1>3 DEF vars, driverVars, serVars
  <2> QED
    BY <1>2, <2>1 DEF BinaryInv, Inside
<1>4. CASE OpenSource \/ OpenOutput \/ Split \/ OpenFails \/ Finish \/ PieceFails
           \/ SerializeFails \/ ProfileFails \/ Output(FALSE) \/ Output(TRUE)
  BY <1>4 DEF BinaryInv, Inside, OpenSource, OpenOutput, Split, OpenFails, Finish, Return,
              PieceFails, SerializeFails, ProfileFails, Output, LeavePiece
<1>5. CASE BeginPiece
  <2>1. piece' \in 1 .. Len(Pieces) /\ ran' = <<>> /\ binaries' = <<>>
    BY <1>5, PieceTypes DEF BeginPiece, OutInv
  <2>2. Executables' \in Seq(Target)
    BY <1>1, <2>1, PieceTypes DEF Executables
  <2>3. Len(Executables') \in Nat
    BY <2>2
  <2>4. binaries' \in Seq(Nat \X Nat) /\ Len(binaries') = 0 /\ DOMAIN ran' = {}
    BY <2>1
  <2> QED
    BY <2>3, <2>4 DEF BinaryInv
<1>6. CASE Parse \/ StealModule
  BY <1>2, <1>6 DEF Parse, StealModule, Inside, serVars
<1>7. CASE RunPhase
  <2>1. Inside /\ UNCHANGED <<piece, binaries>> /\ ran' = Append(ran, Head(inv.plan))
    BY <1>7 DEF RunPhase, serVars, Inside
  <2>2. /\ binaries \in Seq(Nat \X Nat) /\ Len(binaries) <= Len(Executables)
        /\ \A j \in 1 .. Len(binaries) : binaries[j] = <<piece, j>>
        /\ (\E i \in DOMAIN ran : ran[i] = Phases[Serializing]) => Len(binaries) = Len(Executables)
    BY <2>1 DEF BinaryInv
  <2>3. Executables' = Executables
    BY <1>1, <2>1 DEF Executables
  <2>4. CASE AtSerializing
    <3>1. Len(binaries) >= Len(Executables) /\ Len(binaries) \in Nat /\ Len(Executables) \in Nat
      BY <1>7, <2>1, <2>2, <2>4, ExecutableTypes DEF RunPhase
    <3> QED
      BY <2>1, <2>2, <2>3, <3>1 DEF BinaryInv
  <2>5. CASE ~AtSerializing
    <3>1. Head(inv.plan) # Phases[Serializing]
      BY <1>7, <2>5 DEF RunPhase, AtSerializing
    <3>2. \A i \in DOMAIN ran' : ran'[i] = Phases[Serializing] => i \in DOMAIN ran /\ ran[i] = ran'[i]
      BY <2>1, <3>1 DEF PlanInv
    <3> QED
      BY <2>1, <2>2, <2>3, <3>2 DEF BinaryInv
  <2> QED
    BY <2>4, <2>5
<1>8. CASE Resume
  <2>1. pc = "profile" /\ Inside /\ UNCHANGED <<piece, binaries>> /\ ran' = Append(ran, "profile")
    BY <1>8 DEF Resume, serVars, Inside
  <2>2. Executables' = Executables
    BY <1>1, <2>1 DEF Executables
  <2>3. \A i \in DOMAIN ran' : ran'[i] = Phases[Serializing] => i \in DOMAIN ran /\ ran[i] = ran'[i]
    BY <2>1, PhasesTypes DEF PlanInv
  <2> QED
    BY <2>1, <2>2, <2>3 DEF BinaryInv
<1>9. CASE Serialize
  <2>1. pc = "pipeline" /\ Inside /\ UNCHANGED <<piece, ran>>
    BY <1>9 DEF Serialize, driverVars, Inside
  <2>2. CASE UNCHANGED binaries
    BY <1>2, <2>1, <2>2
  <2>3. CASE CreateBinary
    <3>1. ~Idle /\ binaries' = Append(binaries, job.exe)
      BY <2>3 DEF CreateBinary, At
    <3>2. job.exe = <<piece, Len(binaries) + 1>> /\ Len(binaries) < Len(Executables)
      BY <3>1 DEF JobInv
    <3>3. /\ binaries \in Seq(Nat \X Nat)
          /\ \A j \in 1 .. Len(binaries) : binaries[j] = <<piece, j>>
          /\ ~ \E i \in DOMAIN ran : ran[i] = Phases[Serializing]
      BY <2>1, <3>2 DEF BinaryInv
    <3>4. Len(Executables) \in Nat /\ piece \in Nat /\ Len(binaries) \in Nat /\ Executables' = Executables
      BY <1>1, <2>1, <3>3, ExecutableTypes DEF Executables
    <3>5. job.exe \in Nat \X Nat
      BY <3>2, <3>4
    <3>6. /\ binaries' \in Seq(Nat \X Nat) /\ Len(binaries') = Len(binaries) + 1
          /\ \A j \in 1 .. Len(binaries') : binaries'[j] = <<piece, j>>
      BY <3>1, <3>2, <3>3, <3>5
    <3>7. Len(binaries') <= Len(Executables)
      BY <3>2, <3>4, <3>6
    <3>8. ~ \E i \in DOMAIN ran' : ran'[i] = Phases[Serializing]
      BY <2>1, <3>3
    <3> QED
      BY <2>1, <3>4, <3>6, <3>7, <3>8 DEF BinaryInv
  <2> QED
    BY <1>9, <2>2, <2>3 DEF Serialize, SerStep, Advance, EmitObject, AttachObjects, Link
<1> QED
  BY <1>3, <1>4, <1>5, <1>6, <1>7, <1>8, <1>9 DEF Next

\* A piece whose pipeline is done has a whole output, whatever failed before it.
LEMMA DoneIsWhole ==
  ASSUME Typed, OutInv, PlanInv, BinaryInv, FormatInv, pc = "pipeline",
         NEW o, o = [piece |-> piece, form |-> IF opts.to # End THEN "ir" ELSE format,
                     ran |-> ran, binaries |-> binaries]
  PROVE  Whole(o, piece)
<1>1. o.piece = piece /\ o.form = FormAsked
  BY DEF FormatInv, FormAsked
<1>2. ASSUME \E i \in DOMAIN o.ran : o.ran[i] = Phases[Serializing]
      PROVE  o.binaries = [j \in DOMAIN Pieces[piece].executables |-> <<piece, j>>]
  <2>1. Inside /\ o.ran = ran /\ o.binaries = binaries
    BY DEF Inside
  <2>2. /\ binaries \in Seq(Nat \X Nat) /\ Len(binaries) = Len(Executables)
        /\ \A j \in 1 .. Len(binaries) : binaries[j] = <<piece, j>>
    BY <1>2, <2>1 DEF BinaryInv
  <2>3. Executables \in Seq(Target)
    BY <2>1, ExecutableTypes
  <2>4. DOMAIN Executables = 1 .. Len(binaries) /\ DOMAIN binaries = 1 .. Len(binaries)
    BY <2>2, <2>3
  <2>5. binaries = [j \in DOMAIN binaries |-> binaries[j]]
    BY <2>2
  <2>6. binaries = [j \in DOMAIN Executables |-> <<piece, j>>]
    BY <2>2, <2>4, <2>5
  <2> QED
    BY <2>1, <2>6 DEF Executables
<1> QED
  BY <1>1, <1>2 DEF Whole

\* What an output adds to the file.
LEMMA OutputStep ==
  ASSUME Typed, OutInv, PlanInv, BinaryInv, FormatInv, PhasesOnceInOrder, Output(FALSE),
         opts' = opts, Pieces' = Pieces
  PROVE  OutInv' /\ PhasesOnceInOrder'
<1> DEFINE o == [piece |-> piece, form |-> IF opts.to # End THEN "ir" ELSE format,
                 ran |-> ran, binaries |-> binaries]
           S == {out[k] : k \in DOMAIN out}
<1>1. /\ out' = Append(out, o) /\ pc = "pipeline" /\ inv.plan = <<>> /\ ~Intercepted
      /\ pc' = "next" /\ hadFailure' = hadFailure /\ UNCHANGED <<piece, keptOutput, code>>
  BY DEF Output, LeavePiece, Typed
<1>2. Whole(o, piece)
  BY <1>1, DoneIsWhole
<1>3. FormAsked' = FormAsked
  BY DEF FormAsked
<1>4. o.ran = ran
  OBVIOUS
<1>5. out \in Seq(S)
  BY DEF Typed
<1> HIDE DEF o, S
<1>6. /\ Len(out) \in Nat /\ DOMAIN out = 1 .. Len(out)
      /\ Len(out') = Len(out) + 1 /\ DOMAIN out' = 1 .. Len(out')
      /\ \A k \in 1 .. Len(out) : out'[k] = out[k]
      /\ out'[Len(out) + 1] = o
  BY <1>1, <1>5
<1>7. OutInv'
  <2>1. piece \in 1 .. Len(Pieces) /\ Len(Pieces) \in Nat
    BY <1>1, PieceTypes DEF OutInv, Inside
  <2>2. ASSUME ~hadFailure
        PROVE  Len(out') = piece /\ \A k \in 1 .. Len(out') : Whole(out'[k], k)
    <3>1. Len(out) = piece - 1 /\ \A k \in 1 .. Len(out) : Whole(out[k], k)
      BY <1>1, <2>2 DEF OutInv, Inside
    <3> QED
      BY <1>2, <1>6, <2>1, <3>1
  <2>3. ~hadFailure => \A k \in 1 .. Len(out') : Whole(out[k], k)'
    BY <1>3, <2>2 DEF Whole
  <2>4. ~keptOutput
    BY <1>1 DEF OutInv
  <2> QED
    BY <1>1, <2>1, <2>2, <2>3, <2>4 DEF OutInv, Inside
<1>8. PhasesOnceInOrder'
  <2> SUFFICES ASSUME opts.mode = "std", ResumesInTime
               PROVE  \A k \in DOMAIN out' : out'[k] # Torn => out'[k].ran =
                        IF opts.to = End
                        THEN PhasesBetween(opts.from, Stream) \o <<"profile">> \o PhasesBetween(Stream, End)
                        ELSE PhasesBetween(opts.from, opts.to)
    BY DEF PhasesOnceInOrder, ResumesInTime, Torn
  <2>1. ran = IF opts.to = End
              THEN PhasesBetween(opts.from, Stream) \o <<"profile">> \o PhasesBetween(Stream, End)
              ELSE PhasesBetween(opts.from, opts.to)
    <3>1. ran = Planned
      BY <1>1 DEF PlanInv
    <3>2. CASE opts.to = End
      BY <1>1, <3>1, <3>2 DEF Planned, Intercepted
    <3>3. CASE opts.to # End
      <4>1. FirstPipeline = PhasesBetween(opts.from, opts.to)
        BY <3>3, FirstPipelineType
      <4> QED
        BY <3>1, <3>3, <4>1 DEF Planned
    <3> QED
      BY <3>2, <3>3
  <2> QED
    BY <1>4, <1>6, <2>1 DEF PhasesOnceInOrder
<1> QED
  BY <1>7, <1>8

\* Every step keeps the output whole unless something failed.
LEMMA OutStep ==
  ASSUME Typed, OutInv, PlanInv, BinaryInv, FormatInv, PhasesOnceInOrder, [Next]_vars
  PROVE  OutInv' /\ PhasesOnceInOrder'
<1>1. opts' = opts /\ Pieces' = Pieces
  BY Fixed
<1>2. FormAsked' = FormAsked
  BY <1>1 DEF FormAsked
<1>3. Len(Pieces) \in Nat /\ piece \in Nat
  BY PieceTypes DEF OutInv
<1>4. ASSUME out' = out PROVE PhasesOnceInOrder'
  BY <1>1, <1>4 DEF PhasesOnceInOrder, ResumesInTime, Torn
<1>5. ASSUME UNCHANGED <<out, piece, hadFailure, code, keptOutput>>, Inside' <=> Inside,
             pc' = "exited" <=> pc = "exited"
      PROVE  OutInv'
  BY <1>1, <1>2, <1>5 DEF OutInv, Whole
<1>6. CASE UNCHANGED vars \/ Serialize
  BY <1>4, <1>5, <1>6 DEF vars, driverVars, Serialize, Inside
<1>7. CASE OpenSource \/ OpenOutput \/ Split \/ Parse \/ RunPhase \/ StealModule \/ Resume
  <2>1. (Inside' <=> Inside) /\ pc' # "exited" /\ pc # "exited"
    BY <1>7 DEF Inside, OpenSource, OpenOutput, Split, Parse, RunPhase, StealModule, Resume
  <2>2. UNCHANGED <<out, piece, hadFailure, code, keptOutput>>
    BY <1>7 DEF OpenSource, OpenOutput, Split, Parse, RunPhase, StealModule, Resume
  <2> QED
    BY <1>4, <1>5, <2>1, <2>2
<1>8. CASE OpenFails \/ Finish
  <2>1. out' = out /\ piece' = piece /\ hadFailure' = hadFailure /\ pc' = "exited"
        /\ ~Inside /\ ~Inside'
    BY <1>8 DEF OpenFails, Finish, Return, Inside
  <2>2. (code' = 0) = keptOutput' /\ (keptOutput' => ~hadFailure /\ piece = Len(Pieces))
    <3>1. CASE OpenFails
      <4>1. code' = 1 /\ keptOutput' = FALSE
        BY <3>1 DEF OpenFails, Return, OutInv, Typed
      <4>2. (code' = 0) = FALSE
        BY <4>1
      <4> QED
        BY <4>1, <4>2
    <3>2. CASE Finish
      <4>1. CASE hadFailure
        <5>1. code' = 1 /\ keptOutput' = FALSE
          BY <3>2, <4>1 DEF Finish, Return
        <5>2. (code' = 0) = FALSE
          BY <5>1
        <5> QED
          BY <5>1, <5>2
      <4>2. CASE ~hadFailure
        <5>1. code' = 0 /\ keptOutput' = TRUE /\ piece = Len(Pieces)
          BY <3>2, <4>2 DEF Finish, Return
        <5> QED
          BY <4>2, <5>1
      <4> QED
        BY <4>1, <4>2
    <3> QED
      BY <1>8, <3>1, <3>2
  <2>3. ~hadFailure => Len(out) = piece /\ \A k \in 1 .. Len(out) : Whole(out[k], k)
    BY <2>1 DEF OutInv
  <2> QED
    BY <1>1, <1>2, <1>4, <2>1, <2>2, <2>3 DEF OutInv, Whole
<1>9. CASE BeginPiece
  <2>1. piece' = piece + 1 /\ piece < Len(Pieces) /\ ~Inside /\ Inside' /\ pc # "exited"
        /\ pc' = "parse" /\ UNCHANGED <<out, hadFailure, code, keptOutput>>
    BY <1>9 DEF BeginPiece, Inside
  <2>2. ~hadFailure => Len(out) = piece' - 1 /\ \A k \in 1 .. Len(out) : Whole(out[k], k)
    BY <1>3, <2>1 DEF OutInv
  <2> QED
    BY <1>1, <1>2, <1>3, <1>4, <2>1, <2>2 DEF OutInv, Whole
<1>10. ASSUME hadFailure', pc' = "next", UNCHANGED <<piece, code, keptOutput>>, pc # "exited"
       PROVE  OutInv'
  BY <1>1, <1>3, <1>10 DEF OutInv, Inside
<1>11. CASE PieceFails \/ SerializeFails \/ ProfileFails
  <2>1. hadFailure' /\ pc' = "next" /\ UNCHANGED <<out, piece, code, keptOutput>> /\ pc # "exited"
    BY <1>11 DEF PieceFails, SerializeFails, ProfileFails, LeavePiece
  <2> QED
    BY <1>4, <1>10, <2>1
<1>12. CASE Output(TRUE)
  <2>1. /\ hadFailure' /\ pc' = "next" /\ UNCHANGED <<piece, code, keptOutput>> /\ pc # "exited"
        /\ out' = Append(out, Torn)
    BY <1>12 DEF Output, LeavePiece
  <2> DEFINE S == {out[k] : k \in DOMAIN out}
  <2>2. out \in Seq(S)
    BY DEF Typed
  <2> HIDE DEF S
  <2>3. \A k \in DOMAIN out' : out'[k] = Torn \/ (k \in DOMAIN out /\ out'[k] = out[k])
    BY <2>1, <2>2
  <2>4. PhasesOnceInOrder'
    BY <1>1, <2>3 DEF PhasesOnceInOrder, ResumesInTime, Torn
  <2> QED
    BY <1>10, <2>1, <2>4
<1>13. CASE Output(FALSE)
  BY <1>1, <1>13, OutputStep
<1> QED
  BY <1>6, <1>7, <1>8, <1>9, <1>11, <1>12, <1>13 DEF Next

-----------------------------------------------------------------------------
\* The command starts in the invariant.
LEMMA InitInv == Init => CInv
<1> SUFFICES ASSUME Init PROVE CInv
  OBVIOUS
<1>1. opts \in Options /\ input \in Inputs /\ pc = "open source" /\ out = <<>> /\ Idle /\ ~Inside
  BY DEF Init, SerInit, Idle, Inside
<1>2. Typed
  <2>1. out \in Seq(Names)
    <3>1. out = <<>>
      BY DEF Init
    <3> QED
      BY <3>1, EmptySeq
  <2>2. out \in Seq({out[k] : k \in DOMAIN out})
    BY <2>1, OwnSeq
  <2> QED
    BY <1>1, <2>2 DEF Typed, Init, Labels
<1>3. LiveInv
  BY <1>1 DEF LiveInv, Opened, Init
<1>4. FileInv /\ JobInv /\ BinaryInv
  BY <1>1 DEF FileInv, JobInv, BinaryInv, Init, SerInit
<1>5. PlanInv
  <2>1. inv = NoInv /\ ran = <<>>
    BY DEF Init
  <2>2. inv \in [from : Nat, to : Nat, module : Owner, plan : Seq(Names)] /\ ran \in Seq(Names)
    BY <2>1 DEF NoInv, Owner
  <2> QED
    BY <1>1, <2>2 DEF PlanInv
<1>6. FormatInv
  BY <1>1 DEF FormatInv, Init
<1>7. OutInv
  <2>1. Len(Pieces) \in Nat /\ piece = 0 /\ ~keptOutput /\ Len(out) = 0
    BY <1>1, <1>2, PieceTypes DEF Init
  <2>2. piece \in 0 .. Len(Pieces) /\ 1 .. Len(out) = {}
    BY <2>1
  <2>3. piece = 0 /\ Len(out) = 0 /\ pc = "open source" /\ ~keptOutput /\ ~Inside
    BY <1>1, <2>1
  <2> QED
    BY <2>2, <2>3 DEF OutInv
<1>8. PhasesOnceInOrder
  <2>1. DOMAIN out = {}
    <3>1. out = <<>>
      BY DEF Init
    <3> QED
      BY <3>1
  <2> QED
    BY <2>1 DEF PhasesOnceInOrder
<1> QED
  BY <1>2, <1>3, <1>4, <1>5, <1>6, <1>7, <1>8 DEF CInv

\* Every step keeps the invariant.
LEMMA StepInv == CInv /\ [Next]_vars => CInv'
BY TypedStep, LiveStep, FileStep, JobStep, BinaryStep, PlanStep, FormatStep, OutStep DEF CInv

\* The invariant holds throughout.
LEMMA CorrectInv == Spec => []CInv
BY InitInv, StepInv, PTL DEF Spec

\* Whatever fails, and wherever (opening, parsing, a phase, a stage of the
\* serialization, the passes that run while the module is out of its
\* invocation, the output), coralnpu-compile exits with everything destroyed
\* and no temporary file but those asked for.
THEOREM CommandLeavesNothing == Spec => []NothingLeaks
<1>1. CInv => NothingLeaks
  <2> SUFFICES ASSUME CInv, pc = "exited" PROVE NothingLeaks
    BY DEF NothingLeaks
  <2>1. live = {}
    BY DEF CInv, LiveInv, Opened, Inside
  <2>2. Idle
    BY DEF CInv, JobInv
  <2>3. files = kept
    BY <2>2 DEF CInv, FileInv
  <2> QED
    BY <2>1, <2>3 DEF CInv, FileInv, NothingLeaks
<1> QED
  BY <1>1, CorrectInv, PTL

\* The exit status of coralnpu-compile says whether it keeps its output, and an
\* output that is kept has every piece, in order, in the form asked for and with
\* the binaries of all its executables.
THEOREM KeptOutputsAreWhole == Spec => []KeptOutputIsWhole
<1>1. CInv => KeptOutputIsWhole
  <2> SUFFICES ASSUME CInv, pc = "exited" PROVE KeptOutputIsWhole
    BY DEF KeptOutputIsWhole
  <2>1. (code = 0) = keptOutput
    BY DEF CInv, OutInv
  <2>2. ASSUME keptOutput
        PROVE  Len(out) = Len(Pieces) /\ \A k \in 1 .. Len(out) : Whole(out[k], k)
    BY <2>2 DEF CInv, OutInv, Inside
  <2>3. DOMAIN out = 1 .. Len(out)
    <3> DEFINE S == {out[k] : k \in DOMAIN out}
    <3>1. out \in Seq(S)
      BY DEF CInv, Typed
    <3> HIDE DEF S
    <3> QED
      BY <3>1
  <2> QED
    BY <2>1, <2>2, <2>3 DEF KeptOutputIsWhole, Whole
<1> QED
  BY <1>1, CorrectInv, PTL

\* Interrupting a standard compilation at the stream phase and going on from
\* there runs every phase asked for once and in order, for every pipeline and
\* every phase to compile from and to.
THEOREM PipelineRunsOnce == Spec => []PhasesOnceInOrder
<1>1. CInv => PhasesOnceInOrder
  BY DEF CInv
<1> QED
  BY <1>1, CorrectInv, PTL

-----------------------------------------------------------------------------
(* Sums over finite sets.                                                  *)

\* A nonempty set of naturals has a least element for an order that contains
\* < and is well founded,
LEMMA LeastByOrder ==
  ASSUME NEW S, S \subseteq Nat, S # {}, NEW R, IsWellFoundedOn(R, Nat),
         \A x, y \in Nat : y < x => <<y, x>> \in R
  PROVE  \E x \in S : \A y \in S : x <= y
<1>1. PICK x \in S : \A y \in S : ~(<<y, x>> \in R)
  BY WFMin
<1>2. ASSUME NEW y \in S PROVE x <= y
  <2>1. x \in Nat /\ y \in Nat /\ ~(<<y, x>> \in R)
    BY <1>1
  <2>2. ~(y < x)
    BY <2>1, Zenon
  <2> QED
    BY <2>1, <2>2
<1> QED
  BY <1>2

\* and < is.
LEMMA LeastElement ==
  ASSUME NEW S, S \subseteq Nat, S # {}
  PROVE  \E x \in S : \A y \in S : x <= y
<1>1. \A x, y \in Nat : y < x => <<y, x>> \in OpToRel(<, Nat)
  BY Zenon DEF OpToRel
<1> QED
  BY <1>1, NatLessThanWellFounded, LeastByOrder, Zenon

\* What a sum over a finite set takes next, and its value from that of the rest.
Taken(s) == CHOOSE x \in s : TRUE
SumStep(c, g, s) == IF s = {} THEN 0 ELSE c[Taken(s)] + g[s \ {Taken(s)}]

\* g is the sum of c over each subset of its domain.
IsSum(c, g) == g = [s \in SUBSET (DOMAIN c) |-> SumStep(c, g, s)]

\* Taking an element of a set leaves a smaller set.
LEMMA Rest ==
  ASSUME NEW S, IsFiniteSet(S), NEW s \in SUBSET S, s # {}
  PROVE  /\ IsFiniteSet(s) /\ Taken(s) \in s /\ s \ {Taken(s)} \in SUBSET S
         /\ Cardinality(s) \in Nat /\ Cardinality(s) >= 1
         /\ Cardinality(s \ {Taken(s)}) = Cardinality(s) - 1
<1>1. IsFiniteSet(s) /\ Taken(s) \in s
  BY FS_Subset DEF Taken
<1>2. Cardinality(s) \in Nat /\ Cardinality(s) # 0
  BY <1>1, FS_CardinalityType, FS_EmptySet
<1>3. Cardinality(s \ {Taken(s)}) = Cardinality(s) - 1
  BY <1>1, FS_RemoveElement
<1> QED
  BY <1>1, <1>2, <1>3

\* Induction on the naturals, for a set of naturals,
LEMMA NatSets ==
  ASSUME NEW T, 0 \in T, \A n \in Nat : n \in T => n + 1 \in T
  PROVE  \A n \in Nat : n \in T
<1> SUFFICES ASSUME \E n \in Nat : n \notin T PROVE FALSE
  OBVIOUS
<1> DEFINE B == {n \in Nat : n \notin T}
<1>1. PICK m \in B : \A y \in B : m <= y
  <2>1. B \subseteq Nat /\ B # {}
    OBVIOUS
  <2> QED
    BY <2>1, LeastElement
<1>2. m \in Nat /\ m # 0 /\ m \notin T
  BY <1>1
<1>3. m - 1 \in Nat /\ m - 1 \notin B
  BY <1>1, <1>2
<1>4. (m - 1) + 1 \in T
  BY <1>3
<1> QED
  BY <1>2, <1>4

\* and on the subsets of a finite set.
LEMMA SetSets ==
  ASSUME NEW S, IsFiniteSet(S), NEW T, {} \in T,
         \A s \in SUBSET S : s # {} /\ s \ {Taken(s)} \in T => s \in T
  PROVE  \A s \in SUBSET S : s \in T
<1> DEFINE N == {n \in Nat : \A s \in SUBSET S : Cardinality(s) = n => s \in T}
<1>1. 0 \in N
  <2>1. ASSUME NEW s \in SUBSET S, Cardinality(s) = 0 PROVE s = {}
    BY <2>1, FS_Subset, FS_EmptySet
  <2> QED
    BY <2>1
<1>2. ASSUME NEW n \in Nat, n \in N PROVE n + 1 \in N
  <2>1. ASSUME NEW s \in SUBSET S, Cardinality(s) = n + 1 PROVE s \in T
    <3>1. CASE s = {}
      BY <3>1
    <3>2. CASE s # {}
      <4> DEFINE t == s \ {Taken(s)}
      <4>1. t \in SUBSET S /\ Cardinality(t) = Cardinality(s) - 1
        BY <3>2, Rest
      <4> HIDE DEF t
      <4>2. t \in T
        BY <1>2, <2>1, <4>1
      <4> USE DEF t
      <4> QED
        BY <3>2, <4>2
    <3> QED
      BY <3>1, <3>2
  <2> QED
    BY <2>1
<1> HIDE DEF N
<1>3. \A n \in Nat : n \in N
  BY <1>1, <1>2, NatSets
<1>4. ASSUME NEW s \in SUBSET S PROVE Cardinality(s) \in Nat
  BY FS_Subset, FS_CardinalityType
<1> QED
  BY <1>3, <1>4 DEF N

\* A finite sum exists,
LEMMA SumExists ==
  ASSUME NEW c, IsFiniteSet(DOMAIN c)
  PROVE  \E g : IsSum(c, g)
<1> DEFINE S == DOMAIN c
           D(n) == {s \in SUBSET S : Cardinality(s) <= n}
           N == {n \in Nat : \E g : g = [s \in D(n) |-> SumStep(c, g, s)]}
<1>1. \A s \in SUBSET S : IsFiniteSet(s) /\ Cardinality(s) \in Nat /\ Cardinality(s) <= Cardinality(S)
  BY FS_Subset, FS_CardinalityType
<1>2. 0 \in N
  <2> DEFINE g == [s \in D(0) |-> 0]
  <2>1. \A s \in D(0) : s = {}
    BY <1>1, FS_EmptySet
  <2>2. g = [s \in D(0) |-> SumStep(c, g, s)]
    BY <2>1 DEF SumStep
  <2> QED
    BY <2>2
<1>3. ASSUME NEW n \in Nat, n \in N PROVE n + 1 \in N
  <2>1. PICK h : h = [s \in D(n) |-> SumStep(c, h, s)]
    BY <1>3
  <2> DEFINE g == [s \in D(n + 1) |-> SumStep(c, h, s)]
  <2>2. ASSUME NEW s \in D(n) PROVE g[s] = h[s]
    <3>1. s \in D(n + 1)
      BY <1>1
    <3> QED
      BY <2>1, <3>1
  <2>3. ASSUME NEW s \in D(n + 1) PROVE SumStep(c, h, s) = SumStep(c, g, s)
    <3>1. CASE s = {}
      BY <3>1 DEF SumStep
    <3>2. CASE s # {}
      <4> DEFINE t == s \ {Taken(s)}
      <4>1. t \in D(n)
        <5>1. s \in SUBSET S /\ Cardinality(s) <= n + 1
          OBVIOUS
        <5>2. t \in SUBSET S /\ Cardinality(t) = Cardinality(s) - 1 /\ Cardinality(s) \in Nat
          BY <3>2, <5>1, Rest
        <5> HIDE DEF t
        <5> QED
          BY <5>1, <5>2
      <4>2. g[s \ {Taken(s)}] = h[s \ {Taken(s)}]
        BY <2>2, <4>1
      <4> HIDE DEF g
      <4> QED
        BY <4>2 DEF SumStep
    <3> QED
      BY <3>1, <3>2
  <2>4. g = [s \in D(n + 1) |-> SumStep(c, g, s)]
    <3>1. g = [s \in D(n + 1) |-> SumStep(c, h, s)]
      OBVIOUS
    <3> HIDE DEF g
    <3> QED
      BY <2>3, <3>1
  <2> HIDE DEF g
  <2>5. \E k : k = [s \in D(n + 1) |-> SumStep(c, k, s)]
    BY <2>4
  <2>6. n + 1 \in Nat
    OBVIOUS
  <2> HIDE DEF D
  <2> QED
    BY <2>5, <2>6
<1> HIDE DEF N
<1>4. \A n \in Nat : n \in N
  BY <1>2, <1>3, NatSets
<1>5. D(Cardinality(S)) = SUBSET S
  BY <1>1
<1>6. Cardinality(S) \in N
  BY <1>4, FS_CardinalityType
<1>7. PICK g : g = [s \in D(Cardinality(S)) |-> SumStep(c, g, s)]
  BY <1>6 DEF N
<1> QED
  BY <1>5, <1>7 DEF IsSum

\* What the definition of SumFunction expands to.
SumFold(c) ==
  CHOOSE g : g = [s \in SUBSET (DOMAIN c) |->
                    IF s = {} THEN 0
                    ELSE c[CHOOSE x \in s : TRUE] + g[s \ {CHOOSE x \in s : TRUE}]]

\* and is what SumFunction returns.
LEMMA SumIsSum ==
  ASSUME NEW c, IsFiniteSet(DOMAIN c)
  PROVE  \E g : IsSum(c, g) /\ SumFunction(c) = g[DOMAIN c]
<1>1. PICK h : IsSum(c, h)
  BY SumExists
<1>2. h = [s \in SUBSET (DOMAIN c) |->
             IF s = {} THEN 0 ELSE c[CHOOSE x \in s : TRUE] + h[s \ {CHOOSE x \in s : TRUE}]]
  BY <1>1 DEF IsSum, SumStep, Taken
<1>3. SumFold(c) = [s \in SUBSET (DOMAIN c) |->
             IF s = {} THEN 0
             ELSE c[CHOOSE x \in s : TRUE] + SumFold(c)[s \ {CHOOSE x \in s : TRUE}]]
  BY <1>2 DEF SumFold
<1>4. IsSum(c, SumFold(c))
  BY <1>3 DEF IsSum, SumStep, Taken
<1>5. SumFunction(c) = SumFold(c)[DOMAIN c]
  BY Zenon DEF SumFunction, SumFunctionOnSet, FoldFunctionOnSet, MapThenFoldSet, SumFold
<1> QED
  BY <1>4, <1>5

\* Counting by classes counts everything once.
LEMMA CountByClass ==
  ASSUME NEW D, IsFiniteSet(D), NEW f, NEW c,
         c = [a \in {f[i] : i \in D} |-> Cardinality({i \in D : f[i] = a})]
  PROVE  SumFunction(c) = Cardinality(D)
<1> DEFINE S == {f[i] : i \in D}
           in(s) == {i \in D : f[i] \in s}
<1>1. IsFiniteSet(S)
  <2> DEFINE h == [i \in D |-> f[i]]
  <2>1. h \in [D -> S] /\ \A a \in S : \E i \in D : h[i] = a
    OBVIOUS
  <2> HIDE DEF h, S
  <2>2. h \in Surjection(D, S)
    BY <2>1 DEF Surjection
  <2> QED
    BY <2>2, FS_Surjection
<1>2. DOMAIN c = S /\ \A a \in S : c[a] = Cardinality({i \in D : f[i] = a})
  OBVIOUS
<1>3. PICK g : IsSum(c, g) /\ SumFunction(c) = g[DOMAIN c]
  BY <1>1, <1>2, SumIsSum
<1>4. \A s \in SUBSET S : g[s] = SumStep(c, g, s)
  BY <1>2, <1>3 DEF IsSum
<1> DEFINE T == {s \in SUBSET S : g[s] = Cardinality(in(s))}
<1>5. {} \in T
  <2>1. in({}) = {}
    OBVIOUS
  <2>2. g[{}] = 0 /\ Cardinality({}) = 0
    BY <1>4, FS_EmptySet DEF SumStep
  <2> QED
    BY <2>1, <2>2
<1>6. ASSUME NEW s \in SUBSET S, s # {}, s \ {Taken(s)} \in T PROVE s \in T
  <2> DEFINE x == Taken(s)
             t == s \ {Taken(s)}
             u == {i \in D : f[i] = x}
             v == in(t)
  <2>1. x \in s /\ x \in S /\ t \in SUBSET S /\ g[t] = Cardinality(v)
    BY <1>1, <1>6, Rest
  <2>2. g[s] = c[x] + g[t]
    BY <1>4, <1>6 DEF SumStep
  <2>3. c[x] = Cardinality(u)
    BY <1>2, <2>1
  <2>4. in(s) = u \cup v /\ u \cap v = {}
    BY <2>1
  <2>5. IsFiniteSet(u) /\ IsFiniteSet(v)
    BY FS_Subset
  <2> HIDE DEF u, v, x, t
  <2>6. Cardinality(u) \in Nat /\ Cardinality(v) \in Nat
    BY <2>5, FS_CardinalityType
  <2>7. Cardinality(u \cup v) = Cardinality(u) + Cardinality(v) - Cardinality(u \cap v)
    BY <2>5, FS_Union
  <2>8. Cardinality(u \cap v) = 0
    BY <2>4, FS_EmptySet
  <2>9. Cardinality(in(s)) = Cardinality(u \cup v)
    BY <2>4
  <2> HIDE DEF in
  <2> QED
    BY <2>1, <2>2, <2>3, <2>6, <2>7, <2>8, <2>9
<1> HIDE DEF T
<1>7. \A s \in SUBSET S : s \in T
  BY <1>1, <1>5, <1>6, SetSets
<1>8. S \in SUBSET S /\ in(S) = D
  OBVIOUS
<1> QED
  BY <1>2, <1>3, <1>7, <1>8 DEF T

-----------------------------------------------------------------------------
(* The profile says where the operations were placed.                      *)

\* An operation is as in the source, or the annotation has put it on the NPU,
\* which it does only to one without a placement and of static shape.
PlacedOp(op, placed, npu) ==
  \/ placed = op
  \/ /\ placed = [op EXCEPT !.affinity = npu] /\ npu # NoAffinity /\ op.affinity = NoAffinity
     /\ \A j \in DOMAIN op.types : op.types[j].static

\* p is the program `source' with such placements.
Placed(source, p) ==
  /\ p = [analyzable |-> source.analyzable, devices |-> source.devices, ops |-> p.ops]
  /\ DOMAIN p.ops = DOMAIN source.ops
  /\ \A i \in DOMAIN source.ops :
       PlacedOp(source.ops[i], p.ops[i], getCoralNPUDeviceAffinityAttr(source))

\* A placed operation, but for its affinity.
LEMMA PlacedTypes ==
  ASSUME NEW source \in Programs, NEW p, Placed(source, p), NEW i \in DOMAIN source.ops
  PROVE  LET op == source.ops[i]
             placed == p.ops[i]
             npu == getCoralNPUDeviceAffinityAttr(source)
         IN  /\ placed.types = op.types /\ placed.variants = op.variants
             /\ op.types \in Seq(Tensors) /\ op.variants \in Seq(Nat) /\ op.variants # <<>>
             /\ \/ placed.affinity = op.affinity
                \/ /\ placed.affinity = npu /\ op.affinity = NoAffinity
                   /\ \A j \in DOMAIN op.types : op.types[j].static
<1> DEFINE op == source.ops[i]
           npu == getCoralNPUDeviceAffinityAttr(source)
<1>1. op \in Operations
  BY DEF Programs
<1>2. PlacedOp(op, p.ops[i], npu)
  BY DEF Placed
<1> HIDE DEF op, npu
<1>3. op.types \in Seq(Tensors) /\ op.variants \in Seq(Nat) /\ op.variants # <<>>
  BY <1>1 DEF Operations
<1>4. CASE p.ops[i] = op
  BY <1>3, <1>4 DEF op
<1>5. CASE p.ops[i] # op
  <2>1. /\ p.ops[i] = [op EXCEPT !.affinity = npu] /\ op.affinity = NoAffinity
        /\ \A j \in DOMAIN op.types : op.types[j].static
    BY <1>2, <1>5 DEF PlacedOp
  <2>2. /\ p.ops[i].types = op.types /\ p.ops[i].variants = op.variants
        /\ p.ops[i].affinity = npu
    BY <1>1, <2>1 DEF Operations
  <2> QED
    BY <1>3, <2>1, <2>2 DEF op, npu
<1> QED
  BY <1>4, <1>5

\* A program that has just been parsed is placed as in the source,
LEMMA ParsedIsPlaced == ASSUME NEW source \in Programs PROVE Placed(source, source)
  BY DEF Programs, Placed, PlacedOp

\* and annotating it, any number of times, leaves it properly placed.
LEMMA AnnotateIsPlaced ==
  ASSUME NEW source \in Programs, NEW p, Placed(source, p)
  PROVE  Placed(source, Annotate(p))
<1> DEFINE npu == getCoralNPUDeviceAffinityAttr(source)
           q == Annotate(p)
<1>1. p = [analyzable |-> source.analyzable, devices |-> source.devices, ops |-> p.ops]
  BY DEF Placed
<1>2. getCoralNPUDeviceAffinityAttr(p) = npu
  <2>1. p.devices = source.devices /\ p.analyzable = source.analyzable
    BY <1>1
  <2> QED
    BY <2>1 DEF getCoralNPUDeviceAffinityAttr, CoralNPUGlobals
<1>3. q = [p EXCEPT !.ops = [i \in DOMAIN p.ops |-> AnnotateOp(p.ops[i], npu)]]
  BY <1>2 DEF Annotate
<1> HIDE DEF q
<1>4. /\ q.ops = [i \in DOMAIN p.ops |-> AnnotateOp(p.ops[i], npu)]
      /\ q = [analyzable |-> source.analyzable, devices |-> source.devices, ops |-> q.ops]
  BY <1>1, <1>3
<1>5. DOMAIN q.ops = DOMAIN source.ops
  BY <1>4 DEF Placed
<1>6. ASSUME NEW i \in DOMAIN source.ops PROVE PlacedOp(source.ops[i], q.ops[i], npu)
  <2> DEFINE op == source.ops[i]
             placed == p.ops[i]
  <2>1. q.ops[i] = AnnotateOp(placed, npu) /\ PlacedOp(op, placed, npu)
    BY <1>4, <1>5, <1>6 DEF Placed
  <2>2. op \in Operations
    BY DEF Programs
  <2> HIDE DEF op, placed, npu
  <2>3. CASE q.ops[i] = placed
    BY <2>1, <2>3 DEF op
  <2>4. CASE q.ops[i] # placed
    <3>1. /\ q.ops[i] = [placed EXCEPT !.affinity = npu] /\ npu # NoAffinity
          /\ placed.affinity = NoAffinity /\ shouldExecuteOnCoralNPU(placed)
      BY <2>1, <2>4 DEF AnnotateOp
    <3>2. placed = op
      <4>1. [op EXCEPT !.affinity = npu].affinity = npu
        BY <2>2 DEF Operations
      <4> QED
        BY <2>1, <3>1, <4>1 DEF PlacedOp
    <3>3. \A j \in DOMAIN op.types : op.types[j].static
      BY <3>1, <3>2 DEF shouldExecuteOnCoralNPU, isSupportedType
    <3> QED
      BY <3>1, <3>2, <3>3 DEF PlacedOp, op
  <2> QED
    BY <2>3, <2>4
<1> QED
  BY <1>4, <1>5, <1>6 DEF Placed, q, npu

\* The affinities of a program, the operations that have one, and those of
\* dynamic shape.
Affinities(p) == {p.ops[i].affinity : i \in DOMAIN p.ops}
On(p, a) == {i \in DOMAIN p.ops : p.ops[i].affinity = a}
DynamicOps(p) == {i \in DOMAIN p.ops : \E j \in DOMAIN p.ops[i].types : ~p.ops[i].types[j].static}

\* What a report says of an affinity.
LEMMA ReportRows ==
  ASSUME NEW source \in Programs, NEW p, Placed(source, p)
  PROVE  /\ DOMAIN Report(p) = Affinities(p)
         /\ \A a \in Affinities(p) :
              /\ Report(p)[a].stats.dispatchCount = Cardinality(On(p, a))
              /\ Report(p)[a].stats.hasDynamicDispatch => On(p, a) \cap DynamicOps(source) # {}
<1> DEFINE executes == Streamed(p)
           A == {executes[i].affinity : i \in DOMAIN executes}
<1>1. /\ DOMAIN executes = DOMAIN source.ops
      /\ \A i \in DOMAIN source.ops :
           /\ executes[i].affinity = p.ops[i].affinity
           /\ executes[i].entry_points = [v \in DOMAIN p.ops[i].variants |->
                [op_count |-> p.ops[i].variants[v], bindings |-> p.ops[i].types]]
  BY DEF Streamed, Placed
<1>2. /\ DOMAIN Report(p) = A
      /\ \A a \in A : Report(p)[a].stats = analyzeStatistics(executes, a)
  BY DEF Report
<1> HIDE DEF executes
<1>3. A = Affinities(p) /\ DOMAIN p.ops = DOMAIN source.ops
  <2>1. DOMAIN p.ops = DOMAIN source.ops
    BY DEF Placed
  <2>2. A = Affinities(p)
    BY <1>1, <2>1 DEF Affinities
  <2> QED
    BY <2>1, <2>2
<1>4. ASSUME NEW i \in DOMAIN source.ops, dispatchFuncInfo(executes[i]).isDynamic
      PROVE  i \in DynamicOps(source)
  <2> DEFINE types == source.ops[i].types
             points == executes[i].entry_points
             last == points[Len(points)]
  <2>1. /\ p.ops[i].types = types /\ types \in Seq(Tensors)
        /\ p.ops[i].variants \in Seq(Nat) /\ p.ops[i].variants # <<>>
    BY PlacedTypes
  <2>2. points = [v \in DOMAIN p.ops[i].variants |->
                    [op_count |-> p.ops[i].variants[v], bindings |-> p.ops[i].types]]
    BY <1>1
  <2>3. last.bindings = types
    <3> DEFINE n == Len(p.ops[i].variants)
    <3>1. n \in Nat /\ n >= 1 /\ DOMAIN p.ops[i].variants = 1 .. n
      BY <2>1
    <3> HIDE DEF n
    <3>2. points = [v \in 1 .. n |-> [op_count |-> p.ops[i].variants[v], bindings |-> types]]
      BY <2>1, <2>2, <3>1
    <3> HIDE DEF points
    <3>3. Len(points) = n
      BY <3>1, <3>2
    <3> QED
      BY <3>1, <3>2, <3>3
  <2>4. dispatchFuncInfo(executes[i]).isDynamic =
          ({j \in DOMAIN last.bindings : last.bindings[j].static} # DOMAIN last.bindings)
    BY DEF dispatchFuncInfo, analyzeFunc, Last
  <2> HIDE DEF last
  <2>5. {j \in DOMAIN types : types[j].static} # DOMAIN types
    BY <1>4, <2>3, <2>4
  <2> QED
    BY <2>5 DEF DynamicOps
<1>5. ASSUME NEW a \in A
      PROVE  /\ Report(p)[a].stats.dispatchCount = Cardinality(On(p, a))
             /\ Report(p)[a].stats.hasDynamicDispatch => On(p, a) \cap DynamicOps(source) # {}
  <2> DEFINE mine == {i \in DOMAIN executes : executes[i].affinity = a}
             static == {i \in mine : ~dispatchFuncInfo(executes[i]).isDynamic}
  <2>1. mine = On(p, a)
    BY <1>1, <1>3 DEF On
  <2>2. /\ analyzeStatistics(executes, a).dispatchCount = Cardinality(mine)
        /\ analyzeStatistics(executes, a).hasDynamicDispatch = (static # mine)
    BY DEF analyzeStatistics
  <2>3. static # mine => mine \cap DynamicOps(source) # {}
    BY <1>1, <1>4
  <2> HIDE DEF mine, static
  <2> QED
    BY <1>2, <2>1, <2>2, <2>3
<1> QED
  BY <1>2, <1>3, <1>5

\* A report accounts for the program it was made from: every operation is in one
\* row, what the source placed stays there, and only what it placed is dynamic.
Accounts(source, rows) ==
  LET count(a) == IF a \in DOMAIN rows THEN rows[a].stats.dispatchCount ELSE 0
  IN  /\ SumFunction([a \in DOMAIN rows |-> count(a)]) = Len(source.ops)
      /\ \A a \in Affinities(source) \ {NoAffinity} :
           /\ count(a) >= Cardinality(On(source, a))
           /\ a # getCoralNPUDeviceAffinityAttr(source) => count(a) = Cardinality(On(source, a))
      /\ \A a \in DOMAIN rows :
           rows[a].stats.hasDynamicDispatch => On(source, a) \cap DynamicOps(source) # {}

\* A report on a properly placed program accounts for it.
LEMMA ReportAccounts ==
  ASSUME NEW source \in Programs, NEW p, Placed(source, p)
  PROVE  Accounts(source, Report(p))
<1> DEFINE rows == Report(p)
           D == DOMAIN source.ops
           npu == getCoralNPUDeviceAffinityAttr(source)
           count(a) == IF a \in DOMAIN rows THEN rows[a].stats.dispatchCount ELSE 0
<1>1. source.ops \in Seq(Operations)
  BY DEF Programs
<1>2. D = 1 .. Len(source.ops) /\ Len(source.ops) \in Nat /\ DOMAIN p.ops = D
  BY <1>1 DEF Placed
<1>3. IsFiniteSet(D) /\ Cardinality(D) = Len(source.ops)
  <2> DEFINE n == Len(source.ops)
  <2> HIDE DEF n
  <2>1. n \in Nat /\ D = 1 .. n
    BY <1>2 DEF n
  <2>2. IsFiniteSet(1 .. n) /\ Cardinality(1 .. n) = IF 1 > n THEN 0 ELSE n - 1 + 1
    BY <2>1, FS_Interval
  <2>3. Cardinality(1 .. n) = n
    BY <2>1, <2>2
  <2> QED
    BY <2>1, <2>2, <2>3 DEF n
<1>4. ASSUME NEW i \in D
      PROVE  \/ p.ops[i].affinity = source.ops[i].affinity
             \/ /\ p.ops[i].affinity = npu /\ source.ops[i].affinity = NoAffinity
                /\ i \notin DynamicOps(source)
  BY PlacedTypes DEF DynamicOps
<1>5. DOMAIN rows = Affinities(p)
  BY ReportRows
<1>6. \A a \in DOMAIN rows :
        /\ rows[a].stats.dispatchCount = Cardinality(On(p, a))
        /\ rows[a].stats.hasDynamicDispatch => On(p, a) \cap DynamicOps(source) # {}
  BY ReportRows
<1> HIDE DEF rows
<1>7. SumFunction([a \in DOMAIN rows |-> count(a)]) = Len(source.ops)
  <2> DEFINE f == [i \in D |-> p.ops[i].affinity]
             c == [a \in DOMAIN rows |-> count(a)]
  <2>1. c = [a \in {f[i] : i \in D} |-> Cardinality({i \in D : f[i] = a})]
    BY <1>2, <1>5, <1>6 DEF Affinities, On
  <2> HIDE DEF f, c, D
  <2>2. SumFunction(c) = Cardinality(D)
    BY <1>3, <2>1, CountByClass
  <2> QED
    BY <1>3, <2>2 DEF c, D
<1>8. ASSUME NEW a \in Affinities(source) \ {NoAffinity}
      PROVE  /\ count(a) >= Cardinality(On(source, a))
             /\ a # npu => count(a) = Cardinality(On(source, a))
  <2>1. a # NoAffinity /\ \E i \in D : source.ops[i].affinity = a
    BY DEF Affinities
  <2>2. On(source, a) \subseteq On(p, a) /\ (a # npu => On(p, a) = On(source, a))
    BY <1>2, <1>4, <2>1 DEF On
  <2>3. a \in DOMAIN rows
    BY <1>2, <1>4, <1>5, <2>1 DEF Affinities
  <2>4. count(a) = Cardinality(On(p, a))
    BY <1>6, <2>3
  <2>5. IsFiniteSet(On(p, a))
    BY <1>2, <1>3, FS_Subset DEF On
  <2>6. IsFiniteSet(On(source, a)) /\ Cardinality(On(source, a)) <= Cardinality(On(p, a))
    BY <2>2, <2>5, FS_Subset
  <2>7. Cardinality(On(source, a)) \in Nat /\ Cardinality(On(p, a)) \in Nat
    BY <2>5, <2>6, FS_CardinalityType
  <2> HIDE DEF count
  <2> QED
    BY <2>2, <2>4, <2>6, <2>7
<1>9. ASSUME NEW a \in DOMAIN rows, rows[a].stats.hasDynamicDispatch
      PROVE  On(source, a) \cap DynamicOps(source) # {}
  <2>1. PICK i \in D : p.ops[i].affinity = a /\ i \in DynamicOps(source)
    BY <1>2, <1>6, <1>9 DEF On
  <2>2. source.ops[i].affinity = a
    BY <1>4, <2>1
  <2> QED
    BY <2>1, <2>2 DEF On
<1> QED
  BY <1>7, <1>8, <1>9 DEF Accounts, rows

-----------------------------------------------------------------------------
\* The reports that can be read at the moment, and the pieces they are about.
Lines == Range(reports.stderr) \cup Range(reports.file)
Reported == {r.piece : r \in Lines}

\* The piece at hand has been through the CoralNPU passes.
Profiled == (pc \in {"next", "exited"} /\ piece >= 1) \/ (pc = "pipeline" /\ inv.to # Stream)

\* Every report is one of a properly placed program; and unless something
\* failed, each piece that went past the interruption has been reported on.
ReportsTyped == reports \in [stderr : Seq(Lines), file : Seq(Lines)]
ReportsAccount ==
  \A r \in Lines :
    Accounts(Pieces[r.piece].program, r.rows) /\ r.piece \in 1 .. Len(Pieces)
ProgramPlaced ==
  pc \in {"pipeline", "profile"} => Placed(Pieces[piece].program, program)
ReportsComplete ==
  /\ opts.profile = "none" => Lines = {}
  /\ opts.profile # "none" /\ opts.mode = "std" /\ opts.to = End /\ ~hadFailure =>
       /\ Profiled => piece \in Reported
       /\ opts.profile = "stderr" => 1 .. (IF Profiled THEN piece ELSE piece - 1) \subseteq Reported
Unopened == pc \in {"open source", "open output", "split"} => piece = 0

ReportInv ==
  CInv /\ ReportsTyped /\ ReportsAccount /\ ProgramPlaced /\ ReportsComplete /\ Unopened

\* The source of a piece is a program.
LEMMA PiecePrograms ==
  ASSUME CInv, NEW k \in 1 .. Len(Pieces) PROVE Pieces[k].program \in Programs
<1>1. Typed
  BY DEF CInv
<1>2. /\ input # <<>> /\ input \in Seq(Range(input))
      /\ \A j \in DOMAIN input : input[j].program \in Programs
  BY <1>1, InputAssumption DEF Typed
<1> DEFINE S == Range(input)
<1> HIDE DEF S
<1>3. input \in Seq(S)
  BY <1>2 DEF S
<1>4. Len(input) \in Nat \ {0} /\ DOMAIN input = 1 .. Len(input)
  BY <1>2, <1>3
<1> QED
  BY <1>2, <1>4 DEF Pieces

\* What a run of the profile pass does to the reports.
LEMMA Emitted ==
  ASSUME ReportsTyped, EmitProfile, NEW report, report = [piece |-> piece, rows |-> Report(program)]
  PROVE  /\ ReportsTyped'
         /\ Lines' \subseteq Lines \cup {report}
         /\ opts.profile = "none" => reports' = reports
         /\ opts.profile # "none" => report \in Lines'
         /\ opts.profile = "stderr" => Lines \subseteq Lines'
<1> DEFINE A == Range(reports.stderr)
           B == Range(reports.file)
<1>1. reports.stderr \in Seq(Lines) /\ reports.file \in Seq(Lines)
  BY DEF ReportsTyped
<1>2. CASE reports' = reports /\ opts.profile = "none"
  BY <1>2 DEF Lines, ReportsTyped
<1>3. CASE opts.profile # "none" /\ reports' = [reports EXCEPT !.stderr = Append(@, report)]
  <2>1. /\ reports'.stderr = Append(reports.stderr, report) /\ reports'.file = reports.file
        /\ reports' = [stderr |-> reports'.stderr, file |-> reports'.file]
    BY <1>3 DEF ReportsTyped
  <2>2. Range(reports'.stderr) = A \cup {report}
    <3> DEFINE s == reports.stderr
               n == Len(s)
               t == reports'.stderr
    <3>1. n \in Nat /\ DOMAIN s = 1 .. n /\ DOMAIN t = 1 .. n + 1
      BY <1>1, <2>1
    <3>2. t[n + 1] = report /\ \A k \in 1 .. n : t[k] = s[k]
      BY <1>1, <2>1
    <3> HIDE DEF s, t, n
    <3>3. Range(t) = Range(s) \cup {report}
      BY <3>1, <3>2 DEF Range
    <3> QED
      BY <3>3 DEF s, t
  <2>3. Lines' = Lines \cup {report}
    BY <2>1, <2>2 DEF Lines
  <2>4. reports'.stderr \in Seq(Lines') /\ reports'.file \in Seq(Lines')
    <3>1. Lines \subseteq Lines' /\ report \in Lines'
      BY <2>3
    <3>2. reports.stderr \in Seq(Lines') /\ reports.file \in Seq(Lines')
      BY <1>1, <3>1, SeqMonotonic
    <3> QED
      BY <2>1, <3>1, <3>2
  <2>5. ReportsTyped'
    BY <2>1, <2>4 DEF ReportsTyped
  <2> QED
    BY <1>3, <2>3, <2>5
<1>4. CASE opts.profile = "file" /\ reports' = [reports EXCEPT !.file = <<report>>]
  <2>1. /\ reports'.stderr = reports.stderr /\ reports'.file = <<report>>
        /\ reports' = [stderr |-> reports'.stderr, file |-> reports'.file]
    BY <1>4 DEF ReportsTyped
  <2>2. Range(<<report>>) = {report}
    BY DEF Range
  <2>3. Lines' = A \cup {report}
    BY <2>1, <2>2 DEF Lines
  <2>4. reports'.stderr \in Seq(Lines') /\ reports'.file \in Seq(Lines')
    <3> DEFINE s == reports.stderr
    <3>1. s \in Seq({s[k] : k \in DOMAIN s})
      BY <1>1, OwnSeq
    <3>2. {s[k] : k \in DOMAIN s} = A
      BY DEF Range
    <3>3. A \subseteq Lines' /\ report \in Lines'
      BY <2>3
    <3> HIDE DEF A
    <3>4. s \in Seq(Lines')
      BY <3>1, <3>2, <3>3, SeqMonotonic
    <3> QED
      BY <2>1, <3>3, <3>4
  <2>5. ReportsTyped'
    BY <2>1, <2>4 DEF ReportsTyped
  <2> QED
    BY <1>4, <2>3, <2>5 DEF Lines
<1> QED
  BY <1>2, <1>3, <1>4 DEF EmitProfile

\* Nothing has been reported when the command starts.
LEMMA InitReports == Init => ReportInv
<1> SUFFICES ASSUME Init PROVE ReportInv
  OBVIOUS
<1>1. CInv /\ pc = "open source" /\ piece = 0 /\ reports = [stderr |-> <<>>, file |-> <<>>]
  BY InitInv DEF Init
<1>2. Lines = {}
  <2>1. Range(<<>>) = {}
    BY DEF Range
  <2> QED
    BY <1>1, <2>1 DEF Lines
<1>3. ReportsTyped
  <2>1. <<>> \in Seq(Lines)
    BY EmptySeq
  <2> QED
    BY <1>1, <2>1 DEF ReportsTyped
<1>4. ReportsComplete
  <2>1. ~Profiled
    BY <1>1 DEF Profiled
  <2>2. 1 .. (piece - 1) = {}
    <3>1. piece = 0
      BY <1>1
    <3>2. PICK n \in Int : n = piece - 1 /\ n < 1
      BY <3>1
    <3>3. 1 .. n = {}
      BY <3>2
    <3> QED
      BY <3>2, <3>3
  <2> QED
    BY <1>2, <2>1, <2>2 DEF ReportsComplete
<1> QED
  BY <1>1, <1>2, <1>3, <1>4 DEF ReportInv, ReportsAccount, ProgramPlaced, Unopened

\* Every step keeps the reports accurate and complete.
LEMMA StepReports == ReportInv /\ [Next]_vars => ReportInv'
<1> SUFFICES ASSUME ReportInv, [Next]_vars PROVE ReportInv'
  OBVIOUS
<1>1. opts' = opts /\ Pieces' = Pieces
  BY Fixed
<1>2. CInv /\ CInv'
  BY StepInv DEF ReportInv
<1>3. piece \in 0 .. Len(Pieces) /\ (Inside => piece >= 1) /\ Len(Pieces) \in Nat
  BY <1>2, PieceTypes DEF CInv, OutInv
<1>4. ASSUME reports' = reports
      PROVE  ReportsTyped' /\ ReportsAccount' /\ Lines' = Lines /\ Reported' = Reported
  BY <1>1, <1>4 DEF ReportInv, ReportsTyped, ReportsAccount, Lines, Reported
<1>5. ASSUME reports' = reports, hadFailure', ProgramPlaced',
             pc' \notin {"open source", "open output", "split"}
      PROVE  ReportInv'
  BY <1>1, <1>2, <1>4, <1>5 DEF ReportInv, ReportsComplete, Unopened
<1>6. ASSUME reports' = reports, hadFailure' = hadFailure, piece' = piece,
             Profiled' <=> Profiled, ProgramPlaced', Unopened'
      PROVE  ReportInv'
  <2>1. ReportsComplete'
    BY <1>1, <1>4, <1>6 DEF ReportInv, ReportsComplete
  <2> QED
    BY <1>2, <1>4, <1>6, <2>1 DEF ReportInv
<1>7. CASE UNCHANGED vars \/ Serialize
  <2>1. UNCHANGED driverVars
    BY <1>7 DEF vars, Serialize
  <2>2. Profiled' = Profiled /\ ProgramPlaced' /\ Unopened'
    BY <1>1, <2>1 DEF driverVars, Profiled, ReportInv, ProgramPlaced, Unopened
  <2> QED
    BY <1>6, <2>1, <2>2 DEF driverVars
<1>8. CASE OpenSource \/ OpenOutput \/ Split \/ OpenFails
  <2>1. /\ reports' = reports /\ hadFailure' = hadFailure /\ piece' = piece
        /\ pc \in {"open source", "open output", "split"}
        /\ pc' \in {"open output", "split", "next", "exited"}
    BY <1>8 DEF OpenSource, OpenOutput, Split, OpenFails, Return
  <2>2. piece = 0
    BY <2>1 DEF ReportInv, Unopened
  <2>3. ~Profiled /\ ~Profiled'
    <3>1. piece = 0 /\ piece' = 0
      BY <2>1, <2>2
    <3>2. ~(piece >= 1) /\ ~(piece' >= 1)
      BY <3>1
    <3>3. pc # "pipeline" /\ pc' # "pipeline"
      BY <2>1
    <3> QED
      BY <3>2, <3>3 DEF Profiled
  <2>4. ProgramPlaced' /\ Unopened'
    BY <2>1, <2>2 DEF ProgramPlaced, Unopened
  <2> QED
    BY <1>6, <2>1, <2>3, <2>4
<1>9. CASE BeginPiece
  <2>1. /\ reports' = reports /\ hadFailure' = hadFailure /\ piece' = piece + 1
        /\ pc = "next" /\ pc' = "parse"
    BY <1>9 DEF BeginPiece
  <2>2. ~Profiled' /\ ProgramPlaced' /\ Unopened'
    BY <2>1 DEF Profiled, ProgramPlaced, Unopened
  <2>3. 1 .. (IF Profiled THEN piece ELSE piece - 1) = 1 .. (piece' - 1)
    BY <1>3, <2>1 DEF Profiled
  <2>4. ReportsComplete'
    BY <1>1, <1>4, <2>1, <2>2, <2>3 DEF ReportInv, ReportsComplete
  <2> QED
    BY <1>2, <1>4, <2>1, <2>2, <2>4 DEF ReportInv
<1>10. CASE Parse
  <2>1. /\ reports' = reports /\ hadFailure' = hadFailure /\ piece' = piece
        /\ pc = "parse" /\ pc' = "pipeline" /\ program' = Pieces[piece].program
    BY <1>10 DEF Parse
  <2>2. piece \in 1 .. Len(Pieces)
    BY <1>3, <2>1 DEF Inside
  <2>3. ProgramPlaced' /\ Unopened'
    BY <1>1, <1>2, <2>1, <2>2, PiecePrograms, ParsedIsPlaced DEF ProgramPlaced, Unopened
  <2>4. opts.mode = "std" /\ opts.to = End => inv'.to = Stream
    <3>1. inv \in [from : Nat, to : Nat, module : Owner, plan : Seq(Names)]
      BY <1>2 DEF CInv, PlanInv
    <3> QED
      BY <1>10, <3>1 DEF Parse
  <2>5. ReportsComplete'
    BY <1>1, <1>4, <2>1, <2>4 DEF ReportInv, ReportsComplete, Profiled
  <2> QED
    BY <1>2, <1>4, <2>1, <2>3, <2>5 DEF ReportInv
<1>11. CASE RunPhase
  <2>1. /\ reports' = reports /\ hadFailure' = hadFailure /\ piece' = piece
        /\ pc = "pipeline" /\ pc' = pc /\ inv' = [inv EXCEPT !.plan = Tail(@)]
        /\ program' \in {program, Annotate(program)}
    BY <1>11 DEF RunPhase
  <2>2. piece \in 1 .. Len(Pieces)
    BY <1>3, <2>1 DEF Inside
  <2>3. inv'.to = inv.to
    <3>1. inv \in [from : Nat, to : Nat, module : Owner, plan : Seq(Names)]
      BY <1>2 DEF CInv, PlanInv
    <3> QED
      BY <2>1, <3>1
  <2>4. Placed(Pieces[piece].program, program) /\ Pieces[piece].program \in Programs
    BY <1>2, <2>1, <2>2, PiecePrograms DEF ReportInv, ProgramPlaced
  <2>5. Placed(Pieces[piece].program, program')
    BY <2>1, <2>4, AnnotateIsPlaced
  <2>6. ProgramPlaced' /\ Unopened' /\ Profiled' = Profiled
    BY <1>1, <2>1, <2>3, <2>5 DEF ProgramPlaced, Unopened, Profiled
  <2> QED
    BY <1>6, <2>1, <2>6
<1>12. CASE PieceFails \/ SerializeFails \/ ProfileFails \/ Output(TRUE)
  <2>1. reports' = reports /\ hadFailure' /\ pc' = "next"
    BY <1>12 DEF PieceFails, SerializeFails, ProfileFails, Output, LeavePiece
  <2> QED
    BY <1>5, <2>1 DEF ProgramPlaced
<1>13. CASE StealModule
  <2>1. /\ reports' = reports /\ hadFailure' = hadFailure /\ piece' = piece
        /\ pc = "pipeline" /\ pc' = "profile" /\ program' = program /\ inv.to = Stream
    BY <1>13 DEF StealModule, Intercepted
  <2>2. ProgramPlaced' /\ Unopened' /\ ~Profiled' /\ ~Profiled
    BY <1>1, <2>1 DEF ReportInv, ProgramPlaced, Unopened, Profiled
  <2> QED
    BY <1>6, <2>1, <2>2
<1>14. CASE Resume
  <2> DEFINE report == [piece |-> piece, rows |-> Report(program)]
  <2>1. /\ EmitProfile /\ hadFailure' = hadFailure /\ piece' = piece
        /\ pc = "profile" /\ pc' = "pipeline" /\ program' = program /\ inv'.to = End
    BY <1>14 DEF Resume
  <2>2. piece \in 1 .. Len(Pieces)
    BY <1>3, <2>1 DEF Inside
  <2>3. Placed(Pieces[piece].program, program) /\ Pieces[piece].program \in Programs
    BY <1>2, <2>1, <2>2, PiecePrograms DEF ReportInv, ProgramPlaced
  <2>4. report.piece = piece /\ Accounts(Pieces[report.piece].program, report.rows)
    BY <2>3, ReportAccounts
  <2>5. report = [piece |-> piece, rows |-> Report(program)]
    OBVIOUS
  <2> HIDE DEF report
  <2>6. /\ ReportsTyped' /\ Lines' \subseteq Lines \cup {report}
        /\ opts.profile = "none" => reports' = reports
        /\ opts.profile # "none" => report \in Lines'
        /\ opts.profile = "stderr" => Lines \subseteq Lines'
    BY <2>1, <2>5, Emitted DEF ReportInv
  <2>7. ReportsAccount'
    BY <1>1, <2>2, <2>4, <2>6 DEF ReportInv, ReportsAccount
  <2>8. opts.profile # "none" => piece \in Reported'
    BY <2>4, <2>6 DEF Reported
  <2>9. opts.profile = "stderr" => Reported \subseteq Reported'
    BY <2>6 DEF Reported
  <2>10. ~Profiled /\ Profiled' /\ ProgramPlaced' /\ Unopened'
    <3>1. End # Stream
      BY PhasesTypes
    <3> QED
      BY <1>1, <2>1, <2>3, <3>1 DEF Profiled, ProgramPlaced, Unopened
  <2>11. opts.profile = "none" => Lines' = {}
    BY <2>6 DEF ReportInv, ReportsComplete, Lines
  <2>12. 1 .. piece = 1 .. (piece - 1) \cup {piece}
    BY <2>2
  <2>13. ReportsComplete'
    BY <1>1, <2>1, <2>8, <2>9, <2>10, <2>11, <2>12 DEF ReportInv, ReportsComplete
  <2> QED
    BY <1>2, <2>6, <2>7, <2>10, <2>13 DEF ReportInv
<1>15. CASE Output(FALSE)
  <2>1. /\ reports' = reports /\ hadFailure' = hadFailure /\ piece' = piece
        /\ pc = "pipeline" /\ pc' = "next" /\ ~Intercepted
    BY <1>15, <1>2 DEF Output, LeavePiece, CInv, Typed
  <2>2. opts.mode = "std" /\ opts.to = End => Profiled
    BY <2>1 DEF Intercepted, Profiled
  <2>3. Profiled' /\ ProgramPlaced' /\ Unopened'
    BY <1>3, <2>1 DEF Inside, Profiled, ProgramPlaced, Unopened
  <2>4. ReportsComplete'
    BY <1>1, <1>4, <2>1, <2>2, <2>3 DEF ReportInv, ReportsComplete
  <2> QED
    BY <1>2, <1>4, <2>1, <2>3, <2>4 DEF ReportInv
<1>16. CASE Finish
  <2>1. /\ reports' = reports /\ hadFailure' = hadFailure /\ piece' = piece
        /\ pc = "next" /\ pc' = "exited"
    BY <1>16 DEF Finish, Return
  <2>2. Profiled' = Profiled /\ ProgramPlaced' /\ Unopened'
    BY <2>1 DEF Profiled, ProgramPlaced, Unopened
  <2> QED
    BY <1>6, <2>1, <2>2
<1> QED
  BY <1>7, <1>8, <1>9, <1>10, <1>11, <1>12, <1>13, <1>14, <1>15, <1>16 DEF Next

\* Every profile accounts for every operation of its piece exactly once, keeps
\* what the source placed where it was and puts nothing of dynamic shape on the
\* NPU, however often the annotation ran; and a command that succeeds has
\* reported on every piece it was asked to.  For programs of any size, any
\* pipeline and any number of pieces.
THEOREM ProfilesSayPlacement == Spec => []ProfileIsPlacement
<1>1. ReportInv => ProfileIsPlacement
  <2> SUFFICES ASSUME ReportInv PROVE ProfileIsPlacement
    OBVIOUS
  <2>1. \A r \in Lines : Accounts(Pieces[r.piece].program, r.rows)
    BY DEF ReportInv, ReportsAccount
  <2>2. ASSUME pc = "exited", code = 0, opts.mode = "std", opts.to = End
        PROVE  CASE opts.profile = "none" -> Reported = {}
                 [] opts.profile = "stderr" -> Reported = DOMAIN Pieces
                 [] opts.profile = "file" -> Len(Pieces) \in Reported
    <3>1. ~hadFailure /\ piece = Len(Pieces)
      <4>1. (code = 0) = keptOutput /\ (keptOutput => ~hadFailure /\ piece = Len(Pieces))
        BY <2>2 DEF ReportInv, CInv, OutInv
      <4> QED
        BY <2>2, <4>1
    <3>2. Len(Pieces) \in Nat \ {0}
      BY PieceTypes DEF ReportInv, CInv
    <3>3. Profiled
      BY <2>2, <3>1, <3>2 DEF Profiled
    <3>4. opts.profile \in {"none", "stderr", "file"}
      BY OptionAssumption DEF ReportInv, CInv, Typed
    <3>5. CASE opts.profile = "none"
      <4>1. Reported = {}
        BY <3>5 DEF ReportInv, ReportsComplete, Reported
      <4> QED
        BY <3>5, <4>1
    <3>6. CASE opts.profile = "stderr"
      <4>1. 1 .. Len(Pieces) \subseteq Reported
        BY <2>2, <3>1, <3>3, <3>6 DEF ReportInv, ReportsComplete
      <4>2. Reported \subseteq 1 .. Len(Pieces)
        BY DEF ReportInv, ReportsAccount, Reported
      <4>3. DOMAIN Pieces = 1 .. Len(Pieces)
        <5>1. input # <<>> /\ input \in Seq(Range(input))
          BY InputAssumption DEF ReportInv, CInv, Typed
        <5> DEFINE S == Range(input)
        <5> HIDE DEF S
        <5>2. input \in Seq(S)
          BY <5>1 DEF S
        <5>3. DOMAIN input = 1 .. Len(input)
          BY <5>2
        <5>4. CASE opts.split
          BY <5>3, <5>4 DEF Pieces
        <5>5. CASE ~opts.split
          BY <5>5 DEF Pieces
        <5> QED
          BY <5>4, <5>5
      <4> QED
        BY <3>6, <4>1, <4>2, <4>3
    <3>7. CASE opts.profile = "file"
      <4>1. Len(Pieces) \in Reported
        BY <2>2, <3>1, <3>3, <3>7 DEF ReportInv, ReportsComplete
      <4> QED
        BY <3>7, <4>1
    <3> QED
      BY <3>4, <3>5, <3>6, <3>7
  <2> QED
    BY <2>1, <2>2, Zenon DEF ProfileIsPlacement, Lines, Reported, Accounts, Affinities, On, DynamicOps
<1> QED
  BY <1>1, InitReports, StepReports, PTL DEF Spec
=============================================================================
