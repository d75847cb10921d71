--------------------------- MODULE Serialization ---------------------------
(***************************************************************************)
(* How the CoralNPU target backend turns one executable variant into a     *)
(* binary (compiler/Target/CoralNPUTargetBackend.cpp and                   *)
(* CoralNPULinkerTool.cpp): a chain of stages, almost all of which may     *)
(* fail, that creates temporary files on the way and must leave neither    *)
(* files nor a binary behind when it gives up.                             *)
(*                                                                         *)
(* A target is a record: embedded, static, ukernel, debug and dump say     *)
(* which stages its route has, keep is keepLinkerArtifacts, and attached   *)
(* lists the object attributes of the variant: "inline" data, a file that  *)
(* is "found", or one that is "missing".                                   *)
(***************************************************************************)
EXTENDS Naturals, Sequences, FiniteSets

Target ==
  [embedded : BOOLEAN, static : BOOLEAN, ukernel : BOOLEAN, debug : BOOLEAN,
   dump : BOOLEAN, keep : BOOLEAN, attached : Seq({"inline", "found", "missing"})]

VARIABLES
  job,       \* the executable being serialized, its target and its stage
  objects,   \* objectFiles: what the linker is given
  files,     \* the temporary files that exist
  kept,      \* those of them that outlive their Artifact
  binaries   \* the executables of the module that have a binary

serVars == <<job, objects, files, kept, binaries>>

NoJob == [at |-> 0]
Idle == job = NoJob

SerInit ==
  /\ job = NoJob
  /\ objects = <<>>
  /\ files = {} /\ kept = {}
  /\ binaries = <<>>

\* The stages of serializeExecutable and its two endings, in order.
Route(t) ==
  LET Only(when, stage) == IF when THEN <<stage>> ELSE <<>>
  IN  <<"target", "combination", "machine", "translate">>
        \o Only(~t.static, "linker tool")
        \o <<"cmdline bitcode", "object bitcode", "libdevice">>
        \o Only(t.embedded, "libmusl") \o Only(t.ukernel, "ukernel")
        \o <<"passes", "object">> \o Only(t.dump, "assembly") \o <<"attach">>
        \o (IF t.static THEN <<"archive">>
            ELSE <<"find linker", "link", "read">> \o Only(t.debug /\ ~t.embedded, "debug"))
        \o <<"binary">>

Stage == Route(job.target)[job.at]
At(stage) == ~Idle /\ Stage = stage

File(kind, k) == <<job.exe, kind, k>>
\* The files of this executable that die with their Artifact.
Mine == {f \in files : f[1] = job.exe}

\* Stages that refuse their input; every other stage may fail or succeed.
Refused ==
  \/ At("combination") /\ job.target.embedded /\ job.target.static
  \/ At("attach") /\ "missing" \in {job.target.attached[k] : k \in DOMAIN job.target.attached}
  \/ At("archive") /\ Len(objects) # 1

\* The CoralNPU linker tool is always there; other linkers are looked up.
NeverFails ==
  {"combination", "attach", "binary"} \cup
  (IF job.target.embedded THEN {"linker tool"} ELSE {})

SerBegin(exe, target) ==
  /\ Idle
  /\ job' = [exe |-> exe, target |-> target, at |-> 1]
  /\ objects' = <<>>

NextStage == job' = [job EXCEPT !.at = @ + 1]

\* Stages that only change the LLVM module.
Advance ==
  /\ ~Idle /\ Stage \notin {"object", "attach", "link", "binary"}
  /\ ~Refused
  /\ NextStage
  /\ UNCHANGED <<objects, files, kept, binaries>>

EmitObject ==
  /\ At("object")
  /\ files' = files \cup {File("o", 0)}
  /\ objects' = <<[file |-> File("o", 0), written |-> TRUE]>>
  /\ NextStage
  /\ UNCHANGED <<kept, binaries>>

\* Inline data get a temporary file, which nothing is written to.
AttachObjects ==
  LET attached == job.target.attached
      Attached(k) == [file |-> File(attached[k], k), written |-> attached[k] = "found"]
  IN  /\ At("attach") /\ ~Refused
      /\ objects' = objects \o [k \in DOMAIN attached |-> Attached(k)]
      /\ files' = files \cup {Attached(k).file : k \in {j \in DOMAIN attached : attached[j] = "inline"}}
      /\ NextStage
      /\ UNCHANGED <<kept, binaries>>

TemporaryObjects == {o.file : o \in {objects[k] : k \in DOMAIN objects}} \cap files

Link ==
  /\ At("link")
  /\ files' = files \cup {File("so", 0)}
  /\ kept' = IF job.target.keep THEN kept \cup TemporaryObjects \cup {File("so", 0)} ELSE kept
  /\ NextStage
  /\ UNCHANGED <<objects, binaries>>

\* serializeExecutable returns: the Artifacts it holds are destroyed.
SerReturn(keep) ==
  /\ job' = NoJob
  /\ files' = files \ (Mine \ keep)
  /\ kept' = keep
  /\ objects' = <<>>

CreateBinary ==
  /\ At("binary")
  /\ binaries' = Append(binaries, job.exe)
  /\ SerReturn(kept)

\* A failed link command keeps the linker's inputs, not its output.
SerFails ==
  /\ ~Idle
  /\ Refused \/ Stage \notin NeverFails
  /\ SerReturn(IF At("link") /\ job.target.keep THEN kept \cup TemporaryObjects ELSE kept)
  /\ UNCHANGED binaries

SerStep == Advance \/ EmitObject \/ AttachObjects \/ Link
=============================================================================
