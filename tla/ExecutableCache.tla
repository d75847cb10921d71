-------------------------- MODULE ExecutableCache --------------------------
(***************************************************************************)
(* Questions about executables: infer_format, can_prepare_format and       *)
(* prepare_executable of a cache (coralnpu_executable_cache.c), and the    *)
(* device's query_i64 for an executable format (coralnpu_device.c).  Each  *)
(* is answered by asking the loaders that the cache or device holds, in    *)
(* turn, except that the simulator's format needs no loader                *)
(* (runtime/sim/simulator_executable.c).                                   *)
(*                                                                         *)
(* Loaders are external: each may give any answer.                         *)
(***************************************************************************)
EXTENDS RuntimeObjects, SequencesExt

VARIABLE q   \* the question being answered or just answered, or NoQuestion

vars == <<objects, q>>

SupportAnswers == {"SUPPORTED", "UNSUPPORTED"}
InferAnswers == {"OK", "INCOMPATIBLE", "UNAVAILABLE"}
LoadAnswers == {"UNSUPPORTED", "OK", "CANCELLED", "NOT_FOUND", "RESOURCE_EXHAUSTED"}

NoQuestion == [op |-> "none"]

\* heard: what the loaders asked so far answered, in order.
Asked(op, subject, simulator_format, empty) ==
  [op |-> op, subject |-> subject, simulator_format |-> simulator_format, empty |-> empty,
   status |-> "OK", heard |-> <<>>, result |-> "none"]

CacheInit == Init /\ q = NoQuestion

Ask(op, subject) ==
  /\ q = NoQuestion /\ AppHolds(subject)
  /\ \E f, e \in BOOLEAN : q' = Asked(op, subject, f, e)
  /\ UNCHANGED objects

Asking(op) == q.op = op /\ q.result = "none"

\* The loaders are asked in turn.  Each may give any answer, so that it matters
\* how many have been asked and not which.
LoadersOf(h) == {r \in PointersOf(h) : r[3] \in Loaders}
More == Len(q.heard) < Cardinality(LoadersOf(q.subject))

\* One more answer, and the result if it is the last one.
Hear(answer, status, result) ==
  q' = [q EXCEPT !.heard = Append(@, answer), !.status = status, !.result = result]
Answer(result) == q' = [q EXCEPT !.result = result]

(***************************************************************************)
(* infer_format.  The test after each loader's answer is on `status', the  *)
(* result so far, and not on the answer: the first loader's is the last.   *)
(***************************************************************************)
InferNext(sofar, answer) ==
  CASE sofar = "OK" -> [status |-> "OK", result |-> "OK"]
    [] sofar # "OK" /\ answer = "INCOMPATIBLE" ->
         [status |-> "INCOMPATIBLE", result |-> "none"]
    [] OTHER -> [status |-> answer, result |-> answer]

InferFormat ==
  /\ Asking("infer_format")
  /\ \/ /\ More
        /\ \E answer \in InferAnswers :
             LET next == InferNext(q.status, answer)
             IN  Hear(answer, next.status, next.result)
     \/ ~More /\ Answer(q.status)
  /\ UNCHANGED objects

(***************************************************************************)
(* can_prepare_format, and query_i64 for "hal.executable.format".          *)
(***************************************************************************)
\* Mutant: the first loader's answer is final.
CanPrepareFirstOnly(op) ==
  /\ Asking(op)
  /\ \/ q.simulator_format /\ Answer("TRUE")
     \/ /\ ~q.simulator_format /\ More
        /\ \E answer \in SupportAnswers :
             Hear(answer, "OK", IF answer = "SUPPORTED" THEN "TRUE" ELSE "FALSE")
     \/ ~q.simulator_format /\ ~More /\ Answer("FALSE")
  /\ UNCHANGED objects

CanPrepare(op) ==
  /\ Asking(op)
  /\ \/ q.simulator_format /\ Answer("TRUE")
     \/ /\ ~q.simulator_format /\ More
        /\ \E answer \in SupportAnswers :
             Hear(answer, "OK", IF answer = "SUPPORTED" THEN "TRUE" ELSE "none")
     \/ ~q.simulator_format /\ ~More /\ Answer("FALSE")
  /\ UNCHANGED objects

CanPrepareFormat == CanPrepare("can_prepare_format")
QueryFormat == CanPrepare("query_i64")

(***************************************************************************)
(* prepare_executable                                                      *)
(***************************************************************************)
\* The executable goes to the application, and holds nothing.
Executable == \E x \in Leaves : Create(x, App, 0, {})
ExecutableIf(made) ==
  /\ IF made THEN Executable ELSE UNCHANGED <<count, refs>>
  /\ UNCHANGED <<releasing, factory, available, simulator>>

\* iree_hal_simulator_executable_create: no data, no memory, or a copy.
PrepareSimulator ==
  /\ Asking("prepare_executable") /\ q.simulator_format
  /\ \E result \in IF q.empty THEN {"INVALID_ARGUMENT"} ELSE {"RESOURCE_EXHAUSTED", "OK"} :
       Answer(result) /\ ExecutableIf(result = "OK")

\* The loader cannot, or says that it does not, handle this executable.
PassedOver == {"UNSUPPORTED", "CANCELLED", "NOT_FOUND"}

PrepareExecutable ==
  /\ Asking("prepare_executable") /\ ~q.simulator_format
  /\ \/ /\ More
        /\ \E answer \in LoadAnswers :
             /\ Hear(answer, "OK", IF answer \in PassedOver THEN "none" ELSE answer)
             /\ ExecutableIf(answer = "OK")
     \/ ~More /\ Answer("NOT_FOUND") /\ UNCHANGED objects

Answered ==
  /\ q # NoQuestion /\ q.result # "none"
  /\ q' = NoQuestion
  /\ UNCHANGED objects

Next ==
  \/ q = NoQuestion /\ ObjectStep /\ UNCHANGED q
  \/ \E op \in {"infer_format", "can_prepare_format", "prepare_executable"}, c \in Caches :
       Ask(op, c)
  \/ \E d \in Devices : Ask("query_i64", d)
  \/ InferFormat \/ CanPrepareFormat \/ QueryFormat
  \/ PrepareSimulator \/ PrepareExecutable \/ Answered

Spec == CacheInit /\ [][Next]_vars

-----------------------------------------------------------------------------
\* Every available loader is reached, through a cache or a device that may
\* have outlived it: can_prepare_format and query_i64 say no, and
\* prepare_executable gives up with NOT_FOUND, only when every loader has
\* passed the executable over; and an answer other than that is the one of the
\* first loader that did not.
AnswersAreExhaustive ==
  q # NoQuestion /\ q.op # "infer_format" /\ q.result # "none" /\ ~q.simulator_format =>
    LET all == Len(q.heard) = available /\ Range(q.heard) \subseteq PassedOver
        first == Last(q.heard)
    IN  /\ q.result \in {"FALSE", "NOT_FOUND"} <=> all
        /\ ~all => /\ first \notin PassedOver
                   /\ Range(Front(q.heard)) \subseteq PassedOver
                   /\ q.result = IF first = "SUPPORTED" THEN "TRUE" ELSE first
=============================================================================
