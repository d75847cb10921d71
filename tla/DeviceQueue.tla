---------------------------- MODULE DeviceQueue ----------------------------
(***************************************************************************)
(* The submission queue of the CoralNPU device                             *)
(* (runtime/driver/coralnpu_device.c).  The queue is synchronous: a        *)
(* queue_* call waits, works and signals on the calling thread before it   *)
(* returns, and the only ordering between threads is the timeline          *)
(* semaphores each submission waits on and signals.                        *)
(*                                                                         *)
(* The semaphores are the atomic ones of Timeline, which Semaphore is      *)
(* shown to implement; multi_signal, which is not atomic, signals one      *)
(* entry per step.  An ALL wait returns only once every entry is reached   *)
(* or failed, as all_signaled has it.                                      *)
(*                                                                         *)
(* External: the application that submits (Program), the allocator, the    *)
(* deferred command buffer it recorded and the user's host call, each of   *)
(* which may fail (MayFail) or, for a host call, defer (MayDefer).         *)
(***************************************************************************)
EXTENDS Integers, Sequences, FiniteSets

CONSTANTS
  Threads, Submissions, Semaphores,
  MaxValue,     \* largest payload of Waits and Signals (bound)
  Program,      \* thread -> the submissions it makes, in order
  Kind,         \* submission -> the queue operation
  Waits,        \* submission -> list of <<semaphore, payload>>
  Signals,      \* submission -> list of <<semaphore, payload>>
  MayFail,      \* submissions whose work may fail
  MayDefer,     \* host calls that may signal later themselves
  Fallible      \* semaphores the application may fail

Kinds == {"execute", "alloca", "dealloca", "host_call", "nonblocking_call"}
Payloads == Semaphores \X (1 .. MaxValue)

ASSUME QueueBoundAssumption == MaxValue \in Nat
ASSUME ProgramAssumption ==
  /\ Program \in [Threads -> Seq(Submissions)]
  /\ Kind \in [Submissions -> Kinds]
  /\ Waits \in [Submissions -> Seq(Payloads)]
  /\ Signals \in [Submissions -> Seq(Payloads)]
  /\ Fallible \subseteq Semaphores

VARIABLES
  value, failure,   \* the semaphores, as in Timeline
  next,             \* thread -> index of its next or current submission
  phase,            \* thread -> where its queue call is
  k,                \* thread -> index of the signal entry handled next
  worked,           \* submissions whose work has completed without error
  deferred,         \* host calls that will signal later
  returned          \* submission -> status its queue call returned, or "none"

vars == <<value, failure, next, phase, k, worked, deferred, returned>>

FailureValue == MaxValue + 1
OK == "OK"

Job(t) == Program[t][next[t]]
Entries(l) == {l[n] : n \in 1 .. Len(l)}
Failed(s) == failure[s] # OK

-----------------------------------------------------------------------------
Init ==
  /\ value = [s \in Semaphores |-> 0]
  /\ failure = [s \in Semaphores |-> OK]
  /\ next = [t \in Threads |-> 1]
  /\ phase = [t \in Threads |-> "idle"]
  /\ k = [t \in Threads |-> 1]
  /\ worked = {}
  /\ deferred = {}
  /\ returned = [q \in Submissions |-> "none"]

Goto(t, label) == phase' = [phase EXCEPT ![t] = label]

\* The queue call returns to the application, which makes the next one.
Return(t, status) ==
  /\ returned' = [returned EXCEPT ![Job(t)] = status]
  /\ next' = [next EXCEPT ![t] = @ + 1]
  /\ k' = [k EXCEPT ![t] = 1]
  /\ Goto(t, "idle")

Submit(t) ==
  /\ phase[t] = "idle" /\ next[t] <= Len(Program[t])
  /\ Goto(t, "wait")
  /\ UNCHANGED <<value, failure, next, k, worked, deferred, returned>>

\* Mutant: the wait returns as soon as one payload is there.
WaitDoneAny(t) ==
  Waits[Job(t)] = <<>> \/ \E e \in Entries(Waits[Job(t)]) : value[e[1]] >= e[2]

WaitDone(t) == \A e \in Entries(Waits[Job(t)]) : value[e[1]] >= e[2]
WaitBroken(t) == \E e \in Entries(Waits[Job(t)]) : Failed(e[1])

\* Mutant: a payload that is just reached does not end the wait.
WaitOkBeyond(t) ==
  /\ phase[t] = "wait" /\ ~WaitBroken(t)
  /\ \A e \in Entries(Waits[Job(t)]) : value[e[1]] > e[2]
  /\ Goto(t, IF Kind[Job(t)] = "nonblocking_call" THEN "presignal" ELSE "work")
  /\ UNCHANGED <<value, failure, next, k, worked, deferred, returned>>

\* A non-blocking host call signals before it calls.
WaitOk(t) ==
  /\ phase[t] = "wait" /\ WaitDone(t) /\ ~WaitBroken(t)
  /\ Goto(t, IF Kind[Job(t)] = "nonblocking_call" THEN "presignal" ELSE "work")
  /\ UNCHANGED <<value, failure, next, k, worked, deferred, returned>>

\* IREE_RETURN_IF_ERROR on the wait: nothing is signaled and nothing failed.
WaitAborted(t) ==
  /\ phase[t] = "wait" /\ WaitDone(t) /\ WaitBroken(t)
  /\ Goto(t, "abort")
  /\ UNCHANGED <<value, failure, next, k, worked, deferred, returned>>

Aborted(t) ==
  /\ phase[t] = "abort"
  /\ Return(t, "ABORTED")
  /\ UNCHANGED <<value, failure, worked, deferred>>

-----------------------------------------------------------------------------
(* The work between wait and signal.                                       *)

Complete(t) == worked' = worked \cup {Job(t)}

\* The command buffer is replayed, the buffer allocated, the barrier passed or
\* the call made; then the signals.
Work(t) ==
  /\ phase[t] = "work" /\ Kind[Job(t)] # "nonblocking_call"
  /\ Complete(t)
  /\ Goto(t, "signal")
  /\ UNCHANGED <<value, failure, next, k, deferred, returned>>

\* The result of a non-blocking call is dropped.
WorkNonBlocking(t) ==
  /\ phase[t] = "work" /\ Kind[Job(t)] = "nonblocking_call"
  /\ Complete(t) \/ (Job(t) \in MayFail /\ UNCHANGED worked)
  /\ Return(t, OK)
  /\ UNCHANGED <<value, failure, deferred>>

\* queue_execute and queue_alloca return the error and leave their signal
\* semaphores as they are.  dealloca is a barrier and has no work to fail.
WorkFailed(t) ==
  /\ phase[t] = "work" /\ Kind[Job(t)] \in {"execute", "alloca"}
  /\ Job(t) \in MayFail
  /\ Return(t, "INTERNAL")
  /\ UNCHANGED <<value, failure, worked, deferred>>

\* Mutant: a failed host call returns OK without failing its semaphores.
CallFailedSilently(t) ==
  /\ phase[t] = "work" /\ Kind[Job(t)] = "host_call"
  /\ Job(t) \in MayFail
  /\ Return(t, OK)
  /\ UNCHANGED <<value, failure, worked, deferred>>

\* A failed host call fails its signal semaphores and reports OK.
CallFailed(t) ==
  /\ phase[t] = "work" /\ Kind[Job(t)] = "host_call"
  /\ Job(t) \in MayFail
  /\ Goto(t, "fail")
  /\ UNCHANGED <<value, failure, next, k, worked, deferred, returned>>

CallDeferred(t) ==
  /\ phase[t] = "work" /\ Kind[Job(t)] = "host_call"
  /\ Job(t) \in MayDefer
  /\ deferred' = deferred \cup {Job(t)}
  /\ Return(t, OK)
  /\ UNCHANGED <<value, failure, worked>>

-----------------------------------------------------------------------------
(* Signalling, one entry per step.                                         *)

\* Mutant: the payload is stored without comparing it.
SignalUnchecked(t) ==
  /\ phase[t] \in {"presignal", "signal"} /\ k[t] <= Len(Signals[Job(t)])
  /\ LET e == Signals[Job(t)][k[t]] IN value' = [value EXCEPT ![e[1]] = e[2]]
  /\ k' = [k EXCEPT ![t] = @ + 1]
  /\ UNCHANGED <<failure, next, phase, worked, deferred, returned>>

Signal(t) ==
  /\ phase[t] \in {"presignal", "signal"} /\ k[t] <= Len(Signals[Job(t)])
  /\ LET e == Signals[Job(t)][k[t]]
     IN  value[e[1]] < e[2] /\ value' = [value EXCEPT ![e[1]] = e[2]]
  /\ k' = [k EXCEPT ![t] = @ + 1]
  /\ UNCHANGED <<failure, next, phase, worked, deferred, returned>>

\* An entry is refused: the call returns, the entries before it stay signaled
\* and a non-blocking call is never made.
SignalRefused(t) ==
  /\ phase[t] \in {"presignal", "signal"} /\ k[t] <= Len(Signals[Job(t)])
  /\ LET e == Signals[Job(t)][k[t]] IN value[e[1]] >= e[2]
  /\ Return(t, "OUT_OF_RANGE")
  /\ UNCHANGED <<value, failure, worked, deferred>>

Signaled(t) ==
  /\ phase[t] \in {"presignal", "signal"} /\ k[t] > Len(Signals[Job(t)])
  /\ \/ /\ phase[t] = "presignal"
        /\ Goto(t, "work")
        /\ UNCHANGED <<next, k, returned>>
     \/ /\ phase[t] = "signal"
        /\ Return(t, OK)
  /\ UNCHANGED <<value, failure, worked, deferred>>

\* Mutant: the status is stored without the sentinel value.
FailEntryStatusOnly(t) ==
  /\ phase[t] = "fail" /\ k[t] <= Len(Signals[Job(t)])
  /\ failure' = [failure EXCEPT ![Signals[Job(t)][k[t]][1]] = "INTERNAL"]
  /\ k' = [k EXCEPT ![t] = @ + 1]
  /\ UNCHANGED <<value, next, phase, worked, deferred, returned>>

\* iree_hal_semaphore_list_fail, one semaphore per step; a semaphore that has
\* failed keeps its first failure.
FailEntry(t) ==
  /\ phase[t] = "fail" /\ k[t] <= Len(Signals[Job(t)])
  /\ LET s == Signals[Job(t)][k[t]][1]
     IN  IF Failed(s)
         THEN UNCHANGED <<value, failure>>
         ELSE /\ failure' = [failure EXCEPT ![s] = "INTERNAL"]
              /\ value' = [value EXCEPT ![s] = FailureValue]
  /\ k' = [k EXCEPT ![t] = @ + 1]
  /\ UNCHANGED <<next, phase, worked, deferred, returned>>

FailedAll(t) ==
  /\ phase[t] = "fail" /\ k[t] > Len(Signals[Job(t)])
  /\ Return(t, OK)
  /\ UNCHANGED <<value, failure, worked, deferred>>

-----------------------------------------------------------------------------
(* The application.                                                        *)

\* A deferred host call finishes and signals its semaphores, each on its own.
DeferredSignal(q) ==
  /\ q \in deferred
  /\ \E e \in Entries(Signals[q]) :
       /\ value[e[1]] < e[2]
       /\ value' = [value EXCEPT ![e[1]] = e[2]]
  /\ worked' = worked \cup {q}
  /\ deferred' = IF \A e \in Entries(Signals[q]) : value'[e[1]] >= e[2]
                 THEN deferred \ {q} ELSE deferred
  /\ UNCHANGED <<failure, next, phase, k, returned>>

\* The application gives up on a timeline of its own.
AppFail(s) ==
  /\ s \in Fallible /\ ~Failed(s)
  /\ failure' = [failure EXCEPT ![s] = "CANCELLED"]
  /\ value' = [value EXCEPT ![s] = FailureValue]
  /\ UNCHANGED <<next, phase, k, worked, deferred, returned>>

Step(t) ==
  \/ Submit(t) \/ WaitOk(t) \/ WaitAborted(t) \/ Aborted(t)
  \/ Work(t) \/ WorkNonBlocking(t) \/ WorkFailed(t) \/ CallFailed(t) \/ CallDeferred(t)
  \/ Signal(t) \/ SignalRefused(t) \/ Signaled(t) \/ FailEntry(t) \/ FailedAll(t)

Next ==
  \/ \E t \in Threads : Step(t)
  \/ \E q \in Submissions : DeferredSignal(q)
  \/ \E s \in Fallible : AppFail(s)

Spec == Init /\ [][Next]_vars

\* Threads run, and a deferred call is finished some day.
FairSpec ==
  /\ Spec
  /\ \A t \in Threads : WF_vars(Step(t))
  /\ \A q \in Submissions : WF_vars(DeferredSignal(q))

-----------------------------------------------------------------------------
(* Properties.                                                             *)

\* The submissions that reach payload e of a wait.
Producers(e) ==
  {q \in Submissions : \E x \in Entries(Signals[q]) : x[1] = e[1] /\ x[2] >= e[2]}

Working == {Job(t) : t \in {u \in Threads : phase[u] \in {"work", "signal"}}}

\* "Wait for semaphores to be signaled before performing any work": when a
\* submission works, some producer of each payload it waits on has finished
\* its work without error, whoever submitted it.  Only a non-blocking host
\* call is signaled for before it ran, and only once its own waits are done.
WorkAfterProducers ==
  \A q \in worked \cup Working : \A e \in Entries(Waits[q]) :
    \E p \in Producers(e) :
      \/ p \in worked
      \/ /\ Kind[p] = "nonblocking_call"
         /\ \A x \in Entries(Waits[p]) : value[x[1]] >= x[2]

Finished == \A q \in Submissions : returned[q] # "none"
Blocked(t) == phase[t] = "wait" /\ ~WaitDone(t)

\* Nobody will change a semaphore again, unless the application fails one: what
\* a deferred call would signal is reached or failed already.
Quiescent ==
  /\ \A q \in deferred : \A e \in Entries(Signals[q]) : value[e[1]] >= e[2]
  /\ \A t \in Threads : Blocked(t) \/ (phase[t] = "idle" /\ next[t] > Len(Program[t]))

\* A program that can finish: every submission is made once, and whichever are
\* left, one of them is the next of its thread and has producers, for all it
\* waits on, among those that are not.
MadeOnce ==
  /\ \A q \in Submissions : \E t \in Threads : q \in Entries(Program[t])
  /\ \A t, u \in Threads : \A i \in 1 .. Len(Program[t]), j \in 1 .. Len(Program[u]) :
       Program[t][i] = Program[u][j] => t = u /\ i = j

Before(q) ==
  UNION {{Program[t][i] : i \in {j \in 1 .. Len(Program[t]) :
            \E m \in j + 1 .. Len(Program[t]) : Program[t][m] = q}} : t \in Threads}

Orderly ==
  /\ MadeOnce
  /\ \A left \in SUBSET Submissions : left # {} =>
       \E q \in left :
         Before(q) \cap left = {} /\ \A e \in Entries(Waits[q]) : Producers(e) \ left # {}

\* No silent hang: when everyone who is left waits for a semaphore nobody will
\* signal, some queue call has returned an error to its caller.  A failed host
\* call returns OK, so it is its failed semaphores that must surface it.
NoSilentHang ==
  Quiescent /\ ~Finished => \E q \in Submissions : returned[q] \notin {"none", OK}

AbsWait ==
  [t \in Threads |->
     IF phase[t] = "idle" THEN [mode |-> "none", list |-> <<>>, patient |-> FALSE]
     ELSE [mode |-> "ALL", list |-> Waits[Job(t)], patient |-> TRUE]]

AbsOutcome ==
  [t \in Threads |->
     CASE phase[t] \in {"idle", "wait"} -> "pending"
       [] phase[t] = "abort" -> "ABORTED"
       [] OTHER -> OK]

Abs == INSTANCE Timeline WITH
  Codes <- {"INTERNAL", "CANCELLED"}, WaitLists <- {Waits[q] : q \in Submissions},
  wait <- AbsWait, outcome <- AbsOutcome

\* The queue drives its semaphores within their contract: payloads only grow,
\* failures are final and no wait of a submission concludes before its
\* payloads are reached or one of its semaphores failed.
UsesTimeline == Abs!Spec

\* If no queue call returns an error and no semaphore fails, every submission
\* of a program whose producers come first on their thread returns.
EveryoneReturns ==
  [](/\ \A q \in Submissions : returned[q] \in {"none", OK}
     /\ \A s \in Semaphores : ~Failed(s)) => <>Finished

\* A host call that fails does not strand its consumers: a submission waiting
\* for nothing but signals of the failed call returns.
FailureReachesConsumers ==
  \A p, q \in Submissions :
    (/\ Kind[p] = "host_call" /\ Entries(Waits[q]) \subseteq Entries(Signals[p])
     /\ \E t \in Threads : phase[t] = "fail" /\ Job(t) = p
     /\ \E t \in Threads : phase[t] = "wait" /\ Job(t) = q)
      ~> (returned[q] # "none")
=============================================================================
