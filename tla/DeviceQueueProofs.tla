------------------------- MODULE DeviceQueueProofs -------------------------
(***************************************************************************)
(* The ordering that the submission queue gives its callers, for every     *)
(* program: any number of threads, submissions and semaphores, any waits   *)
(* and signals, and any failures.                                          *)
(***************************************************************************)
EXTENDS DeviceQueue, TLAPS

Phases == {"idle", "wait", "abort", "presignal", "work", "signal", "fail"}

TypeOK ==
  /\ value \in [Semaphores -> 0 .. FailureValue]
  /\ failure \in [Semaphores -> {OK, "INTERNAL", "CANCELLED"}]
  /\ next \in [Threads -> Nat \ {0}]
  /\ phase \in [Threads -> Phases]
  /\ k \in [Threads -> Nat \ {0}]
  /\ worked \subseteq Submissions
  /\ deferred \subseteq Submissions
  /\ \A t \in Threads : phase[t] # "idle" => next[t] <= Len(Program[t])

Reached(e) == value[e[1]] >= e[2]

\* A producer of payload e has finished its work, or is a non-blocking call
\* whose own waits are done.
Backed(e) ==
  \E p \in Producers(e) :
    \/ p \in worked
    \/ Kind[p] = "nonblocking_call" /\ \A x \in Entries(Waits[p]) : Reached(x)

\* A payload that a semaphore shows and has not failed with is backed.
ValueInv ==
  \A s \in Semaphores : ~Failed(s) /\ value[s] > 0 => Backed(<<s, value[s]>>)

\* Everyone whose wait has returned OK waited for backed payloads.
DoneInv == \A q \in worked \cup deferred : \A e \in Entries(Waits[q]) : Backed(e)

\* Who signals has worked, or is a non-blocking call with its waits done.
ThreadInv(t) ==
  /\ phase[t] \in {"presignal", "work", "signal"} =>
       \A e \in Entries(Waits[Job(t)]) : Backed(e)
  /\ phase[t] = "signal" => Job(t) \in worked
  /\ phase[t] = "presignal" =>
       /\ Kind[Job(t)] = "nonblocking_call"
       /\ \A x \in Entries(Waits[Job(t)]) : Reached(x)

QInv == TypeOK /\ ValueInv /\ DoneInv /\ \A t \in Threads : ThreadInv(t)

-----------------------------------------------------------------------------
(***************************************************************************)
(* Types.                                                                  *)
(***************************************************************************)
\* An entry of a list of payloads.
LEMMA EntryOf ==
  ASSUME NEW l \in Seq(Payloads), NEW e \in Entries(l)
  PROVE  e \in Payloads /\ e[1] \in Semaphores /\ e[2] \in 1 .. MaxValue /\ e[2] \in Nat
<1>1. e \in Payloads
  BY DEF Entries
<1> QED BY <1>1, QueueBoundAssumption DEF Payloads

\* A thread inside a queue call has a submission.
LEMMA JobOf ==
  ASSUME TypeOK, NEW t \in Threads, phase[t] # "idle"
  PROVE  /\ next[t] \in 1 .. Len(Program[t])
         /\ Job(t) \in Submissions
         /\ Waits[Job(t)] \in Seq(Payloads) /\ Signals[Job(t)] \in Seq(Payloads)
<1>1. Program[t] \in Seq(Submissions) /\ next[t] \in Nat \ {0}
      /\ next[t] <= Len(Program[t])
  BY ProgramAssumption DEF TypeOK
<1>2. Len(Program[t]) \in Nat
  BY <1>1
<1>3. next[t] \in 1 .. Len(Program[t])
  BY <1>1, <1>2
<1>4. Job(t) \in Submissions
  BY <1>1, <1>3 DEF Job
<1> QED BY <1>3, <1>4, ProgramAssumption

\* The signal entry that a thread handles.
LEMMA SignalOf ==
  ASSUME TypeOK, NEW t \in Threads, phase[t] # "idle", k[t] <= Len(Signals[Job(t)])
  PROVE  LET e == Signals[Job(t)][k[t]]
         IN  /\ e \in Entries(Signals[Job(t)])
             /\ e[1] \in Semaphores /\ e[2] \in 1 .. MaxValue
<1>1. Signals[Job(t)] \in Seq(Payloads) /\ k[t] \in Nat \ {0}
  BY JobOf DEF TypeOK
<1>2. k[t] \in 1 .. Len(Signals[Job(t)])
  BY <1>1
<1>3. Signals[Job(t)][k[t]] \in Entries(Signals[Job(t)])
  BY <1>2 DEF Entries
<1> QED BY <1>1, <1>3, EntryOf

\* Only the thread that steps moves.
LEMMA Elsewhere ==
  ASSUME TypeOK, NEW t \in Threads, NEW u \in Threads, u # t, Step(t)
  PROVE  phase'[u] = phase[u] /\ next'[u] = next[u] /\ k'[u] = k[u] /\ Job(u)' = Job(u)
<1>1. phase'[u] = phase[u] /\ next'[u] = next[u] /\ k'[u] = k[u]
  BY DEF TypeOK, Step, Submit, WaitOk, WaitAborted, Aborted, Work, WorkNonBlocking,
         WorkFailed, CallFailed, CallDeferred, Signal, SignalRefused, Signaled,
         FailEntry, FailedAll, Goto, Return
<1> QED BY <1>1 DEF Job

\* The steps of a thread, by what they change.
LEMMA StepShape ==
  ASSUME TypeOK, NEW t \in Threads, Step(t)
  PROVE  \/ /\ phase[t] = "idle" /\ phase' = [phase EXCEPT ![t] = "wait"]
            /\ next[t] <= Len(Program[t])
            /\ UNCHANGED <<value, failure, next, k, worked, deferred, returned>>
         \/ /\ phase[t] # "idle" /\ UNCHANGED next
            /\ k'[t] \in {k[t], k[t] + 1} /\ k' = [k EXCEPT ![t] = k'[t]]
            /\ phase'[t] \in Phases \ {"idle"} /\ phase' = [phase EXCEPT ![t] = phase'[t]]
            /\ deferred' = deferred /\ worked' \in {worked, worked \cup {Job(t)}}
         \/ /\ phase[t] # "idle" /\ next' = [next EXCEPT ![t] = @ + 1]
            /\ k' = [k EXCEPT ![t] = 1] /\ phase' = [phase EXCEPT ![t] = "idle"]
            /\ UNCHANGED <<value, failure>>
            /\ deferred' \in {deferred, deferred \cup {Job(t)}}
            /\ worked' \in {worked, worked \cup {Job(t)}}
<1> USE DEF TypeOK, Goto, Return, Phases
<1>1. CASE Submit(t)
  BY <1>1 DEF Submit
<1>2. CASE WaitOk(t)
  BY <1>2 DEF WaitOk
<1>3. CASE WaitAborted(t)
  BY <1>3 DEF WaitAborted
<1>4. CASE Aborted(t)
  BY <1>4 DEF Aborted
<1>5. CASE Work(t)
  BY <1>5 DEF Work, Complete
<1>6. CASE WorkNonBlocking(t)
  BY <1>6 DEF WorkNonBlocking, Complete
<1>7. CASE WorkFailed(t)
  BY <1>7 DEF WorkFailed
<1>8. CASE CallFailed(t)
  BY <1>8 DEF CallFailed
<1>9. CASE CallDeferred(t)
  BY <1>9 DEF CallDeferred
<1>10. CASE Signal(t)
  BY <1>10 DEF Signal
<1>11. CASE SignalRefused(t)
  BY <1>11 DEF SignalRefused
<1>12. CASE Signaled(t)
  BY <1>12 DEF Signaled
<1>13. CASE FailEntry(t)
  BY <1>13 DEF FailEntry
<1>14. CASE FailedAll(t)
  BY <1>14 DEF FailedAll
<1> QED BY <1>1, <1>2, <1>3, <1>4, <1>5, <1>6, <1>7, <1>8, <1>9, <1>10, <1>11,
          <1>12, <1>13, <1>14 DEF Step

\* What the steps do to semaphores: nothing, an advance or a failure.
Advances(s, v) ==
  /\ value[s] < v /\ value' = [value EXCEPT ![s] = v] /\ failure' = failure

Fails(s, c) ==
  /\ failure[s] = OK
  /\ failure' = [failure EXCEPT ![s] = c] /\ value' = [value EXCEPT ![s] = FailureValue]

LEMMA SemaphoreStep ==
  ASSUME TypeOK, NEW t \in Threads, Step(t)
  PROVE  \/ UNCHANGED <<value, failure>>
         \/ /\ phase[t] \in {"presignal", "signal"} /\ UNCHANGED <<phase, worked, next>>
            /\ \E e \in Entries(Signals[Job(t)]) :
                 e[1] \in Semaphores /\ e[2] \in 1 .. MaxValue /\ Advances(e[1], e[2])
         \/ /\ UNCHANGED worked /\ phase[t] = "fail"
            /\ \E s \in Semaphores : Fails(s, "INTERNAL")
<1>1. CASE Signal(t)
  BY <1>1, SignalOf DEF Signal, Advances
<1>2. CASE FailEntry(t)
  BY <1>2, SignalOf DEF FailEntry, Fails, Failed
<1>3. CASE ~Signal(t) /\ ~FailEntry(t)
  BY <1>3 DEF Step, Submit, WaitOk, WaitAborted, Aborted, Work, WorkNonBlocking,
         WorkFailed, CallFailed, CallDeferred, SignalRefused, Signaled, FailedAll
<1> QED BY <1>1, <1>2, <1>3

LEMMA SemaphoreTypes ==
  ASSUME TypeOK,
         \/ UNCHANGED <<value, failure>>
         \/ \E s \in Semaphores, v \in 1 .. MaxValue : Advances(s, v)
         \/ \E s \in Semaphores, c \in {"INTERNAL", "CANCELLED"} : Fails(s, c)
  PROVE  /\ value' \in [Semaphores -> 0 .. FailureValue]
         /\ failure' \in [Semaphores -> {OK, "INTERNAL", "CANCELLED"}]
         /\ \A s \in Semaphores : value'[s] >= value[s]
<1>1. \A s \in Semaphores : value[s] \in 0 .. FailureValue /\ FailureValue \in Nat
  BY QueueBoundAssumption DEF TypeOK, FailureValue
<1>2. CASE UNCHANGED <<value, failure>>
  BY <1>1, <1>2 DEF TypeOK
<1>3. ASSUME NEW s \in Semaphores, NEW v \in 1 .. MaxValue, Advances(s, v)
      PROVE  /\ value' \in [Semaphores -> 0 .. FailureValue]
             /\ failure' = failure
             /\ \A x \in Semaphores : value'[x] >= value[x]
  <2>1. v \in 0 .. FailureValue
    BY QueueBoundAssumption DEF FailureValue
  <2> QED BY <1>1, <1>3, <2>1 DEF TypeOK, Advances
<1>4. ASSUME NEW s \in Semaphores, NEW c \in {"INTERNAL", "CANCELLED"}, Fails(s, c)
      PROVE  /\ value' \in [Semaphores -> 0 .. FailureValue]
             /\ failure' \in [Semaphores -> {OK, "INTERNAL", "CANCELLED"}]
             /\ \A x \in Semaphores : value'[x] >= value[x]
  <2>1. FailureValue \in 0 .. FailureValue
    BY <1>1, <1>4
  <2> QED BY <1>1, <1>4, <2>1 DEF TypeOK, Fails
<1> QED BY <1>2, <1>3, <1>4 DEF TypeOK

LEMMA StepTypeOK == ASSUME TypeOK, [Next]_vars PROVE TypeOK'
<1>1. CASE UNCHANGED vars
  BY <1>1 DEF vars, TypeOK
<1>2. ASSUME NEW t \in Threads, Step(t) PROVE TypeOK'
  <2>1. /\ value' \in [Semaphores -> 0 .. FailureValue]
        /\ failure' \in [Semaphores -> {OK, "INTERNAL", "CANCELLED"}]
    BY <1>2, SemaphoreStep, SemaphoreTypes
  <2>2. /\ phase[t] # "idle" => Job(t) \in Submissions
        /\ k[t] \in Nat \ {0} /\ next[t] \in Nat \ {0}
        /\ k[t] + 1 \in Nat \ {0} /\ next[t] + 1 \in Nat \ {0}
    BY JobOf DEF TypeOK
  <2>3. /\ next' \in [Threads -> Nat \ {0}] /\ phase' \in [Threads -> Phases]
        /\ k' \in [Threads -> Nat \ {0}]
        /\ worked' \subseteq Submissions /\ deferred' \subseteq Submissions
        /\ phase'[t] # "idle" => next'[t] <= Len(Program[t])
    <3>1. CASE /\ phase[t] = "idle" /\ phase' = [phase EXCEPT ![t] = "wait"]
               /\ next[t] <= Len(Program[t])
               /\ UNCHANGED <<value, failure, next, k, worked, deferred, returned>>
      BY <3>1 DEF TypeOK, Phases
    <3>2. CASE /\ phase[t] # "idle" /\ UNCHANGED next
               /\ k'[t] \in {k[t], k[t] + 1} /\ k' = [k EXCEPT ![t] = k'[t]]
               /\ phase'[t] \in Phases \ {"idle"}
               /\ phase' = [phase EXCEPT ![t] = phase'[t]]
               /\ deferred' = deferred /\ worked' \in {worked, worked \cup {Job(t)}}
      <4>1. k' \in [Threads -> Nat \ {0}]
        <5>1. k'[t] \in Nat \ {0}
          BY <2>2, <3>2
        <5> QED BY <3>2, <5>1 DEF TypeOK
      <4>2. phase' \in [Threads -> Phases]
        BY <3>2 DEF TypeOK
      <4>3. worked' \subseteq Submissions /\ deferred' \subseteq Submissions
        BY <2>2, <3>2 DEF TypeOK
      <4> QED BY <3>2, <4>1, <4>2, <4>3 DEF TypeOK
    <3>3. CASE /\ phase[t] # "idle" /\ next' = [next EXCEPT ![t] = @ + 1]
               /\ k' = [k EXCEPT ![t] = 1] /\ phase' = [phase EXCEPT ![t] = "idle"]
               /\ UNCHANGED <<value, failure>>
               /\ deferred' \in {deferred, deferred \cup {Job(t)}}
               /\ worked' \in {worked, worked \cup {Job(t)}}
      BY <2>2, <3>3 DEF TypeOK, Phases
    <3> QED BY <1>2, <3>1, <3>2, <3>3, StepShape
  <2>4. \A u \in Threads : phase'[u] # "idle" => next'[u] <= Len(Program[u])
    BY <1>2, <2>3, Elsewhere DEF TypeOK
  <2> QED BY <2>1, <2>3, <2>4 DEF TypeOK
<1>3. ASSUME NEW q \in Submissions, DeferredSignal(q) PROVE TypeOK'
  <2>1. \E s \in Semaphores, v \in 1 .. MaxValue : Advances(s, v)
    BY <1>3, EntryOf, ProgramAssumption DEF DeferredSignal, Advances
  <2>2. /\ value' \in [Semaphores -> 0 .. FailureValue]
        /\ failure' \in [Semaphores -> {OK, "INTERNAL", "CANCELLED"}]
    BY <2>1, SemaphoreTypes
  <2>3. UNCHANGED <<next, phase, k>> /\ worked' \subseteq Submissions
        /\ deferred' \subseteq Submissions
    BY <1>3 DEF DeferredSignal, TypeOK
  <2> QED BY <2>2, <2>3 DEF TypeOK
<1>4. ASSUME NEW s \in Fallible, AppFail(s) PROVE TypeOK'
  <2>1. s \in Semaphores /\ Fails(s, "CANCELLED")
    BY <1>4, ProgramAssumption DEF AppFail, Fails, Failed
  <2>2. /\ value' \in [Semaphores -> 0 .. FailureValue]
        /\ failure' \in [Semaphores -> {OK, "INTERNAL", "CANCELLED"}]
    BY <2>1, SemaphoreTypes
  <2> QED BY <1>4, <2>2 DEF AppFail, TypeOK
<1> QED BY <1>1, <1>2, <1>3, <1>4 DEF Next

-----------------------------------------------------------------------------
(***************************************************************************)
(* Order.                                                                  *)
(***************************************************************************)
\* What is backed stays so, while payloads and finished work only grow.
LEMMA BackedStays ==
  ASSUME TypeOK, TypeOK', worked \subseteq worked',
         \A s \in Semaphores : value'[s] >= value[s],
         NEW e, Backed(e)
  PROVE  Backed(e)'
<1>1. PICK p \in Producers(e) :
        \/ p \in worked
        \/ Kind[p] = "nonblocking_call" /\ \A x \in Entries(Waits[p]) : Reached(x)
  BY DEF Backed
<1>2. p \in Submissions
  BY DEF Producers
<1>3. ASSUME NEW x \in Entries(Waits[p]), Reached(x) PROVE Reached(x)'
  <2>1. x[1] \in Semaphores /\ x[2] \in Nat
    BY <1>2, EntryOf, ProgramAssumption
  <2>2. value[x[1]] \in Nat /\ value'[x[1]] \in Nat
    BY <2>1, QueueBoundAssumption DEF TypeOK, FailureValue
  <2> QED BY <1>3, <2>1, <2>2 DEF Reached
<1> QED BY <1>1, <1>3 DEF Backed, Producers

\* A payload below a backed one of its semaphore is backed.
LEMMA BackedBelow ==
  ASSUME NEW s \in Semaphores, NEW v \in Nat, NEW w \in Nat, w <= v, Backed(<<s, v>>)
  PROVE  Backed(<<s, w>>)
<1>1. Producers(<<s, v>>) \subseteq Producers(<<s, w>>)
  <2> SUFFICES ASSUME NEW q \in Submissions, NEW x \in Entries(Signals[q]),
                      x[1] = s, x[2] >= v
               PROVE  x[2] >= w
    BY DEF Producers
  <2>1. x[2] \in Nat
    BY EntryOf, ProgramAssumption
  <2> QED BY <2>1
<1> QED BY <1>1 DEF Backed

\* What a wait that returns OK has seen is backed.
LEMMA WaitedBacked ==
  ASSUME QInv, NEW q \in Submissions, NEW e \in Entries(Waits[q]),
         Reached(e), ~Failed(e[1])
  PROVE  Backed(e)
<1>1. e \in Payloads /\ e[1] \in Semaphores /\ e[2] \in 1 .. MaxValue /\ e[2] \in Nat
  BY EntryOf, ProgramAssumption
<1>2. value[e[1]] \in Nat
  BY <1>1, QueueBoundAssumption DEF QInv, TypeOK, FailureValue
<1>3. Backed(<<e[1], value[e[1]]>>)
  BY <1>1, <1>2 DEF QInv, ValueInv, Reached
<1>4. Backed(<<e[1], e[2]>>)
  BY <1>1, <1>2, <1>3, BackedBelow DEF Reached
<1>5. e = <<e[1], e[2]>>
  BY <1>1 DEF Payloads
<1> QED BY <1>4, <1>5

\* A payload that is signaled by a submission that has worked, or by a
\* non-blocking call whose waits are done, is backed.
LEMMA SignaledBacked ==
  ASSUME NEW q \in Submissions, NEW e \in Entries(Signals[q]),
         \/ q \in worked
         \/ Kind[q] = "nonblocking_call" /\ \A x \in Entries(Waits[q]) : Reached(x)
  PROVE  Backed(<<e[1], e[2]>>)
<1>1. e[2] \in Nat
  BY EntryOf, ProgramAssumption
<1>2. q \in Producers(<<e[1], e[2]>>)
  BY <1>1 DEF Producers
<1> QED BY <1>2 DEF Backed

\* The semaphores that a step leaves alone stay backed.
LEMMA ValuesKept ==
  ASSUME QInv, TypeOK', worked \subseteq worked',
         \A s \in Semaphores : value'[s] >= value[s],
         \A s \in Semaphores, v \in Nat : failure'[s] = OK /\ value'[s] = v /\ v > 0 =>
            \/ failure[s] = OK /\ value[s] = v
            \/ Backed(<<s, v>>)'
  PROVE  ValueInv'
<1>1. ASSUME NEW s \in Semaphores, NEW v \in Nat,
             failure'[s] = OK, value'[s] = v, v > 0
      PROVE  Backed(<<s, v>>)'
  <2>1. CASE failure[s] = OK /\ value[s] = v
    <3>1. Backed(<<s, v>>)
      BY <1>1, <2>1 DEF QInv, ValueInv, Failed
    <3> QED BY <3>1, BackedStays DEF QInv
  <2> QED BY <1>1, <2>1
<1>2. \A s \in Semaphores : value'[s] \in Nat
  BY QueueBoundAssumption DEF TypeOK, FailureValue
<1>3. ASSUME NEW s \in Semaphores, (~Failed(s))', value'[s] > 0
      PROVE  Backed(<<s, value[s]>>)'
  <2>1. PICK v \in Nat : v = value'[s]
    BY <1>2
  <2>2. Backed(<<s, v>>)'
    BY <1>1, <1>3, <2>1 DEF Failed
  <2> QED BY <2>1, <2>2 DEF Backed, Producers, Reached
<1> QED BY <1>3 DEF ValueInv

\* A thread that a step leaves alone, and submissions that it adds.
LEMMA ThreadKept ==
  ASSUME QInv, TypeOK', worked \subseteq worked',
         \A s \in Semaphores : value'[s] >= value[s],
         NEW u \in Threads, phase'[u] = phase[u], next'[u] = next[u]
  PROVE  ThreadInv(u)'
<1>1. Job(u)' = Job(u)
  BY DEF Job
<1>2. ASSUME phase[u] \in {"presignal", "work", "signal"}, NEW e \in Entries(Waits[Job(u)])
      PROVE  Backed(e)'
  BY <1>2, BackedStays DEF QInv, ThreadInv
<1>3. ASSUME phase[u] = "presignal", NEW x \in Entries(Waits[Job(u)])
      PROVE  Reached(x)'
  <2>1. Waits[Job(u)] \in Seq(Payloads)
    BY <1>3, JobOf DEF QInv
  <2>2. x[1] \in Semaphores /\ x[2] \in Nat
    BY <2>1, EntryOf
  <2>3. value[x[1]] \in Nat /\ value'[x[1]] \in Nat
    BY <2>2, QueueBoundAssumption DEF QInv, TypeOK, FailureValue
  <2> QED BY <1>3, <2>2, <2>3 DEF QInv, ThreadInv, Reached
<1> QED BY <1>1, <1>2, <1>3 DEF QInv, ThreadInv

LEMMA DoneKept ==
  ASSUME QInv, TypeOK', worked \subseteq worked',
         \A s \in Semaphores : value'[s] >= value[s],
         \A q \in worked' \cup deferred' :
            q \in worked \cup deferred \/ \A e \in Entries(Waits[q]) : Backed(e)
  PROVE  DoneInv'
<1>1. ASSUME NEW q \in worked' \cup deferred', NEW e \in Entries(Waits[q])
      PROVE  Backed(e)'
  <2>1. Backed(e)
    BY DEF QInv, DoneInv
  <2> QED BY <2>1, BackedStays DEF QInv
<1> QED BY <1>1 DEF DoneInv

\* Where a thread comes to signal or to work.
LEMMA Arrives ==
  ASSUME QInv, NEW t \in Threads, Step(t), TypeOK', worked \subseteq worked',
         \A s \in Semaphores : value'[s] >= value[s]
  PROVE  ThreadInv(t)'
<1>0. TypeOK
  BY DEF QInv
<1>1. CASE WaitOk(t)
  <2>1. /\ phase[t] = "wait" /\ WaitDone(t) /\ ~WaitBroken(t)
        /\ UNCHANGED <<value, next>>
        /\ phase' = [phase EXCEPT ![t] =
                       IF Kind[Job(t)] = "nonblocking_call" THEN "presignal" ELSE "work"]
    BY <1>1 DEF WaitOk, Goto
  <2>2. Job(t)' = Job(t) /\ Job(t) \in Submissions
    BY <1>0, <2>1, JobOf DEF Job
  <2>3. ASSUME NEW e \in Entries(Waits[Job(t)]) PROVE Backed(e)' /\ Reached(e)'
    <3>1. Reached(e) /\ ~Failed(e[1])
      BY <2>1 DEF WaitDone, WaitBroken, Reached
    <3>2. Backed(e)
      BY <2>2, <3>1, WaitedBacked
    <3> QED BY <1>0, <2>1, <3>1, <3>2, BackedStays DEF Reached
  <2>4. /\ phase'[t] \in {"presignal", "work"}
        /\ phase'[t] = "presignal" => Kind[Job(t)] = "nonblocking_call"
    BY <1>0, <2>1 DEF TypeOK
  <2> QED BY <2>2, <2>3, <2>4 DEF ThreadInv
<1>2. CASE Work(t)
  <2>1. /\ phase[t] = "work" /\ phase'[t] = "signal" /\ UNCHANGED next
        /\ worked' = worked \cup {Job(t)}
    BY <1>0, <1>2 DEF Work, Complete, Goto, TypeOK
  <2>2. Job(t)' = Job(t)
    BY <2>1 DEF Job
  <2>3. ASSUME NEW e \in Entries(Waits[Job(t)]) PROVE Backed(e)'
    BY <1>0, <2>1, BackedStays DEF QInv, ThreadInv
  <2> QED BY <2>1, <2>2, <2>3 DEF ThreadInv
<1>3. CASE Signal(t)
  BY <1>3, ThreadKept DEF Signal
<1>4. CASE Signaled(t) /\ phase[t] = "presignal"
  <2>1. phase'[t] = "work" /\ UNCHANGED next
    BY <1>0, <1>4 DEF Signaled, Goto, TypeOK
  <2>2. Job(t)' = Job(t)
    BY <2>1 DEF Job
  <2>3. ASSUME NEW e \in Entries(Waits[Job(t)]) PROVE Backed(e)'
    BY <1>0, <1>4, BackedStays DEF QInv, ThreadInv
  <2> QED BY <2>1, <2>2, <2>3 DEF ThreadInv
<1>5. CASE ~WaitOk(t) /\ ~Work(t) /\ ~Signal(t) /\ ~(Signaled(t) /\ phase[t] = "presignal")
  <2>1. phase'[t] \in {"idle", "wait", "abort", "fail"}
    BY <1>0, <1>5 DEF Step, Submit, WaitAborted, Aborted, WorkNonBlocking, WorkFailed,
         CallFailed, CallDeferred, SignalRefused, Signaled, FailEntry, FailedAll,
         Goto, Return, TypeOK
  <2> QED BY <2>1 DEF ThreadInv
<1> QED BY <1>1, <1>2, <1>3, <1>4, <1>5

LEMMA StepQInv == QInv /\ [Next]_vars => QInv'
<1> SUFFICES ASSUME QInv, [Next]_vars PROVE QInv'
  OBVIOUS
<1>0. TypeOK /\ TypeOK'
  BY StepTypeOK DEF QInv
<1>1. CASE UNCHANGED vars
  <2>1. \A s \in Semaphores : value'[s] >= value[s]
    BY <1>0, <1>1, QueueBoundAssumption DEF vars, TypeOK, FailureValue
  <2>2. \A u \in Threads : ThreadInv(u)'
    BY <1>0, <1>1, <2>1, ThreadKept DEF vars
  <2>3. DoneInv' /\ ValueInv'
    BY <1>0, <1>1, <2>1, DoneKept, ValuesKept DEF vars
  <2> QED BY <1>0, <2>2, <2>3 DEF QInv
<1>2. ASSUME NEW t \in Threads, Step(t) PROVE QInv'
  <2>1. /\ \A s \in Semaphores : value'[s] >= value[s]
        /\ worked \subseteq worked'
    BY <1>0, <1>2, SemaphoreStep, SemaphoreTypes, StepShape
  <2>2. ValueInv'
    <3>1. CASE UNCHANGED <<value, failure>>
      BY <1>0, <2>1, <3>1, ValuesKept
    <3>2. CASE /\ phase[t] \in {"presignal", "signal"} /\ UNCHANGED <<phase, worked, next>>
               /\ \E e \in Entries(Signals[Job(t)]) :
                    e[1] \in Semaphores /\ e[2] \in 1 .. MaxValue /\ Advances(e[1], e[2])
      <4>1. PICK e \in Entries(Signals[Job(t)]) :
              e[1] \in Semaphores /\ e[2] \in 1 .. MaxValue /\ Advances(e[1], e[2])
        BY <3>2
      <4>2. Job(t) \in Submissions
        BY <1>0, <3>2, JobOf
      <4>3. Backed(<<e[1], e[2]>>)
        BY <3>2, <4>2, SignaledBacked DEF QInv, ThreadInv
      <4>4. Backed(<<e[1], e[2]>>)'
        BY <1>0, <2>1, <4>3, BackedStays
      <4>5. ASSUME NEW s \in Semaphores, NEW v \in Nat, failure'[s] = OK, value'[s] = v
            PROVE  (failure[s] = OK /\ value[s] = v) \/ Backed(<<s, v>>)'
        <5>1. CASE s = e[1]
          <6>1. v = e[2]
            BY <1>0, <4>1, <4>5, <5>1 DEF Advances, TypeOK
          <6> QED BY <4>4, <5>1, <6>1
        <5>2. CASE s # e[1]
          BY <1>0, <4>1, <4>5, <5>2 DEF Advances, TypeOK
        <5> QED BY <5>1, <5>2
      <4> QED BY <1>0, <2>1, <4>5, ValuesKept
    <3>3. CASE \E s \in Semaphores : Fails(s, "INTERNAL")
      <4>1. ASSUME NEW s \in Semaphores, NEW v \in Nat, failure'[s] = OK, value'[s] = v
            PROVE  failure[s] = OK /\ value[s] = v
        BY <1>0, <3>3, <4>1 DEF Fails, TypeOK, OK
      <4> QED BY <1>0, <2>1, <4>1, ValuesKept
    <3> QED BY <1>0, <1>2, <3>1, <3>2, <3>3, SemaphoreStep
  <2>3. DoneInv'
    <3>1. /\ worked' \in {worked, worked \cup {Job(t)}}
          /\ deferred' \in {deferred, deferred \cup {Job(t)}}
          /\ UNCHANGED <<worked, deferred>> \/ phase[t] = "work"
      BY <1>2 DEF Step, Submit, WaitOk, WaitAborted, Aborted, Work, WorkNonBlocking,
         WorkFailed, CallFailed, CallDeferred, Signal, SignalRefused, Signaled,
         FailEntry, FailedAll, Complete
    <3>2. phase[t] = "work" => \A e \in Entries(Waits[Job(t)]) : Backed(e)
      BY DEF QInv, ThreadInv
    <3> QED BY <1>0, <2>1, <3>1, <3>2, DoneKept
  <2>4. \A u \in Threads : ThreadInv(u)'
    BY <1>0, <1>2, <2>1, Arrives, ThreadKept, Elsewhere
  <2> QED BY <1>0, <2>2, <2>3, <2>4 DEF QInv
<1>3. ASSUME NEW q \in Submissions, DeferredSignal(q) PROVE QInv'
  <2>1. PICK e \in Entries(Signals[q]) :
          e[1] \in Semaphores /\ e[2] \in 1 .. MaxValue /\ Advances(e[1], e[2])
    BY <1>3, EntryOf, ProgramAssumption DEF DeferredSignal, Advances
  <2>2. /\ q \in deferred /\ worked' = worked \cup {q} /\ deferred' \subseteq deferred
        /\ UNCHANGED <<next, phase, k>>
    BY <1>3 DEF DeferredSignal
  <2>3. \A s \in Semaphores : value'[s] >= value[s]
    BY <1>0, <2>1, SemaphoreTypes
  <2>4. Backed(<<e[1], e[2]>>)'
    <3>1. e[2] \in Nat
      BY EntryOf, ProgramAssumption
    <3>2. q \in Producers(<<e[1], e[2]>>)
      BY <3>1 DEF Producers
    <3> QED BY <2>2, <3>2 DEF Backed, Producers
  <2>5. ASSUME NEW s \in Semaphores, NEW v \in Nat, failure'[s] = OK, value'[s] = v
        PROVE  (failure[s] = OK /\ value[s] = v) \/ Backed(<<s, v>>)'
    <3>1. CASE s = e[1]
      <4>1. v = e[2]
        BY <1>0, <2>1, <2>5, <3>1 DEF Advances, TypeOK
      <4> QED BY <2>4, <3>1, <4>1
    <3>2. CASE s # e[1]
      BY <1>0, <2>1, <2>5, <3>2 DEF Advances, TypeOK
    <3> QED BY <3>1, <3>2
  <2>6. ValueInv'
    BY <1>0, <2>2, <2>3, <2>5, ValuesKept
  <2>7. DoneInv' /\ \A u \in Threads : ThreadInv(u)'
    BY <1>0, <2>2, <2>3, DoneKept, ThreadKept
  <2> QED BY <1>0, <2>6, <2>7 DEF QInv
<1>4. ASSUME NEW x \in Fallible, AppFail(x) PROVE QInv'
  <2>1. x \in Semaphores /\ Fails(x, "CANCELLED")
    BY <1>4, ProgramAssumption DEF AppFail, Fails, Failed
  <2>2. \A s \in Semaphores : value'[s] >= value[s]
    BY <1>0, <2>1, SemaphoreTypes
  <2>3. ASSUME NEW s \in Semaphores, NEW v \in Nat, failure'[s] = OK, value'[s] = v
        PROVE  failure[s] = OK /\ value[s] = v
    BY <1>0, <2>1, <2>3 DEF Fails, TypeOK, OK
  <2>4. UNCHANGED <<next, phase, k, worked, deferred>>
    BY <1>4 DEF AppFail
  <2>5. ValueInv' /\ DoneInv' /\ \A u \in Threads : ThreadInv(u)'
    BY <1>0, <2>2, <2>3, <2>4, ValuesKept, DoneKept, ThreadKept
  <2> QED BY <1>0, <2>5 DEF QInv
<1> QED BY <1>1, <1>2, <1>3, <1>4 DEF Next

LEMMA InitQInv == Init => QInv
<1> SUFFICES ASSUME Init PROVE QInv
  OBVIOUS
<1>1. TypeOK
  BY QueueBoundAssumption DEF Init, TypeOK, FailureValue, Phases
<1>2. ValueInv /\ DoneInv
  BY DEF Init, ValueInv, DoneInv
<1>3. \A t \in Threads : ThreadInv(t)
  BY DEF Init, ThreadInv
<1> QED BY <1>1, <1>2, <1>3 DEF QInv

LEMMA Inductive == Spec => []QInv
BY InitQInv, StepQInv, PTL DEF Spec

-----------------------------------------------------------------------------
\* coralnpu_device.c, "Wait for semaphores to be signaled before performing
\* any work": in every program, a submission that works has its producers'
\* work behind it, whichever threads they were submitted on, whatever failed,
\* and although a failed semaphore holds a value above every payload.
THEOREM WorkFollowsProducers == Spec => []WorkAfterProducers
<1>1. QInv => WorkAfterProducers
  <2> SUFFICES ASSUME QInv, NEW q \in worked \cup Working, NEW e \in Entries(Waits[q])
               PROVE  Backed(e)
    BY DEF WorkAfterProducers, Backed, Reached
  <2> QED BY DEF QInv, DoneInv, ThreadInv, Working
<1> QED BY <1>1, Inductive, PTL

-----------------------------------------------------------------------------
(***************************************************************************)
(* The queue implements Timeline.                                          *)
(***************************************************************************)
\* The wait and the outcome that phase p of a call for submission q stands for.
WaitOf(p, q) == IF p = "idle" THEN Abs!NoWait
                ELSE [mode |-> "ALL", list |-> Waits[q], patient |-> TRUE]

OutcomeOf(p) == CASE p \in {"idle", "wait"} -> "pending"
                  [] p = "abort" -> "ABORTED"
                  [] OTHER -> OK

LEMMA AbsShape ==
  ASSUME NEW t \in Threads
  PROVE  /\ AbsWait[t] = WaitOf(phase[t], Job(t))
         /\ AbsWait'[t] = WaitOf(phase'[t], Job(t)')
         /\ AbsOutcome[t] = OutcomeOf(phase[t])
         /\ AbsOutcome'[t] = OutcomeOf(phase'[t])
BY DEF AbsWait, AbsOutcome, WaitOf, OutcomeOf, Abs!NoWait

\* A step changes at most the abstract wait and outcome of its thread.
LEMMA AbsFrame ==
  ASSUME TypeOK, NEW t \in Threads, Step(t)
  PROVE  /\ AbsWait' = [AbsWait EXCEPT ![t] = WaitOf(phase'[t], Job(t)')]
         /\ AbsOutcome' = [AbsOutcome EXCEPT ![t] = OutcomeOf(phase'[t])]
<1>1. \A u \in Threads : u # t =>
        AbsWait'[u] = AbsWait[u] /\ AbsOutcome'[u] = AbsOutcome[u]
  BY Elsewhere, AbsShape
<1>2. /\ AbsWait' = [u \in Threads |-> AbsWait'[u]]
      /\ AbsOutcome' = [u \in Threads |-> AbsOutcome'[u]]
      /\ AbsWait = [u \in Threads |-> AbsWait[u]]
      /\ AbsOutcome = [u \in Threads |-> AbsOutcome[u]]
  BY DEF AbsWait, AbsOutcome
<1>3. AbsWait' = [AbsWait EXCEPT ![t] = WaitOf(phase'[t], Job(t)')]
  BY <1>1, <1>2, AbsShape
<1>4. AbsOutcome' = [AbsOutcome EXCEPT ![t] = OutcomeOf(phase'[t])]
  BY <1>1, <1>2, AbsShape
<1> QED BY <1>3, <1>4

\* A step within a call that does not conclude its wait is invisible.
LEMMA Invisible ==
  ASSUME TypeOK, NEW t \in Threads, Step(t), next' = next,
         phase[t] # "idle", phase'[t] # "idle",
         OutcomeOf(phase'[t]) = OutcomeOf(phase[t])
  PROVE  UNCHANGED <<AbsWait, AbsOutcome>>
<1>1. /\ AbsWait = [u \in Threads |-> AbsWait[u]]
      /\ AbsOutcome = [u \in Threads |-> AbsOutcome[u]]
  BY DEF AbsWait, AbsOutcome
<1>2. WaitOf(phase'[t], Job(t)') = WaitOf(phase[t], Job(t))
  BY DEF WaitOf, Job
<1>3. AbsWait' = [AbsWait EXCEPT ![t] = AbsWait[t]]
  BY <1>2, AbsFrame, AbsShape
<1>4. AbsOutcome' = [AbsOutcome EXCEPT ![t] = AbsOutcome[t]]
  BY AbsFrame, AbsShape
<1> QED BY <1>1, <1>3, <1>4

\* A queue call that returns, once its wait has concluded, leaves the wait.
LEMMA Leaves ==
  ASSUME TypeOK, NEW t \in Threads, Step(t), UNCHANGED <<value, failure>>,
         phase[t] \notin {"idle", "wait"}, phase'[t] = "idle"
  PROVE  Abs!Next
<1>1. AbsOutcome[t] # "pending"
  BY AbsShape DEF OutcomeOf, OK
<1>2. /\ AbsWait' = [AbsWait EXCEPT ![t] = Abs!NoWait]
      /\ AbsOutcome' = [AbsOutcome EXCEPT ![t] = "pending"]
  BY AbsFrame DEF WaitOf, OutcomeOf
<1>3. Abs!Leave(t)
  BY <1>1, <1>2 DEF Abs!Leave
<1> QED BY <1>3 DEF Abs!Next

\* A wait that concludes as it deserves is a Conclude of Timeline.
LEMMA Concludes ==
  ASSUME TypeOK, NEW t \in Threads, Step(t), UNCHANGED <<value, failure, next>>,
         phase[t] = "wait", phase'[t] # "idle",
         \/ OutcomeOf(phase'[t]) = "OK" /\ WaitDone(t)
         \/ OutcomeOf(phase'[t]) = "ABORTED" /\ WaitBroken(t)
  PROVE  Abs!Next
<1> DEFINE w == [mode |-> "ALL", list |-> Waits[Job(t)], patient |-> TRUE]
           o == OutcomeOf(phase'[t])
<1>1. AbsWait[t] = w /\ AbsOutcome[t] = "pending" /\ AbsWait' = AbsWait
  <2>1. AbsWait[t] = w /\ AbsOutcome[t] = "pending"
    BY AbsShape DEF WaitOf, OutcomeOf
  <2>2. AbsWait' = [AbsWait EXCEPT ![t] = w]
    BY AbsFrame DEF WaitOf, Job
  <2>3. AbsWait = [u \in Threads |-> AbsWait[u]]
    BY DEF AbsWait
  <2> QED BY <2>1, <2>2, <2>3
<1>2. w # Abs!NoWait
  BY DEF Abs!NoWait
<1>3. AbsOutcome' = [AbsOutcome EXCEPT ![t] = o]
  BY AbsFrame
<1>4. \/ Abs!Satisfied(w) /\ o = "OK"
      \/ Abs!Broken(w) /\ o = "ABORTED"
  <2>1. WaitDone(t) => Abs!Satisfied(w)
    BY DEF WaitDone, Entries, Abs!Satisfied
  <2>2. WaitBroken(t) => Abs!Broken(w)
    BY DEF WaitBroken, Failed, OK, Entries, Abs!Broken
  <2> QED BY <2>1, <2>2
<1> HIDE DEF w, o
<1>5. Abs!Conclude(t)
  BY <1>1, <1>2, <1>3, <1>4 DEF Abs!Conclude
<1> QED BY <1>5 DEF Abs!Next

\* Every step of a thread is a step of Timeline or invisible to it.
LEMMA StepMaps ==
  ASSUME TypeOK, NEW t \in Threads, Step(t)
  PROVE  [Abs!Next]_(Abs!vars)
<1> USE DEF Goto
<1>1. CASE Submit(t)
  <2> DEFINE w == [mode |-> "ALL", list |-> Waits[Job(t)], patient |-> TRUE]
  <2>1. /\ phase[t] = "idle" /\ phase'[t] = "wait" /\ Job(t)' = Job(t)
        /\ next[t] <= Len(Program[t]) /\ UNCHANGED <<value, failure>>
    BY <1>1 DEF Submit, TypeOK, Job
  <2>2. Job(t) \in Submissions
    <3>1. next[t] \in 1 .. Len(Program[t])
      BY <2>1, ProgramAssumption DEF TypeOK
    <3> QED BY <3>1, ProgramAssumption DEF Job
  <2>3. w \in Abs!WaitRequests
    BY <2>2 DEF Abs!WaitRequests
  <2>4. AbsWait[t] = Abs!NoWait /\ AbsWait' = [AbsWait EXCEPT ![t] = w]
    BY <2>1, AbsShape, AbsFrame DEF WaitOf
  <2>5. AbsOutcome' = AbsOutcome
    <3>1. AbsOutcome' = [AbsOutcome EXCEPT ![t] = AbsOutcome[t]]
      BY <2>1, AbsShape, AbsFrame DEF OutcomeOf
    <3>2. AbsOutcome = [u \in Threads |-> AbsOutcome[u]]
      BY DEF AbsOutcome
    <3> QED BY <3>1, <3>2
  <2>6. Abs!Begin(t)
    BY <2>1, <2>3, <2>4, <2>5 DEF Abs!Begin
  <2> QED BY <2>6 DEF Abs!Next
<1>2. CASE WaitOk(t)
  <2>1. /\ phase[t] = "wait" /\ phase'[t] \in {"presignal", "work"} /\ WaitDone(t)
        /\ UNCHANGED <<value, failure, next>>
    BY <1>2 DEF WaitOk, TypeOK
  <2>2. OutcomeOf(phase'[t]) = "OK"
    BY <2>1 DEF OutcomeOf, OK
  <2> QED BY <2>1, <2>2, Concludes
<1>3. CASE WaitAborted(t)
  <2>1. /\ phase[t] = "wait" /\ phase'[t] = "abort" /\ WaitBroken(t)
        /\ UNCHANGED <<value, failure, next>>
    BY <1>3 DEF WaitAborted, TypeOK
  <2>2. OutcomeOf(phase'[t]) = "ABORTED"
    BY <2>1 DEF OutcomeOf
  <2> QED BY <2>1, <2>2, Concludes
<1>4. CASE \/ Aborted(t) \/ WorkNonBlocking(t) \/ WorkFailed(t) \/ CallDeferred(t)
           \/ SignalRefused(t) \/ FailedAll(t) \/ (Signaled(t) /\ phase[t] = "signal")
  <2>1. /\ phase[t] \notin {"idle", "wait"} /\ phase'[t] = "idle"
        /\ UNCHANGED <<value, failure>>
    BY <1>4 DEF Aborted, WorkNonBlocking, WorkFailed, CallDeferred, SignalRefused,
                FailedAll, Signaled, Return, TypeOK
  <2> QED BY <2>1, Leaves
<1>5. CASE Work(t) \/ CallFailed(t) \/ (Signaled(t) /\ phase[t] = "presignal")
  <2>1. /\ phase[t] \in {"work", "presignal"} /\ phase'[t] \in {"signal", "fail", "work"}
        /\ UNCHANGED <<value, failure, next>>
    BY <1>5 DEF Work, CallFailed, Signaled, TypeOK
  <2>2. OutcomeOf(phase'[t]) = OutcomeOf(phase[t])
    BY <2>1 DEF OutcomeOf
  <2> QED BY <2>1, <2>2, Invisible DEF Abs!vars
<1>6. CASE Signal(t)
  <2>1. /\ phase[t] \in {"presignal", "signal"} /\ UNCHANGED <<phase, next>>
        /\ k[t] <= Len(Signals[Job(t)])
    BY <1>6 DEF Signal
  <2>2. UNCHANGED <<AbsWait, AbsOutcome>>
    BY <2>1, Invisible
  <2>3. PICK e \in Payloads :
          /\ e[1] \in Semaphores /\ e[2] \in 1 .. MaxValue /\ value[e[1]] < e[2]
          /\ value' = [value EXCEPT ![e[1]] = e[2]] /\ failure' = failure
    BY <1>6, <2>1, SignalOf, JobOf, EntryOf DEF Signal
  <2>4. Abs!Advance(e[1])
    <3>1. e[2] \in 0 .. MaxValue /\ e[2] > value[e[1]]
      BY <2>3, QueueBoundAssumption DEF TypeOK, FailureValue
    <3> QED BY <2>2, <2>3, <3>1 DEF Abs!Advance
  <2> QED BY <2>3, <2>4 DEF Abs!Next
<1>7. CASE FailEntry(t)
  <2>1. /\ phase[t] = "fail" /\ UNCHANGED <<phase, next>> /\ k[t] <= Len(Signals[Job(t)])
    BY <1>7 DEF FailEntry
  <2>2. UNCHANGED <<AbsWait, AbsOutcome>>
    BY <2>1, Invisible
  <2>3. \/ UNCHANGED <<value, failure>>
        \/ \E s \in Semaphores : Fails(s, "INTERNAL")
    BY <1>7, <2>1, SignalOf DEF FailEntry, Fails, Failed
  <2>4. ASSUME NEW s \in Semaphores, Fails(s, "INTERNAL") PROVE Abs!Fail(s)
    BY <2>2, <2>4 DEF Fails, Abs!Fail, OK, FailureValue, Abs!FailureValue
  <2> QED BY <2>2, <2>3, <2>4 DEF Abs!Next, Abs!vars
<1>8. Signaled(t) => phase[t] = "signal" \/ phase[t] = "presignal"
  BY DEF Signaled
<1> QED BY <1>1, <1>2, <1>3, <1>4, <1>5, <1>6, <1>7, <1>8 DEF Step

\* coralnpu_device.c drives its semaphores within the contract of the HAL:
\* payloads only grow, a failure is final, and no queue call goes on to work
\* before its payloads are reached, or gives up before a semaphore failed.
THEOREM QueueUsesTimeline == Spec => UsesTimeline
<1>1. Init => Abs!Init
  <2> SUFFICES ASSUME Init PROVE Abs!Init
    OBVIOUS
  <2>1. AbsWait = [t \in Threads |-> Abs!NoWait] /\ AbsOutcome = [t \in Threads |-> "pending"]
    BY DEF Init, AbsWait, AbsOutcome, Abs!NoWait
  <2>2. value \in [Semaphores -> 0 .. MaxValue]
    BY QueueBoundAssumption DEF Init
  <2> QED BY <2>1, <2>2 DEF Init, Abs!Init, OK
<1>2. TypeOK /\ [Next]_vars => [Abs!Next]_(Abs!vars)
  <2> SUFFICES ASSUME TypeOK, [Next]_vars PROVE [Abs!Next]_(Abs!vars)
    OBVIOUS
  <2>1. CASE UNCHANGED vars
    BY <2>1 DEF vars, Abs!vars, AbsWait, AbsOutcome, Job
  <2>2. ASSUME NEW q \in Submissions, DeferredSignal(q) PROVE Abs!Next
    <3>1. PICK e \in Entries(Signals[q]) :
            e[1] \in Semaphores /\ e[2] \in 1 .. MaxValue /\ Advances(e[1], e[2])
      BY <2>2, EntryOf, ProgramAssumption DEF DeferredSignal, Advances
    <3>2. UNCHANGED <<AbsWait, AbsOutcome>>
      BY <2>2 DEF DeferredSignal, AbsWait, AbsOutcome, Job
    <3>3. e[2] \in 0 .. MaxValue /\ e[2] > value[e[1]]
      BY <3>1, QueueBoundAssumption DEF TypeOK, FailureValue, Advances
    <3>4. Abs!Advance(e[1])
      BY <3>1, <3>2, <3>3 DEF Abs!Advance, Advances
    <3> QED BY <3>1, <3>4 DEF Abs!Next
  <2>3. ASSUME NEW s \in Fallible, AppFail(s) PROVE Abs!Next
    <3>1. UNCHANGED <<AbsWait, AbsOutcome>>
      BY <2>3 DEF AppFail, AbsWait, AbsOutcome, Job
    <3>2. s \in Semaphores /\ Abs!Fail(s)
      BY <2>3, <3>1, ProgramAssumption
         DEF AppFail, Failed, Abs!Fail, OK, FailureValue, Abs!FailureValue
    <3> QED BY <3>2 DEF Abs!Next
  <2> QED BY <2>1, <2>2, <2>3, StepMaps DEF Next
<1>3. QInv => TypeOK
  BY DEF QInv
<1> QED BY <1>1, <1>2, <1>3, Inductive, PTL DEF Spec, UsesTimeline, Abs!Spec

-----------------------------------------------------------------------------
(***************************************************************************)
(* No silent hang.                                                         *)
(***************************************************************************)
AllReached(q) == \A e \in Entries(Signals[q]) : Reached(e)
Codes == {"none", OK, "ABORTED", "INTERNAL", "OUT_OF_RANGE"}

\* A thread has returned from the submissions behind it and from no other.
ReturnsInv ==
  /\ returned \in [Submissions -> Codes]
  /\ \A t \in Threads : \A i \in 1 .. Len(Program[t]) :
       returned[Program[t][i]] = "none" <=> i >= next[t]

\* A failed semaphore shows the value above every payload.
SentinelInv == \A s \in Semaphores : Failed(s) => value[s] = FailureValue

\* The entries of a signal list before the index are reached, by a signal or by
\* a failure.
SignalInv(t) ==
  /\ phase[t] \in {"wait", "abort"} => k[t] = 1
  /\ phase[t] = "presignal" => Kind[Job(t)] = "nonblocking_call"
  /\ phase[t] = "work" => IF Kind[Job(t)] = "nonblocking_call" THEN AllReached(Job(t)) ELSE k[t] = 1
  /\ phase[t] \in {"presignal", "signal", "fail"} =>
       \A i \in 1 .. Len(Signals[Job(t)]) : i < k[t] => Reached(Signals[Job(t)][i])
  /\ phase[t] = "idle" => k[t] = 1

\* Who returned OK has its signals reached, or will signal later.
OkInv == \A q \in Submissions : returned[q] = OK => q \in deferred \/ AllReached(q)

HangInv ==
  /\ TypeOK /\ ReturnsInv /\ SentinelInv /\ OkInv
  /\ \A t \in Threads : SignalInv(t)

\* What a step does to the results: a queue call goes on, or it returns.
LEMMA ReturnShape ==
  ASSUME TypeOK, NEW t \in Threads, Step(t)
  PROVE  \/ UNCHANGED <<next, returned, deferred>>
         \/ /\ phase[t] # "idle" /\ UNCHANGED <<value, failure>>
            /\ next' = [next EXCEPT ![t] = @ + 1]
            /\ deferred' \in {deferred, deferred \cup {Job(t)}}
            /\ phase' = [phase EXCEPT ![t] = "idle"] /\ k' = [k EXCEPT ![t] = 1]
            /\ \E c \in Codes \ {"none"} :
                 /\ returned' = [returned EXCEPT ![Job(t)] = c]
                 /\ c = OK => \/ phase[t] = "work" /\ Kind[Job(t)] = "nonblocking_call"
                              \/ phase[t] \in {"signal", "fail"} /\ k[t] > Len(Signals[Job(t)])
                              \/ Job(t) \in deferred'
<1> USE DEF Goto, Return, Codes, OK
<1>1. CASE Submit(t) \/ WaitOk(t) \/ WaitAborted(t)
  BY <1>1 DEF Submit, WaitOk, WaitAborted
<1>2. CASE Work(t) \/ CallFailed(t) \/ Signal(t) \/ FailEntry(t)
  BY <1>2 DEF Work, CallFailed, Signal, FailEntry
<1>3. CASE Aborted(t)
  <2>1. "ABORTED" \in Codes \ {"none"} /\ "ABORTED" # OK
    OBVIOUS
  <2>2. /\ phase[t] # "idle" /\ UNCHANGED <<value, failure, deferred>>
        /\ returned' = [returned EXCEPT ![Job(t)] = "ABORTED"]
        /\ next' = [next EXCEPT ![t] = @ + 1]
        /\ phase' = [phase EXCEPT ![t] = "idle"] /\ k' = [k EXCEPT ![t] = 1]
    BY <1>3 DEF Aborted
  <2> QED BY <2>1, <2>2
<1>4. CASE WorkNonBlocking(t)
  BY <1>4 DEF WorkNonBlocking
<1>5. CASE WorkFailed(t)
  <2>1. "INTERNAL" \in Codes \ {"none"} /\ "INTERNAL" # OK
    OBVIOUS
  <2>2. /\ phase[t] # "idle" /\ UNCHANGED <<value, failure, deferred>>
        /\ returned' = [returned EXCEPT ![Job(t)] = "INTERNAL"]
        /\ next' = [next EXCEPT ![t] = @ + 1]
        /\ phase' = [phase EXCEPT ![t] = "idle"] /\ k' = [k EXCEPT ![t] = 1]
    BY <1>5 DEF WorkFailed
  <2> QED BY <2>1, <2>2
<1>6. CASE CallDeferred(t)
  BY <1>6 DEF CallDeferred
<1>7. CASE SignalRefused(t)
  <2>1. "OUT_OF_RANGE" \in Codes \ {"none"} /\ "OUT_OF_RANGE" # OK
    OBVIOUS
  <2>2. /\ phase[t] # "idle" /\ UNCHANGED <<value, failure, deferred>>
        /\ returned' = [returned EXCEPT ![Job(t)] = "OUT_OF_RANGE"]
        /\ next' = [next EXCEPT ![t] = @ + 1]
        /\ phase' = [phase EXCEPT ![t] = "idle"] /\ k' = [k EXCEPT ![t] = 1]
    BY <1>7 DEF SignalRefused
  <2> QED BY <2>1, <2>2
<1>8. CASE Signaled(t)
  BY <1>8 DEF Signaled
<1>9. CASE FailedAll(t)
  BY <1>9 DEF FailedAll
<1> QED BY <1>1, <1>2, <1>3, <1>4, <1>5, <1>6, <1>7, <1>8, <1>9 DEF Step

\* Payloads never go back, so what is reached stays reached.
LEMMA Grows ==
  ASSUME TypeOK, [Next]_vars
  PROVE  /\ \A s \in Semaphores : value'[s] >= value[s]
         /\ \A q \in Submissions : AllReached(q) => AllReached(q)'
         /\ \A q \in Submissions : \A i \in 1 .. Len(Signals[q]) :
              Reached(Signals[q][i]) => Reached(Signals[q][i])'
<1>1. \/ UNCHANGED <<value, failure>>
      \/ \E s \in Semaphores, v \in 1 .. MaxValue : Advances(s, v)
      \/ \E s \in Semaphores, c \in {"INTERNAL", "CANCELLED"} : Fails(s, c)
  <2>1. CASE UNCHANGED vars
    BY <2>1 DEF vars
  <2>2. ASSUME NEW t \in Threads, Step(t)
        PROVE  \/ UNCHANGED <<value, failure>>
               \/ \E s \in Semaphores, v \in 1 .. MaxValue : Advances(s, v)
               \/ \E s \in Semaphores, c \in {"INTERNAL", "CANCELLED"} : Fails(s, c)
    BY <2>2, SemaphoreStep
  <2>3. ASSUME NEW q \in Submissions, DeferredSignal(q)
        PROVE  \E s \in Semaphores, v \in 1 .. MaxValue : Advances(s, v)
    BY <2>3, EntryOf, ProgramAssumption DEF DeferredSignal, Advances
  <2>4. ASSUME NEW s \in Fallible, AppFail(s)
        PROVE  \E x \in Semaphores, c \in {"INTERNAL", "CANCELLED"} : Fails(x, c)
    BY <2>4, ProgramAssumption DEF AppFail, Fails, Failed
  <2> QED BY <2>1, <2>2, <2>3, <2>4 DEF Next
<1>2. /\ value' \in [Semaphores -> 0 .. FailureValue]
      /\ \A s \in Semaphores : value'[s] >= value[s]
  BY <1>1, SemaphoreTypes
<1>3. ASSUME NEW q \in Submissions, NEW e \in Entries(Signals[q]), Reached(e)
      PROVE  Reached(e)'
  <2>1. e[1] \in Semaphores /\ e[2] \in Nat
    BY EntryOf, ProgramAssumption
  <2>2. value[e[1]] \in Nat /\ value'[e[1]] \in Nat
    BY <1>2, <2>1, QueueBoundAssumption DEF TypeOK, FailureValue
  <2> QED BY <1>2, <1>3, <2>1, <2>2 DEF Reached
<1>4. \A q \in Submissions : \A i \in 1 .. Len(Signals[q]) : Signals[q][i] \in Entries(Signals[q])
  BY DEF Entries
<1> QED BY <1>2, <1>3, <1>4 DEF AllReached

\* An entry that is reached stays reached.
LEMMA GrowsEntry ==
  ASSUME TypeOK, [Next]_vars, NEW q \in Submissions, NEW i \in 1 .. Len(Signals[q]),
         NEW x, x = Signals[q][i], Reached(x)
  PROVE  Reached(x)'
BY Grows DEF Reached

LEMMA ReturnsStep ==
  ASSUME MadeOnce, TypeOK, ReturnsInv, [Next]_vars
  PROVE  ReturnsInv'
<1>1. CASE UNCHANGED <<next, returned>>
  BY <1>1 DEF ReturnsInv
<1>2. ASSUME NEW t \in Threads, phase[t] # "idle", next' = [next EXCEPT ![t] = @ + 1],
             NEW c \in Codes \ {"none"}, returned' = [returned EXCEPT ![Job(t)] = c]
      PROVE  ReturnsInv'
  <2>1. next[t] \in 1 .. Len(Program[t]) /\ Job(t) \in Submissions
    BY <1>2, JobOf
  <2>2. returned' \in [Submissions -> Codes]
    BY <1>2 DEF ReturnsInv
  <2>3. ASSUME NEW u \in Threads, NEW i \in 1 .. Len(Program[u])
        PROVE  returned'[Program[u][i]] = "none" <=> i >= next'[u]
    <3>1. Program[u][i] \in Submissions
      <4>1. Program[u] \in Seq(Submissions)
        BY ProgramAssumption
      <4> QED BY <4>1
    <3>2. next[u] \in Nat /\ next'[u] = IF u = t THEN next[u] + 1 ELSE next[u]
      BY <1>2 DEF TypeOK
    <3>3. CASE u = t /\ i = next[t]
      BY <1>2, <2>1, <3>1, <3>2, <3>3 DEF ReturnsInv, Job
    <3>4. CASE ~(u = t /\ i = next[t])
      <4>1. Program[u][i] # Job(t)
        BY <2>1, <3>4 DEF MadeOnce, Job
      <4>2. returned'[Program[u][i]] = returned[Program[u][i]]
        BY <1>2, <3>1, <4>1 DEF ReturnsInv
      <4>3. returned[Program[u][i]] = "none" <=> i >= next[u]
        BY DEF ReturnsInv
      <4> QED BY <3>2, <3>4, <4>2, <4>3
    <3> QED BY <3>3, <3>4
  <2> QED BY <2>2, <2>3 DEF ReturnsInv
<1>3. ASSUME NEW t \in Threads, Step(t) PROVE ReturnsInv'
  BY <1>1, <1>2, <1>3, ReturnShape
<1> QED BY <1>1, <1>3 DEF Next, vars, DeferredSignal, AppFail

LEMMA SentinelStep ==
  ASSUME TypeOK, SentinelInv, [Next]_vars
  PROVE  SentinelInv'
<1>1. CASE UNCHANGED <<value, failure>>
  BY <1>1 DEF SentinelInv, Failed
<1>2. ASSUME NEW s \in Semaphores, NEW v \in 1 .. MaxValue, Advances(s, v) PROVE SentinelInv'
  <2>1. ~Failed(s)
    BY <1>2, QueueBoundAssumption DEF SentinelInv, Advances, FailureValue
  <2> QED BY <1>2, <2>1 DEF SentinelInv, Advances, Failed, TypeOK
<1>3. ASSUME NEW s \in Semaphores, NEW c, Fails(s, c) PROVE SentinelInv'
  BY <1>3 DEF SentinelInv, Fails, Failed, TypeOK
<1>4. ASSUME NEW t \in Threads, Step(t) PROVE SentinelInv'
  BY <1>1, <1>2, <1>3, <1>4, SemaphoreStep
<1>5. ASSUME NEW q \in Submissions, DeferredSignal(q) PROVE SentinelInv'
  <2>1. \E s \in Semaphores, v \in 1 .. MaxValue : Advances(s, v)
    BY <1>5, EntryOf, ProgramAssumption DEF DeferredSignal, Advances
  <2> QED BY <1>2, <2>1
<1>6. ASSUME NEW s \in Fallible, AppFail(s) PROVE SentinelInv'
  <2>1. s \in Semaphores /\ Fails(s, "CANCELLED")
    BY <1>6, ProgramAssumption DEF AppFail, Fails, Failed
  <2> QED BY <1>3, <2>1
<1> QED BY <1>1, <1>4, <1>5, <1>6 DEF Next, vars

\* A list whose index is past its end is reached.
LEMMA PastEnd ==
  ASSUME TypeOK, NEW t \in Threads, phase[t] \in {"presignal", "signal", "fail"}, SignalInv(t),
         k[t] > Len(Signals[Job(t)])
  PROVE  AllReached(Job(t))
<1>1. Signals[Job(t)] \in Seq(Payloads) /\ k[t] \in Nat
  BY JobOf DEF TypeOK
<1>2. Len(Signals[Job(t)]) \in Nat
  BY <1>1
<1>3. \A i \in 1 .. Len(Signals[Job(t)]) : i < k[t]
  BY <1>1, <1>2
<1> QED BY <1>3 DEF SignalInv, AllReached, Entries

LEMMA OkStep ==
  ASSUME TypeOK, ReturnsInv, OkInv, \A t \in Threads : SignalInv(t), [Next]_vars
  PROVE  OkInv'
<1>1. \A q \in Submissions : AllReached(q) => AllReached(q)'
  BY Grows
<1>2. CASE UNCHANGED <<returned, deferred>>
  BY <1>1, <1>2 DEF OkInv
<1>3. ASSUME NEW q \in Submissions, DeferredSignal(q) PROVE OkInv'
  <2>1. returned' = returned
        /\ deferred' = IF \A e \in Entries(Signals[q]) : value'[e[1]] >= e[2]
                       THEN deferred \ {q} ELSE deferred
    BY <1>3 DEF DeferredSignal
  <2>2. q \in deferred' \/ AllReached(q)'
    BY <1>3, <2>1 DEF AllReached, Reached, DeferredSignal
  <2> QED BY <1>1, <2>1, <2>2 DEF OkInv
<1>4. ASSUME NEW t \in Threads, Step(t) PROVE OkInv'
  <2>1. CASE UNCHANGED <<next, returned, deferred>>
    BY <1>2, <2>1
  <2>2. ASSUME phase[t] # "idle", UNCHANGED <<value, failure>>,
               deferred' \in {deferred, deferred \cup {Job(t)}},
               NEW c \in Codes \ {"none"}, returned' = [returned EXCEPT ![Job(t)] = c],
               c = OK => \/ phase[t] = "work" /\ Kind[Job(t)] = "nonblocking_call"
                         \/ phase[t] \in {"signal", "fail"} /\ k[t] > Len(Signals[Job(t)])
                         \/ Job(t) \in deferred'
        PROVE  OkInv'
    <3>1. Job(t) \in Submissions
      BY <2>2, JobOf
    <3>2. c = OK => Job(t) \in deferred' \/ AllReached(Job(t))
      BY <2>2, PastEnd DEF SignalInv
    <3>3. ASSUME NEW q \in Submissions, returned'[q] = OK PROVE q \in deferred' \/ AllReached(q)
      <4>1. CASE q = Job(t)
        BY <2>2, <3>2, <3>3, <4>1 DEF ReturnsInv
      <4>2. CASE q # Job(t)
        BY <2>2, <3>3, <4>2 DEF ReturnsInv, OkInv
      <4> QED BY <4>1, <4>2
    <3> QED BY <1>1, <3>3 DEF OkInv
  <2> QED BY <1>4, <2>1, <2>2, ReturnShape
<1> QED BY <1>2, <1>3, <1>4 DEF Next, vars, AppFail

LEMMA SignalStep ==
  ASSUME TypeOK, SentinelInv, \A u \in Threads : SignalInv(u), [Next]_vars, NEW t \in Threads
  PROVE  SignalInv(t)'
<1>1. /\ \A q \in Submissions : AllReached(q) => AllReached(q)'
      /\ \A q \in Submissions : \A i \in 1 .. Len(Signals[q]) :
           Reached(Signals[q][i]) => Reached(Signals[q][i])'
  BY Grows
<1>2. /\ phase[t] # "idle" => Job(t) \in Submissions /\ Signals[Job(t)] \in Seq(Payloads)
      /\ k[t] \in Nat \ {0} /\ SignalInv(t) /\ phase[t] \in Phases
  BY JobOf DEF TypeOK
<1>3. ASSUME phase'[t] = phase[t], k'[t] = k[t], Job(t)' = Job(t) PROVE SignalInv(t)'
  <2>1. CASE phase[t] = "idle"
    BY <1>2, <1>3, <2>1 DEF SignalInv
  <2>2. CASE phase[t] # "idle"
    BY <1>1, <1>2, <1>3, <2>2 DEF SignalInv
  <2> QED BY <2>1, <2>2
<1>4. CASE UNCHANGED vars
  BY <1>3, <1>4 DEF vars, Job
<1>5. ASSUME NEW q \in Submissions, DeferredSignal(q) PROVE SignalInv(t)'
  BY <1>3, <1>5 DEF DeferredSignal, Job
<1>6. ASSUME NEW s \in Fallible, AppFail(s) PROVE SignalInv(t)'
  BY <1>3, <1>6 DEF AppFail, Job
<1>7. ASSUME NEW u \in Threads, u # t, Step(u) PROVE SignalInv(t)'
  BY <1>3, <1>7, Elsewhere
<1>8. ASSUME Step(t) PROVE SignalInv(t)'
  <2>1. ASSUME phase'[t] = "idle", k'[t] = 1 PROVE SignalInv(t)'
    BY <2>1 DEF SignalInv
  <2>3. CASE Submit(t)
    BY <1>2, <2>3 DEF Submit, Goto, SignalInv, TypeOK
  <2>4. CASE WaitOk(t)
    <3>1. phase[t] = "wait" /\ k' = k /\ k[t] = 1 /\ Job(t)' = Job(t)
      BY <1>2, <2>4 DEF WaitOk, SignalInv, Job
    <3>2. phase'[t] = IF Kind[Job(t)] = "nonblocking_call" THEN "presignal" ELSE "work"
      BY <2>4 DEF WaitOk, Goto, TypeOK
    <3>3. \A i \in 1 .. Len(Signals[Job(t)]) : ~(i < 1)
      BY <1>2, <3>1
    <3> QED BY <3>1, <3>2, <3>3 DEF SignalInv
  <2>5. CASE WaitAborted(t)
    BY <1>2, <2>5 DEF WaitAborted, Goto, SignalInv, TypeOK
  <2>6. CASE Work(t) \/ CallFailed(t)
    <3>1. phase[t] = "work" /\ Kind[Job(t)] # "nonblocking_call" /\ k' = k /\ Job(t)' = Job(t)
          /\ phase'[t] \in {"signal", "fail"}
      BY <2>6 DEF Work, CallFailed, Goto, Job, TypeOK
    <3>2. k'[t] = 1
      BY <1>2, <3>1 DEF SignalInv
    <3>3. \A i \in 1 .. Len(Signals[Job(t)]) : ~(i < 1)
      BY <1>2, <3>1
    <3> QED BY <3>1, <3>2, <3>3 DEF SignalInv
  <2>7. CASE Signal(t) \/ FailEntry(t)
    <3>1. /\ phase[t] \in {"presignal", "signal", "fail"} /\ phase' = phase /\ Job(t)' = Job(t)
          /\ k'[t] = k[t] + 1 /\ k[t] <= Len(Signals[Job(t)])
      BY <2>7 DEF Signal, FailEntry, Job, TypeOK
    <3> DEFINE e == Signals[Job(t)][k[t]]
    <3>2. e[1] \in Semaphores /\ e[2] \in 1 .. MaxValue
      BY <3>1, SignalOf
    <3>3. ASSUME NEW x, x = e PROVE Reached(x)'
      <4>1. CASE Signal(t)
        <5>1. value' = [value EXCEPT ![x[1]] = x[2]]
          BY <3>3, <4>1 DEF Signal
        <5>2. value'[x[1]] = x[2]
          BY <3>2, <3>3, <5>1 DEF TypeOK
        <5> QED BY <3>2, <3>3, <5>2 DEF Reached
      <4>2. CASE FailEntry(t)
        <5>1. value'[x[1]] = FailureValue
          BY <3>2, <3>3, <4>2 DEF FailEntry, SentinelInv, TypeOK
        <5>2. FailureValue >= x[2]
          BY <3>2, <3>3, QueueBoundAssumption DEF FailureValue
        <5> QED BY <5>1, <5>2 DEF Reached
      <4> QED BY <2>7, <4>1, <4>2
    <3>4. ASSUME NEW i \in 1 .. Len(Signals[Job(t)]), i < k[t] + 1, NEW x, x = Signals[Job(t)][i]
          PROVE  Reached(x)'
      <4>1. CASE i = k[t]
        BY <3>3, <3>4, <4>1
      <4>2. CASE i < k[t]
        <5>1. Job(t) \in Submissions /\ Reached(Signals[Job(t)][i])
          BY <1>2, <3>1, <4>2 DEF SignalInv
        <5> QED BY <3>4, <5>1, GrowsEntry
      <4> QED BY <1>2, <3>4, <4>1, <4>2
    <3>5. \A i \in 1 .. Len(Signals[Job(t)]) : i < k[t] + 1 => Reached(Signals[Job(t)][i])'
      BY <3>1, <3>4 DEF Reached
    <3> QED BY <1>2, <3>1, <3>5 DEF SignalInv
  <2>8. CASE Signaled(t) /\ phase[t] = "presignal"
    <3>1. phase'[t] = "work" /\ Job(t)' = Job(t) /\ k' = k /\ k[t] > Len(Signals[Job(t)])
      BY <2>8 DEF Signaled, Goto, Job, TypeOK
    <3>2. AllReached(Job(t))'
      BY <1>1, <1>2, <2>8, <3>1, PastEnd
    <3> QED BY <1>2, <2>8, <3>1, <3>2 DEF SignalInv
  <2>9. CASE /\ phase' = [phase EXCEPT ![t] = "idle"] /\ k' = [k EXCEPT ![t] = 1]
    BY <2>1, <2>9 DEF TypeOK
  <2> QED
    BY <1>8, <2>3, <2>4, <2>5, <2>6, <2>7, <2>8, <2>9
       DEF Step, Return, Goto, Aborted, WorkNonBlocking, WorkFailed, CallDeferred, SignalRefused,
           Signaled, FailedAll
<1> QED BY <1>4, <1>5, <1>6, <1>7, <1>8 DEF Next

LEMMA InitHangInv == Init => HangInv
<1> SUFFICES ASSUME Init PROVE HangInv
  OBVIOUS
<1>1. TypeOK
  BY InitQInv DEF QInv
<1>2. ReturnsInv
  <2>1. \A t \in Threads : \A i \in 1 .. Len(Program[t]) : Program[t][i] \in Submissions
    <3>1. \A t \in Threads : Program[t] \in Seq(Submissions)
      BY ProgramAssumption
    <3> QED BY <3>1
  <2> QED BY <2>1 DEF Init, ReturnsInv, Codes
<1>3. SentinelInv /\ OkInv /\ \A t \in Threads : SignalInv(t)
  BY DEF Init, SentinelInv, OkInv, SignalInv, Failed, OK
<1> QED BY <1>1, <1>2, <1>3 DEF HangInv

LEMMA StepHangInv == ASSUME MadeOnce PROVE HangInv /\ [Next]_vars => HangInv'
BY StepTypeOK, ReturnsStep, SentinelStep, OkStep, SignalStep DEF HangInv

\* Of the submissions that are left when everyone waits, take one that waits for
\* none of them: what it waits for has been signaled, unless an error was returned.
LEMMA HangReported ==
  ASSUME Orderly, HangInv, Quiescent, ~Finished,
         \A q \in Submissions : returned[q] \in {"none", OK}
  PROVE  FALSE
<1> DEFINE left == {q \in Submissions : returned[q] = "none"}
<1>1. left # {}
  BY DEF Finished
<1>2. PICK q \in left : /\ Before(q) \cap left = {}
                        /\ \A e \in Entries(Waits[q]) : Producers(e) \ left # {}
  BY <1>1 DEF Orderly
<1>3. PICK t \in Threads : \E i \in 1 .. Len(Program[t]) : Program[t][i] = q
  BY DEF Orderly, MadeOnce, Entries
<1>4. PICK i \in 1 .. Len(Program[t]) : Program[t][i] = q
  BY <1>3
<1>5. Len(Program[t]) \in Nat /\ next[t] \in Nat \ {0}
  <2>1. Program[t] \in Seq(Submissions)
    BY ProgramAssumption
  <2> QED BY <2>1 DEF HangInv, TypeOK
<1>6. i >= next[t]
  BY <1>4 DEF HangInv, ReturnsInv
<1>7. Blocked(t)
  BY <1>5, <1>6 DEF Quiescent
<1>8. Job(t) = q
  <2>1. CASE i = next[t]
    BY <1>4, <2>1 DEF Job
  <2>2. CASE next[t] < i
    <3>1. next[t] \in 1 .. Len(Program[t]) /\ i \in next[t] + 1 .. Len(Program[t])
      BY <1>5, <2>2
    <3>2. returned[Job(t)] = "none"
      BY <1>5, <3>1 DEF HangInv, ReturnsInv, Job
    <3>3. Job(t) \in Before(q)
      BY <1>4, <3>1 DEF Before, Job
    <3>4. Job(t) \in Submissions
      BY <1>7, JobOf DEF HangInv, Blocked
    <3> QED BY <1>2, <3>2, <3>3, <3>4
  <2> QED BY <1>5, <1>6, <2>1, <2>2
<1>9. PICK e \in Entries(Waits[q]) : ~(value[e[1]] >= e[2])
  BY <1>7, <1>8 DEF Blocked, WaitDone
<1>10. PICK p \in Producers(e) : p \notin left
  BY <1>2
<1>11. p \in Submissions /\ returned[p] = OK
  BY <1>10 DEF Producers
<1>12. AllReached(p)
  BY <1>11 DEF HangInv, OkInv, Quiescent, AllReached, Reached
<1>13. PICK x \in Entries(Signals[p]) : x[1] = e[1] /\ x[2] >= e[2]
  BY <1>10 DEF Producers
<1>14. value[x[1]] >= x[2]
  BY <1>12 DEF AllReached, Reached
<1>15. x[1] \in Semaphores /\ x[2] \in Nat /\ e[2] \in Nat /\ value[x[1]] \in Nat
  <2>1. x[1] \in Semaphores /\ x[2] \in Nat
    BY <1>11, EntryOf, ProgramAssumption
  <2>2. e[2] \in Nat
    BY EntryOf, ProgramAssumption
  <2>3. value[x[1]] \in Nat
    BY <2>1, QueueBoundAssumption DEF HangInv, TypeOK, FailureValue
  <2> QED BY <2>1, <2>2, <2>3
<1> QED BY <1>9, <1>13, <1>14, <1>15

\* In a program that can finish, queue calls that wait for ever are never the
\* only sign that something went wrong: some call has returned an error, although
\* a failed host call returns OK and a refused or aborted call leaves semaphores
\* unsignaled.
THEOREM HangsAreReported == ASSUME Orderly PROVE Spec => []NoSilentHang
<1>1. HangInv => NoSilentHang
  BY HangReported DEF NoSilentHang
<1>2. MadeOnce
  BY DEF Orderly
<1> QED BY <1>1, <1>2, InitHangInv, StepHangInv, PTL DEF Spec
=============================================================================
