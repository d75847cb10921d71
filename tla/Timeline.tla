------------------------------ MODULE Timeline ------------------------------
(***************************************************************************)
(* What the HAL promises of a set of timeline semaphores, with no locks,   *)
(* no notification and no partial scans: a semaphore is a number that only *)
(* grows until it fails, failure is final, and a wait returns              *)
(*   - OK only when the payloads it names have been reached,               *)
(*   - ABORTED only when a semaphore it names has failed,                  *)
(*   - DEADLINE_EXCEEDED only when the caller set a deadline.              *)
(* Semaphore.tla (runtime/driver/coralnpu_semaphore.c) is shown to         *)
(* implement this module.                                                  *)
(***************************************************************************)
EXTENDS Integers, Sequences

CONSTANTS
  Threads,      \* host threads calling into the HAL
  Semaphores,   \* the semaphores of one device
  MaxValue,     \* largest payload a caller uses (bound)
  Codes,        \* the status codes a semaphore can fail with
  WaitLists     \* the semaphore lists waited on: sequences of <<semaphore, payload>>

VARIABLES
  value,        \* semaphore -> payload reached, or FailureValue
  failure,      \* semaphore -> "OK" or the code it failed with
  wait,         \* thread -> the wait it is inside, or NoWait
  outcome       \* thread -> what that wait returned, or "pending"

vars == <<value, failure, wait, outcome>>

\* IREE_HAL_SEMAPHORE_FAILURE_VALUE: above every payload.
FailureValue == MaxValue + 1

NoWait == [mode |-> "none", list |-> <<>>, patient |-> FALSE]

\* patient: the caller gave no deadline that the wait observes.
WaitRequests == [mode : {"ALL", "ANY"}, list : WaitLists, patient : BOOLEAN]

\* Every / some payload of w is reached; a wait on nothing is satisfied.
Satisfied(w) ==
  LET Reached(k) == value[w.list[k][1]] >= w.list[k][2]
  IN  \/ w.list = <<>>
      \/ w.mode = "ALL" /\ \A k \in 1 .. Len(w.list) : Reached(k)
      \/ w.mode = "ANY" /\ \E k \in 1 .. Len(w.list) : Reached(k)

Broken(w) == \E k \in 1 .. Len(w.list) : failure[w.list[k][1]] # "OK"

Init ==
  /\ value \in [Semaphores -> 0 .. MaxValue]
  /\ failure = [s \in Semaphores |-> "OK"]
  /\ wait = [t \in Threads |-> NoWait]
  /\ outcome = [t \in Threads |-> "pending"]

Advance(s) ==
  /\ \E v \in 0 .. MaxValue :
       /\ v > value[s]
       /\ value' = [value EXCEPT ![s] = v]
  /\ UNCHANGED <<failure, wait, outcome>>

Fail(s) ==
  /\ failure[s] = "OK"
  /\ \E c \in Codes : failure' = [failure EXCEPT ![s] = c]
  /\ value' = [value EXCEPT ![s] = FailureValue]
  /\ UNCHANGED <<wait, outcome>>

Begin(t) ==
  /\ wait[t] = NoWait
  /\ \E w \in WaitRequests : wait' = [wait EXCEPT ![t] = w]
  /\ UNCHANGED <<value, failure, outcome>>

Conclude(t) ==
  /\ wait[t] # NoWait
  /\ outcome[t] = "pending"
  /\ \/ /\ Satisfied(wait[t])
        /\ outcome' = [outcome EXCEPT ![t] = "OK"]
     \/ /\ Broken(wait[t])
        /\ outcome' = [outcome EXCEPT ![t] = "ABORTED"]
     \/ /\ ~wait[t].patient
        /\ outcome' = [outcome EXCEPT ![t] = "DEADLINE_EXCEEDED"]
  /\ UNCHANGED <<value, failure, wait>>

Leave(t) ==
  /\ outcome[t] # "pending"
  /\ wait' = [wait EXCEPT ![t] = NoWait]
  /\ outcome' = [outcome EXCEPT ![t] = "pending"]
  /\ UNCHANGED <<value, failure>>

Next ==
  \/ \E s \in Semaphores : Advance(s) \/ Fail(s)
  \/ \E t \in Threads : Begin(t) \/ Conclude(t) \/ Leave(t)

Spec == Init /\ [][Next]_vars
=============================================================================
