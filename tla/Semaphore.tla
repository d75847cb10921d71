----------------------------- MODULE Semaphore -----------------------------
(***************************************************************************)
(* The timeline semaphores of the CoralNPU HAL driver                      *)
(* (runtime/driver/coralnpu_semaphore.c): any number of host threads       *)
(* signal, fail, query and wait on semaphores that share one notification. *)
(*                                                                         *)
(* One step is one critical section of a semaphore's mutex, or one         *)
(* operation of the notification.  A list is therefore scanned semaphore   *)
(* by semaphore, with every other thread free to run in between, exactly   *)
(* as the loops of all_signaled, any_signaled, result_from_state and       *)
(* multi_signal lock and unlock one semaphore at a time.                   *)
(*                                                                         *)
(* External, modelled from its use here: iree_notification_t.  A waiter    *)
(* prepares (enters `prepared`), evaluates its condition again and commits *)
(* to sleep; a post releases everyone prepared before it.  The timepoint   *)
(* list notified between an unlock and the post belongs to IREE's base     *)
(* class and nothing in this repository registers a timepoint; that        *)
(* interval is the program point "post".                                   *)
(***************************************************************************)
EXTENDS Integers, Sequences

CONSTANTS
  Threads,      \* host threads
  Semaphores,   \* the semaphores of one device
  MaxValue,     \* largest payload a caller uses (bound)
  Codes,        \* the status codes passed to fail
  WaitLists,    \* the lists callers wait on: sequences of <<semaphore, payload>>
  SignalLists,  \* the lists callers signal
  Role          \* thread -> the operations it calls

Ops == {"signal", "fail", "query", "wait"}
Payloads == Semaphores \X (0 .. MaxValue)

ASSUME MaxValueAssumption == MaxValue \in Nat
ASSUME ListAssumption ==
  WaitLists \subseteq Seq(Payloads) /\ SignalLists \subseteq Seq(Payloads)
ASSUME RoleAssumption == Role \in [Threads -> SUBSET Ops]
ASSUME CodeAssumption == "OK" \notin Codes

VARIABLES
  current_value,    \* semaphore -> payload reached, or FailureValue
  failure_status,   \* semaphore -> "OK" or the code of the first failure
  prepared,         \* threads prepared to wait that no post has released
  pc,               \* thread -> program point
  call,             \* thread -> the call it is inside
  i,                \* thread -> index of the list entry handled next
  seen,             \* thread -> observations made by result_from_state
  result,           \* thread -> status returned
  out_value,        \* thread -> value returned by query
  snapshot          \* history: the thread's wait was satisfied at one instant

threadVars == <<pc, call, i, seen, result, out_value>>
vars == <<current_value, failure_status, prepared, threadVars, snapshot>>

FailureValue == MaxValue + 1
OK == "OK"

Modes == {"ALL", "ANY"}
Timeouts == {"immediate", "finite", "infinite"}

-----------------------------------------------------------------------------
(* Reading one semaphore, under its mutex.                                 *)

List(t) == call[t].list
Sem(t) == List(t)[i[t]][1]
Value(t) == List(t)[i[t]][2]
Last(t) == i[t] >= Len(List(t))

Failed(s) == failure_status[s] # OK
IsSignaled(s, v) == current_value[s] >= v \/ Failed(s)

Observation(s, v) ==
  IF Failed(s) THEN "failed"
  ELSE IF current_value[s] < v THEN "unsignaled" ELSE "signaled"

Observations == {"failed", "unsignaled", "signaled"}

\* Mutant: a satisfied wait returns OK before failures are looked at.
StatusOfOkFirst(mode, obs) ==
  IF \/ mode = "ALL" /\ "unsignaled" \notin obs
     \/ mode = "ANY" /\ "signaled" \in obs
  THEN OK
  ELSE IF "failed" \in obs THEN "ABORTED" ELSE "DEADLINE_EXCEEDED"

\* The status result_from_state makes of the observations of a whole list.
StatusOf(mode, obs) ==
  IF "failed" \in obs THEN "ABORTED"
  ELSE IF \/ mode = "ALL" /\ "unsignaled" \notin obs
          \/ mode = "ANY" /\ "signaled" \in obs
       THEN OK ELSE "DEADLINE_EXCEEDED"

\* Mutant: a wait on one semaphore drops its deadline too.
AwaitTimeoutNever(c) == "infinite"

\* The timeout with which a wait sleeps: multi_wait passes
\* iree_infinite_timeout() to the notification whatever its caller asked for.
AwaitTimeout(c) == IF Len(c.list) = 1 THEN c.timeout ELSE "infinite"

-----------------------------------------------------------------------------
Idle == [op |-> "none", list |-> <<>>, mode |-> "ALL", timeout |-> "infinite",
         code |-> OK]

Init ==
  /\ current_value \in [Semaphores -> 0 .. MaxValue]
  /\ failure_status = [s \in Semaphores |-> OK]
  /\ prepared = {}
  /\ pc = [t \in Threads |-> "idle"]
  /\ call = [t \in Threads |-> Idle]
  /\ i = [t \in Threads |-> 1]
  /\ seen = [t \in Threads |-> {}]
  /\ result = [t \in Threads |-> OK]
  /\ out_value = [t \in Threads |-> 0]
  /\ snapshot = [t \in Threads |-> FALSE]

Goto(t, label) == pc' = [pc EXCEPT ![t] = label]

Finish(t, status) ==
  /\ Goto(t, "done")
  /\ result' = [result EXCEPT ![t] = status]

Enter(t, c) ==
  /\ pc[t] = "idle"
  /\ c.op \in Role[t]
  /\ call' = [call EXCEPT ![t] = c]
  /\ Goto(t, c.op)
  /\ UNCHANGED <<current_value, failure_status, prepared, i, seen, result, out_value>>

CallSignal(t) ==
  \E l \in SignalLists : Enter(t, [Idle EXCEPT !.op = "signal", !.list = l])

CallFail(t) ==
  \E s \in Semaphores, c \in Codes :
    Enter(t, [Idle EXCEPT !.op = "fail", !.list = << <<s, 0>> >>, !.code = c])

CallQuery(t) ==
  \E s \in Semaphores :
    Enter(t, [Idle EXCEPT !.op = "query", !.list = << <<s, 0>> >>])

CallWait(t) ==
  \E l \in WaitLists, m \in Modes, d \in Timeouts :
    Enter(t, [Idle EXCEPT !.op = "wait", !.list = l, !.mode = m, !.timeout = d])

\* The caller consumes the returned status.
Return(t) ==
  /\ pc[t] = "done"
  /\ Goto(t, "idle")
  /\ call' = [call EXCEPT ![t] = Idle]
  /\ i' = [i EXCEPT ![t] = 1]
  /\ seen' = [seen EXCEPT ![t] = {}]
  /\ result' = [result EXCEPT ![t] = OK]
  /\ out_value' = [out_value EXCEPT ![t] = 0]
  /\ UNCHANGED <<current_value, failure_status, prepared>>

-----------------------------------------------------------------------------
(* Signalling.  multi_signal returns OK for an empty list and forwards a   *)
(* list of one to signal, whose only difference is that an error returns   *)
(* without a post.                                                         *)

SignalNothing(t) ==
  /\ pc[t] = "signal" /\ List(t) = <<>>
  /\ Finish(t, OK)
  /\ UNCHANGED <<current_value, failure_status, prepared, call, i, seen, out_value>>

\* signal_unsafe succeeds on list entry i.
Signal(t) ==
  /\ pc[t] = "signal" /\ List(t) # <<>>
  /\ Value(t) > current_value[Sem(t)]
  /\ current_value' = [current_value EXCEPT ![Sem(t)] = Value(t)]
  /\ IF Last(t)
     THEN Goto(t, "post") /\ i' = i
     ELSE i' = [i EXCEPT ![t] = @ + 1] /\ pc' = pc
  /\ UNCHANGED <<failure_status, prepared, call, seen, result, out_value>>

\* signal_unsafe refuses list entry i; what was signaled before it stays.
SignalRefused(t) ==
  /\ pc[t] = "signal" /\ List(t) # <<>>
  /\ Value(t) <= current_value[Sem(t)]
  /\ result' = [result EXCEPT ![t] = "OUT_OF_RANGE"]
  /\ Goto(t, IF Len(List(t)) = 1 THEN "done" ELSE "post")
  /\ UNCHANGED <<current_value, failure_status, prepared, call, i, seen, out_value>>

\* Mutant: the sentinel is not stored with the status.
FailWithoutSentinel(t) ==
  /\ pc[t] = "fail"
  /\ IF Failed(Sem(t))
     THEN Goto(t, "done") /\ UNCHANGED failure_status
     ELSE /\ failure_status' = [failure_status EXCEPT ![Sem(t)] = call[t].code]
          /\ Goto(t, "post")
  /\ UNCHANGED <<current_value, prepared, call, i, seen, result, out_value>>

\* Mutant: a later failure replaces the first one.
FailAgain(t) ==
  /\ pc[t] = "fail"
  /\ current_value' = [current_value EXCEPT ![Sem(t)] = FailureValue]
  /\ failure_status' = [failure_status EXCEPT ![Sem(t)] = call[t].code]
  /\ Goto(t, "post")
  /\ UNCHANGED <<prepared, call, i, seen, result, out_value>>

Fail(t) ==
  /\ pc[t] = "fail"
  /\ IF Failed(Sem(t))
     THEN Goto(t, "done") /\ UNCHANGED <<current_value, failure_status>>
     ELSE /\ current_value' = [current_value EXCEPT ![Sem(t)] = FailureValue]
          /\ failure_status' = [failure_status EXCEPT ![Sem(t)] = call[t].code]
          /\ Goto(t, "post")
  /\ UNCHANGED <<prepared, call, i, seen, result, out_value>>

\* iree_notification_post(IREE_ALL_WAITERS): everyone prepared may run.
Post(t) ==
  /\ pc[t] = "post"
  /\ prepared' = {}
  /\ Goto(t, "done")
  /\ UNCHANGED <<current_value, failure_status, call, i, seen, result, out_value>>

\* Mutant: query never reports the failure it read.
QueryAlwaysOk(t) ==
  /\ pc[t] = "query"
  /\ out_value' = [out_value EXCEPT ![t] = current_value[Sem(t)]]
  /\ Finish(t, OK)
  /\ UNCHANGED <<current_value, failure_status, prepared, call, i, seen>>

Query(t) ==
  /\ pc[t] = "query"
  /\ out_value' = [out_value EXCEPT ![t] = current_value[Sem(t)]]
  /\ Finish(t, IF current_value[Sem(t)] >= FailureValue
               THEN failure_status[Sem(t)] ELSE OK)
  /\ UNCHANGED <<current_value, failure_status, prepared, call, i, seen>>

-----------------------------------------------------------------------------
(* Waiting.                                                                *)

\* multi_wait on nothing.
WaitNothing(t) ==
  /\ pc[t] = "wait" /\ List(t) = <<>>
  /\ Finish(t, OK)
  /\ UNCHANGED <<current_value, failure_status, prepared, call, i, seen, out_value>>

\* The fast paths of a wait on one semaphore, then the notification.
WaitOne(t) ==
  /\ pc[t] = "wait" /\ Len(List(t)) = 1
  /\ LET obs == Observation(Sem(t), Value(t))
     IN  IF obs # "unsignaled" \/ call[t].timeout = "immediate"
         THEN Finish(t, StatusOf(call[t].mode, {obs}))
         ELSE Goto(t, "await") /\ UNCHANGED result
  /\ UNCHANGED <<current_value, failure_status, prepared, call, i, seen, out_value>>

\* multi_wait: a poll goes straight to the result, everything else sleeps.
WaitMany(t) ==
  /\ pc[t] = "wait" /\ Len(List(t)) > 1
  /\ Goto(t, IF call[t].timeout = "immediate" THEN "result" ELSE "await")
  /\ UNCHANGED <<current_value, failure_status, prepared, call, i, seen, result, out_value>>

\* One iteration of is_signaled / any_signaled / all_signaled decides the
\* condition when it meets the entry that settles it.
ConditionTrue(t) ==
  /\ IsSignaled(Sem(t), Value(t))
  /\ call[t].mode = "ANY" \/ Last(t)

ConditionFalse(t) ==
  /\ ~IsSignaled(Sem(t), Value(t))
  /\ call[t].mode = "ALL" \/ Last(t)

\* Mutant: the scan does not stop at an unsignaled last entry.
ScanOnPastEnd(t) ==
  /\ ~ConditionTrue(t)
  /\ i' = [i EXCEPT ![t] = @ + 1]
  /\ pc' = pc

ScanOn(t) ==
  /\ ~ConditionTrue(t) /\ ~ConditionFalse(t)
  /\ i' = [i EXCEPT ![t] = @ + 1]
  /\ pc' = pc

\* iree_notification_await: the condition is evaluated before preparing.
AwaitCheck(t) ==
  /\ pc[t] = "await"
  /\ \/ ScanOn(t)
     \/ ConditionTrue(t) /\ Goto(t, "result") /\ i' = [i EXCEPT ![t] = 1]
     \/ ConditionFalse(t) /\ Goto(t, "prepare") /\ i' = [i EXCEPT ![t] = 1]
  /\ UNCHANGED <<current_value, failure_status, prepared, call, seen, result, out_value>>

\* Mutant: the condition is not evaluated again after preparing.
PrepareAndCommit(t) ==
  /\ pc[t] = "prepare"
  /\ prepared' = prepared \cup {t}
  /\ Goto(t, "commit")
  /\ UNCHANGED <<current_value, failure_status, call, i, seen, result, out_value>>

\* iree_notification_prepare_wait
Prepare(t) ==
  /\ pc[t] = "prepare"
  /\ prepared' = prepared \cup {t}
  /\ Goto(t, "recheck")
  /\ UNCHANGED <<current_value, failure_status, call, i, seen, result, out_value>>

\* The condition again, now prepared: cancel the wait or commit to it.
Recheck(t) ==
  /\ pc[t] = "recheck"
  /\ \/ ScanOn(t) /\ prepared' = prepared
     \/ /\ ConditionTrue(t)
        /\ prepared' = prepared \ {t}
        /\ Goto(t, "result")
        /\ i' = [i EXCEPT ![t] = 1]
     \/ /\ ConditionFalse(t)
        /\ prepared' = prepared
        /\ Goto(t, "commit")
        /\ i' = [i EXCEPT ![t] = 1]
  /\ UNCHANGED <<current_value, failure_status, call, seen, result, out_value>>

\* Mutant: any post ends the wait, whatever it was about.
WakeForGood(t) ==
  /\ pc[t] = "commit"
  /\ t \notin prepared
  /\ Goto(t, "result")
  /\ UNCHANGED <<current_value, failure_status, prepared, call, i, seen, result, out_value>>

\* iree_notification_commit_wait: a post after prepare released the thread.
Wake(t) ==
  /\ pc[t] = "commit"
  /\ t \notin prepared
  /\ Goto(t, "prepare")
  /\ UNCHANGED <<current_value, failure_status, prepared, call, i, seen, result, out_value>>

\* iree_notification_commit_wait: the deadline passed first.
Expire(t) ==
  /\ pc[t] = "commit"
  /\ AwaitTimeout(call[t]) = "finite"
  /\ prepared' = prepared \ {t}
  /\ Goto(t, "result")
  /\ UNCHANGED <<current_value, failure_status, call, i, seen, result, out_value>>

\* One iteration of result_from_state (of the tail of wait for one semaphore).
Result(t) ==
  /\ pc[t] = "result"
  /\ LET obs == seen[t] \cup {Observation(Sem(t), Value(t))}
     IN  /\ seen' = [seen EXCEPT ![t] = obs]
         /\ IF Last(t)
            THEN Finish(t, StatusOf(call[t].mode, obs)) /\ i' = i
            ELSE i' = [i EXCEPT ![t] = @ + 1] /\ UNCHANGED <<pc, result>>
  /\ UNCHANGED <<current_value, failure_status, prepared, call, out_value>>

-----------------------------------------------------------------------------
\* The wait of t is satisfied by semaphores none of which has failed.
CleanlySatisfied(t) ==
  LET Obs == {Observation(List(t)[k][1], List(t)[k][2]) : k \in 1 .. Len(List(t))}
  IN  /\ call[t].op = "wait"
      /\ "failed" \notin Obs
      /\ IF call[t].mode = "ALL" THEN "unsignaled" \notin Obs ELSE "signaled" \in Obs

\* History of the instants a wait lived through.
Remember ==
  snapshot' = [t \in Threads |->
                 pc'[t] # "idle" /\ (snapshot[t] \/ CleanlySatisfied(t)')]

Start(t) == CallSignal(t) \/ CallFail(t) \/ CallQuery(t) \/ CallWait(t)

Step(t) ==
  \/ SignalNothing(t) \/ Signal(t) \/ SignalRefused(t)
  \/ Fail(t) \/ Post(t) \/ Query(t)
  \/ WaitNothing(t) \/ WaitOne(t) \/ WaitMany(t)
  \/ AwaitCheck(t) \/ Prepare(t) \/ Recheck(t) \/ Wake(t) \/ Expire(t)
  \/ Result(t) \/ Return(t)

Next == (\E t \in Threads : Start(t) \/ Step(t)) /\ Remember

Spec == Init /\ [][Next]_vars

\* Every thread inside a call keeps running: the host scheduler and the slim
\* mutex starve no one, and a finite deadline passes.  Nobody has to call.
FairSpec == Spec /\ \A t \in Threads : WF_vars(Step(t) /\ Remember)
-----------------------------------------------------------------------------
(* Properties.                                                             *)

Labels == {"idle", "signal", "fail", "query", "wait", "post", "await",
           "prepare", "recheck", "commit", "result", "done"}

Calls == [op : Ops \cup {"none"}, list : Seq(Payloads), mode : Modes,
          timeout : Timeouts, code : Codes \cup {OK}]

Statuses == Codes \cup {OK, "OUT_OF_RANGE", "ABORTED", "DEADLINE_EXCEEDED"}

DomainsOK ==
  /\ current_value \in [Semaphores -> 0 .. FailureValue]
  /\ failure_status \in [Semaphores -> Codes \cup {OK}]
  /\ prepared \subseteq Threads
  /\ pc \in [Threads -> Labels]
  /\ call \in [Threads -> Calls]
  /\ i \in [Threads -> Nat \ {0}]
  /\ seen \in [Threads -> SUBSET Observations]
  /\ result \in [Threads -> Statuses]
  /\ out_value \in [Threads -> 0 .. FailureValue]
  /\ snapshot \in [Threads -> BOOLEAN]

\* The list entry a loop is about to touch exists.
IndexOK(t) ==
  /\ pc[t] \in {"await", "prepare", "recheck", "commit", "result", "fail", "query"}
       => i[t] <= Len(List(t))
  /\ pc[t] = "signal" => List(t) = <<>> \/ i[t] <= Len(List(t))

\* Every variable stays in its domain, and no operation of
\* coralnpu_semaphore.c indexes past the end of the list it was given.
TypeOK == DomainsOK /\ \A t \in Threads : IndexOK(t)

\* The failure sentinel and the failure status never disagree outside the
\* mutex: query decides by the value, every wait decides by the status, and
\* both must see the same failure (coralnpu_semaphore.c:129 against :281).
FailureSentinel ==
  \A s \in Semaphores : Failed(s) <=> current_value[s] = FailureValue

OnlyForward ==
  \A s \in Semaphores :
    /\ current_value'[s] >= current_value[s]
    /\ Failed(s) => /\ current_value'[s] = current_value[s]
                    /\ failure_status'[s] = failure_status[s]

\* A payload never goes back and the first failure is final: no signal,
\* multi_signal or second fail alters a failed semaphore, whatever the order
\* in which racing threads take its mutex.
Monotone == [][OnlyForward]_vars

\* What a wait sleeps on, for the abstract specification: it observes no
\* deadline when the caller gave none or multi_wait dropped it.
Patient(c) == c.timeout = "infinite" \/ (c.timeout = "finite" /\ Len(c.list) > 1)

NoWait == [mode |-> "none", list |-> <<>>, patient |-> FALSE]

AbsWait ==
  [t \in Threads |->
     IF call[t].op = "wait"
     THEN [mode |-> call[t].mode, list |-> List(t), patient |-> Patient(call[t])]
     ELSE NoWait]

AbsOutcome ==
  [t \in Threads |->
     IF call[t].op = "wait" /\ pc[t] = "done" THEN result[t] ELSE "pending"]

Abs == INSTANCE Timeline WITH value <- current_value, failure <- failure_status,
                              wait <- AbsWait, outcome <- AbsOutcome

\* The locks, the notification, the scans one semaphore at a time and the two
\* passes over a list (condition, then result) implement the atomic
\* semaphores of Timeline: OK only if the payloads are reached, ABORTED only
\* if a semaphore failed, and DEADLINE_EXCEEDED never from a wait without a
\* deadline although the result is read after the condition held.
ImplementsTimeline == Abs!Spec

\* A wait that slept or could have slept returns OK only if there was one
\* instant during the call at which the semaphores satisfied it and none had
\* failed, although result_from_state reads them one by one after the
\* condition, itself evaluated one by one, came true.
AwaitedOkIsSnapshot ==
  \A t \in Threads :
    /\ pc[t] = "done" /\ result[t] = OK /\ call[t].op = "wait"
    /\ call[t].timeout # "immediate" /\ List(t) # <<>>
    => snapshot[t]

\* A queried value stays a lower bound of the semaphore however late the
\* caller uses it, and the query reported a failure exactly when it returned
\* the sentinel.
QueryIsLowerBound ==
  \A t \in Threads :
    pc[t] = "done" /\ call[t].op = "query" =>
      /\ out_value[t] <= current_value[Sem(t)]
      /\ result[t] # OK <=> out_value[t] = FailureValue

Waiting(t) ==
  pc[t] \in {"wait", "await", "prepare", "recheck", "commit", "result"}

\* The condition all_signaled / any_signaled / is_signaled evaluates.
Condition(t) ==
  LET Holds(k) == IsSignaled(List(t)[k][1], List(t)[k][2])
  IN  IF call[t].mode = "ALL" THEN \A k \in 1 .. Len(List(t)) : Holds(k)
                              ELSE \E k \in 1 .. Len(List(t)) : Holds(k)

\* No lost wakeup: once the condition of a wait is true the wait returns,
\* wherever the waiter is between its first check and its sleep when the
\* signal, the failure or the partial multi_signal lands.
NoLostWakeup ==
  \A t \in Threads : (Waiting(t) /\ Condition(t)) ~> (pc[t] = "done")

\* Posts stop: a sleeper that posts keep waking goes round the loop of
\* iree_notification_await without ever sleeping until its deadline.
Quiet == <>[](\A t \in Threads : pc[t] # "post")

\* A wait on one semaphore returns once its deadline has passed and the posts
\* stop, although "Will wait forever" is what coralnpu_semaphore.c:301 says.
SingleWaitObservesDeadline ==
  Quiet => \A t \in Threads :
    (Waiting(t) /\ Len(List(t)) = 1 /\ call[t].timeout = "finite")
      ~> (pc[t] = "done")

\* coralnpu_semaphore.h: a multi-wait "Returns IREE_STATUS_DEADLINE_EXCEEDED
\* if the wait does not complete before |timeout| elapses", so a wait with a
\* finite timeout always returns once posts stop.
WaitObservesDeadline ==
  Quiet => \A t \in Threads :
    (Waiting(t) /\ call[t].timeout = "finite") ~> (pc[t] = "done")
=============================================================================
