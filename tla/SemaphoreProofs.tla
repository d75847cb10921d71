-------------------------- MODULE SemaphoreProofs --------------------------
(* Theorems about Semaphore, for every set of threads, semaphores, lists.  *)
EXTENDS Semaphore, TLAPS

\* Where a thread is determines what its call looks like.
CallShape(t) ==
  /\ pc[t] = "idle" => call[t] = Idle /\ i[t] = 1 /\ seen[t] = {}
  /\ pc[t] \in Ops => call[t].op = pc[t] /\ seen[t] = {}
  /\ pc[t] = "wait" => i[t] = 1
  /\ IndexOK(t)
  /\ pc[t] = "fail" => call[t].code \in Codes
  /\ pc[t] = "post" => call[t].op \in {"signal", "fail"}
  /\ pc[t] \in {"await", "prepare", "recheck", "commit"} =>
       seen[t] = {} /\ call[t].timeout # "immediate"
  /\ pc[t] \in {"await", "prepare", "recheck", "commit", "result"} =>
       call[t].op = "wait"
  /\ pc[t] \in {"prepare", "commit"} => i[t] = 1

\* The inductive invariant for types and the failure sentinel.
TInv == DomainsOK /\ FailureSentinel /\ \A t \in Threads : CallShape(t)

\* The record of a thread that is inside no call is a call record.
LEMMA IdleType == Idle \in Calls
  BY DEF Idle, Calls, Ops, Modes, Timeouts, OK

\* result_from_state returns one of the statuses of the model.
LEMMA StatusOfType ==
  ASSUME NEW m, NEW obs PROVE StatusOf(m, obs) \in Statuses
  BY DEF StatusOf, Statuses, OK

\* A list that is not empty has a first entry.
LEMMA NonEmpty ==
  ASSUME NEW S, NEW q \in Seq(S), q # <<>> PROVE Len(q) \in Nat /\ Len(q) >= 1
  OBVIOUS

\* Freshly created semaphores and idle threads satisfy the invariant.
LEMMA InitTInv == Init => TInv
<1> SUFFICES ASSUME Init PROVE TInv
  OBVIOUS
<1>2. DomainsOK
  BY IdleType, MaxValueAssumption DEF Init, DomainsOK, FailureValue, Labels, Statuses, Observations, OK
<1>3. FailureSentinel
  BY MaxValueAssumption DEF Init, FailureSentinel, Failed, FailureValue
<1>4. ASSUME NEW t \in Threads PROVE CallShape(t)
  BY DEF Init, CallShape, IndexOK, Ops
<1> QED
  BY <1>2, <1>3, <1>4 DEF TInv

\* What a thread that is working on a list entry may rely on.
LEMMA Entry ==
  ASSUME TInv, NEW t \in Threads,
         \/ pc[t] \in {"await", "prepare", "recheck", "commit", "result", "fail", "query"}
         \/ pc[t] = "signal" /\ List(t) # <<>>
         \/ pc[t] = "wait" /\ List(t) # <<>>
  PROVE  /\ List(t) \in Seq(Payloads) /\ i[t] \in 1 .. Len(List(t))
         /\ Sem(t) \in Semaphores /\ Value(t) \in 0 .. MaxValue
<1>1. List(t) \in Seq(Payloads) /\ i[t] \in Nat \ {0}
  BY DEF TInv, DomainsOK, Calls, List
<1>2. i[t] <= Len(List(t))
  BY <1>1 DEF TInv, CallShape, IndexOK, Ops
<1>3. List(t)[i[t]] \in Payloads
  BY <1>1, <1>2
<1> QED
  BY <1>1, <1>2, <1>3 DEF Payloads, Sem, Value

\* A caller enters with a well-formed call: fail and query name one semaphore.
LEMMA StartEnters ==
  ASSUME NEW t \in Threads, Start(t)
  PROVE  \E c \in Calls : /\ Enter(t, c) /\ c.op \in Ops
                          /\ c.op \in {"fail", "query"} => Len(c.list) = 1
                          /\ c.op = "fail" => c.code \in Codes
                          /\ c.op = "wait" => c.list \in WaitLists
<1>1. CASE CallSignal(t)
  <2>1. PICK l \in SignalLists :
          Enter(t, [Idle EXCEPT !.op = "signal", !.list = l])
    BY <1>1 DEF CallSignal
  <2>2. l \in Seq(Payloads)
    BY ListAssumption
  <2> DEFINE c == [Idle EXCEPT !.op = "signal", !.list = l]
  <2>3. c \in Calls /\ c.op = "signal"
    BY <2>2 DEF Idle, Calls, Ops, Modes, Timeouts
  <2> QED
    BY <2>1, <2>3 DEF Ops
<1>2. CASE CallFail(t)
  <2>1. PICK s \in Semaphores, code \in Codes :
          Enter(t, [Idle EXCEPT !.op = "fail", !.list = << <<s, 0>> >>, !.code = code])
    BY <1>2 DEF CallFail
  <2>2. << <<s, 0>> >> \in Seq(Payloads) /\ Len(<< <<s, 0>> >>) = 1
    BY MaxValueAssumption DEF Payloads
  <2> DEFINE c == [Idle EXCEPT !.op = "fail", !.list = << <<s, 0>> >>, !.code = code]
  <2>3. /\ c \in Calls /\ c.op = "fail" /\ c.code \in Codes
        /\ c.list = << <<s, 0>> >>
    BY <2>2 DEF Idle, Calls, Ops, Modes, Timeouts
  <2> QED
    BY <2>1, <2>2, <2>3 DEF Ops
<1>3. CASE CallQuery(t)
  <2>1. PICK s \in Semaphores :
          Enter(t, [Idle EXCEPT !.op = "query", !.list = << <<s, 0>> >>])
    BY <1>3 DEF CallQuery
  <2>2. << <<s, 0>> >> \in Seq(Payloads) /\ Len(<< <<s, 0>> >>) = 1
    BY MaxValueAssumption DEF Payloads
  <2> DEFINE c == [Idle EXCEPT !.op = "query", !.list = << <<s, 0>> >>]
  <2>3. c \in Calls /\ c.op = "query" /\ c.list = << <<s, 0>> >>
    BY <2>2 DEF Idle, Calls, Ops, Modes, Timeouts
  <2> QED
    BY <2>1, <2>2, <2>3 DEF Ops
<1>4. CASE CallWait(t)
  <2>1. PICK l \in WaitLists, m \in Modes, d \in Timeouts :
          Enter(t, [Idle EXCEPT !.op = "wait", !.list = l, !.mode = m, !.timeout = d])
    BY <1>4 DEF CallWait
  <2>2. l \in Seq(Payloads)
    BY ListAssumption
  <2> DEFINE c == [Idle EXCEPT !.op = "wait", !.list = l, !.mode = m, !.timeout = d]
  <2>3. c \in Calls /\ c.op = "wait" /\ c.list = l
    BY <2>2 DEF Idle, Calls, Ops
  <2> QED
    BY <2>1, <2>3 DEF Ops
<1> QED
  BY <1>1, <1>2, <1>3, <1>4 DEF Start

\* Every critical section and every notification step keeps the invariant.
LEMMA StepTInv == TInv /\ [Next]_vars => TInv'
<1> SUFFICES ASSUME TInv, [Next]_vars PROVE TInv'
  OBVIOUS
<1> USE MaxValueAssumption
<1>0. CASE UNCHANGED vars
  BY <1>0 DEF TInv, vars, threadVars, DomainsOK, FailureSentinel, CallShape, IndexOK, Failed, List
<1>h. CASE Next
  <2>0. snapshot' \in [Threads -> BOOLEAN]
    BY <1>h DEF Next, Remember
  <2>1. PICK t \in Threads : Start(t) \/ Step(t)
    BY <1>h DEF Next
  <2> USE DEF Goto, List, Last, OK, FailureValue
  <2>SignalNothing. CASE SignalNothing(t)
    <3>1. DomainsOK'
      BY <2>0, <2>SignalNothing, Entry DEF SignalNothing, TInv, DomainsOK, Labels, Statuses, Finish
    <3>2. FailureSentinel'
      BY <2>SignalNothing, Entry DEF SignalNothing, TInv, DomainsOK, FailureSentinel, Failed, Finish
    <3>3. ASSUME NEW u \in Threads PROVE CallShape(u)'
      BY <2>SignalNothing, Entry DEF SignalNothing, TInv, DomainsOK, CallShape, IndexOK, Ops, Finish
    <3> QED
      BY <3>1, <3>2, <3>3 DEF TInv
  <2>Signal. CASE Signal(t)
    <3>0. /\ List(t) \in Seq(Payloads) /\ i[t] \in 1 .. Len(List(t))
          /\ Sem(t) \in Semaphores /\ Value(t) \in 0 .. MaxValue
      BY <2>Signal, Entry DEF Signal
    <3>1. DomainsOK'
      <4>1. current_value' \in [Semaphores -> 0 .. FailureValue]
        BY <3>0, <2>Signal DEF Signal, TInv, DomainsOK
      <4>2. pc' \in [Threads -> Labels] /\ i' \in [Threads -> Nat \ {0}]
        <5>1. CASE Last(t)
          BY <5>1, <2>Signal DEF Signal, TInv, DomainsOK, Labels
        <5>2. CASE ~Last(t)
          BY <5>2, <2>Signal DEF Signal, TInv, DomainsOK
        <5> QED
          BY <5>1, <5>2
      <4> QED
        BY <4>1, <4>2, <2>0, <2>Signal DEF Signal, TInv, DomainsOK
    <3>2. FailureSentinel'
      BY <2>Signal, Entry DEF Signal, TInv, DomainsOK, FailureSentinel, Failed
    <3>3. ASSUME NEW u \in Threads PROVE CallShape(u)'
      <4>1. CASE u = t
        BY <4>1, <3>0, <2>Signal DEF Signal, TInv, DomainsOK, CallShape, IndexOK, Ops
      <4>2. CASE u # t
        BY <4>2, <2>Signal DEF Signal, TInv, DomainsOK, CallShape, IndexOK
      <4> QED
        BY <4>1, <4>2
    <3> QED
      BY <3>1, <3>2, <3>3 DEF TInv
  <2>SignalRefused. CASE SignalRefused(t)
    <3>1. DomainsOK'
      BY <2>0, <2>SignalRefused, Entry DEF SignalRefused, TInv, DomainsOK, Labels, Statuses
    <3>2. FailureSentinel'
      BY <2>SignalRefused, Entry DEF SignalRefused, TInv, DomainsOK, FailureSentinel, Failed
    <3>3. ASSUME NEW u \in Threads PROVE CallShape(u)'
      BY <2>SignalRefused, Entry DEF SignalRefused, TInv, DomainsOK, CallShape, IndexOK, Ops
    <3> QED
      BY <3>1, <3>2, <3>3 DEF TInv
  <2>Fail. CASE Fail(t)
    <3>0. /\ List(t) \in Seq(Payloads) /\ i[t] \in 1 .. Len(List(t))
          /\ Sem(t) \in Semaphores /\ Value(t) \in 0 .. MaxValue
      BY <2>Fail, Entry DEF Fail
    <3>1. DomainsOK'
      <4>1. call[t].code \in Codes
        BY <2>Fail DEF Fail, TInv, CallShape
      <4>2. current_value' \in [Semaphores -> 0 .. FailureValue]
        <5>1. CASE Failed(Sem(t))
          BY <5>1, <2>Fail DEF Fail, TInv, DomainsOK
        <5>2. CASE ~Failed(Sem(t))
          <6>1. current_value' = [current_value EXCEPT ![Sem(t)] = FailureValue]
            BY <5>2, <2>Fail DEF Fail
          <6>2. FailureValue \in 0 .. FailureValue
            OBVIOUS
          <6> QED
            BY <6>1, <6>2 DEF TInv, DomainsOK
        <5> QED
          BY <5>1, <5>2
      <4>3. failure_status' \in [Semaphores -> Codes \cup {OK}]
        BY <3>0, <4>1, <2>Fail DEF Fail, TInv, DomainsOK
      <4>4. pc' \in [Threads -> Labels]
        BY <2>Fail DEF Fail, TInv, DomainsOK, Labels
      <4> QED
        BY <4>2, <4>3, <4>4, <2>0, <2>Fail DEF Fail, TInv, DomainsOK
    <3>2. FailureSentinel'
      <4>1. call[t].code # OK
        BY <2>Fail, CodeAssumption DEF Fail, TInv, CallShape
      <4> QED
        BY <3>0, <4>1, <2>Fail DEF Fail, TInv, DomainsOK, FailureSentinel, Failed
    <3>3. ASSUME NEW u \in Threads PROVE CallShape(u)'
      BY <2>Fail, Entry DEF Fail, TInv, DomainsOK, CallShape, IndexOK, Ops
    <3> QED
      BY <3>1, <3>2, <3>3 DEF TInv
  <2>Post. CASE Post(t)
    <3>1. DomainsOK'
      BY <2>0, <2>Post, Entry DEF Post, TInv, DomainsOK, Labels, Statuses
    <3>2. FailureSentinel'
      BY <2>Post, Entry DEF Post, TInv, DomainsOK, FailureSentinel, Failed
    <3>3. ASSUME NEW u \in Threads PROVE CallShape(u)'
      BY <2>Post, Entry DEF Post, TInv, DomainsOK, CallShape, IndexOK, Ops
    <3> QED
      BY <3>1, <3>2, <3>3 DEF TInv
  <2>Query. CASE Query(t)
    <3>1. DomainsOK'
      BY <2>0, <2>Query, Entry DEF Query, TInv, DomainsOK, Labels, Statuses, Finish
    <3>2. FailureSentinel'
      BY <2>Query, Entry DEF Query, TInv, DomainsOK, FailureSentinel, Failed, Finish
    <3>3. ASSUME NEW u \in Threads PROVE CallShape(u)'
      BY <2>Query, Entry DEF Query, TInv, DomainsOK, CallShape, IndexOK, Ops, Finish
    <3> QED
      BY <3>1, <3>2, <3>3 DEF TInv
  <2>WaitNothing. CASE WaitNothing(t)
    <3>1. DomainsOK'
      BY <2>0, <2>WaitNothing, Entry DEF WaitNothing, TInv, DomainsOK, Labels, Statuses, Finish
    <3>2. FailureSentinel'
      BY <2>WaitNothing, Entry DEF WaitNothing, TInv, DomainsOK, FailureSentinel, Failed, Finish
    <3>3. ASSUME NEW u \in Threads PROVE CallShape(u)'
      BY <2>WaitNothing, Entry DEF WaitNothing, TInv, DomainsOK, CallShape, IndexOK, Ops, Finish
    <3> QED
      BY <3>1, <3>2, <3>3 DEF TInv
  <2>WaitOne. CASE WaitOne(t)
    <3>0. /\ List(t) \in Seq(Payloads) /\ i[t] \in 1 .. Len(List(t))
          /\ Sem(t) \in Semaphores /\ Value(t) \in 0 .. MaxValue
      <4>1. List(t) # <<>>
        <5>1. Len(<<>>) = 0 /\ Len(List(t)) = 1
          BY <2>WaitOne DEF WaitOne
        <5> QED
          BY <5>1
      <4> QED
        BY <4>1, <2>WaitOne, Entry DEF WaitOne
    <3>1. DomainsOK'
      <4>1. result' \in [Threads -> Statuses]
        BY <2>WaitOne, StatusOfType DEF WaitOne, Finish, TInv, DomainsOK
      <4>2. pc' \in [Threads -> Labels]
        BY <2>WaitOne DEF WaitOne, Finish, TInv, DomainsOK, Labels
      <4> QED
        BY <4>1, <4>2, <2>0, <2>WaitOne DEF WaitOne, TInv, DomainsOK
    <3>2. FailureSentinel'
      BY <2>WaitOne, Entry DEF WaitOne, TInv, DomainsOK, FailureSentinel, Failed, Finish
    <3>3. ASSUME NEW u \in Threads PROVE CallShape(u)'
      <4>1. CASE u = t
        <5>1. CASE pc'[t] = "done"
          BY <5>1, <4>1 DEF CallShape, IndexOK, Ops
        <5>2. CASE pc'[t] = "await"
          <6>1. call[t].timeout # "immediate"
            BY <5>2, <2>WaitOne DEF WaitOne, Finish, TInv, DomainsOK
          <6>2. call' = call /\ i' = i /\ seen' = seen
            BY <2>WaitOne DEF WaitOne
          <6>3. call[t].op = "wait" /\ seen[t] = {}
            BY <2>WaitOne DEF WaitOne, TInv, CallShape, Ops
          <6> QED
            BY <3>0, <4>1, <5>2, <6>1, <6>2, <6>3 DEF CallShape, IndexOK, Ops
        <5> QED
          BY <5>1, <5>2, <4>1, <2>WaitOne DEF WaitOne, Finish, TInv, DomainsOK
      <4>2. CASE u # t
        BY <4>2, <2>WaitOne DEF WaitOne, Finish, TInv, DomainsOK, CallShape, IndexOK
      <4> QED
        BY <4>1, <4>2
    <3> QED
      BY <3>1, <3>2, <3>3 DEF TInv
  <2>WaitMany. CASE WaitMany(t)
    <3>1. DomainsOK'
      BY <2>0, <2>WaitMany, Entry DEF WaitMany, TInv, DomainsOK, Labels, Statuses
    <3>2. FailureSentinel'
      BY <2>WaitMany, Entry DEF WaitMany, TInv, DomainsOK, FailureSentinel, Failed
    <3>3. ASSUME NEW u \in Threads PROVE CallShape(u)'
      BY <2>WaitMany, Entry DEF WaitMany, TInv, DomainsOK, CallShape, IndexOK, Ops
    <3> QED
      BY <3>1, <3>2, <3>3 DEF TInv
  <2>AwaitCheck. CASE AwaitCheck(t)
    <3>1. DomainsOK'
      <4>1. pc' \in [Threads -> Labels]
        BY <2>AwaitCheck DEF AwaitCheck, ScanOn, TInv, DomainsOK, Labels
      <4>2. i' \in [Threads -> Nat \ {0}]
        BY <2>AwaitCheck DEF AwaitCheck, ScanOn, TInv, DomainsOK
      <4> QED
        BY <4>1, <4>2, <2>0, <2>AwaitCheck DEF AwaitCheck, TInv, DomainsOK
    <3>2. FailureSentinel'
      BY <2>AwaitCheck, Entry DEF AwaitCheck, TInv, DomainsOK, FailureSentinel, Failed, ScanOn, ConditionTrue, ConditionFalse
    <3>0. /\ List(t) \in Seq(Payloads) /\ i[t] \in 1 .. Len(List(t))
          /\ call' = call /\ seen' = seen /\ call[t].op = "wait"
          /\ seen[t] = {} /\ call[t].timeout # "immediate"
      BY <2>AwaitCheck, Entry DEF AwaitCheck, TInv, CallShape
    <3>3. ASSUME NEW u \in Threads PROVE CallShape(u)'
      <4>1. CASE u # t
        <5>1. pc'[u] = pc[u] /\ i'[u] = i[u]
          BY <4>1, <2>AwaitCheck DEF AwaitCheck, ScanOn, TInv, DomainsOK
        <5> QED
          BY <3>0, <5>1 DEF TInv, CallShape, IndexOK
      <4>2. CASE u = t
        <5>1. CASE ScanOn(t)
          <6>1. ~Last(t)
            BY <5>1 DEF ScanOn, ConditionTrue, ConditionFalse
          <6>2. pc'[t] = "await" /\ i'[t] = i[t] + 1
            BY <5>1, <2>AwaitCheck DEF AwaitCheck, ScanOn, TInv, DomainsOK
          <6>3. i'[t] <= Len(List(t))
            BY <6>1, <6>2, <3>0
          <6> QED
            BY <3>0, <4>2, <6>2, <6>3 DEF CallShape, IndexOK, Ops
        <5>2. CASE ~ScanOn(t)
          <6>1. pc'[t] \in {"result", "prepare"} /\ i'[t] = 1
            BY <5>2, <2>AwaitCheck DEF AwaitCheck, TInv, DomainsOK
          <6>2. 1 <= Len(List(t))
            BY <3>0
          <6> QED
            BY <3>0, <4>2, <6>1, <6>2 DEF CallShape, IndexOK, Ops
        <5> QED
          BY <5>1, <5>2
      <4> QED
        BY <4>1, <4>2
    <3> QED
      BY <3>1, <3>2, <3>3 DEF TInv
  <2>Prepare. CASE Prepare(t)
    <3>1. DomainsOK'
      BY <2>0, <2>Prepare, Entry DEF Prepare, TInv, DomainsOK, Labels, Statuses
    <3>2. FailureSentinel'
      BY <2>Prepare, Entry DEF Prepare, TInv, DomainsOK, FailureSentinel, Failed
    <3>3. ASSUME NEW u \in Threads PROVE CallShape(u)'
      BY <2>Prepare, Entry DEF Prepare, TInv, DomainsOK, CallShape, IndexOK, Ops
    <3> QED
      BY <3>1, <3>2, <3>3 DEF TInv
  <2>Recheck. CASE Recheck(t)
    <3>1. DomainsOK'
      <4>1. pc' \in [Threads -> Labels]
        BY <2>Recheck DEF Recheck, ScanOn, TInv, DomainsOK, Labels
      <4>2. i' \in [Threads -> Nat \ {0}]
        BY <2>Recheck DEF Recheck, ScanOn, TInv, DomainsOK
      <4> QED
        BY <4>1, <4>2, <2>0, <2>Recheck DEF Recheck, TInv, DomainsOK
    <3>2. FailureSentinel'
      BY <2>Recheck, Entry DEF Recheck, TInv, DomainsOK, FailureSentinel, Failed, ScanOn, ConditionTrue, ConditionFalse
    <3>0. /\ List(t) \in Seq(Payloads) /\ i[t] \in 1 .. Len(List(t))
          /\ call' = call /\ seen' = seen /\ call[t].op = "wait"
          /\ seen[t] = {} /\ call[t].timeout # "immediate"
      BY <2>Recheck, Entry DEF Recheck, TInv, CallShape
    <3>3. ASSUME NEW u \in Threads PROVE CallShape(u)'
      <4>1. CASE u # t
        <5>1. pc'[u] = pc[u] /\ i'[u] = i[u]
          BY <4>1, <2>Recheck DEF Recheck, ScanOn, TInv, DomainsOK
        <5> QED
          BY <3>0, <5>1 DEF TInv, CallShape, IndexOK
      <4>2. CASE u = t
        <5>1. CASE ScanOn(t)
          <6>1. ~Last(t)
            BY <5>1 DEF ScanOn, ConditionTrue, ConditionFalse
          <6>2. pc'[t] = "recheck" /\ i'[t] = i[t] + 1
            BY <5>1, <2>Recheck DEF Recheck, ScanOn, TInv, DomainsOK
          <6>3. i'[t] <= Len(List(t))
            BY <6>1, <6>2, <3>0
          <6> QED
            BY <3>0, <4>2, <6>2, <6>3 DEF CallShape, IndexOK, Ops
        <5>2. CASE ~ScanOn(t)
          <6>1. pc'[t] \in {"result", "commit"} /\ i'[t] = 1
            BY <5>2, <2>Recheck DEF Recheck, TInv, DomainsOK
          <6>2. 1 <= Len(List(t))
            BY <3>0
          <6> QED
            BY <3>0, <4>2, <6>1, <6>2 DEF CallShape, IndexOK, Ops
        <5> QED
          BY <5>1, <5>2
      <4> QED
        BY <4>1, <4>2
    <3> QED
      BY <3>1, <3>2, <3>3 DEF TInv
  <2>Wake. CASE Wake(t)
    <3>1. DomainsOK'
      BY <2>0, <2>Wake, Entry DEF Wake, TInv, DomainsOK, Labels, Statuses
    <3>2. FailureSentinel'
      BY <2>Wake, Entry DEF Wake, TInv, DomainsOK, FailureSentinel, Failed
    <3>3. ASSUME NEW u \in Threads PROVE CallShape(u)'
      BY <2>Wake, Entry DEF Wake, TInv, DomainsOK, CallShape, IndexOK, Ops
    <3> QED
      BY <3>1, <3>2, <3>3 DEF TInv
  <2>Expire. CASE Expire(t)
    <3>1. DomainsOK'
      BY <2>0, <2>Expire, Entry DEF Expire, TInv, DomainsOK, Labels, Statuses
    <3>2. FailureSentinel'
      BY <2>Expire, Entry DEF Expire, TInv, DomainsOK, FailureSentinel, Failed
    <3>3. ASSUME NEW u \in Threads PROVE CallShape(u)'
      BY <2>Expire, Entry DEF Expire, TInv, DomainsOK, CallShape, IndexOK, Ops
    <3> QED
      BY <3>1, <3>2, <3>3 DEF TInv
  <2>Result. CASE Result(t)
    <3>1. DomainsOK'
      <4>1. seen' \in [Threads -> SUBSET Observations]
        BY <2>Result DEF Result, Observation, Observations, TInv, DomainsOK
      <4>2. result' \in [Threads -> Statuses]
        <5>1. CASE Last(t)
          <6>1. \E obs : result' = [result EXCEPT ![t] = StatusOf(call[t].mode, obs)]
            BY <5>1, <2>Result DEF Result, Finish
          <6> QED
            BY <6>1, StatusOfType DEF TInv, DomainsOK
        <5>2. CASE ~Last(t)
          BY <5>2, <2>Result DEF Result, TInv, DomainsOK
        <5> QED
          BY <5>1, <5>2
      <4>3. pc' \in [Threads -> Labels] /\ i' \in [Threads -> Nat \ {0}]
        <5>1. CASE Last(t)
          BY <5>1, <2>Result DEF Result, Finish, TInv, DomainsOK, Labels
        <5>2. CASE ~Last(t)
          BY <5>2, <2>Result DEF Result, TInv, DomainsOK
        <5> QED
          BY <5>1, <5>2
      <4> QED
        BY <4>1, <4>2, <4>3, <2>0, <2>Result DEF Result, TInv, DomainsOK
    <3>2. FailureSentinel'
      BY <2>Result, Entry DEF Result, TInv, DomainsOK, FailureSentinel, Failed, Finish
    <3>0. /\ List(t) \in Seq(Payloads) /\ i[t] \in 1 .. Len(List(t))
          /\ call' = call /\ call[t].op = "wait"
      BY <2>Result, Entry DEF Result, TInv, CallShape
    <3>3. ASSUME NEW u \in Threads PROVE CallShape(u)'
      <4>1. CASE u # t
        <5>1. pc'[u] = pc[u] /\ i'[u] = i[u] /\ seen'[u] = seen[u]
          BY <4>1, <2>Result DEF Result, Finish, TInv, DomainsOK
        <5> QED
          BY <3>0, <5>1 DEF TInv, CallShape, IndexOK
      <4>2. CASE u = t /\ Last(t)
        <5>1. pc'[t] = "done"
          BY <4>2, <2>Result DEF Result, Finish, TInv, DomainsOK
        <5> QED
          BY <4>2, <5>1 DEF CallShape, IndexOK, Ops
      <4>3. CASE u = t /\ ~Last(t)
        <5>1. pc'[t] = "result" /\ i'[t] = i[t] + 1
          BY <4>3, <2>Result DEF Result, TInv, DomainsOK
        <5>2. i'[t] <= Len(List(t))
          BY <4>3, <5>1, <3>0
        <5> QED
          BY <3>0, <4>3, <5>1, <5>2 DEF CallShape, IndexOK, Ops
      <4> QED
        BY <4>1, <4>2, <4>3
    <3> QED
      BY <3>1, <3>2, <3>3 DEF TInv
  <2>Return. CASE Return(t)
    <3>1. DomainsOK'
      <4>1. call' \in [Threads -> Calls]
        BY <2>Return, IdleType DEF Return, TInv, DomainsOK
      <4> QED
        BY <4>1, <2>0, <2>Return DEF Return, TInv, DomainsOK, Labels, Statuses
    <3>2. FailureSentinel'
      BY <2>Return, Entry DEF Return, TInv, DomainsOK, FailureSentinel, Failed
    <3>3. ASSUME NEW u \in Threads PROVE CallShape(u)'
      BY <2>Return, Entry DEF Return, TInv, DomainsOK, CallShape, IndexOK, Ops
    <3> QED
      BY <3>1, <3>2, <3>3 DEF TInv
  <2>start. CASE Start(t)
    <3>1. PICK c \in Calls : /\ Enter(t, c) /\ c.op \in Ops
                             /\ c.op \in {"fail", "query"} => Len(c.list) = 1
                             /\ c.op = "fail" => c.code \in Codes
      BY <2>start, StartEnters
    <3>2. DomainsOK'
      BY <2>0, <3>1 DEF Enter, TInv, DomainsOK, Labels, Ops
    <3>3. FailureSentinel'
      BY <3>1 DEF Enter, TInv, FailureSentinel, Failed
    <3>4. ASSUME NEW u \in Threads PROVE CallShape(u)'
      <4>1. CASE u = t
        <5>1. /\ call'[t] = c /\ pc'[t] = c.op /\ i'[t] = 1 /\ seen'[t] = {}
          BY <3>1 DEF Enter, TInv, DomainsOK, CallShape
        <5>2. c.list \in Seq(Payloads)
          BY DEF Calls
        <5>3. IndexOK(t)'
          <6>1. c.list = <<>> \/ Len(c.list) >= 1
            BY <5>2, NonEmpty
          <6>2. pc'[t] \in Ops /\ (pc'[t] \in {"fail", "query"} => Len(c.list) = 1)
            BY <3>1, <5>1 DEF Ops
          <6>3. List(t)' = c.list /\ i'[t] = 1 /\ Len(c.list) \in Nat
            BY <5>1, <5>2
          <6>4. pc'[t] \in {"await", "prepare", "recheck", "commit", "result", "fail", "query"}
                  => i'[t] <= Len(call'[t].list)
            <7> SUFFICES ASSUME pc'[t] \in {"await", "prepare", "recheck", "commit", "result", "fail", "query"}
                PROVE i'[t] <= Len(call'[t].list)
              OBVIOUS
            <7>1. pc'[t] \in {"fail", "query"}
              BY <6>2 DEF Ops
            <7>2. Len(c.list) = 1
              BY <6>2, <7>1
            <7>3. Len(call'[t].list) = 1
              BY <7>2, <6>3
            <7> QED
              BY <7>3, <6>3
          <6>5. pc'[t] = "signal" => call'[t].list = <<>> \/ i'[t] <= Len(call'[t].list)
            BY <6>1, <6>3
          <6> QED
            BY <6>4, <6>5 DEF IndexOK
        <5> QED
          BY <4>1, <3>1, <5>1, <5>3 DEF CallShape, Ops
      <4>2. CASE u # t
        BY <4>2, <3>1 DEF Enter, TInv, DomainsOK, CallShape, IndexOK
      <4> QED
        BY <4>1, <4>2
    <3> QED
      BY <3>2, <3>3, <3>4 DEF TInv
  <2> QED
    BY <2>1, <2>start, <2>SignalNothing, <2>Signal, <2>SignalRefused, <2>Fail, <2>Post, <2>Query, <2>WaitNothing, <2>WaitOne, <2>WaitMany, <2>AwaitCheck, <2>Prepare, <2>Recheck, <2>Wake, <2>Expire, <2>Result, <2>Return DEF Step
<1> QED
  BY <1>0, <1>h

\* Type correctness, for any number of threads and any lists: no operation of
\* coralnpu_semaphore.c leaves the domain of a variable or indexes a list past
\* its end.
THEOREM TypeCorrect == Spec => []TypeOK
<1>1. TInv => TypeOK
  BY DEF TInv, TypeOK, CallShape
<1> QED
  BY <1>1, InitTInv, StepTInv, PTL DEF Spec

\* The sentinel value and the failure status of a semaphore always agree, so
\* query (which looks at the value) and wait (which looks at the status) report
\* the same failures.
THEOREM SentinelAgrees == Spec => []FailureSentinel
<1>1. TInv => FailureSentinel
  BY DEF TInv
<1> QED
  BY <1>1, InitTInv, StepTInv, PTL DEF Spec

\* No step takes a payload back or alters a failed semaphore.
LEMMA StepForward == TInv /\ [Next]_vars => OnlyForward
<1> SUFFICES ASSUME TInv, [Next]_vars, NEW s \in Semaphores
    PROVE  /\ current_value'[s] >= current_value[s]
           /\ Failed(s) => /\ current_value'[s] = current_value[s]
                           /\ failure_status'[s] = failure_status[s]
  BY DEF OnlyForward
<1> USE MaxValueAssumption
<1>0. current_value[s] \in 0 .. FailureValue /\ FailureValue \in Nat
  BY DEF TInv, DomainsOK, FailureValue
<1>1. CASE UNCHANGED <<current_value, failure_status>>
  BY <1>0, <1>1
<1>2. ASSUME NEW t \in Threads, Signal(t)
      PROVE  /\ current_value'[s] >= current_value[s]
             /\ Failed(s) => /\ current_value'[s] = current_value[s]
                             /\ failure_status'[s] = failure_status[s]
  <2>1. Sem(t) \in Semaphores /\ Value(t) \in 0 .. MaxValue
    BY <1>2, Entry DEF Signal
  <2>2. ~Failed(Sem(t))
    BY <1>2, <2>1 DEF Signal, TInv, FailureSentinel, DomainsOK, FailureValue
  <2> QED
    BY <1>0, <1>2, <2>1, <2>2 DEF Signal, TInv, DomainsOK
<1>3. ASSUME NEW t \in Threads, Fail(t)
      PROVE  /\ current_value'[s] >= current_value[s]
             /\ Failed(s) => /\ current_value'[s] = current_value[s]
                             /\ failure_status'[s] = failure_status[s]
  <2>1. CASE Failed(Sem(t))
    BY <1>0, <1>3, <2>1 DEF Fail
  <2>2. CASE ~Failed(Sem(t))
    BY <1>0, <1>3, <2>2 DEF Fail, TInv, DomainsOK
  <2> QED
    BY <2>1, <2>2
<1> QED
  BY <1>1, <1>2, <1>3
  DEF Next, Start, Step, vars, threadVars, CallSignal, CallFail, CallQuery, CallWait, Enter,
      SignalNothing, SignalRefused, Post, Query, WaitNothing, WaitOne, WaitMany,
      AwaitCheck, Prepare, Recheck, Wake, Expire, Result, Return

\* No race of signals, failing partial multi_signals and fails takes a payload
\* back or alters a failed semaphore.
THEOREM PayloadsOnlyGrow == Spec => Monotone
<1>1. TInv /\ [Next]_vars => [OnlyForward]_vars
  BY StepForward
<1> QED
  BY <1>1, InitTInv, StepTInv, PTL DEF Spec, Monotone

-----------------------------------------------------------------------------
(***************************************************************************)
(* What the waits and queries return, and that Semaphore implements        *)
(* Timeline.                                                               *)
(*                                                                         *)
(* The argument: a payload only grows and a failure is final (StepForward),*)
(* so what a scan has established of the entries behind it stays true, and *)
(* an entry that result_from_state reads as not failed had not failed when *)
(* the condition came true.                                                *)
(***************************************************************************)
Entries(t) == 1 .. Len(List(t))
Reached(t, n) == current_value[List(t)[n][1]] >= List(t)[n][2]
Broken(t, n) == Failed(List(t)[n][1])
Held(t, n) == Reached(t, n) \/ Broken(t, n)

WaitStatuses == {OK, "ABORTED", "DEADLINE_EXCEEDED"}

\* all_signaled is past the entries that are signaled.
ScanInv(t) ==
  pc[t] \in {"await", "recheck"} /\ call[t].mode = "ALL" =>
    \A n \in 1 .. i[t] - 1 : Held(t, n)

\* What result_from_state has observed is still so.
SeenInv(t) ==
  pc[t] = "result" =>
    /\ "failed" \in seen[t] => \E n \in Entries(t) : Broken(t, n)
    /\ "signaled" \in seen[t] => \E n \in Entries(t) : Reached(t, n)
    /\ "failed" \notin seen[t] /\ "unsignaled" \notin seen[t] =>
         \A n \in 1 .. i[t] - 1 : Reached(t, n)

\* A wait without a deadline is in result_from_state because its condition
\* holds, and what it reads cannot say otherwise.
PatientInv(t) ==
  pc[t] = "result" /\ Patient(call[t]) =>
    /\ call[t].mode = "ALL" =>
         "unsignaled" \notin seen[t] /\ \A n \in Entries(t) : Held(t, n)
    /\ call[t].mode = "ANY" =>
         \/ "failed" \in seen[t] \/ "signaled" \in seen[t]
         \/ \E n \in i[t] .. Len(List(t)) : Held(t, n)

\* A wait in result_from_state has lived through an instant at which it was
\* satisfied cleanly, or it will read a failure, or its deadline expired and
\* the only entry it has is the one it reads next.
SnapshotInv(t) ==
  pc[t] = "result" /\ call[t].timeout # "immediate" =>
    \/ snapshot[t] \/ "failed" \in seen[t]
    \/ \E n \in i[t] .. Len(List(t)) : Broken(t, n)
    \/ Len(List(t)) = 1 /\ i[t] = 1 /\ seen[t] = {}

DoneInv(t) ==
  /\ pc[t] = "done" /\ call[t].op = "wait" =>
       /\ result[t] \in WaitStatuses
       /\ result[t] = OK /\ call[t].timeout # "immediate" /\ List(t) # <<>> => snapshot[t]
  /\ pc[t] = "done" /\ call[t].op = "query" =>
       /\ Sem(t) \in Semaphores
       /\ out_value[t] <= current_value[Sem(t)]
       /\ result[t] # OK <=> out_value[t] = FailureValue

WaitInv(t) == ScanInv(t) /\ SeenInv(t) /\ PatientInv(t) /\ SnapshotInv(t) /\ DoneInv(t)

WInv == \A t \in Threads : WaitInv(t)

-----------------------------------------------------------------------------
\* The entries of a list name semaphores and payloads.
LEMMA EntryTypes ==
  ASSUME TInv, NEW t \in Threads
  PROVE  /\ List(t) \in Seq(Payloads) /\ Len(List(t)) \in Nat
         /\ \A n \in Entries(t) :
              List(t)[n][1] \in Semaphores /\ List(t)[n][2] \in 0 .. MaxValue
<1>1. List(t) \in Seq(Payloads) /\ Len(List(t)) \in Nat
  BY DEF TInv, DomainsOK, Calls, List
<1>2. ASSUME NEW n \in Entries(t)
      PROVE List(t)[n][1] \in Semaphores /\ List(t)[n][2] \in 0 .. MaxValue
  <2>1. List(t)[n] \in Payloads
    BY <1>1 DEF Entries
  <2> QED
    BY <2>1 DEF Payloads
<1> QED
  BY <1>1, <1>2

\* What holds of an entry of a list goes on holding.
LEMMA Stays ==
  ASSUME TInv, TInv', OnlyForward, NEW t \in Threads, call'[t] = call[t], NEW n \in Entries(t)
  PROVE  /\ Reached(t, n) => Reached(t, n)'
         /\ Broken(t, n) => Broken(t, n)'
         /\ Held(t, n) => Held(t, n)'
<1> DEFINE s == List(t)[n][1]
           v == List(t)[n][2]
<1>1. s \in Semaphores /\ v \in 0 .. MaxValue
  BY EntryTypes
<1>2. current_value[s] \in Int /\ current_value'[s] \in Int /\ v \in Int
  BY <1>1, MaxValueAssumption DEF TInv, DomainsOK, FailureValue
<1>3. List(t)' = List(t)
  BY DEF List
<1>4. current_value[s] >= v => current_value'[s] >= v
  BY <1>1, <1>2 DEF OnlyForward
<1>5. failure_status[s] # OK => failure_status'[s] # OK
  BY <1>1 DEF OnlyForward, Failed
<1> QED
  BY <1>3, <1>4, <1>5 DEF Reached, Broken, Held, Failed

\* A step of one thread leaves the calls of the others alone.
LEMMA Local ==
  ASSUME TInv, NEW t \in Threads, Start(t) \/ Step(t), NEW u \in Threads, u # t
  PROVE  /\ pc'[u] = pc[u] /\ call'[u] = call[u] /\ i'[u] = i[u]
         /\ seen'[u] = seen[u] /\ result'[u] = result[u] /\ out_value'[u] = out_value[u]
<1> USE DEF TInv, DomainsOK, Goto, Finish
<1>1. CASE Start(t)
  BY <1>1 DEF Start, CallSignal, CallFail, CallQuery, CallWait, Enter
<1>2. CASE SignalNothing(t) \/ Signal(t) \/ SignalRefused(t) \/ Fail(t) \/ Post(t) \/ Query(t)
  BY <1>2 DEF SignalNothing, Signal, SignalRefused, Fail, Post, Query
<1>3. CASE WaitNothing(t) \/ WaitOne(t) \/ WaitMany(t)
  BY <1>3 DEF WaitNothing, WaitOne, WaitMany
<1>4. CASE AwaitCheck(t) \/ Recheck(t)
  BY <1>4 DEF AwaitCheck, Recheck, ScanOn
<1>5. CASE Prepare(t) \/ Wake(t) \/ Expire(t) \/ Result(t) \/ Return(t)
  BY <1>5 DEF Prepare, Wake, Expire, Result, Return
<1> QED
  BY <1>1, <1>2, <1>3, <1>4, <1>5 DEF Step

\* Whatever the other threads do, what a thread knows of its wait stays true.
LEMMA KeepWait ==
  ASSUME TInv, TInv', OnlyForward, NEW u \in Threads, WaitInv(u),
         snapshot[u] /\ pc'[u] # "idle" => snapshot'[u],
         pc'[u] = pc[u], call'[u] = call[u], i'[u] = i[u], seen'[u] = seen[u],
         result'[u] = result[u], out_value'[u] = out_value[u]
  PROVE  WaitInv(u)'
<1>1. List(u)' = List(u) /\ Entries(u)' = Entries(u)
  BY DEF List, Entries
<1>2. i[u] \in Nat \ {0} /\ Len(List(u)) \in Nat
  BY EntryTypes DEF TInv, DomainsOK
<1>3. \A n \in Entries(u) : /\ Reached(u, n) => Reached(u, n)'
                            /\ Broken(u, n) => Broken(u, n)'
                            /\ Held(u, n) => Held(u, n)'
  BY Stays
<1>4. pc[u] \in {"await", "recheck", "result"} => 1 .. i[u] - 1 \subseteq Entries(u)
  BY <1>2 DEF TInv, CallShape, IndexOK, Entries
<1>5. i[u] .. Len(List(u)) \subseteq Entries(u)
  BY <1>2 DEF Entries
<1>6. ScanInv(u)'
  BY <1>1, <1>3, <1>4 DEF WaitInv, ScanInv
<1>7. SeenInv(u)'
  BY <1>1, <1>3, <1>4 DEF WaitInv, SeenInv
<1>8. PatientInv(u)'
  BY <1>1, <1>3, <1>5 DEF WaitInv, PatientInv
<1>9. SnapshotInv(u)'
  BY <1>1, <1>3, <1>5 DEF WaitInv, SnapshotInv
<1>10. DoneInv(u)'
  <2>1. Sem(u)' = Sem(u)
    BY <1>1 DEF Sem
  <2>2. CASE pc[u] = "done" /\ call[u].op = "query"
    <3>1. /\ Sem(u) \in Semaphores /\ out_value[u] <= current_value[Sem(u)]
          /\ result[u] # OK <=> out_value[u] = FailureValue
      BY <2>2 DEF WaitInv, DoneInv
    <3>2. /\ current_value[Sem(u)] \in Int /\ current_value'[Sem(u)] \in Int
          /\ out_value[u] \in Int
      BY <3>1, MaxValueAssumption DEF TInv, DomainsOK, FailureValue
    <3>3. out_value[u] <= current_value'[Sem(u)]
      BY <3>1, <3>2 DEF OnlyForward
    <3> QED
      BY <2>1, <2>2, <3>1, <3>3 DEF DoneInv
  <2>3. CASE ~(pc[u] = "done" /\ call[u].op = "query")
    BY <1>1, <2>3 DEF WaitInv, DoneInv
  <2> QED
    BY <2>2, <2>3
<1> QED
  BY <1>6, <1>7, <1>8, <1>9, <1>10 DEF WaitInv
-----------------------------------------------------------------------------
\* Outside the scans and the results there is nothing to know of a wait.
LEMMA Elsewhere ==
  ASSUME NEW t \in Threads,
         \/ pc'[t] \notin {"await", "recheck", "result", "done"}
         \/ pc'[t] = "done" /\ call'[t].op \notin {"wait", "query"}
  PROVE  WaitInv(t)'
  BY DEF WaitInv, ScanInv, SeenInv, PatientInv, SnapshotInv, DoneInv

\* A scan that starts has nothing behind it.
LEMMA ScanStarts ==
  ASSUME NEW t \in Threads, pc'[t] \in {"await", "recheck"}, i'[t] = 1
  PROVE  WaitInv(t)'
  BY DEF WaitInv, ScanInv, SeenInv, PatientInv, SnapshotInv, DoneInv

\* One more entry of the scan is signaled.
LEMMA ScanOnwards ==
  ASSUME TInv, TInv', OnlyForward, NEW t \in Threads, WaitInv(t),
         pc[t] \in {"await", "recheck"}, ScanOn(t),
         UNCHANGED <<current_value, failure_status, call>>
  PROVE  WaitInv(t)'
<1>1. pc'[t] = pc[t] /\ i'[t] = i[t] + 1 /\ i[t] \in Nat \ {0}
  BY DEF ScanOn, TInv, DomainsOK
<1>2. call[t].mode = "ALL" => Held(t, i[t])
  BY DEF ScanOn, ConditionTrue, ConditionFalse, Held, Reached, Broken, IsSignaled, Sem, Value
<1>3. \A n \in 1 .. i'[t] - 1 : n \in 1 .. i[t] - 1 \/ n = i[t]
  BY <1>1
<1>4. \A n : Held(t, n)' <=> Held(t, n)
  BY DEF Held, Reached, Broken, Failed, List
<1>5. ScanInv(t)'
  BY <1>1, <1>2, <1>3, <1>4 DEF ScanInv, WaitInv
<1> QED
  BY <1>1, <1>5 DEF WaitInv, SeenInv, PatientInv, SnapshotInv, DoneInv

\* Whether a wait is satisfied cleanly, entry by entry.
LEMMA CleanByEntry ==
  ASSUME TInv, NEW t \in Threads, call[t].op = "wait",
         \A n \in Entries(t) : ~Broken(t, n),
         \/ call[t].mode = "ALL" /\ \A n \in Entries(t) : Reached(t, n)
         \/ call[t].mode # "ALL" /\ \E n \in Entries(t) : Reached(t, n)
  PROVE  CleanlySatisfied(t)
<1>1. \A n \in Entries(t) :
        Observation(List(t)[n][1], List(t)[n][2]) =
          IF Reached(t, n) THEN "signaled" ELSE "unsignaled"
  <2> SUFFICES ASSUME NEW n \in Entries(t)
      PROVE Observation(List(t)[n][1], List(t)[n][2]) =
              IF Reached(t, n) THEN "signaled" ELSE "unsignaled"
    OBVIOUS
  <2>1. List(t)[n][1] \in Semaphores /\ List(t)[n][2] \in Int
    BY EntryTypes, MaxValueAssumption
  <2>2. current_value[List(t)[n][1]] \in Int
    BY <2>1, MaxValueAssumption DEF TInv, DomainsOK, FailureValue
  <2> QED
    BY <2>1, <2>2 DEF Observation, Reached, Broken
<1> QED
  BY <1>1 DEF CleanlySatisfied, Entries

\* The condition came true: at that instant the wait is satisfied cleanly, or
\* a semaphore that result_from_state will read has failed.
LEMMA ConditionMet ==
  ASSUME TInv, TInv', OnlyForward, NEW t \in Threads, WaitInv(t), Remember,
         pc[t] \in {"await", "recheck"}, ConditionTrue(t),
         pc'[t] = "result", i'[t] = 1, seen'[t] = {},
         UNCHANGED <<current_value, failure_status, call>>
  PROVE  WaitInv(t)'
<1>0. List(t)' = List(t) /\ Entries(t)' = Entries(t)
  BY DEF List, Entries
<1>1. /\ i[t] \in Entries(t) /\ Entries(t) = 1 .. Len(List(t)) /\ Len(List(t)) \in Nat
      /\ call[t].op = "wait" /\ call[t].mode \in Modes
  BY Entry, EntryTypes DEF Entries, TInv, CallShape, DomainsOK, Calls
<1>2. Held(t, i[t])
  BY DEF ConditionTrue, Held, Reached, Broken, IsSignaled, Sem, Value
<1>3. call[t].mode = "ALL" => \A n \in Entries(t) : Held(t, n)
  <2> SUFFICES ASSUME call[t].mode = "ALL", NEW n \in Entries(t) PROVE Held(t, n)
    OBVIOUS
  <2>1. i[t] >= Len(List(t))
    BY DEF ConditionTrue, Last
  <2>2. n \in 1 .. i[t] - 1 \/ n = i[t]
    BY <1>1, <2>1
  <2> QED
    BY <1>2, <2>2 DEF WaitInv, ScanInv
<1>4. \A n : /\ Held(t, n)' <=> Held(t, n)
             /\ Broken(t, n)' <=> Broken(t, n)
             /\ Reached(t, n)' <=> Reached(t, n)
  BY DEF Held, Reached, Broken, Failed, List
<1>5. (\A n \in Entries(t) : ~Broken(t, n)) => snapshot'[t]
  <2> SUFFICES ASSUME \A n \in Entries(t) : ~Broken(t, n) PROVE snapshot'[t]
    OBVIOUS
  <2>1. CleanlySatisfied(t)
    <3>1. CASE call[t].mode = "ALL"
      BY <1>1, <1>3, <3>1, CleanByEntry DEF Held
    <3>2. CASE call[t].mode # "ALL"
      BY <1>1, <1>2, <3>2, CleanByEntry DEF Held
    <3> QED
      BY <3>1, <3>2
  <2>2. CleanlySatisfied(t)'
    BY <2>1 DEF CleanlySatisfied, Observation, Failed, List
  <2> QED
    BY <2>2 DEF Remember
<1>6. SeenInv(t)'
  BY DEF SeenInv
<1>7. PatientInv(t)'
  BY <1>0, <1>1, <1>2, <1>3, <1>4 DEF PatientInv
<1>8. SnapshotInv(t)'
  BY <1>0, <1>1, <1>4, <1>5 DEF SnapshotInv
<1> QED
  BY <1>6, <1>7, <1>8 DEF WaitInv, ScanInv, DoneInv

-----------------------------------------------------------------------------
\* What the observation of the current entry says of it.
LEMMA ObservationOf ==
  ASSUME TInv, NEW t \in Threads, i[t] \in Entries(t)
  PROVE  LET o == Observation(Sem(t), Value(t))
         IN  /\ o \in Observations
             /\ o = "failed" <=> Broken(t, i[t])
             /\ o = "signaled" <=> Reached(t, i[t]) /\ ~Broken(t, i[t])
             /\ o = "unsignaled" <=> ~Held(t, i[t])
<1>1. Sem(t) \in Semaphores /\ Value(t) \in Int
  BY EntryTypes, MaxValueAssumption DEF Sem, Value
<1>2. current_value[Sem(t)] \in Int
  BY <1>1, MaxValueAssumption DEF TInv, DomainsOK, FailureValue
<1> QED
  BY <1>1, <1>2 DEF Observation, Observations, Held, Reached, Broken, Sem, Value

SeenNow(t) == seen[t] \cup {Observation(Sem(t), Value(t))}

\* One iteration of result_from_state, whether or not it is the last.
LEMMA ReadEntry ==
  ASSUME TInv, NEW t \in Threads, WaitInv(t), pc[t] = "result"
  PROVE  /\ "failed" \in SeenNow(t) => \E n \in Entries(t) : Broken(t, n)
         /\ "signaled" \in SeenNow(t) => \E n \in Entries(t) : Reached(t, n)
         /\ "failed" \notin SeenNow(t) /\ "unsignaled" \notin SeenNow(t) =>
              \A n \in 1 .. i[t] : Reached(t, n)
         /\ Patient(call[t]) /\ call[t].mode = "ALL" =>
              "unsignaled" \notin SeenNow(t) /\ \A n \in Entries(t) : Held(t, n)
         /\ Patient(call[t]) /\ call[t].mode = "ANY" =>
              \/ "failed" \in SeenNow(t) \/ "signaled" \in SeenNow(t)
              \/ \E n \in i[t] + 1 .. Len(List(t)) : Held(t, n)
         /\ call[t].timeout # "immediate" =>
              \/ snapshot[t] \/ "failed" \in SeenNow(t)
              \/ \E n \in i[t] + 1 .. Len(List(t)) : Broken(t, n)
              \/ Len(List(t)) = 1 /\ i[t] = 1 /\ seen[t] = {}
<1> DEFINE o == Observation(Sem(t), Value(t))
<1>1. i[t] \in Entries(t) /\ i[t] \in Nat /\ Len(List(t)) \in Nat
  BY Entry, EntryTypes DEF Entries
<1>2. /\ o \in Observations
      /\ o = "failed" <=> Broken(t, i[t])
      /\ o = "signaled" <=> Reached(t, i[t]) /\ ~Broken(t, i[t])
      /\ o = "unsignaled" <=> ~Held(t, i[t])
  BY <1>1, ObservationOf
<1>3. \A n \in 1 .. i[t] : n \in 1 .. i[t] - 1 \/ n = i[t]
  BY <1>1
<1>4. \A n \in i[t] .. Len(List(t)) : n \in i[t] + 1 .. Len(List(t)) \/ n = i[t]
  BY <1>1
<1>5. SeenInv(t) /\ PatientInv(t) /\ SnapshotInv(t)
  BY DEF WaitInv
<1> HIDE DEF o
<1>6. SeenNow(t) = seen[t] \cup {o}
  BY DEF SeenNow, o
<1>7. "failed" \in SeenNow(t) => \E n \in Entries(t) : Broken(t, n)
  BY <1>1, <1>2, <1>5, <1>6 DEF SeenInv
<1>8. "signaled" \in SeenNow(t) => \E n \in Entries(t) : Reached(t, n)
  BY <1>1, <1>2, <1>5, <1>6 DEF SeenInv
<1>9. "failed" \notin SeenNow(t) /\ "unsignaled" \notin SeenNow(t) =>
         \A n \in 1 .. i[t] : Reached(t, n)
  BY <1>2, <1>3, <1>5, <1>6 DEF SeenInv, Observations
<1>10. Patient(call[t]) /\ call[t].mode = "ALL" =>
         "unsignaled" \notin SeenNow(t) /\ \A n \in Entries(t) : Held(t, n)
  BY <1>1, <1>2, <1>5, <1>6 DEF PatientInv
<1>11. Patient(call[t]) /\ call[t].mode = "ANY" =>
         \/ "failed" \in SeenNow(t) \/ "signaled" \in SeenNow(t)
         \/ \E n \in i[t] + 1 .. Len(List(t)) : Held(t, n)
  BY <1>2, <1>4, <1>5, <1>6 DEF PatientInv, Observations
<1>12. call[t].timeout # "immediate" =>
         \/ snapshot[t] \/ "failed" \in SeenNow(t)
         \/ \E n \in i[t] + 1 .. Len(List(t)) : Broken(t, n)
         \/ Len(List(t)) = 1 /\ i[t] = 1 /\ seen[t] = {}
  BY <1>2, <1>4, <1>5, <1>6 DEF SnapshotInv
<1> QED
  BY <1>7, <1>8, <1>9, <1>10, <1>11, <1>12

\* result_from_state goes on to the next entry.
LEMMA ReadOn ==
  ASSUME TInv, TInv', NEW t \in Threads, WaitInv(t), Remember, Result(t), ~Last(t)
  PROVE  WaitInv(t)'
<1>1. /\ pc'[t] = "result" /\ i'[t] = i[t] + 1 /\ seen'[t] = SeenNow(t)
      /\ call' = call /\ UNCHANGED <<current_value, failure_status>> /\ pc[t] = "result"
  BY DEF Result, SeenNow, TInv, DomainsOK
<1>2. i[t] \in Nat \ {0} /\ Len(List(t)) \in Nat /\ i[t] < Len(List(t))
  BY EntryTypes DEF TInv, DomainsOK, Last
<1>3. List(t)' = List(t) /\ Entries(t)' = Entries(t)
  BY <1>1 DEF List, Entries
<1>4. \A n : /\ Held(t, n)' <=> Held(t, n)
             /\ Broken(t, n)' <=> Broken(t, n)
             /\ Reached(t, n)' <=> Reached(t, n)
  BY <1>1, <1>3 DEF Held, Reached, Broken, Failed
<1>5. snapshot[t] => snapshot'[t]
  BY <1>1 DEF Remember
<1>6. i'[t] - 1 = i[t] /\ Len(List(t)) # 1
  <2> DEFINE len == Len(List(t))
             at == i[t]
  <2>1. at \in Nat /\ at # 0 /\ len \in Nat /\ at < len
    BY <1>2
  <2>2. i'[t] = i[t] + 1 /\ i[t] \in Int
    BY <1>1, <1>2
  <2> HIDE DEF len, at
  <2>3. len # 1
    BY <2>1
  <2>4. Len(List(t)) # 1
    BY <2>3 DEF len
  <2> QED
    BY <2>2, <2>4
<1>7. SeenInv(t)'
  BY <1>1, <1>3, <1>4, <1>6, ReadEntry DEF SeenInv
<1>8. PatientInv(t)'
  BY <1>1, <1>3, <1>4, ReadEntry DEF PatientInv
<1>9. SnapshotInv(t)'
  BY <1>1, <1>3, <1>4, <1>5, <1>6, ReadEntry DEF SnapshotInv
<1> QED
  BY <1>1, <1>7, <1>8, <1>9 DEF WaitInv, ScanInv, DoneInv

\* The status that the last iteration makes of what was seen is deserved.
LEMMA Verdict ==
  ASSUME TInv, NEW t \in Threads, WaitInv(t), pc[t] = "result", Last(t)
  PROVE  LET status == StatusOf(call[t].mode, SeenNow(t))
         IN  /\ status \in WaitStatuses
             /\ status = OK =>
                  \/ call[t].mode = "ALL" /\ \A n \in Entries(t) : Reached(t, n)
                  \/ call[t].mode = "ANY" /\ \E n \in Entries(t) : Reached(t, n)
             /\ status = "ABORTED" => \E n \in Entries(t) : Broken(t, n)
             /\ status = "DEADLINE_EXCEEDED" => ~Patient(call[t])
             /\ status = OK /\ call[t].timeout # "immediate" =>
                  snapshot[t] \/ CleanlySatisfied(t)
<1> DEFINE status == StatusOf(call[t].mode, SeenNow(t))
<1>1. i[t] = Len(List(t)) /\ i[t] \in Nat \ {0} /\ Entries(t) = 1 .. i[t]
      /\ i[t] \in Entries(t)
  BY Entry, EntryTypes DEF Last, Entries
<1>2. i[t] + 1 .. Len(List(t)) = {}
  BY <1>1
<1>3. call[t].mode \in Modes /\ call[t].op = "wait"
  BY DEF TInv, DomainsOK, Calls, CallShape
<1>4. status \in WaitStatuses
  BY DEF StatusOf, WaitStatuses
<1>5. status = OK =>
        /\ "failed" \notin SeenNow(t)
        /\ \/ call[t].mode = "ALL" /\ "unsignaled" \notin SeenNow(t)
           \/ call[t].mode = "ANY" /\ "signaled" \in SeenNow(t)
  BY DEF StatusOf, OK
<1>6. status = OK =>
        \/ call[t].mode = "ALL" /\ \A n \in Entries(t) : Reached(t, n)
        \/ call[t].mode = "ANY" /\ \E n \in Entries(t) : Reached(t, n)
  BY <1>1, <1>5, ReadEntry
<1>7. status = "ABORTED" => \E n \in Entries(t) : Broken(t, n)
  BY ReadEntry DEF StatusOf, OK
<1>8. status = "DEADLINE_EXCEEDED" => ~Patient(call[t])
  <2>1. status = "DEADLINE_EXCEEDED" =>
          /\ "failed" \notin SeenNow(t)
          /\ call[t].mode = "ALL" => "unsignaled" \in SeenNow(t)
          /\ call[t].mode = "ANY" => "signaled" \notin SeenNow(t)
    BY DEF StatusOf, OK
  <2> QED
    BY <1>2, <1>3, <2>1, ReadEntry DEF Modes
<1>9. status = OK /\ call[t].timeout # "immediate" => snapshot[t] \/ CleanlySatisfied(t)
  <2> SUFFICES ASSUME status = OK, call[t].timeout # "immediate", ~snapshot[t]
      PROVE CleanlySatisfied(t)
    OBVIOUS
  <2>1. Len(List(t)) = 1 /\ i[t] = 1 /\ seen[t] = {}
    BY <1>2, <1>5, ReadEntry
  <2>2. SeenNow(t) = {Observation(Sem(t), Value(t))}
    BY <2>1 DEF SeenNow
  <2>3. Reached(t, 1) /\ ~Broken(t, 1)
    BY <1>1, <1>5, <2>1, <2>2, ObservationOf DEF Observations
  <2>4. Entries(t) = {1}
    BY <2>1 DEF Entries
  <2> QED
    BY <1>3, <2>3, <2>4, CleanByEntry
<1> HIDE DEF status
<1> QED
  BY <1>4, <1>6, <1>7, <1>8, <1>9 DEF status

-----------------------------------------------------------------------------
\* A thread that takes a step knows afterwards what WaitInv says of it.
LEMMA OwnStep ==
  ASSUME TInv, TInv', OnlyForward, NEW t \in Threads, WaitInv(t), Remember,
         Start(t) \/ Step(t)
  PROVE  WaitInv(t)'
<1> USE DEF Goto
<1>Start. CASE Start(t)
  <2>1. PICK c : Enter(t, c) /\ c.op \in Ops
    BY <1>Start, StartEnters
  <2> QED
    BY <2>1, Elsewhere DEF Enter, Ops, TInv, DomainsOK
<1>Signals. CASE SignalNothing(t) \/ Signal(t) \/ SignalRefused(t) \/ Fail(t) \/ Post(t)
  <2>1. pc'[t] \in {"signal", "post", "done"} /\ call' = call
    BY <1>Signals DEF SignalNothing, Signal, SignalRefused, Fail, Post, Finish, TInv, DomainsOK
  <2>2. call[t].op \in {"signal", "fail"}
    BY <1>Signals DEF SignalNothing, Signal, SignalRefused, Fail, Post, TInv, CallShape, Ops
  <2> QED
    BY <2>1, <2>2, Elsewhere
<1>Query. CASE Query(t)
  <2>1. /\ pc'[t] = "done" /\ call' = call /\ i' = i /\ call[t].op = "query"
        /\ out_value'[t] = current_value[Sem(t)] /\ current_value' = current_value
        /\ result'[t] = IF current_value[Sem(t)] >= FailureValue
                       THEN failure_status[Sem(t)] ELSE OK
    BY <1>Query DEF Query, Finish, TInv, DomainsOK, CallShape, Ops
  <2>2. Sem(t) \in Semaphores /\ Sem(t)' = Sem(t)
    BY <1>Query, <2>1, Entry DEF Query, Sem, List
  <2>3. /\ current_value[Sem(t)] \in 0 .. FailureValue /\ FailureValue \in Nat
        /\ failure_status[Sem(t)] # OK <=> current_value[Sem(t)] = FailureValue
    BY <2>2, MaxValueAssumption DEF TInv, DomainsOK, FailureSentinel, Failed, FailureValue
  <2>4. DoneInv(t)'
    BY <2>1, <2>2, <2>3 DEF DoneInv, FailureValue
  <2> QED
    BY <2>1, <2>4 DEF WaitInv, ScanInv, SeenInv, PatientInv, SnapshotInv
<1>WaitNothing. CASE WaitNothing(t)
  <2>1. /\ pc'[t] = "done" /\ call' = call /\ call[t].op = "wait" /\ List(t)' = <<>>
        /\ result'[t] = OK
    BY <1>WaitNothing DEF WaitNothing, Finish, TInv, DomainsOK, CallShape, Ops, List
  <2> QED
    BY <2>1 DEF WaitInv, ScanInv, SeenInv, PatientInv, SnapshotInv, DoneInv, WaitStatuses
<1>WaitOne. CASE WaitOne(t)
  <2>1. /\ call' = call /\ i' = i /\ i[t] = 1 /\ call[t].op = "wait" /\ Len(List(t)) = 1
        /\ UNCHANGED <<current_value, failure_status>> /\ call[t].mode \in Modes
    BY <1>WaitOne DEF WaitOne, TInv, CallShape, DomainsOK, Calls, Ops
  <2>2. CASE pc'[t] = "await"
    BY <2>1, <2>2, ScanStarts
  <2>3. CASE pc'[t] # "await"
    <3>1. /\ pc'[t] = "done"
          /\ result'[t] = StatusOf(call[t].mode, {Observation(Sem(t), Value(t))})
      BY <1>WaitOne, <2>3 DEF WaitOne, Finish, TInv, DomainsOK
    <3>2. result'[t] \in WaitStatuses
      BY <3>1 DEF StatusOf, WaitStatuses
    <3>3. result'[t] = OK => snapshot'[t]
      <4> SUFFICES ASSUME result'[t] = OK PROVE snapshot'[t]
        OBVIOUS
      <4>1. Entries(t) = {1}
        BY <2>1 DEF Entries
      <4>2. Observation(Sem(t), Value(t)) = "signaled"
        BY <2>1, <3>1, <4>1, ObservationOf DEF StatusOf, OK, Observations
      <4>3. Reached(t, 1) /\ ~Broken(t, 1)
        BY <2>1, <4>1, <4>2, ObservationOf
      <4>4. CleanlySatisfied(t)
        BY <2>1, <4>1, <4>3, CleanByEntry
      <4>5. CleanlySatisfied(t)'
        BY <2>1, <4>4 DEF CleanlySatisfied, Observation, Failed, List
      <4> QED
        BY <3>1, <4>5 DEF Remember
    <3> QED
      BY <2>1, <3>1, <3>2, <3>3 DEF WaitInv, ScanInv, SeenInv, PatientInv, SnapshotInv, DoneInv
  <2> QED
    BY <2>2, <2>3
<1>WaitMany. CASE WaitMany(t)
  <2>1. /\ call' = call /\ i'[t] = 1 /\ seen'[t] = {} /\ pc'[t] \in {"await", "result"}
        /\ pc'[t] = "result" => call[t].timeout = "immediate"
    BY <1>WaitMany DEF WaitMany, TInv, CallShape, DomainsOK, Ops
  <2>2. pc'[t] = "result" => ~Patient(call'[t]) /\ call'[t].timeout = "immediate"
    BY <2>1 DEF Patient
  <2>3. CASE pc'[t] = "result"
    BY <2>1, <2>2, <2>3 DEF WaitInv, ScanInv, SeenInv, PatientInv, SnapshotInv, DoneInv
  <2> QED
    BY <2>1, <2>3, ScanStarts
<1>AwaitCheck. CASE AwaitCheck(t)
  <2>1. pc[t] = "await" /\ seen' = seen /\ seen[t] = {} /\ call[t].timeout # "immediate"
    BY <1>AwaitCheck DEF AwaitCheck, TInv, CallShape
  <2>2. CASE ScanOn(t)
    BY <1>AwaitCheck, <2>1, <2>2, ScanOnwards DEF AwaitCheck
  <2>3. CASE ConditionTrue(t) /\ ~ScanOn(t)
    <3>1. CASE pc'[t] = "result"
      <4>1. i'[t] = 1 /\ UNCHANGED <<current_value, failure_status, call>>
        BY <1>AwaitCheck, <2>3, <3>1 DEF AwaitCheck, TInv, DomainsOK
      <4> QED
        BY <2>1, <2>3, <3>1, <4>1, ConditionMet
    <3>2. CASE pc'[t] # "result"
      BY <1>AwaitCheck, <2>1, <2>3, <3>2, Elsewhere DEF AwaitCheck, TInv, DomainsOK
    <3> QED
      BY <3>1, <3>2
  <2>4. CASE ~ConditionTrue(t) /\ ~ScanOn(t)
    <3>1. pc'[t] \in {"prepare", "commit"}
      BY <1>AwaitCheck, <2>4 DEF AwaitCheck, TInv, DomainsOK
    <3> QED
      BY <3>1, Elsewhere
  <2> QED
    BY <2>2, <2>3, <2>4
<1>Recheck. CASE Recheck(t)
  <2>1. pc[t] = "recheck" /\ seen' = seen /\ seen[t] = {} /\ call[t].timeout # "immediate"
    BY <1>Recheck DEF Recheck, TInv, CallShape
  <2>2. CASE ScanOn(t)
    BY <1>Recheck, <2>1, <2>2, ScanOnwards DEF Recheck
  <2>3. CASE ConditionTrue(t) /\ ~ScanOn(t)
    <3>1. CASE pc'[t] = "result"
      <4>1. i'[t] = 1 /\ UNCHANGED <<current_value, failure_status, call>>
        BY <1>Recheck, <2>3, <3>1 DEF Recheck, TInv, DomainsOK
      <4> QED
        BY <2>1, <2>3, <3>1, <4>1, ConditionMet
    <3>2. CASE pc'[t] # "result"
      BY <1>Recheck, <2>1, <2>3, <3>2, Elsewhere DEF Recheck, TInv, DomainsOK
    <3> QED
      BY <3>1, <3>2
  <2>4. CASE ~ConditionTrue(t) /\ ~ScanOn(t)
    <3>1. pc'[t] \in {"prepare", "commit"}
      BY <1>Recheck, <2>4 DEF Recheck, TInv, DomainsOK
    <3> QED
      BY <3>1, Elsewhere
  <2> QED
    BY <2>2, <2>3, <2>4
<1>Prepare. CASE Prepare(t)
  BY <1>Prepare, ScanStarts DEF Prepare, TInv, DomainsOK, CallShape
<1>Wake. CASE Wake(t)
  BY <1>Wake, Elsewhere DEF Wake, TInv, DomainsOK
<1>Expire. CASE Expire(t)
  <2>1. /\ call' = call /\ i'[t] = 1 /\ seen'[t] = {} /\ pc'[t] = "result"
        /\ AwaitTimeout(call[t]) = "finite"
    BY <1>Expire DEF Expire, TInv, CallShape, DomainsOK
  <2>2. Len(call[t].list) = 1
    BY <2>1 DEF AwaitTimeout
  <2>3. call[t].timeout = "finite"
    BY <2>1, <2>2 DEF AwaitTimeout
  <2>4. ~Patient(call'[t]) /\ Len(List(t)') = 1
    BY <2>1, <2>2, <2>3 DEF Patient, List
  <2> QED
    BY <2>1, <2>4 DEF WaitInv, ScanInv, SeenInv, PatientInv, SnapshotInv, DoneInv
<1>Result. CASE Result(t)
  <2>1. CASE ~Last(t)
    BY <1>Result, <2>1, ReadOn
  <2>2. CASE Last(t)
    <3>1. /\ pc[t] = "result" /\ pc'[t] = "done" /\ call' = call
          /\ result'[t] = StatusOf(call[t].mode, SeenNow(t))
          /\ UNCHANGED <<current_value, failure_status>> /\ call[t].op = "wait"
      BY <1>Result, <2>2 DEF Result, Finish, SeenNow, TInv, DomainsOK, CallShape
    <3>2. result'[t] = OK /\ call[t].timeout # "immediate" => snapshot'[t]
      <4>1. CleanlySatisfied(t) => CleanlySatisfied(t)'
        BY <3>1 DEF CleanlySatisfied, Observation, Failed, List
      <4> QED
        BY <2>2, <3>1, <4>1, Verdict DEF Remember
    <3>3. result'[t] \in WaitStatuses
      BY <2>2, <3>1, Verdict
    <3> QED
      BY <3>1, <3>2, <3>3 DEF WaitInv, ScanInv, SeenInv, PatientInv, SnapshotInv, DoneInv
  <2> QED
    BY <2>1, <2>2
<1>Return. CASE Return(t)
  BY <1>Return, Elsewhere DEF Return, TInv, DomainsOK
<1> QED
  BY <1>Start, <1>Signals, <1>Query, <1>WaitNothing, <1>WaitOne, <1>WaitMany, <1>AwaitCheck,
     <1>Recheck, <1>Prepare, <1>Wake, <1>Expire, <1>Result, <1>Return DEF Step

-----------------------------------------------------------------------------
SInv == TInv /\ WInv

\* Idle threads know nothing.
LEMMA InitSInv == Init => SInv
<1> SUFFICES ASSUME Init, NEW t \in Threads PROVE WaitInv(t)
  BY InitTInv DEF SInv, WInv
<1>1. pc[t] = "idle"
  BY DEF Init
<1> QED
  BY <1>1 DEF WaitInv, ScanInv, SeenInv, PatientInv, SnapshotInv, DoneInv

\* Every step of every thread keeps what all threads know of their waits.
LEMMA StepSInv == SInv /\ [Next]_vars => SInv'
<1> SUFFICES ASSUME SInv, [Next]_vars PROVE SInv'
  OBVIOUS
<1>1. TInv /\ TInv' /\ OnlyForward
  BY StepTInv, StepForward DEF SInv
<1>2. ASSUME NEW u \in Threads PROVE WaitInv(u)'
  <2>1. CASE UNCHANGED vars
    BY <1>1, <2>1, KeepWait DEF SInv, WInv, vars, threadVars
  <2>2. CASE Next
    <3>1. PICK t \in Threads : Start(t) \/ Step(t)
      BY <2>2 DEF Next
    <3>2. Remember
      BY <2>2 DEF Next
    <3>3. CASE u = t
      BY <1>1, <3>1, <3>2, <3>3, OwnStep DEF SInv, WInv
    <3>4. CASE u # t
      <4>1. snapshot[u] /\ pc'[u] # "idle" => snapshot'[u]
        BY <3>2 DEF Remember
      <4> QED
        BY <1>1, <3>1, <3>4, <4>1, Local, KeepWait DEF SInv, WInv
    <3> QED
      BY <3>3, <3>4
  <2> QED
    BY <2>1, <2>2
<1> QED
  BY <1>1, <1>2 DEF SInv, WInv

\* A wait with a timeout, on any list and with any threads signalling, failing
\* and waiting at the same time, returns OK only if its semaphores satisfied it
\* with no failure among them at one instant, although multi_wait evaluates the
\* condition and result_from_state reads the result entry by entry.
THEOREM OkWaitsAreSnapshots == Spec => []AwaitedOkIsSnapshot
<1>1. SInv => AwaitedOkIsSnapshot
  BY DEF SInv, WInv, WaitInv, DoneInv, AwaitedOkIsSnapshot
<1> QED
  BY <1>1, InitSInv, StepSInv, PTL DEF Spec

\* What query returned is a lower bound of the payload ever after, and it
\* reported a failure exactly when it returned the sentinel.
THEOREM QueriesAreLowerBounds == Spec => []QueryIsLowerBound
<1>1. SInv => QueryIsLowerBound
  BY DEF SInv, WInv, WaitInv, DoneInv, QueryIsLowerBound
<1> QED
  BY <1>1, InitSInv, StepSInv, PTL DEF Spec

-----------------------------------------------------------------------------
(* Semaphore implements Timeline.                                          *)

WaitOf(c) ==
  IF c.op = "wait" THEN [mode |-> c.mode, list |-> c.list, patient |-> Patient(c)]
  ELSE NoWait

OutcomeOf(c, label, status) ==
  IF c.op = "wait" /\ label = "done" THEN status ELSE "pending"

\* The abstract wait and outcome of a thread are those of its call.
LEMMA AbsShape ==
  ASSUME NEW t \in Threads
  PROVE  /\ AbsWait[t] = WaitOf(call[t]) /\ AbsWait'[t] = WaitOf(call'[t])
         /\ AbsOutcome[t] = OutcomeOf(call[t], pc[t], result[t])
         /\ AbsOutcome'[t] = OutcomeOf(call'[t], pc'[t], result'[t])
  BY DEF AbsWait, AbsOutcome, WaitOf, OutcomeOf, List

\* A step changes at most the abstract wait and outcome of its thread.
LEMMA AbsFrame ==
  ASSUME TInv, NEW t \in Threads, Start(t) \/ Step(t)
  PROVE  /\ AbsWait' = [AbsWait EXCEPT ![t] = WaitOf(call'[t])]
         /\ AbsOutcome' = [AbsOutcome EXCEPT ![t] = OutcomeOf(call'[t], pc'[t], result'[t])]
<1>1. \A u \in Threads : u # t =>
        AbsWait'[u] = AbsWait[u] /\ AbsOutcome'[u] = AbsOutcome[u]
  <2> SUFFICES ASSUME NEW u \in Threads, u # t
      PROVE AbsWait'[u] = AbsWait[u] /\ AbsOutcome'[u] = AbsOutcome[u]
    OBVIOUS
  <2>1. pc'[u] = pc[u] /\ call'[u] = call[u] /\ result'[u] = result[u]
    BY Local
  <2> QED
    BY <2>1, AbsShape
<1>2. /\ AbsWait' = [u \in Threads |-> AbsWait'[u]]
      /\ AbsOutcome' = [u \in Threads |-> AbsOutcome'[u]]
      /\ AbsWait = [u \in Threads |-> AbsWait[u]]
      /\ AbsOutcome = [u \in Threads |-> AbsOutcome[u]]
  BY DEF AbsWait, AbsOutcome
<1>3. AbsWait'[t] = WaitOf(call'[t])
  BY AbsShape
<1>4. AbsOutcome'[t] = OutcomeOf(call'[t], pc'[t], result'[t])
  BY AbsShape
<1>5. AbsWait' = [AbsWait EXCEPT ![t] = WaitOf(call'[t])]
  BY <1>1, <1>2, <1>3
<1>6. AbsOutcome' = [AbsOutcome EXCEPT ![t] = OutcomeOf(call'[t], pc'[t], result'[t])]
  BY <1>1, <1>2, <1>4
<1> QED
  BY <1>5, <1>6

\* A step that neither moves a semaphore nor begins, ends or returns from a
\* wait is invisible.
LEMMA Invisible ==
  ASSUME TInv, NEW t \in Threads, Start(t) \/ Step(t),
         WaitOf(call'[t]) = WaitOf(call[t]),
         OutcomeOf(call'[t], pc'[t], result'[t]) = OutcomeOf(call[t], pc[t], result[t])
  PROVE  UNCHANGED <<AbsWait, AbsOutcome>>
<1>1. /\ AbsWait = [u \in Threads |-> AbsWait[u]]
      /\ AbsOutcome = [u \in Threads |-> AbsOutcome[u]]
  BY DEF AbsWait, AbsOutcome
<1>2. AbsWait' = [AbsWait EXCEPT ![t] = AbsWait[t]]
  BY AbsFrame, AbsShape
<1>3. AbsOutcome' = [AbsOutcome EXCEPT ![t] = AbsOutcome[t]]
  BY AbsFrame, AbsShape
<1> QED
  BY <1>1, <1>2, <1>3

\* Fresh semaphores and idle threads are an initial state of Timeline.
LEMMA InitMaps == Init => Abs!Init
<1> SUFFICES ASSUME Init PROVE Abs!Init
  OBVIOUS
<1>1. AbsWait = [t \in Threads |-> Abs!NoWait]
  BY DEF Init, AbsWait, Idle, NoWait, Abs!NoWait
<1>2. AbsOutcome = [t \in Threads |-> "pending"]
  BY DEF Init, AbsOutcome, Idle
<1> QED
  BY <1>1, <1>2 DEF Init, Abs!Init, OK

\* A wait that concludes with a status it deserves is a Conclude of Timeline.
LEMMA Concludes ==
  ASSUME TInv, NEW t \in Threads, Step(t), call' = call,
         call[t].op = "wait", pc[t] # "done", pc'[t] = "done",
         UNCHANGED <<current_value, failure_status>>,
         \/ result'[t] = OK /\ List(t) = <<>>
         \/ result'[t] = OK /\ call[t].mode = "ALL" /\ \A n \in Entries(t) : Reached(t, n)
         \/ result'[t] = OK /\ call[t].mode = "ANY" /\ \E n \in Entries(t) : Reached(t, n)
         \/ result'[t] = "ABORTED" /\ \E n \in Entries(t) : Broken(t, n)
         \/ result'[t] = "DEADLINE_EXCEEDED" /\ ~Patient(call[t])
  PROVE  Abs!Next
<1> DEFINE w == [mode |-> call[t].mode, list |-> call[t].list, patient |-> Patient(call[t])]
<1>1. AbsWait[t] = w /\ AbsOutcome[t] = "pending"
  BY AbsShape DEF WaitOf, OutcomeOf
<1>2. w # Abs!NoWait
  BY DEF Abs!NoWait, TInv, DomainsOK, Calls, Modes
<1>3. AbsOutcome' = [AbsOutcome EXCEPT ![t] = result'[t]]
  BY AbsFrame DEF OutcomeOf
<1>4. AbsWait' = AbsWait
  BY DEF AbsWait, List
<1>5. \/ Abs!Satisfied(w) /\ result'[t] = "OK"
      \/ Abs!Broken(w) /\ result'[t] = "ABORTED"
      \/ ~w.patient /\ result'[t] = "DEADLINE_EXCEEDED"
  BY DEF Abs!Satisfied, Abs!Broken, Entries, Reached, Broken, Failed, List, OK
<1> HIDE DEF w
<1>6. Abs!Conclude(t)
  BY <1>1, <1>2, <1>3, <1>4, <1>5 DEF Abs!Conclude
<1> QED
  BY <1>6 DEF Abs!Next

\* Every step of a thread is a step of Timeline or invisible to it.
LEMMA StepMaps ==
  ASSUME SInv, NEW t \in Threads, Start(t) \/ Step(t)
  PROVE  [Abs!Next]_(Abs!vars)
<1> USE DEF Goto
<1>t. TInv /\ WaitInv(t)
  BY DEF SInv, WInv
<1>stutter. ASSUME UNCHANGED <<current_value, failure_status>>,
                   WaitOf(call'[t]) = WaitOf(call[t]),
                   OutcomeOf(call'[t], pc'[t], result'[t]) = OutcomeOf(call[t], pc[t], result[t])
            PROVE  UNCHANGED Abs!vars
  BY <1>t, <1>stutter, Invisible DEF Abs!vars
<1>Start. CASE Start(t)
  <2>1. PICK c \in Calls : /\ Enter(t, c) /\ c.op \in Ops
                           /\ c.op = "wait" => c.list \in WaitLists
    BY <1>Start, StartEnters
  <2>2. /\ call'[t] = c /\ pc'[t] = c.op /\ result' = result /\ call[t] = Idle
        /\ UNCHANGED <<current_value, failure_status>>
    BY <1>t, <2>1 DEF Enter, TInv, DomainsOK, CallShape
  <2>3. WaitOf(call[t]) = NoWait /\ OutcomeOf(call[t], pc[t], result[t]) = "pending"
    BY <2>2 DEF WaitOf, OutcomeOf, Idle
  <2>4. OutcomeOf(call'[t], pc'[t], result'[t]) = "pending"
    BY <2>1, <2>2 DEF OutcomeOf, Ops
  <2>5. CASE c.op # "wait"
    <3>1. WaitOf(call'[t]) = NoWait
      BY <2>2, <2>5 DEF WaitOf
    <3> QED
      BY <1>stutter, <2>2, <2>3, <2>4, <3>1
  <2>6. CASE c.op = "wait"
    <3>1. WaitOf(c) = [mode |-> c.mode, list |-> c.list, patient |-> Patient(c)]
      BY <2>6 DEF WaitOf
    <3>2. WaitOf(c) \in Abs!WaitRequests
      BY <2>1, <2>6, <3>1 DEF Abs!WaitRequests, Calls, Modes, Patient
    <3>3. AbsWait' = [AbsWait EXCEPT ![t] = WaitOf(c)] /\ AbsWait[t] = Abs!NoWait
      BY <1>t, <1>Start, <2>2, <2>3, AbsFrame, AbsShape DEF NoWait, Abs!NoWait
    <3>4. AbsOutcome' = AbsOutcome
      <4>1. AbsOutcome' = [AbsOutcome EXCEPT ![t] = AbsOutcome[t]]
        BY <1>t, <1>Start, <2>3, <2>4, AbsFrame, AbsShape
      <4>2. AbsOutcome = [u \in Threads |-> AbsOutcome[u]]
        BY DEF AbsOutcome
      <4> QED
        BY <4>1, <4>2
    <3>5. Abs!Begin(t)
      BY <2>2, <3>2, <3>3, <3>4 DEF Abs!Begin
    <3> QED
      BY <3>5 DEF Abs!Next
  <2> QED
    BY <2>5, <2>6
<1>Signal. CASE Signal(t)
  <2>1. /\ Sem(t) \in Semaphores /\ Value(t) \in 0 .. MaxValue
        /\ call[t].op = "signal" /\ call' = call
    BY <1>t, <1>Signal, Entry DEF Signal, TInv, CallShape, Ops
  <2>2. UNCHANGED <<AbsWait, AbsOutcome>>
    BY <1>t, <1>Signal, <2>1, Invisible DEF OutcomeOf, Step
  <2>3. Abs!Advance(Sem(t))
    BY <1>Signal, <2>1, <2>2 DEF Signal, Abs!Advance
  <2> QED
    BY <2>1, <2>3 DEF Abs!Next
<1>Fail. CASE Fail(t)
  <2>1. /\ Sem(t) \in Semaphores /\ call[t].op = "fail" /\ call' = call
        /\ call[t].code \in Codes
    BY <1>t, <1>Fail, Entry DEF Fail, TInv, CallShape, Ops
  <2>2. UNCHANGED <<AbsWait, AbsOutcome>>
    BY <1>t, <1>Fail, <2>1, Invisible DEF OutcomeOf, Step
  <2>3. CASE Failed(Sem(t))
    BY <1>Fail, <2>2, <2>3 DEF Fail, Abs!vars
  <2>4. CASE ~Failed(Sem(t))
    <3>1. Abs!Fail(Sem(t))
      BY <1>Fail, <2>1, <2>2, <2>4 DEF Fail, Failed, FailureValue, OK, Abs!Fail, Abs!FailureValue
    <3> QED
      BY <2>1, <3>1 DEF Abs!Next
  <2> QED
    BY <2>3, <2>4
<1>Quiet. CASE SignalNothing(t) \/ SignalRefused(t) \/ Post(t) \/ Query(t)
  <2>1. call' = call /\ UNCHANGED <<current_value, failure_status>>
    BY <1>Quiet DEF SignalNothing, SignalRefused, Post, Query
  <2>2. call[t].op # "wait"
    BY <1>t, <1>Quiet DEF SignalNothing, SignalRefused, Post, Query, TInv, CallShape, Ops
  <2> QED
    BY <1>stutter, <2>1, <2>2 DEF OutcomeOf
<1>Inside. CASE \/ WaitMany(t) \/ AwaitCheck(t) \/ Prepare(t) \/ Recheck(t)
                \/ Wake(t) \/ Expire(t)
  <2>1. call' = call /\ UNCHANGED <<current_value, failure_status>>
    BY <1>Inside DEF WaitMany, AwaitCheck, Prepare, Recheck, Wake, Expire
  <2>2. pc[t] # "done" /\ pc'[t] # "done"
    BY <1>t, <1>Inside DEF WaitMany, AwaitCheck, Prepare, Recheck, Wake, Expire, ScanOn, TInv, DomainsOK
  <2> QED
    BY <1>stutter, <2>1, <2>2 DEF OutcomeOf
<1>WaitNothing. CASE WaitNothing(t)
  <2>1. /\ pc'[t] = "done" /\ call' = call /\ call[t].op = "wait" /\ List(t) = <<>>
        /\ result'[t] = OK /\ UNCHANGED <<current_value, failure_status>> /\ pc[t] = "wait"
    BY <1>t, <1>WaitNothing DEF WaitNothing, Finish, TInv, DomainsOK, CallShape, Ops
  <2> QED
    BY <1>t, <1>WaitNothing, <2>1, Concludes DEF Step
<1>WaitOne. CASE WaitOne(t)
  <2>1. /\ call' = call /\ i[t] = 1 /\ call[t].op = "wait" /\ Len(List(t)) = 1
        /\ UNCHANGED <<current_value, failure_status>> /\ call[t].mode \in Modes
        /\ pc[t] = "wait"
    BY <1>t, <1>WaitOne DEF WaitOne, TInv, CallShape, DomainsOK, Calls, Ops
  <2>2. CASE pc'[t] # "done"
    BY <1>stutter, <2>1, <2>2 DEF OutcomeOf
  <2>3. CASE pc'[t] = "done"
    <3> DEFINE o == Observation(Sem(t), Value(t))
    <3>1. /\ o # "unsignaled" \/ call[t].timeout = "immediate"
          /\ result'[t] = StatusOf(call[t].mode, {o})
      BY <1>t, <1>WaitOne, <2>3 DEF WaitOne, Finish, TInv, DomainsOK
    <3>2. Entries(t) = {1}
      BY <2>1 DEF Entries
    <3>3. /\ o \in Observations
          /\ o = "failed" <=> Broken(t, 1)
          /\ o = "signaled" => Reached(t, 1)
      BY <1>t, <2>1, <3>2, ObservationOf
    <3> HIDE DEF o
    <3>4. CASE o = "failed"
      <4>1. result'[t] = "ABORTED"
        BY <3>1, <3>4 DEF StatusOf
      <4> QED
        BY <1>t, <1>WaitOne, <2>1, <2>3, <3>2, <3>3, <3>4, <4>1, Concludes DEF Step
    <3>5. CASE o = "signaled"
      <4>1. result'[t] = OK
        BY <2>1, <3>1, <3>5 DEF StatusOf, Modes
      <4> QED
        BY <1>t, <1>WaitOne, <2>1, <2>3, <3>2, <3>3, <3>5, <4>1, Concludes DEF Step, Modes
    <3>6. CASE o = "unsignaled"
      <4>1. result'[t] = "DEADLINE_EXCEEDED"
        BY <2>1, <3>1, <3>6 DEF StatusOf, Modes
      <4>2. ~Patient(call[t])
        BY <3>1, <3>6 DEF Patient
      <4> QED
        BY <1>t, <1>WaitOne, <2>1, <2>3, <4>1, <4>2, Concludes DEF Step
    <3> QED
      BY <3>3, <3>4, <3>5, <3>6 DEF Observations
  <2> QED
    BY <2>2, <2>3
<1>Result. CASE Result(t)
  <2>1. /\ pc[t] = "result" /\ call' = call /\ UNCHANGED <<current_value, failure_status>>
        /\ call[t].op = "wait"
    BY <1>t, <1>Result DEF Result, TInv, CallShape
  <2>2. CASE ~Last(t)
    <3>1. pc'[t] = "result"
      BY <1>t, <1>Result, <2>1, <2>2 DEF Result
    <3> QED
      BY <1>stutter, <2>1, <3>1 DEF OutcomeOf
  <2>3. CASE Last(t)
    <3>1. pc'[t] = "done" /\ result'[t] = StatusOf(call[t].mode, SeenNow(t))
      BY <1>t, <1>Result, <2>3 DEF Result, Finish, SeenNow, TInv, DomainsOK
    <3>2. \/ result'[t] = OK /\ call[t].mode = "ALL" /\ \A n \in Entries(t) : Reached(t, n)
          \/ result'[t] = OK /\ call[t].mode = "ANY" /\ \E n \in Entries(t) : Reached(t, n)
          \/ result'[t] = "ABORTED" /\ \E n \in Entries(t) : Broken(t, n)
          \/ result'[t] = "DEADLINE_EXCEEDED" /\ ~Patient(call[t])
      BY <1>t, <2>1, <2>3, <3>1, Verdict DEF WaitStatuses
    <3> QED
      BY <1>t, <1>Result, <2>1, <3>1, <3>2, Concludes DEF Step
  <2> QED
    BY <2>2, <2>3
<1>Return. CASE Return(t)
  <2>1. /\ pc[t] = "done" /\ call'[t] = Idle /\ UNCHANGED <<current_value, failure_status>>
    BY <1>t, <1>Return DEF Return, TInv, DomainsOK
  <2>2. WaitOf(call'[t]) = NoWait /\ OutcomeOf(call'[t], pc'[t], result'[t]) = "pending"
    BY <2>1 DEF WaitOf, OutcomeOf, Idle
  <2>3. CASE call[t].op # "wait"
    BY <1>stutter, <2>1, <2>2, <2>3 DEF WaitOf, OutcomeOf
  <2>4. CASE call[t].op = "wait"
    <3>1. AbsOutcome[t] = result[t] /\ result[t] \in WaitStatuses
      BY <1>t, <2>1, <2>4, AbsShape DEF OutcomeOf, WaitInv, DoneInv
    <3>2. AbsOutcome[t] # "pending"
      BY <3>1 DEF WaitStatuses, OK
    <3>3. Abs!Leave(t)
      BY <1>t, <1>Return, <2>1, <2>2, <3>2, AbsFrame DEF Abs!Leave, Step, NoWait, Abs!NoWait
    <3> QED
      BY <3>3 DEF Abs!Next
  <2> QED
    BY <2>3, <2>4
<1> QED
  BY <1>Start, <1>Signal, <1>Fail, <1>Quiet, <1>Inside, <1>WaitNothing, <1>WaitOne, <1>Result,
     <1>Return DEF Step

\* The locks, the notification and the scans entry by entry implement the
\* atomic semaphores of Timeline, for every set of threads, semaphores and
\* lists: a wait returns OK only if its payloads are reached, ABORTED only if
\* one of its semaphores failed, and DEADLINE_EXCEEDED only if it has a deadline
\* that the code observes.
THEOREM SemaphoresImplementTimeline == Spec => ImplementsTimeline
<1>1. SInv /\ [Next]_vars => [Abs!Next]_(Abs!vars)
  <2> SUFFICES ASSUME SInv, [Next]_vars PROVE [Abs!Next]_(Abs!vars)
    OBVIOUS
  <2>1. CASE UNCHANGED vars
    BY <2>1 DEF vars, threadVars, Abs!vars, AbsWait, AbsOutcome, List
  <2>2. CASE Next
    BY <2>2, StepMaps DEF Next
  <2> QED
    BY <2>1, <2>2
<1> QED
  BY <1>1, InitSInv, StepSInv, InitMaps, PTL DEF Spec, ImplementsTimeline, Abs!Spec

=============================================================================
