------------------------ MODULE CommandBufferProofs ------------------------
(***************************************************************************)
(* What a dispatch of the inline command buffer holds, shows and runs, for *)
(* every sequence of dispatches with any arguments and any failures.       *)
(***************************************************************************)
EXTENDS CommandBuffer, SequenceTheorems, TLAPS

Labels == {"idle", "count", "constants", "binding_count", "bindings", "loop"}

\* The buffers an entry of the binding arrays may point to.
Names == STRING \cup {"NULL"}

\* What a workgroup of the current dispatch may see.
Workgroups ==
  [id : GroupIds(call.groups), code : {"OK", "INTERNAL"},
   constants : {call.constants}, groups : {call.groups},
   local_memory : {IF call.local_memory_size > 0 THEN "allocated" ELSE "none"},
   bindings : {call.bindings}]

\* The cached state is only ever extended by the call that is under way, in
\* the order of the code; whatever was there before is replaced by then.
StateInv ==
  /\ pc \in Labels
  /\ binding_ptrs \in Seq(Names) /\ Len(binding_ptrs) = MaxBindings
  /\ DOMAIN dispatch_state =
       {"workgroup_count", "constants", "constant_count", "binding_count"}
  /\ pc # "idle" => call \in Dispatches
  /\ pc \in {"constants", "binding_count", "bindings", "loop"} =>
       dispatch_state.workgroup_count = call.groups
  /\ pc \in {"binding_count", "bindings", "loop"} =>
       dispatch_state.constants = call.constants
  /\ pc \in {"bindings", "loop"} =>
       /\ dispatch_state.binding_count = Len(call.bindings)
       /\ k \in 1 .. Len(call.bindings) + 1
       /\ \A j \in 1 .. k - 1 : binding_ptrs[j] = call.bindings[j]
  /\ pc = "loop" =>
       /\ k = Len(call.bindings) + 1
       /\ local_memory = IF call.local_memory_size > 0 THEN "allocated" ELSE "none"

\* The log holds workgroups of the current dispatch, each behind its
\* predecessor.
LogInv ==
  /\ log \in Seq(Workgroups)
  /\ pc \in Labels \ {"idle", "loop"} => log = <<>>
  /\ \A m, n \in DOMAIN log : m < n => Before(log[m].id, log[n].id)

\* Workgroup w has run, or stands behind one of its row that failed.
Accounted(w) ==
  \E n \in DOMAIN log :
    \/ log[n].id = w
    \/ /\ log[n].code # "OK"
       /\ log[n].id[1] < w[1]
       /\ log[n].id[2] = w[2] /\ log[n].id[3] = w[3]

\* The loops have dealt with the workgroups before the current one.
LoopInv ==
  pc = "loop" =>
    /\ xyz \in Nat \X Nat \X Nat
    /\ call.groups[1] # 0 => xyz[1] < call.groups[1]
    /\ call.groups[2] # 0 => xyz[2] < call.groups[2]
    /\ \A n \in DOMAIN log : Before(log[n].id, xyz)
    /\ \A w \in GroupIds(call.groups) : Before(w, xyz) => Accounted(w)

CInv == NothingHeld /\ StateInv /\ LogInv /\ LoopInv
-----------------------------------------------------------------------------
\* The constants a call is made of.
LEMMA CallTypes ==
  ASSUME NEW d \in Dispatches
  PROVE  /\ d.bindings \in Seq(Names) /\ Len(d.bindings) \in 0 .. MaxBindings
         /\ d.groups \in Nat \X Nat \X Nat
         /\ d.groups[1] \in Nat /\ d.groups[2] \in Nat /\ d.groups[3] \in Nat
         /\ d.local_memory_size \in Nat
<1>1. /\ d.bindings \in Seq(STRING) /\ Len(d.bindings) <= MaxBindings
      /\ d.groups \in Nat \X Nat \X Nat
      /\ d.local_memory_size \in Nat
  BY DispatchAssumption
<1>2. Len(d.bindings) \in Nat
  BY <1>1, LenProperties
<1>3. Len(d.bindings) \in 0 .. MaxBindings
  BY <1>1, <1>2, DispatchAssumption
<1>4. d.bindings \in Seq(Names)
  BY <1>1, SeqMonotonic DEF Names
<1> QED BY <1>1, <1>3, <1>4

\* The cleared arrays are arrays of MaxBindings names.
LEMMA ResetTypes == ResetBindings \in Seq(Names) /\ Len(ResetBindings) = MaxBindings
<1>1. ResetBindings \in [1 .. MaxBindings -> Names]
  BY DEF ResetBindings, Names
<1>2. MaxBindings \in Nat
  BY DispatchAssumption
<1> QED BY <1>1, <1>2, SeqDef, LenProperties

\* The row-major order is transitive and irreflexive.
LEMMA BeforeOrder ==
  ASSUME NEW a \in Nat \X Nat \X Nat, NEW b \in Nat \X Nat \X Nat,
         NEW c \in Nat \X Nat \X Nat, Before(a, b), Before(b, c)
  PROVE  Before(a, c)
<1>1. /\ a[1] \in Nat /\ a[2] \in Nat /\ a[3] \in Nat
      /\ b[1] \in Nat /\ b[2] \in Nat /\ b[3] \in Nat
      /\ c[1] \in Nat /\ c[2] \in Nat /\ c[3] \in Nat
  OBVIOUS
<1> QED BY <1>1 DEF Before

\* A cleared log tells nothing wrong, and an unchanged one no more than before.
LEMMA EmptyLog == ASSUME log' = <<>> PROVE LogInv'
<1>1. <<>> \in Seq(Workgroups') /\ DOMAIN (<<>>) = {}
  BY EmptySeq, LenProperties
<1> QED BY <1>1 DEF LogInv

LEMMA KeepLog ==
  ASSUME LogInv, UNCHANGED <<call, log>>, 
         pc' \in Labels \ {"idle", "loop"} => pc \in Labels \ {"idle", "loop"}
  PROVE  LogInv'
BY Zenon DEF LogInv, Workgroups

\* A step outside the loops preserves what is said of them.
LEMMA OutsideLoops == ASSUME pc' \in Labels \ {"loop"} PROVE LoopInv'
BY DEF LoopInv, Labels

LEMMA InitCInv == Init => CInv
<1> SUFFICES ASSUME Init PROVE CInv
  OBVIOUS
<1>1. StateInv
  <2>1. binding_ptrs \in Seq(Names) /\ Len(binding_ptrs) = MaxBindings
    BY ResetTypes DEF Init
  <2> QED BY <2>1 DEF Init, StateInv, ResetState, Labels
<1>2. LogInv
  <2>1. <<>> \in Seq(Workgroups) /\ DOMAIN (<<>>) = {}
    BY EmptySeq, LenProperties
  <2> QED BY <2>1 DEF Init, LogInv
<1> QED BY <1>1, <1>2 DEF Init, CInv, NothingHeld, LoopInv

-----------------------------------------------------------------------------
(***************************************************************************)
(* One step of the innermost loop.                                         *)
(***************************************************************************)
\* The workgroups that come before the next position came before this one, are
\* this one, or are skipped by the break after a failure.
LEMMA Passed ==
  ASSUME NEW g \in Nat \X Nat \X Nat, Groups = g,
         xyz \in Nat \X Nat \X Nat, xyz[1] < g[1], xyz[2] < g[2], xyz[3] < g[3],
         NEW ok \in BOOLEAN, NEW w \in GroupIds(g), Before(w, AfterGroup(ok))
  PROVE  \/ Before(w, xyz)
         \/ w = xyz
         \/ ~ok /\ xyz[1] < w[1] /\ xyz[2] = w[2] /\ xyz[3] = w[3]
<1>1. /\ g[1] \in Nat /\ g[2] \in Nat /\ g[3] \in Nat
      /\ xyz[1] \in Nat /\ xyz[2] \in Nat /\ xyz[3] \in Nat
      /\ xyz = <<xyz[1], xyz[2], xyz[3]>>
  OBVIOUS
<1>2. /\ w[1] \in 0 .. g[1] - 1 /\ w[2] \in 0 .. g[2] - 1 /\ w[3] \in 0 .. g[3] - 1
      /\ w = <<w[1], w[2], w[3]>>
  BY DEF GroupIds
<1>3. /\ w[1] \in Nat /\ w[2] \in Nat /\ w[3] \in Nat
      /\ w[1] < g[1] /\ w[2] < g[2] /\ w[3] < g[3]
  BY <1>1, <1>2
<1>4. CASE ok /\ xyz[1] + 1 < g[1]
  <2>1. AfterGroup(ok) = <<xyz[1] + 1, xyz[2], xyz[3]>>
    BY <1>1, <1>4 DEF AfterGroup
  <2> QED BY <1>1, <1>2, <1>3, <2>1 DEF Before
<1>5. CASE ~(ok /\ xyz[1] + 1 < g[1]) /\ xyz[2] + 1 < g[2]
  <2>1. AfterGroup(ok) = <<0, xyz[2] + 1, xyz[3]>>
    BY <1>1, <1>5 DEF AfterGroup, NextRow
  <2> QED BY <1>1, <1>2, <1>3, <1>5, <2>1 DEF Before
<1>6. CASE ~(ok /\ xyz[1] + 1 < g[1]) /\ ~(xyz[2] + 1 < g[2])
  <2>1. AfterGroup(ok) = <<0, 0, xyz[3] + 1>>
    BY <1>1, <1>6 DEF AfterGroup, NextRow
  <2> QED BY <1>1, <1>2, <1>3, <1>6, <2>1 DEF Before
<1> QED BY <1>4, <1>5, <1>6

\* The next position lies behind this one, inside its row and its plane.
LEMMA Advances ==
  ASSUME NEW g \in Nat \X Nat \X Nat, Groups = g,
         xyz \in Nat \X Nat \X Nat, xyz[1] < g[1], xyz[2] < g[2], xyz[3] < g[3],
         NEW ok \in BOOLEAN
  PROVE  /\ AfterGroup(ok) \in Nat \X Nat \X Nat
         /\ AfterGroup(ok)[1] < g[1] /\ AfterGroup(ok)[2] < g[2]
         /\ Before(xyz, AfterGroup(ok))
<1>1. /\ g[1] \in Nat /\ g[2] \in Nat /\ g[3] \in Nat
      /\ xyz[1] \in Nat /\ xyz[2] \in Nat /\ xyz[3] \in Nat
      /\ xyz = <<xyz[1], xyz[2], xyz[3]>>
  OBVIOUS
<1>2. CASE ok /\ xyz[1] + 1 < g[1]
  <2>1. AfterGroup(ok) = <<xyz[1] + 1, xyz[2], xyz[3]>>
    BY <1>1, <1>2 DEF AfterGroup
  <2>2. /\ AfterGroup(ok)[1] = xyz[1] + 1
        /\ AfterGroup(ok)[2] = xyz[2] /\ AfterGroup(ok)[3] = xyz[3]
    BY <2>1
  <2>3. AfterGroup(ok) \in Nat \X Nat \X Nat
    BY <1>1, <2>1
  <2>4. xyz[1] + 1 < g[1]
    BY <1>2
  <2>5. AfterGroup(ok)[1] < g[1] /\ AfterGroup(ok)[2] < g[2]
    BY <2>2, <2>4
  <2>6. Before(xyz, AfterGroup(ok))
    BY <1>1, <2>2 DEF Before
  <2> QED BY <2>3, <2>5, <2>6
<1>3. CASE ~(ok /\ xyz[1] + 1 < g[1]) /\ xyz[2] + 1 < g[2]
  <2>1. AfterGroup(ok) = <<0, xyz[2] + 1, xyz[3]>>
    BY <1>1, <1>3 DEF AfterGroup, NextRow
  <2> QED BY <1>1, <1>3, <2>1 DEF Before
<1>4. CASE ~(ok /\ xyz[1] + 1 < g[1]) /\ ~(xyz[2] + 1 < g[2])
  <2>1. AfterGroup(ok) = <<0, 0, xyz[3] + 1>>
    BY <1>1, <1>4 DEF AfterGroup, NextRow
  <2> QED BY <1>1, <1>4, <2>1 DEF Before
<1> QED BY <1>2, <1>3, <1>4

\* The part of the array that a workgroup is given holds the call's bindings.
LEMMA BindingsOfCall ==
  ASSUME CInv, pc = "loop"
  PROVE  SubSeq(binding_ptrs, 1, dispatch_state.binding_count) = call.bindings
<1> DEFINE b == call.bindings
<1>1. /\ b \in Seq(Names) /\ Len(b) \in 0 .. MaxBindings
      /\ binding_ptrs \in Seq(Names) /\ Len(binding_ptrs) = MaxBindings
      /\ dispatch_state.binding_count = Len(b) /\ k = Len(b) + 1
      /\ \A j \in 1 .. k - 1 : binding_ptrs[j] = b[j]
  BY CallTypes DEF CInv, StateInv
<1> HIDE DEF b
<1>2. \A j \in 1 .. Len(b) : binding_ptrs[j] = b[j] /\ binding_ptrs[j] \in Names
  BY <1>1, ElementOfSeq, DispatchAssumption
<1> DEFINE t == SubSeq(binding_ptrs, 1, Len(b))
<1>3. /\ t \in Seq(Names) /\ Len(t) = IF 1 <= Len(b) THEN Len(b) - 1 + 1 ELSE 0
      /\ \A i \in 1 .. Len(b) - 1 + 1 : t[i] = binding_ptrs[1 + i - 1]
  BY <1>1, <1>2, SubSeqProperties, DispatchAssumption
<1> HIDE DEF t
<1>4. Len(t) = Len(b) /\ \A i \in 1 .. Len(t) : t[i] = b[i]
  <2>1. Len(b) \in Nat
    BY <1>1, DispatchAssumption
  <2>2. Len(t) = Len(b)
    BY <2>1, <1>3
  <2>3. ASSUME NEW i \in 1 .. Len(t) PROVE t[i] = b[i]
    <3>1. i \in 1 .. Len(b) - 1 + 1 /\ 1 + i - 1 = i /\ i \in 1 .. Len(b)
      BY <2>1, <2>2
    <3> QED BY <3>1, <1>2, <1>3
  <2> QED BY <2>2, <2>3
<1>5. t = b
  BY <1>1, <1>3, <1>4, SeqEqual
<1> QED BY <1>1, <1>5 DEF t, b

\* What a workgroup sees when it runs.
LEMMA ThisWorkgroup ==
  ASSUME CInv, pc = "loop", ~LoopDone, NEW code \in {"OK", "INTERNAL"}
  PROVE  /\ xyz \in GroupIds(call.groups)
         /\ [id |-> xyz, code |-> code, constants |-> dispatch_state.constants,
             groups |-> Groups, local_memory |-> local_memory,
             bindings |-> SubSeq(binding_ptrs, 1, dispatch_state.binding_count)]
              \in Workgroups
<1>1. /\ Groups = call.groups /\ dispatch_state.constants = call.constants
      /\ local_memory = IF call.local_memory_size > 0 THEN "allocated" ELSE "none"
      /\ call \in Dispatches
  BY DEF CInv, StateInv, Groups
<1>2. /\ call.groups[1] \in Nat /\ call.groups[2] \in Nat /\ call.groups[3] \in Nat
      /\ xyz \in Nat \X Nat \X Nat
      /\ xyz[1] < call.groups[1] /\ xyz[2] < call.groups[2] /\ xyz[3] < call.groups[3]
  BY <1>1, CallTypes DEF CInv, LoopInv, LoopDone
<1>3. xyz \in GroupIds(call.groups)
  <2>1. /\ xyz[1] \in 0 .. call.groups[1] - 1 /\ xyz[2] \in 0 .. call.groups[2] - 1
        /\ xyz[3] \in 0 .. call.groups[3] - 1
        /\ xyz = <<xyz[1], xyz[2], xyz[3]>>
    BY <1>2
  <2> QED BY <2>1 DEF GroupIds
<1> QED BY <1>1, <1>3, BindingsOfCall DEF Workgroups

\* A workgroup that runs goes to the end of the log.
LEMMA IssueKeepsCInv == CInv /\ IssueCall => CInv'
<1> SUFFICES ASSUME CInv, IssueCall PROVE CInv'
  OBVIOUS
<1> DEFINE g == call.groups
           Entry(c) == [id |-> xyz, code |-> c,
                        constants |-> dispatch_state.constants,
                        groups |-> Groups, local_memory |-> local_memory,
                        bindings |-> SubSeq(binding_ptrs, 1, dispatch_state.binding_count)]
<1>1. PICK code \in {"OK", "INTERNAL"} :
         /\ xyz' = AfterGroup(code = "OK")
         /\ log' = Append(log, Entry(code))
  BY DEF IssueCall
<1> DEFINE e == Entry(code)
<1>2. /\ pc = "loop" /\ ~LoopDone
      /\ UNCHANGED <<cb, state, pc, call, k, result, local_memory, fpu, count>>
  BY DEF IssueCall
<1>3. xyz \in GroupIds(g) /\ e \in Workgroups /\ e.id = xyz /\ e.code = code
  BY <1>2, ThisWorkgroup
<1> HIDE DEF Entry
<1>4. /\ log \in Seq(Workgroups)
      /\ log' = Append(log, e)
  BY <1>1 DEF CInv, LogInv
<1>5. /\ log' \in Seq(Workgroups) /\ Len(log) \in Nat /\ Len(log') = Len(log) + 1
      /\ DOMAIN log = 1 .. Len(log) /\ DOMAIN log' = 1 .. Len(log) + 1
      /\ \A n \in 1 .. Len(log) : log'[n] = log[n]
      /\ log'[Len(log) + 1] = e
  BY <1>3, <1>4, AppendProperties, LenProperties
<1> HIDE DEF e
<1>6. /\ g \in Nat \X Nat \X Nat /\ Groups = g /\ xyz \in Nat \X Nat \X Nat
      /\ g[1] \in Nat /\ g[2] \in Nat /\ g[3] \in Nat
      /\ xyz[1] < g[1] /\ xyz[2] < g[2] /\ xyz[3] < g[3]
  BY <1>2, CallTypes DEF CInv, StateInv, LoopInv, LoopDone, Groups
<1>7. \A n \in 1 .. Len(log) : log[n].id \in Nat \X Nat \X Nat /\ Before(log[n].id, xyz)
  <2> SUFFICES ASSUME NEW n \in 1 .. Len(log)
               PROVE  log[n].id \in Nat \X Nat \X Nat /\ Before(log[n].id, xyz)
    OBVIOUS
  <2>0. log[n] \in Workgroups
    BY <1>4, ElementOfSeq
  <2>1. log[n].id \in GroupIds(g)
    BY <2>0 DEF Workgroups
  <2>2. Before(log[n].id, xyz)
    BY <1>2, <1>5 DEF CInv, LoopInv
  <2> QED BY <1>6, <2>1, <2>2 DEF GroupIds
<1>8. StateInv' /\ NothingHeld'
  BY <1>2 DEF CInv, StateInv, NothingHeld, state
<1>9. LogInv'
  <2>1. Workgroups' = Workgroups
    BY <1>2 DEF Workgroups
  <2>2. ASSUME NEW m \in DOMAIN log', NEW n \in DOMAIN log', m < n
        PROVE  Before(log'[m].id, log'[n].id)
    <3>1. m \in 1 .. Len(log) /\ log'[m] = log[m]
      BY <1>5, <2>2
    <3>2. CASE n \in 1 .. Len(log)
      BY <3>1, <3>2, <2>2, <1>5 DEF CInv, LogInv
    <3>3. CASE n = Len(log) + 1
      BY <3>1, <3>3, <1>3, <1>5, <1>7
    <3> QED BY <3>2, <3>3, <1>5
  <2> QED BY <1>2, <1>5, <2>1, <2>2, Zenon DEF LogInv
<1>10. LoopInv'
  <2> DEFINE ok == code = "OK"
  <2>1. /\ xyz' \in Nat \X Nat \X Nat
        /\ xyz'[1] < g[1] /\ xyz'[2] < g[2]
        /\ Before(xyz, xyz')
    BY <1>1, <1>6, Advances
  <2>2. \A n \in DOMAIN log' : Before(log'[n].id, xyz')
    <3> SUFFICES ASSUME NEW n \in DOMAIN log' PROVE Before(log'[n].id, xyz')
      OBVIOUS
    <3>1. CASE n = Len(log) + 1
      BY <3>1, <1>3, <1>5, <2>1
    <3>2. CASE n \in 1 .. Len(log)
      <4>1. Before(log[n].id, xyz')
        BY <1>6, <1>7, <2>1, <3>2, BeforeOrder
      <4> QED BY <4>1, <3>2, <1>5
    <3> QED BY <3>1, <3>2, <1>5
  <2>3. ASSUME NEW w \in GroupIds(g), Before(w, xyz') PROVE Accounted(w)'
    <3>1. \/ Before(w, xyz)
          \/ w = xyz
          \/ ~ok /\ xyz[1] < w[1] /\ xyz[2] = w[2] /\ xyz[3] = w[3]
      BY <1>1, <1>6, <2>3, Passed
    <3>2. CASE Before(w, xyz)
      <4>1. PICK n \in 1 .. Len(log) :
              \/ log[n].id = w
              \/ /\ log[n].code # "OK"
                 /\ log[n].id[1] < w[1]
                 /\ log[n].id[2] = w[2] /\ log[n].id[3] = w[3]
        BY <1>2, <1>5, <3>2 DEF CInv, LoopInv, Accounted
      <4>2. n \in DOMAIN log' /\ log'[n] = log[n]
        BY <1>5
      <4> QED BY <4>1, <4>2 DEF Accounted
    <3>3. CASE \/ w = xyz
               \/ ~ok /\ xyz[1] < w[1] /\ xyz[2] = w[2] /\ xyz[3] = w[3]
      <4>1. /\ Len(log) + 1 \in DOMAIN log'
            /\ log'[Len(log) + 1].id = xyz /\ log'[Len(log) + 1].code = code
        BY <1>3, <1>5
      <4> QED BY <4>1, <3>3 DEF Accounted
    <3> QED BY <3>1, <3>2, <3>3
  <2> QED BY <1>2, <2>1, <2>2, <2>3 DEF LoopInv
<1> QED BY <1>8, <1>9, <1>10 DEF CInv

-----------------------------------------------------------------------------
(***************************************************************************)
(* The other steps.                                                        *)
(***************************************************************************)
\* Between dispatches only the cached state and the log are cleared.
LEMMA ControlKeepsCInv ==
  ASSUME CInv,
         \/ \E inline \in BOOLEAN, capacity \in 0 .. 1 : Create(inline, capacity)
         \/ Begin \/ End \/ Destroy
  PROVE  CInv'
<1>1. /\ pc = "idle" /\ UNCHANGED <<pc, call, local_memory, fpu>>
      /\ \/ UNCHANGED <<dispatch_state, binding_ptrs>>
         \/ dispatch_state' = ResetState /\ binding_ptrs' = ResetBindings
      /\ log' = <<>> \/ UNCHANGED log
  BY DEF Create, Begin, End, Destroy, state
<1>2. StateInv'
  <2>1. /\ binding_ptrs' \in Seq(Names) /\ Len(binding_ptrs') = MaxBindings
        /\ DOMAIN dispatch_state' =
             {"workgroup_count", "constants", "constant_count", "binding_count"}
    BY <1>1, ResetTypes DEF CInv, StateInv, ResetState
  <2> QED BY <1>1, <2>1 DEF StateInv, Labels
<1>3. LogInv'
  BY <1>1, EmptyLog, KeepLog DEF CInv
<1>4. LoopInv' /\ NothingHeld'
  BY <1>1, OutsideLoops DEF CInv, NothingHeld, Labels
<1> QED BY <1>2, <1>3, <1>4 DEF CInv

\* The steps up to the loops, and the ways to end before them.
LEMMA PrepareKeepsCInv ==
  ASSUME CInv,
         \/ \E d \in Dispatches : Dispatch(d)
         \/ SetCount \/ CountNotMapped \/ SetConstants \/ SetBindingCount
         \/ MapBinding \/ BindingNotMapped \/ SimulatorDispatch \/ OutOfMemory
  PROVE  CInv'
<1>1. ASSUME NEW d \in Dispatches, Dispatch(d) PROVE CInv'
  <2>1. /\ pc = "idle" /\ pc' \in {"idle", "count"} /\ call' = d /\ log' = <<>>
        /\ UNCHANGED <<dispatch_state, binding_ptrs, local_memory, fpu>>
    BY <1>1 DEF Dispatch, Finish, state
  <2>2. StateInv'
    BY <2>1 DEF CInv, StateInv, Labels
  <2>3. LogInv' /\ LoopInv' /\ NothingHeld'
    BY <2>1, EmptyLog, OutsideLoops DEF CInv, NothingHeld, Labels
  <2> QED BY <2>2, <2>3 DEF CInv
<1>2. ASSUME pc \in Labels \ {"idle", "loop"}, pc' \in Labels \ {"loop"},
             UNCHANGED <<call, local_memory, fpu, log>>, StateInv'
      PROVE  CInv'
  BY <1>2, KeepLog, OutsideLoops DEF CInv, NothingHeld, Labels
<1>3. ASSUME pc \in Labels \ {"idle", "loop"}, pc' = "idle",
             UNCHANGED <<call, local_memory, fpu, log, dispatch_state, binding_ptrs>>
      PROVE  CInv'
  <2>1. StateInv'
    BY <1>3 DEF CInv, StateInv, Labels
  <2> QED BY <1>2, <1>3, <2>1 DEF Labels
<1>4. CASE SetCount
  <2>1. /\ pc = "count" /\ pc' = "constants"
        /\ dispatch_state' = [dispatch_state EXCEPT !.workgroup_count = call.groups]
        /\ UNCHANGED <<binding_ptrs, call, local_memory, fpu, log>>
    BY <1>4 DEF SetCount
  <2>2. StateInv'
    BY <2>1 DEF CInv, StateInv, Labels
  <2> QED BY <1>2, <2>1, <2>2 DEF Labels
<1>5. CASE CountNotMapped \/ BindingNotMapped \/ SimulatorDispatch \/ OutOfMemory
  BY <1>3, <1>5 DEF CountNotMapped, BindingNotMapped, SimulatorDispatch,
                    OutOfMemory, Finish, state, Labels
<1>6. CASE SetConstants
  <2>1. CASE ConstantsError(call) = "OK"
    <3>1. /\ pc = "constants" /\ pc' = "binding_count"
          /\ dispatch_state' = [dispatch_state EXCEPT
                !.constants = call.constants, !.constant_count = Len(call.constants)]
          /\ UNCHANGED <<binding_ptrs, call, local_memory, fpu, log>>
      BY <1>6, <2>1 DEF SetConstants
    <3>2. StateInv'
      BY <3>1 DEF CInv, StateInv, Labels
    <3> QED BY <1>2, <3>1, <3>2 DEF Labels
  <2>2. CASE ConstantsError(call) # "OK"
    BY <1>3, <1>6, <2>2 DEF SetConstants, Finish, Labels
  <2> QED BY <2>1, <2>2
<1>7. CASE SetBindingCount
  <2>1. CASE BindingCountMatches(call)
    <3>1. /\ pc = "binding_count" /\ pc' = "bindings" /\ k' = 1
          /\ dispatch_state' = [dispatch_state EXCEPT
                                  !.binding_count = Len(call.bindings)]
          /\ UNCHANGED <<binding_ptrs, call, local_memory, fpu, log>>
      BY <1>7, <2>1 DEF SetBindingCount
    <3>2. StateInv'
      <4>1. Len(call.bindings) \in Nat
        BY <3>1, CallTypes, DispatchAssumption DEF CInv, StateInv
      <4>2. k' \in 1 .. Len(call'.bindings) + 1 /\ 1 .. k' - 1 = {}
        BY <3>1, <4>1
      <4> QED BY <3>1, <4>2 DEF CInv, StateInv, Labels
    <3> QED BY <1>2, <3>1, <3>2 DEF Labels
  <2>2. CASE ~BindingCountMatches(call)
    BY <1>3, <1>7, <2>2 DEF SetBindingCount, Finish, Labels
  <2> QED BY <2>1, <2>2
<1>8. CASE MapBinding
  <2>1. /\ pc = "bindings" /\ k <= Len(call.bindings) /\ k' = k + 1
        /\ binding_ptrs' = [binding_ptrs EXCEPT ![k] = call.bindings[k]]
        /\ UNCHANGED <<dispatch_state, pc, call, local_memory, fpu, log>>
    BY <1>8 DEF MapBinding
  <2>2. /\ call.bindings \in Seq(Names) /\ Len(call.bindings) \in 0 .. MaxBindings
        /\ Len(call.bindings) \in Nat /\ MaxBindings \in Nat
        /\ binding_ptrs \in Seq(Names) /\ Len(binding_ptrs) = MaxBindings
        /\ k \in 1 .. Len(call.bindings) + 1
        /\ \A j \in 1 .. k - 1 : binding_ptrs[j] = call.bindings[j]
    BY <2>1, CallTypes, DispatchAssumption DEF CInv, StateInv
  <2>3. k \in 1 .. Len(call.bindings) /\ k \in 1 .. Len(binding_ptrs)
    BY <2>1, <2>2
  <2>4. call.bindings[k] \in Names
    BY <2>2, <2>3, ElementOfSeq
  <2>5. /\ binding_ptrs' \in Seq(Names) /\ Len(binding_ptrs') = MaxBindings
        /\ \A j \in 1 .. Len(binding_ptrs) :
             binding_ptrs'[j] = IF j = k THEN call.bindings[k] ELSE binding_ptrs[j]
    BY <2>1, <2>2, <2>3, <2>4, ExceptSeq
  <2>6. \A j \in 1 .. k' - 1 : binding_ptrs'[j] = call'.bindings[j]
    <3> SUFFICES ASSUME NEW j \in 1 .. k' - 1
                 PROVE  binding_ptrs'[j] = call.bindings[j]
      BY <2>1
    <3>1. j \in 1 .. Len(binding_ptrs) /\ (j = k \/ j \in 1 .. k - 1)
      BY <2>1, <2>2, <2>3
    <3> QED BY <3>1, <2>2, <2>5
  <2>7. k' \in 1 .. Len(call'.bindings) + 1
    BY <2>1, <2>2, <2>3
  <2>8. StateInv'
    BY <2>1, <2>5, <2>6, <2>7 DEF CInv, StateInv, Labels
  <2> QED BY <1>2, <2>1, <2>8 DEF Labels
<1> QED BY <1>1, <1>4, <1>5, <1>6, <1>7, <1>8

\* Entering the loops, and leaving them.
LEMMA LoopsKeepCInv == ASSUME CInv, EnterLoops \/ LeaveLoops PROVE CInv'
<1>1. CASE EnterLoops
  <2>1. /\ pc = "bindings" /\ k > Len(call.bindings) /\ pc' = "loop"
        /\ local_memory' = IF call.local_memory_size > 0 THEN "allocated" ELSE "none"
        /\ fpu' = fpu + 1 /\ xyz' = <<0, 0, 0>>
        /\ UNCHANGED <<dispatch_state, binding_ptrs, call, k, log>>
    BY <1>1 DEF EnterLoops, state
  <2>2. /\ call \in Dispatches /\ Len(call.bindings) \in 0 .. MaxBindings
        /\ Len(call.bindings) \in Nat
        /\ call.groups[1] \in Nat /\ call.groups[2] \in Nat /\ call.groups[3] \in Nat
    BY <2>1, CallTypes, DispatchAssumption DEF CInv, StateInv
  <2>3. log = <<>> /\ fpu = 0
    BY <2>1 DEF CInv, LogInv, NothingHeld, Labels
  <2>4. StateInv'
    <3>1. k = Len(call.bindings) + 1
      BY <2>1, <2>2 DEF CInv, StateInv
    <3> QED BY <2>1, <3>1 DEF CInv, StateInv, Labels
  <2>5. LogInv' /\ NothingHeld'
    BY <2>1, <2>3, EmptyLog DEF NothingHeld
  <2>6. LoopInv'
    <3>1. DOMAIN log' = {}
      BY <2>1, <2>3, EmptySeq, LenProperties
    <3>2. ASSUME NEW w \in GroupIds(call.groups) PROVE ~Before(w, <<0, 0, 0>>)
      <4>1. w[1] \in Nat /\ w[2] \in Nat /\ w[3] \in Nat
        BY <2>2 DEF GroupIds
      <4> QED BY <4>1 DEF Before
    <3> QED BY <2>1, <2>2, <3>1, <3>2 DEF LoopInv
  <2> QED BY <2>4, <2>5, <2>6 DEF CInv
<1>2. CASE LeaveLoops
  <2>1. /\ pc = "loop" /\ pc' = "idle" /\ fpu' = fpu - 1 /\ local_memory' = "none"
        /\ UNCHANGED <<dispatch_state, binding_ptrs, call, log>>
    BY <1>2 DEF LeaveLoops, Finish, state
  <2>2. StateInv' /\ NothingHeld'
    BY <2>1 DEF CInv, StateInv, NothingHeld, Labels
  <2>3. LogInv' /\ LoopInv'
    BY <2>1, KeepLog, OutsideLoops DEF CInv, Labels
  <2> QED BY <2>2, <2>3 DEF CInv
<1> QED BY <1>1, <1>2

LEMMA StepCInv == CInv /\ [Next]_vars => CInv'
<1> SUFFICES ASSUME CInv, [Next]_vars PROVE CInv'
  OBVIOUS
<1>1. CASE UNCHANGED vars
  <2>1. UNCHANGED <<dispatch_state, binding_ptrs, pc, call, k, xyz, local_memory, fpu, log>>
    BY <1>1 DEF vars, state, loop
  <2>2. Workgroups' = Workgroups
    BY <2>1 DEF Workgroups
  <2> QED BY <2>1, <2>2 DEF CInv, StateInv, LogInv, LoopInv, NothingHeld, Accounted
<1>2. CASE Next
  BY <1>2, ControlKeepsCInv, PrepareKeepsCInv, LoopsKeepCInv, IssueKeepsCInv DEF Next
<1> QED BY <1>1, <1>2

LEMMA Inductive == Spec => []CInv
BY InitCInv, StepCInv, PTL DEF Spec

-----------------------------------------------------------------------------
(***************************************************************************)
(* Theorems.                                                               *)
(***************************************************************************)
\* coralnpu_command_buffer.c and coralnpu_executable.c: whatever a dispatch is
\* given and wherever it fails, its local memory is freed and the FPU state is
\* popped when it returns.
THEOREM DispatchesHoldNothing == Spec => []NothingHeld
<1>1. CInv => NothingHeld
  BY DEF CInv
<1> QED BY <1>1, Inductive, PTL

\* The dispatch_state and the binding arrays are shared by all dispatches and
\* cleared by begin and end only: a workgroup still sees the constants, the
\* count and the bindings of its own dispatch, for every history of dispatches
\* that failed half way.
THEOREM WorkgroupsSeeTheirDispatch == Spec => []SeesThisDispatch
<1>1. CInv => SeesThisDispatch
  <2> SUFFICES ASSUME CInv, NEW n \in DOMAIN log
               PROVE  /\ log[n].constants = call.constants
                      /\ log[n].groups = call.groups
                      /\ log[n].bindings = call.bindings
                      /\ log[n].local_memory = "allocated" <=> call.local_memory_size > 0
    BY DEF SeesThisDispatch
  <2>1. log \in Seq(Workgroups)
    BY DEF CInv, LogInv
  <2>2. n \in 1 .. Len(log)
    BY <2>1, LenProperties
  <2>3. log[n] \in Workgroups
    BY <2>1, <2>2, ElementOfSeq
  <2> QED BY <2>3 DEF Workgroups
<1> QED BY <1>1, Inductive, PTL

\* The three nested loops of issue_dispatch_inline run only workgroups of the
\* count, in row-major order and at most once each, for counts of every size;
\* what has not run at their end stands behind a failure in its row.
THEOREM LoopsAccountForEveryGroup == Spec => []EveryGroupAccountedFor
<1>1. CInv => EveryGroupAccountedFor
  <2> SUFFICES ASSUME CInv PROVE EveryGroupAccountedFor
    OBVIOUS
  <2>1. log \in Seq(Workgroups) /\ DOMAIN log = 1 .. Len(log)
    BY LenProperties DEF CInv, LogInv
  <2>2. \A n \in DOMAIN log : log[n].id \in GroupIds(call.groups)
    <3> SUFFICES ASSUME NEW n \in DOMAIN log PROVE log[n].id \in GroupIds(call.groups)
      OBVIOUS
    <3>1. log[n] \in Workgroups
      BY <2>1, ElementOfSeq
    <3> QED BY <3>1 DEF Workgroups
  <2>3. \A m, n \in DOMAIN log : m < n => Before(log[m].id, log[n].id)
    BY DEF CInv, LogInv
  <2>4. ASSUME pc = "loop", LoopDone, NEW w \in GroupIds(call.groups)
        PROVE  Accounted(w)
    <3>1. Groups = call.groups /\ call \in Dispatches
      BY <2>4 DEF CInv, StateInv, Groups
    <3>2. /\ call.groups[1] \in Nat /\ call.groups[2] \in Nat /\ call.groups[3] \in Nat
      BY <3>1, CallTypes
    <3>3. /\ w[1] \in 0 .. call.groups[1] - 1 /\ w[2] \in 0 .. call.groups[2] - 1
          /\ w[3] \in 0 .. call.groups[3] - 1
      BY DEF GroupIds
    <3>4. xyz \in Nat \X Nat \X Nat /\ xyz[3] \in Nat
      BY <2>4 DEF CInv, LoopInv
    <3>5. w[3] < xyz[3]
      BY <2>4, <3>1, <3>2, <3>3, <3>4 DEF LoopDone
    <3> QED BY <2>4, <3>5 DEF Before, CInv, LoopInv
  <2> QED BY <2>2, <2>3, <2>4 DEF EveryGroupAccountedFor, Accounted
<1> QED BY <1>1, Inductive, PTL
=============================================================================
