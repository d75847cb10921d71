--------------------------- MODULE CommandBuffer ---------------------------
(***************************************************************************)
(* The inline command buffer: it executes as it records.                   *)
(* runtime/driver/coralnpu_command_buffer.c keeps one dispatch_state and   *)
(* one pair of binding arrays for all its dispatches, which are reset only *)
(* by begin and end; coralnpu_executable.c runs the workgroups of a        *)
(* dispatch in three nested loops.                                         *)
(*                                                                         *)
(* A dispatch may fail at every step on the way: an indirect workgroup     *)
(* count or a binding that cannot be mapped, counts that do not match the  *)
(* export, no local memory, a workgroup that fails.  What is abstracted:   *)
(* workgroup sizes, the processor id, and the bytes of buffers.            *)
(***************************************************************************)
EXTENDS Integers, Sequences

CONSTANTS
    Dispatches,     \* the arguments a caller may dispatch with
    MaxBindings,    \* IREE_HAL_EXECUTABLE_MAX_BINDING_COUNT
    MaxDispatches   \* bound on the dispatches between begin and end

\* The HAL's contract: a dispatch binds no more buffers than the arrays hold.
\* A buffer is its name; counts and sizes are unsigned.
ASSUME DispatchAssumption ==
    /\ MaxDispatches \in Nat
    /\ MaxBindings \in Nat
    /\ \A d \in Dispatches :
          /\ d.bindings \in Seq(STRING) /\ Len(d.bindings) <= MaxBindings
          /\ d.groups \in Nat \X Nat \X Nat
          /\ d.local_memory_size \in Nat

VARIABLES
    cb,              \* "none", "created" or "recording"
    dispatch_state,  \* the cached iree_hal_executable_dispatch_state_v0_t
    binding_ptrs,    \* binding_ptr_storage and binding_length_storage
    pc, call, k, xyz, \* where dispatch is, its arguments, its loops
    status,          \* the status of the last issue_call
    result,          \* what the last operation returned
    local_memory,    \* the span malloc'ed for the workgroups, or "none"
    fpu,             \* iree_fpu_state_push minus iree_fpu_state_pop
    count,           \* dispatches since begin
    log              \* history: workgroups run by this dispatch, as they saw it

state == <<dispatch_state, binding_ptrs>>
loop == <<k, xyz, status>>
vars == <<cb, state, pc, call, loop, result, local_memory, fpu, count, log>>

ResetState == [workgroup_count |-> <<0, 0, 0>>, constants |-> <<>>,
               constant_count |-> 0, binding_count |-> 0]
ResetBindings == [n \in 1 .. MaxBindings |-> "NULL"]

Finish(code) == pc' = "idle" /\ result' = code

Init ==
    /\ cb = "none"
    /\ dispatch_state = ResetState
    /\ binding_ptrs = ResetBindings
    /\ pc = "idle"
    /\ call = CHOOSE d \in Dispatches : TRUE
    /\ k = 1
    /\ xyz = <<0, 0, 0>>
    /\ status = "OK"
    /\ result = "OK"
    /\ local_memory = "none"
    /\ fpu = 0
    /\ count = 0
    /\ log = <<>>

\* create and initialize: only one-shot inline command buffers without a
\* binding table; the state is cleared.
Create(inline, binding_capacity) ==
    /\ pc = "idle" /\ cb = "none"
    /\ IF inline /\ binding_capacity = 0
       THEN /\ cb' = "created" /\ result' = "OK"
            /\ dispatch_state' = ResetState /\ binding_ptrs' = ResetBindings
       ELSE result' = "INVALID_ARGUMENT" /\ UNCHANGED <<cb, state>>
    /\ UNCHANGED <<pc, call, loop, local_memory, fpu, count, log>>

Begin ==
    /\ pc = "idle" /\ cb = "created"
    /\ cb' = "recording"
    /\ dispatch_state' = ResetState /\ binding_ptrs' = ResetBindings
    /\ count' = 0
    /\ result' = "OK"
    /\ log' = <<>>
    /\ UNCHANGED <<pc, call, loop, local_memory, fpu>>

End ==
    /\ pc = "idle" /\ cb = "recording"
    /\ cb' = "created"
    /\ dispatch_state' = ResetState /\ binding_ptrs' = ResetBindings
    /\ result' = "OK"
    /\ log' = <<>>
    /\ UNCHANGED <<pc, call, loop, local_memory, fpu, count>>

Destroy ==
    /\ pc = "idle" /\ cb = "created"
    /\ cb' = "none"
    /\ dispatch_state' = ResetState /\ binding_ptrs' = ResetBindings
    /\ UNCHANGED <<pc, call, loop, result, local_memory, fpu, count, log>>

Dispatch(d) ==
    /\ pc = "idle" /\ cb = "recording" /\ count < MaxDispatches
    /\ count' = count + 1
    /\ call' = d
    /\ log' = <<>>
    /\ IF d.custom_arguments
       THEN Finish("UNIMPLEMENTED")
       ELSE pc' = "count" /\ UNCHANGED result
    /\ UNCHANGED <<cb, state, loop, local_memory, fpu>>

\* The workgroup count, direct or read from a mapped buffer.
SetCount ==
    /\ pc = "count"
    /\ dispatch_state' = [dispatch_state EXCEPT !.workgroup_count = call.groups]
    /\ pc' = "constants"
    /\ UNCHANGED <<cb, binding_ptrs, call, loop, result, local_memory, fpu, count, log>>

CountNotMapped ==
    /\ pc = "count" /\ call.indirect
    /\ Finish("PERMISSION_DENIED")
    /\ UNCHANGED <<cb, state, call, loop, local_memory, fpu, count, log>>

\* Constants are 4-byte words, and as many as the export declares; the path
\* to the simulator does not compare them with the export.
ConstantsError(d) ==
    CASE ~d.constants_aligned -> "FAILED_PRECONDITION"
      [] /\ d.constants_aligned /\ ~d.simulator
         /\ Len(d.constants) # d.attrs.constant_count -> "INVALID_ARGUMENT"
      [] OTHER -> "OK"

SetConstants ==
    /\ pc = "constants"
    /\ IF ConstantsError(call) = "OK"
       THEN /\ dispatch_state' = [dispatch_state EXCEPT
                  !.constants = call.constants,
                  !.constant_count = Len(call.constants)]
            /\ pc' = "binding_count" /\ UNCHANGED result
       ELSE Finish(ConstantsError(call)) /\ UNCHANGED dispatch_state
    /\ UNCHANGED <<cb, binding_ptrs, call, loop, local_memory, fpu, count, log>>

BindingCountMatches(d) == d.simulator \/ Len(d.bindings) = d.attrs.binding_count

\* Mutant: the loop over the bindings goes on where the last one stopped.
SetBindingCountKeepsIndex ==
    /\ pc = "binding_count"
    /\ IF BindingCountMatches(call)
       THEN /\ dispatch_state' = [dispatch_state EXCEPT
                                    !.binding_count = Len(call.bindings)]
            /\ pc' = "bindings" /\ UNCHANGED <<k, result>>
       ELSE Finish("INVALID_ARGUMENT") /\ UNCHANGED <<dispatch_state, k>>
    /\ UNCHANGED <<cb, binding_ptrs, call, xyz, status, local_memory, fpu, count, log>>

SetBindingCount ==
    /\ pc = "binding_count"
    /\ IF BindingCountMatches(call)
       THEN /\ dispatch_state' = [dispatch_state EXCEPT
                                    !.binding_count = Len(call.bindings)]
            /\ k' = 1
            /\ pc' = "bindings" /\ UNCHANGED result
       ELSE Finish("INVALID_ARGUMENT") /\ UNCHANGED <<dispatch_state, k>>
    /\ UNCHANGED <<cb, binding_ptrs, call, xyz, status, local_memory, fpu, count, log>>

MapBinding ==
    /\ pc = "bindings" /\ k <= Len(call.bindings)
    /\ call.bindings[k] # "NULL"
    /\ binding_ptrs' = [binding_ptrs EXCEPT ![k] = call.bindings[k]]
    /\ k' = k + 1
    /\ UNCHANGED <<cb, dispatch_state, pc, call, xyz, status, result,
                   local_memory, fpu, count, log>>

\* A NULL binding, or one that iree_hal_buffer_map_range refuses.
BindingNotMapped ==
    /\ pc = "bindings" /\ k <= Len(call.bindings)
    /\ Finish(IF call.bindings[k] = "NULL" THEN "FAILED_PRECONDITION"
                                           ELSE "PERMISSION_DENIED")
    /\ UNCHANGED <<cb, state, call, loop, local_memory, fpu, count, log>>

\* The simulator's path hands everything to simulator_inline.c, whose status
\* is returned (module SimDispatch).
SimulatorDispatch ==
    /\ pc = "bindings" /\ k > Len(call.bindings) /\ call.simulator
    /\ \E code \in {"OK", "INTERNAL"} : Finish(code)
    /\ UNCHANGED <<cb, state, call, loop, local_memory, fpu, count, log>>

\* Local memory is allocated when the export needs any; then the FPU state is
\* pushed and the loops of issue_dispatch_inline begin.
EnterLoops ==
    /\ pc = "bindings" /\ k > Len(call.bindings) /\ ~call.simulator
    /\ local_memory' = IF call.local_memory_size > 0 THEN "allocated" ELSE "none"
    /\ fpu' = fpu + 1
    /\ xyz' = <<0, 0, 0>>
    /\ status' = "OK"
    /\ pc' = "loop"
    /\ UNCHANGED <<cb, state, call, k, result, count, log>>

OutOfMemory ==
    /\ pc = "bindings" /\ k > Len(call.bindings) /\ ~call.simulator
    /\ call.local_memory_size > 0
    /\ Finish("RESOURCE_EXHAUSTED")
    /\ UNCHANGED <<cb, state, call, loop, local_memory, fpu, count, log>>

Groups == dispatch_state.workgroup_count

LoopDone == Groups[1] = 0 \/ Groups[2] = 0 \/ xyz[3] >= Groups[3]

NextRow == IF xyz[2] + 1 < Groups[2] THEN <<0, xyz[2] + 1, xyz[3]>>
                                     ELSE <<0, 0, xyz[3] + 1>>

\* Mutant: the last workgroup of every row is left out.
AfterGroupShortRow(ok) ==
    IF ok /\ xyz[1] + 2 < Groups[1] THEN [xyz EXCEPT ![1] = @ + 1] ELSE NextRow

\* After a workgroup: the next one of its row, or the next row.  `break`
\* leaves the innermost loop only.
AfterGroup(ok) ==
    IF ok /\ xyz[1] + 1 < Groups[1] THEN [xyz EXCEPT ![1] = @ + 1] ELSE NextRow

\* issue_call runs one workgroup, which sees the cached state.
IssueCall ==
    /\ pc = "loop" /\ ~LoopDone
    /\ \E code \in {"OK", "INTERNAL"} :
          /\ status' = code
          /\ xyz' = AfterGroup(code = "OK")
          /\ log' = Append(log,
               [id |-> xyz, code |-> code, constants |-> dispatch_state.constants,
                groups |-> Groups, local_memory |-> local_memory,
                bindings |-> SubSeq(binding_ptrs, 1, dispatch_state.binding_count)])
    /\ UNCHANGED <<cb, state, pc, call, k, result, local_memory, fpu, count>>

\* Mutant: an error returns before the local memory is freed.
LeaveLoopsLeak ==
    /\ pc = "loop" /\ LoopDone
    /\ fpu' = fpu - 1
    /\ local_memory' = IF status = "OK" THEN "none" ELSE local_memory
    /\ Finish(status)
    /\ UNCHANGED <<cb, state, call, loop, count, log>>

LeaveLoops ==
    /\ pc = "loop" /\ LoopDone
    /\ fpu' = fpu - 1
    /\ local_memory' = "none"
    /\ Finish(status)
    /\ UNCHANGED <<cb, state, call, loop, count, log>>

Next ==
    \/ \E inline \in BOOLEAN, capacity \in 0 .. 1 : Create(inline, capacity)
    \/ Begin \/ End \/ Destroy
    \/ \E d \in Dispatches : Dispatch(d)
    \/ SetCount \/ CountNotMapped \/ SetConstants \/ SetBindingCount
    \/ MapBinding \/ BindingNotMapped \/ SimulatorDispatch
    \/ EnterLoops \/ OutOfMemory \/ IssueCall \/ LeaveLoops

Spec == Init /\ [][Next]_vars

(***************************************************************************)
(* Properties.                                                             *)
(***************************************************************************)
GroupIds(g) == (0 .. g[1] - 1) \X (0 .. g[2] - 1) \X (0 .. g[3] - 1)

\* The scratch memory and the FPU state of a dispatch are given back on every
\* path out of it, and are held while its workgroups run.
NothingHeld ==
    /\ pc # "loop" => local_memory = "none" /\ fpu = 0
    /\ pc = "loop" => fpu = 1

\* Every workgroup sees the arguments of the dispatch it belongs to, whatever
\* an earlier dispatch that failed half way left in the cached state.
SeesThisDispatch ==
    \A n \in DOMAIN log :
        /\ log[n].constants = call.constants
        /\ log[n].groups = call.groups
        /\ log[n].bindings = call.bindings
        /\ log[n].local_memory = "allocated" <=> call.local_memory_size > 0

Before(a, b) ==
    \/ a[3] < b[3]
    \/ a[3] = b[3] /\ a[2] < b[2]
    \/ a[3] = b[3] /\ a[2] = b[2] /\ a[1] < b[1]

\* Only workgroups of the count run, in row-major order and at most once each;
\* when the loops have ended, one that did not run stands behind a failed one of its row.
EveryGroupAccountedFor ==
    /\ \A n \in DOMAIN log : log[n].id \in GroupIds(call.groups)
    /\ \A m, n \in DOMAIN log : m < n => Before(log[m].id, log[n].id)
    /\ pc = "loop" /\ LoopDone =>
          \A w \in GroupIds(call.groups) :
              \E n \in DOMAIN log :
                  \/ log[n].id = w
                  \/ /\ log[n].code # "OK"
                     /\ log[n].id[1] < w[1]
                     /\ log[n].id[2] = w[2] /\ log[n].id[3] = w[3]

\* A dispatch that returns OK ran without an error: the caller that sees OK
\* goes on to signal that the batch's work has completed.
OkMeansNoGroupFailed ==
    pc = "idle" /\ result = "OK" => \A n \in DOMAIN log : log[n].code = "OK"
=============================================================================
