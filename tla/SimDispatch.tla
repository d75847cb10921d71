---------------------------- MODULE SimDispatch ----------------------------
(***************************************************************************)
(* One dispatch on the CoralNPU simulator, end to end:                     *)
(*   - the host side, iree_hal_simulator_issue_dispatch_inline in          *)
(*     runtime/sim/simulator_inline.c: load the image, lay the arguments   *)
(*     out in the firmware heap and in DDR, write the request, run, check  *)
(*     the request that comes back and read the results;                   *)
(*   - the simulator wrapper, runtime/sim/simulator_mpact.cpp: one global  *)
(*     `sim`, without a lock, that every device and thread shares;         *)
(*   - the firmware, crt/coralnpu_main.c and crt/coralnpu_exceptions.cc:   *)
(*     check the request, find the export, run the workgroups, halt.       *)
(*                                                                         *)
(* Addresses count abstract units: WordSize stands for sizeof(uint32_t)    *)
(* and the two alignments for the literal 64.  A buffer cell holds a       *)
(* number; a workgroup writes a number unique to its run of the core.      *)
(***************************************************************************)
EXTENDS Integers, Sequences

CONSTANTS
    Hosts,          \* threads that issue dispatches
    Images,         \* function: image name -> what its ELF declares
    Dispatches,     \* the arguments a thread may dispatch with
    MaxDispatches,  \* bound on the dispatches of one thread
    BufferCells,    \* function: host buffer -> its initial cells
    WordSize,       \* sizeof(uint32_t)
    LocalAlign,     \* alignment of workgroup local memory
    BindingAlign,   \* alignment of a binding in DDR
    DdrBase,        \* 0x80000000
    DdrLimit,       \* 0xC0000000
    CountModulus    \* push_constant_count and binding_count are uint8_t

ASSUME UnitAssumption ==
    /\ {WordSize, LocalAlign, BindingAlign, DdrBase, CountModulus} \subseteq Nat \ {0}
    /\ DdrLimit \in Nat
    /\ DdrBase < DdrLimit
    /\ MaxDispatches \in Nat

\* __heap_start and __heap_end lie in the DTCM, below DDR (elf_loader.c:310).
ASSUME ImageAssumption ==
    \A m \in DOMAIN Images :
        /\ Images[m].heap_start \in 1 .. DdrBase
        /\ Images[m].heap_end \in Images[m].heap_start .. DdrBase

\* What a command buffer hands to the executable.
Binding ==
    [buffer : DOMAIN BufferCells \cup {"null"}, offset : Nat, length : Nat,
     writeable : BOOLEAN]

ASSUME DispatchAssumption ==
    /\ Dispatches # {}
    /\ \A d \in Dispatches :
          /\ d.image \in DOMAIN Images
          /\ d.constants \in Seq(Int) /\ d.bindings \in Seq(Binding)
          /\ d.groups \in Nat \X Nat \X Nat
          /\ d.ordinal \in Nat /\ d.local_memory \in Nat

Covers(b) == b.offset .. b.offset + b.length - 1

\* Bindings lie in their buffers, and what may be written is bound once.  IREE's
\* command buffers see to the first, the compiler to the second; the dispatch
\* itself depends on neither, except for where its results end up.
WritesApart ==
    \A d \in Dispatches :
        /\ \A n \in DOMAIN d.bindings : d.bindings[n].buffer # "null" =>
              Covers(d.bindings[n]) \subseteq DOMAIN BufferCells[d.bindings[n].buffer]
        /\ \A m, n \in DOMAIN d.bindings :
              /\ m # n /\ d.bindings[m].writeable /\ d.bindings[n].writeable
              /\ d.bindings[m].buffer = d.bindings[n].buffer
              => Covers(d.bindings[m]) \cap Covers(d.bindings[n]) = {}

\* The compiler emits fewer constants and bindings than the counts can hold.
ASSUME CountAssumption ==
    \A d \in Dispatches :
        Len(d.constants) < CountModulus /\ Len(d.bindings) < CountModulus

VARIABLES
    \* what the global simulator holds
    mem,            \* DTCM heap and DDR, one number per unit
    mailbox,        \* request address -> coralnpu_dispatch_request
    code,           \* the image in the ITCM
    exception_info, \* mcause word at 0x8F000000
    fw,             \* where the firmware is
    wg,             \* <<x, y, z>> of the firmware's loops
    \* the locals of the call each thread is in
    pc, call, request, heap_cursor, ddr_cursor, k, result, reported,
    host,           \* host buffers
    \* history: no code reads these
    before,         \* the host buffers when the call was made
    sent,           \* dispatches made by each thread
    run,            \* runs of the core so far
    log,            \* the workgroups this run has executed, and what they saw
    trapped         \* this run took an exception

simVars == <<mem, mailbox, code, exception_info, fw, wg>>
callVars == <<pc, call, request, heap_cursor, ddr_cursor, k, result, reported>>
runVars == <<run, log, trapped>>
vars == <<simVars, callVars, runVars, host, before, sent>>

Addr == 1 .. DdrLimit - 1
NoImage == "none"

Statuses == {"EMPTY", "READY", "RUNNING", "COMPLETE", "ERROR"}

\* coralnpu_dispatch_request_t after memset; `magic` stands for magic and version.
EmptyRequest ==
    [magic |-> FALSE, status |-> "EMPTY", return_code |-> 0,
     workgroup_count |-> <<0, 0, 0>>, push_constant_count |-> 0,
     binding_count |-> 0, ordinal |-> 0, push_constants_addr |-> 0,
     binding_ptrs_addr |-> 0, binding_lengths_addr |-> 0,
     local_memory_addr |-> 0]

RequestAddrs == {Images[m].request_addr : m \in DOMAIN Images}
ImageOf(h) == Images[call[h].image]
Bindings(h) == call[h].bindings

(***************************************************************************)
(* Memory.                                                                 *)
(***************************************************************************)
AlignUp(cursor, alignment) ==
    ((cursor + alignment - 1) \div alignment) * alignment

\* allocate_dtcm and allocate_ddr: the end of the next allocation of `size`.
AllocationEnd(cursor, alignment, size) == AlignUp(cursor, alignment) + size

Word(base, n) == base + (n - 1) * WordSize

Peek(a) == IF a \in Addr THEN mem[a] ELSE 0

\* simulator_write_mem: `cells` is a function from addresses to numbers.
WriteMem(cells) ==
    mem' = [a \in Addr |-> IF a \in DOMAIN cells THEN cells[a] ELSE mem[a]]

(***************************************************************************)
(* The host.                                                               *)
(***************************************************************************)
Goto(h, label) == pc' = [pc EXCEPT ![h] = label]

Finish(h, status) ==
    /\ Goto(h, "done")
    /\ result' = [result EXCEPT ![h] = status]

\* The argument checks before anything is touched (lines 106 to 122).
Malformed(d) ==
    \/ d.ordinal_too_large
    \/ d.constants # <<>> /\ "constants" \in d.null
    \/ d.bindings # <<>> /\ {"binding_ptrs", "binding_lengths"} \cap d.null # {}

Init ==
    /\ mem = [a \in Addr |-> 0]
    /\ mailbox = [a \in RequestAddrs |-> EmptyRequest]
    /\ code = NoImage
    /\ exception_info = 0
    /\ fw = "halted"
    /\ wg = <<0, 0, 0>>
    /\ pc = [h \in Hosts |-> "idle"]
    /\ call = [h \in Hosts |-> CHOOSE d \in Dispatches : TRUE]
    /\ request = [h \in Hosts |-> EmptyRequest]
    /\ heap_cursor = [h \in Hosts |-> 0]
    /\ ddr_cursor = [h \in Hosts |-> DdrBase]
    /\ k = [h \in Hosts |-> 1]
    /\ result = [h \in Hosts |-> "OK"]
    /\ reported = [h \in Hosts |-> FALSE]
    /\ host = BufferCells
    /\ before = [h \in Hosts |-> BufferCells]
    /\ sent = [h \in Hosts |-> 0]
    /\ run = 0
    /\ log = <<>>
    /\ trapped = FALSE

\* simulator_create: a new device replaces the simulator under everyone.
simulator_create(h) ==
    /\ pc[h] = "idle"
    /\ code # NoImage
    /\ mem' = [a \in Addr |-> 0]
    /\ mailbox' = [a \in RequestAddrs |-> EmptyRequest]
    /\ code' = NoImage
    /\ exception_info' = 0
    /\ fw' = "halted"
    /\ wg' = <<0, 0, 0>>
    /\ UNCHANGED <<callVars, runVars, host, before, sent>>

Issue(h, d) ==
    /\ pc[h] = "idle"
    /\ sent[h] < MaxDispatches
    /\ sent' = [sent EXCEPT ![h] = @ + 1]
    /\ call' = [call EXCEPT ![h] = d]
    /\ before' = [before EXCEPT ![h] = host]
    /\ reported' = [reported EXCEPT ![h] = FALSE]
    /\ IF Malformed(d)
       THEN Finish(h, IF d.ordinal_too_large THEN "OUT_OF_RANGE"
                                             ELSE "INVALID_ARGUMENT")
       ELSE Goto(h, "load") /\ UNCHANGED result
    /\ UNCHANGED <<simVars, runVars, host, request, heap_cursor, ddr_cursor, k>>

\* Mutant: the loader does not zero a segment's tail.
ExceptionInfoNoZeroFill(image) == exception_info

\* The exception words after the segments of `image` are written: what a
\* segment reserves beyond its file contents is zeroed.
ExceptionInfoAfter(image) ==
    IF "exception_info" \in image.zeroed THEN 0 ELSE exception_info

WriteSegments(h) ==
    /\ code' = call[h].image
    /\ exception_info' = ExceptionInfoAfter(ImageOf(h))
    /\ mailbox' = IF "request" \in ImageOf(h).zeroed
                  THEN [mailbox EXCEPT ![ImageOf(h).request_addr] = EmptyRequest]
                  ELSE mailbox

\* load_elf_with_layout, the ABI size check and the request's scalars.
LoadElf(h) ==
    /\ pc[h] = "load"
    /\ ImageOf(h).loads
    /\ WriteSegments(h)
    /\ heap_cursor' = [heap_cursor EXCEPT ![h] = ImageOf(h).heap_start]
    /\ IF ImageOf(h).abi_matches
       THEN /\ Goto(h, "constants")
            /\ request' = [request EXCEPT ![h] =
                 [EmptyRequest EXCEPT
                     !.magic = TRUE, !.status = "READY",
                     !.workgroup_count = call[h].groups,
                     !.push_constant_count = Len(call[h].constants) % CountModulus,
                     !.binding_count = Len(Bindings(h)) % CountModulus,
                     !.ordinal = call[h].ordinal]]
            /\ UNCHANGED result
       ELSE Finish(h, "FAILED_PRECONDITION") /\ UNCHANGED request
    /\ UNCHANGED <<mem, fw, wg, runVars, host, before, sent, call, ddr_cursor,
                   k, reported>>

\* A refused image may have been written already, or not.
LoadElfFails(h) ==
    /\ pc[h] = "load"
    /\ ~ImageOf(h).loads
    /\ WriteSegments(h) \/ UNCHANGED <<code, exception_info, mailbox>>
    /\ Finish(h, "INVALID_ARGUMENT")
    /\ UNCHANGED <<mem, fw, wg, runVars, host, before, sent, call, request,
                   heap_cursor, ddr_cursor, k, reported>>

\* Push constants: allocated in the firmware heap only when there are any.
PutConstants(h) ==
    LET n == Len(call[h].constants)
        addr == AlignUp(heap_cursor[h], WordSize)
    IN  /\ pc[h] = "constants"
        /\ n # 0 => addr + n * WordSize <= ImageOf(h).heap_end
        /\ IF n = 0
           THEN UNCHANGED <<mem, request, heap_cursor>>
           ELSE /\ request' = [request EXCEPT ![h].push_constants_addr = addr]
                /\ heap_cursor' = [heap_cursor EXCEPT ![h] = addr + n * WordSize]
                /\ WriteMem([a \in {Word(addr, i) : i \in 1 .. n} |->
                        call[h].constants[(a - addr) \div WordSize + 1]])
        /\ Goto(h, "tables")
        /\ UNCHANGED <<mailbox, code, exception_info, fw, wg, runVars, host,
                       before, sent, call, ddr_cursor, k, result, reported>>

LengthsAddr(ptrs, n) == AlignUp(ptrs + n * WordSize, WordSize)

\* The tables of binding addresses and of binding lengths.
AllocateTables(h) ==
    LET n == Len(Bindings(h))
        ptrs == AlignUp(heap_cursor[h], WordSize)
        lengths == LengthsAddr(ptrs, n)
    IN  /\ pc[h] = "tables"
        /\ n # 0 => lengths + n * WordSize <= ImageOf(h).heap_end
        /\ IF n = 0
           THEN UNCHANGED <<request, heap_cursor>>
           ELSE /\ request' = [request EXCEPT ![h].binding_ptrs_addr = ptrs,
                                              ![h].binding_lengths_addr = lengths]
                /\ heap_cursor' = [heap_cursor EXCEPT ![h] = lengths + n * WordSize]
        /\ Goto(h, "local")
        /\ UNCHANGED <<simVars, runVars, host, before, sent, call, ddr_cursor, k,
                       result, reported>>

\* Local memory, zeroed; then the cursor of the binding loop is set.
PutLocalMemory(h) ==
    LET n == call[h].local_memory
        addr == AlignUp(heap_cursor[h], LocalAlign)
    IN  /\ pc[h] = "local"
        /\ n # 0 => addr + n <= ImageOf(h).heap_end
        /\ IF n = 0
           THEN UNCHANGED <<mem, request, heap_cursor>>
           ELSE /\ request' = [request EXCEPT ![h].local_memory_addr = addr]
                /\ heap_cursor' = [heap_cursor EXCEPT ![h] = addr + n]
                /\ WriteMem([a \in addr .. addr + n - 1 |-> 0])
        /\ ddr_cursor' = [ddr_cursor EXCEPT ![h] = DdrBase]
        /\ k' = [k EXCEPT ![h] = 1]
        /\ Goto(h, "bindings")
        /\ UNCHANGED <<mailbox, code, exception_info, fw, wg, runVars, host,
                       before, sent, call, result, reported>>

\* An allocation that does not fit the firmware heap.
HeapExhausted(h) ==
    LET need(label) ==
            CASE label = "constants" -> <<WordSize, Len(call[h].constants) * WordSize>>
              [] label = "tables" -> <<WordSize, 2 * Len(Bindings(h)) * WordSize>>
              [] OTHER -> <<LocalAlign, call[h].local_memory>>
    IN  /\ pc[h] \in {"constants", "tables", "local"}
        /\ need(pc[h])[2] # 0
        /\ AllocationEnd(heap_cursor[h], need(pc[h])[1], need(pc[h])[2])
              > ImageOf(h).heap_end
        /\ Finish(h, "RESOURCE_EXHAUSTED")
        /\ UNCHANGED <<simVars, runVars, host, before, sent, call, request,
                       heap_cursor, ddr_cursor, k, reported>>

\* allocate_ddr succeeds.
FitsDdr(cursor, size) == AllocationEnd(cursor, BindingAlign, size) <= DdrLimit

\* One binding: its place in DDR, its two table entries, its contents.
PutBinding(h) ==
    LET b == Bindings(h)[k[h]]
        addr == AlignUp(ddr_cursor[h], BindingAlign)
    IN  /\ pc[h] = "bindings"
        /\ k[h] <= Len(Bindings(h))
        /\ b.length # 0 => b.buffer # "null"
        /\ FitsDdr(ddr_cursor[h], b.length)
        /\ WriteMem([a \in {Word(request[h].binding_ptrs_addr, k[h]),
                            Word(request[h].binding_lengths_addr, k[h])}
                            \cup addr .. addr + b.length - 1 |->
                CASE a >= addr -> host[b.buffer][b.offset + (a - addr)]
                  [] a = Word(request[h].binding_ptrs_addr, k[h]) -> addr
                  [] OTHER -> b.length])
        /\ ddr_cursor' = [ddr_cursor EXCEPT ![h] = addr + b.length]
        /\ k' = [k EXCEPT ![h] = @ + 1]
        /\ UNCHANGED <<mailbox, code, exception_info, fw, wg, runVars, host,
                       before, sent, pc, call, request, heap_cursor, result,
                       reported>>

\* A binding without a pointer, or one that does not fit in DDR.
BindingRefused(h) ==
    LET b == Bindings(h)[k[h]]
    IN  /\ pc[h] = "bindings"
        /\ k[h] <= Len(Bindings(h))
        /\ \/ /\ b.length # 0 /\ b.buffer = "null"
              /\ Finish(h, "INVALID_ARGUMENT")
           \/ /\ b.length # 0 => b.buffer # "null"
              /\ ~FitsDdr(ddr_cursor[h], b.length)
              /\ Finish(h, "RESOURCE_EXHAUSTED")
        /\ UNCHANGED <<simVars, runVars, host, before, sent, call, request,
                       heap_cursor, ddr_cursor, k, reported>>

WriteRequest(h) ==
    /\ pc[h] = "bindings"
    /\ k[h] > Len(Bindings(h))
    /\ mailbox' = [mailbox EXCEPT ![ImageOf(h).request_addr] = request[h]]
    /\ Goto(h, "run")
    /\ UNCHANGED <<mem, code, exception_info, fw, wg, runVars, host, before, sent,
                   call, request, heap_cursor, ddr_cursor, k, result, reported>>

\* simulator_run starts the core at the entry point.
Run(h) ==
    /\ pc[h] = "run"
    /\ fw' = "main"
    /\ run' = run + 1
    /\ log' = <<>>
    /\ trapped' = FALSE
    /\ Goto(h, "wait")
    /\ UNCHANGED <<mem, mailbox, code, exception_info, wg, host, before, sent,
                   call, request, heap_cursor, ddr_cursor, k, result, reported>>

\* Mutant: only the return code is looked at.
VerdictAnyStatus(r) ==
    CASE ~r.magic -> "DATA_LOSS"
      [] r.magic /\ r.return_code # 0 -> "INTERNAL"
      [] OTHER -> "OK"

\* What the request that comes back says of the dispatch (lines 257 to 275).
Verdict(r) ==
    CASE ~r.magic -> "DATA_LOSS"
      [] r.magic /\ r.status # "COMPLETE" -> "INTERNAL"
      [] r.magic /\ r.status = "COMPLETE" /\ r.return_code # 0 -> "INTERNAL"
      [] OTHER -> "OK"

\* WaitForTermination has seen the core halt; the exception words are read
\* and printed when not zero, then the request is read back and judged.
Collect(h) ==
    LET r == mailbox[ImageOf(h).request_addr]
    IN  /\ pc[h] = "wait"
        /\ fw = "halted"
        /\ reported' = [reported EXCEPT ![h] = exception_info # 0]
        /\ request' = [request EXCEPT ![h] = r]
        /\ IF Verdict(r) = "OK"
           THEN /\ Goto(h, "readback")
                /\ ddr_cursor' = [ddr_cursor EXCEPT ![h] = DdrBase]
                /\ k' = [k EXCEPT ![h] = 1]
                /\ UNCHANGED result
           ELSE Finish(h, Verdict(r)) /\ UNCHANGED <<ddr_cursor, k>>
        /\ UNCHANGED <<simVars, runVars, host, before, sent, call, heap_cursor>>

\* Mutant: read-only bindings are read back too.
ReadsBackAll(b) == b.length # 0

ReadsBack(b) == b.length # 0 /\ b.writeable

\* Mutant: the second walk over the bindings does not align them.
ReadBackAddrUnaligned(h) == ddr_cursor[h]

\* Where the second walk over the bindings finds the next one.
ReadBackAddr(h) == AlignUp(ddr_cursor[h], BindingAlign)

\* Results go back only to bindings the host may write.
ReadBack(h) ==
    LET b == Bindings(h)[k[h]]
        addr == ReadBackAddr(h)
    IN  /\ pc[h] = "readback"
        /\ k[h] <= Len(Bindings(h))
        /\ ddr_cursor' = [ddr_cursor EXCEPT ![h] = addr + b.length]
        /\ k' = [k EXCEPT ![h] = @ + 1]
        /\ host' = IF ReadsBack(b)
                   THEN [host EXCEPT ![b.buffer] =
                           [c \in DOMAIN @ |->
                              IF c \in b.offset .. b.offset + b.length - 1
                              THEN Peek(addr + (c - b.offset)) ELSE @[c]]]
                   ELSE host
        /\ UNCHANGED <<simVars, runVars, before, sent, pc, call, request,
                       heap_cursor, result, reported>>

ReadBackDone(h) ==
    /\ pc[h] = "readback"
    /\ k[h] > Len(Bindings(h))
    /\ Finish(h, "OK")
    /\ UNCHANGED <<simVars, runVars, host, before, sent, call, request,
                   heap_cursor, ddr_cursor, k, reported>>

Return(h) ==
    /\ pc[h] = "done"
    /\ Goto(h, "idle")
    /\ UNCHANGED <<simVars, runVars, host, before, sent, call, request,
                   heap_cursor, ddr_cursor, k, result, reported>>

(***************************************************************************)
(* The firmware.  The simulator advances the core only while some thread   *)
(* polls WaitForTermination; a core without an image runs nothing here.    *)
(***************************************************************************)
Stepping == code # NoImage /\ \E h \in Hosts : pc[h] = "wait"

Box == Images[code].request_addr

hostSide == <<callVars, host, before, sent>>

\* coralnpu_dispatch_fail, or on to the next part of main when rc is 0.
FailOr(rc, next) ==
    IF rc = 0
    THEN next
    ELSE /\ mailbox' = [mailbox EXCEPT ![Box].return_code = rc,
                                       ![Box].status = "ERROR"]
         /\ fw' = "halted"
         /\ UNCHANGED wg

\* The checks at the top of main.
RequestError(r) ==
    CASE ~(r.magic /\ r.status = "READY") -> -1
      [] /\ r.magic /\ r.status = "READY"
         /\ \/ r.push_constant_count # 0 /\ r.push_constants_addr = 0
            \/ r.binding_count # 0 /\ 0 \in {r.binding_ptrs_addr,
                                             r.binding_lengths_addr} -> -2
      [] OTHER -> 0

FwMain ==
    /\ Stepping /\ fw = "main"
    /\ FailOr(RequestError(mailbox[Box]),
              /\ mailbox' = [mailbox EXCEPT ![Box].status = "RUNNING",
                                            ![Box].return_code = 0]
              /\ fw' = "lookup"
              /\ UNCHANGED wg)
    /\ UNCHANGED <<mem, code, exception_info, runVars, hostSide>>

LookupError(image, ordinal) ==
    CASE ~image.has_library -> -3
      [] image.has_library /\ ordinal >= image.exports -> -4
      [] OTHER -> 0

FwLookup ==
    /\ Stepping /\ fw = "lookup"
    /\ FailOr(LookupError(Images[code], mailbox[Box].ordinal),
              fw' = "loop" /\ wg' = <<0, 0, 0>> /\ UNCHANGED mailbox)
    /\ UNCHANGED <<mem, code, exception_info, runVars, hostSide>>

LoopDone(g) == g[1] = 0 \/ g[2] = 0 \/ wg[3] >= g[3]

\* The increments of the three nested loops.
NextGroup(g) ==
    CASE wg[1] + 1 < g[1] -> [wg EXCEPT ![1] = @ + 1]
      [] wg[1] + 1 >= g[1] /\ wg[2] + 1 < g[2] -> <<0, wg[2] + 1, wg[3]>>
      [] OTHER -> <<0, 0, wg[3] + 1>>

\* The dispatch_state and workgroup_state that main builds, as a kernel sees
\* them through the request's tables.
FwConstants(r) ==
    [n \in 1 .. r.push_constant_count |-> Peek(Word(r.push_constants_addr, n))]

FwBinding(r, n) ==
    LET base == Peek(Word(r.binding_ptrs_addr, n))
    IN  base .. base + Peek(Word(r.binding_lengths_addr, n)) - 1

FwInputs(r) ==
    [n \in 1 .. r.binding_count |->
        LET cells == FwBinding(r, n)
            first == Peek(Word(r.binding_ptrs_addr, n))
        IN  [c \in {a - first : a \in cells} |-> Peek(first + c)]]

\* The number a workgroup of this run leaves in the cells it writes.
Token == 100 + run

KernelReturns ==
    LET r == mailbox[Box]
    IN  /\ Stepping /\ fw = "loop" /\ ~LoopDone(r.workgroup_count)
        /\ WriteMem([a \in UNION {FwBinding(r, n) :
                        n \in Images[code].outputs \cap 1 .. r.binding_count} |-> Token])
        /\ log' = Append(log, [id |-> wg, constants |-> FwConstants(r),
                               inputs |-> FwInputs(r)])
        /\ wg' = NextGroup(r.workgroup_count)
        /\ UNCHANGED <<mailbox, code, exception_info, fw, run, trapped, hostSide>>

\* A workgroup that returns nonzero ends the dispatch.
KernelFails ==
    /\ Stepping /\ fw = "loop" /\ ~LoopDone(mailbox[Box].workgroup_count)
    /\ FailOr(1, FALSE)
    /\ UNCHANGED <<mem, code, exception_info, runVars, hostSide>>

\* Mutant: the handler returns to the instruction that trapped.
AfterExceptionResumes == "loop"

\* The handler's ebreak halts the core.
AfterException == "halted"

\* coralnpu_exception_handler records the cause and executes ebreak; the
\* request stays as it was.
KernelTraps ==
    /\ Stepping /\ fw = "loop" /\ ~LoopDone(mailbox[Box].workgroup_count)
    /\ \E mcause \in {0, 2} : exception_info' = mcause
    /\ fw' = AfterException
    /\ trapped' = TRUE
    /\ UNCHANGED <<mem, mailbox, code, wg, run, log, hostSide>>

\* A workgroup that never returns; nothing on the host side times out.
KernelSpins ==
    /\ Stepping /\ fw = "loop" /\ ~LoopDone(mailbox[Box].workgroup_count)
    /\ fw' = "spinning"
    /\ UNCHANGED <<mem, mailbox, code, exception_info, wg, runVars, hostSide>>

FwComplete ==
    /\ Stepping /\ fw = "loop" /\ LoopDone(mailbox[Box].workgroup_count)
    /\ mailbox' = [mailbox EXCEPT ![Box].return_code = 0,
                                  ![Box].status = "COMPLETE"]
    /\ fw' = "halted"
    /\ UNCHANGED <<mem, code, exception_info, wg, runVars, hostSide>>

Host(h) ==
    \/ \E d \in Dispatches : Issue(h, d)
    \/ LoadElf(h) \/ LoadElfFails(h)
    \/ PutConstants(h) \/ AllocateTables(h) \/ PutLocalMemory(h)
    \/ HeapExhausted(h)
    \/ PutBinding(h) \/ BindingRefused(h)
    \/ WriteRequest(h) \/ Run(h) \/ Collect(h)
    \/ ReadBack(h) \/ ReadBackDone(h) \/ Return(h)

Firmware ==
    FwMain \/ FwLookup \/ KernelReturns \/ KernelFails \/ KernelTraps
    \/ KernelSpins \/ FwComplete

Next == Firmware \/ \E h \in Hosts : Host(h) \/ simulator_create(h)

Spec == Init /\ [][Next]_vars

\* The calling thread runs its own code and, through WaitForTermination, the
\* core; that callers go on dispatching is not assumed.
FairSpec ==
    /\ Spec
    /\ WF_vars(Firmware)
    /\ \A h \in Hosts :
          WF_vars(Host(h) /\ pc[h] # "idle")

(***************************************************************************)
(* Properties.                                                             *)
(***************************************************************************)
InRowMajorOrder(ids, g) ==
    /\ Len(ids) = g[1] * g[2] * g[3]
    /\ \A n \in 1 .. Len(ids) :
          ids[n].id = <<(n - 1) % g[1], ((n - 1) \div g[1]) % g[2],
                        (n - 1) \div (g[1] * g[2])>>

\* The cells of a buffer that a binding covers, from the binding's start.
Contents(buffers, b) ==
    [c \in 0 .. b.length - 1 |-> buffers[b.buffer][b.offset + c]]

\* A dispatch that returns OK was executed, for this call: the run that the
\* firmware reported on executed every workgroup once, in row-major order,
\* each with this call's constants, the first on this call's buffer contents.
\* A COMPLETE left in the request by an earlier dispatch can never be taken
\* for this one's.
OkMeansExecuted ==
    \A h \in Hosts : pc[h] = "done" /\ result[h] = "OK" =>
        /\ InRowMajorOrder(log, call[h].groups)
        /\ \A n \in DOMAIN log : log[n].constants = call[h].constants
        /\ log # <<>> => log[1].inputs =
              [n \in DOMAIN Bindings(h) |-> Contents(before[h], Bindings(h)[n])]

\* A dispatch that returns OK has left in the host's buffers what its
\* workgroups wrote, wherever they wrote.
OkDeliversResults ==
    \A h \in Hosts : pc[h] = "done" /\ result[h] = "OK" /\ log # <<>> =>
        \A n \in ImageOf(h).outputs \cap DOMAIN Bindings(h) :
            LET b == Bindings(h)[n]
            IN  b.writeable =>
                  Contents(host, b) = [c \in 0 .. b.length - 1 |-> Token]

\* A host buffer changes only where a dispatch that returns OK may write it.  A
\* dispatch that fails anywhere, in the host's checks, in the loader, in the
\* firmware or in a workgroup after others have written, leaves every buffer as
\* it was, and what a workgroup does to the DDR copy of a read-only binding
\* never comes back.
OnlyResultsReachBuffers ==
    \A h \in Hosts : pc[h] = "done" =>
        \A name \in DOMAIN host : \A c \in DOMAIN host[name] :
            host[name][c] # before[h][name][c] =>
                /\ result[h] = "OK"
                /\ \E n \in DOMAIN Bindings(h) :
                      LET b == Bindings(h)[n]
                      IN  /\ b.writeable /\ b.buffer = name
                          /\ c \in b.offset .. b.offset + b.length - 1

\* An exception that simulator_run prints was taken in that run: the words at
\* 0x8F000000 are only cleared because loading the image zeroes them again.
ReportIsFresh ==
    \A h \in Hosts : pc[h] \in {"readback", "done"} /\ reported[h]
                        /\ "exception_info" \in ImageOf(h).zeroed => trapped

\* Every dispatch returns, unless a workgroup never does: an exception ends
\* the run too, because the handler executes ebreak.
EveryDispatchReturns ==
    \A h \in Hosts : pc[h] = "load" ~> (pc[h] = "done" \/ fw = "spinning")
=============================================================================
