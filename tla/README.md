# CoralNPU compiler and runtime: TLA+ models

This directory holds TLA+ models of the CoralNPU compiler and runtime, the TLC
configurations that check them on small instances, and TLAPS proofs of the
properties that hold for every instance. `PROJECT.json` lists the components,
the runs, the source lines behind every definition, the hazards of the code and
the theorems. Paths below are relative to the repository.

    tlc -config MCSemaphore.cfg MCSemaphore        # a run
    tlapm SemaphoreProofs.tla                      # the proofs of a module

## 1. The system

A model is compiled by `coralnpu-compile`, an IREE compiler with a CoralNPU
plugin, into a VM module whose executables are RISC-V ELF images. At run time an
IREE HAL driver loads those images into a simulated CoralNPU and runs the
dispatches of the module on it, one workgroup after the other.

### 1.1 Inventory

| Component | Source | State | Operations | Works with |
|---|---|---|---|---|
| Timeline semaphores | `runtime/driver/coralnpu_semaphore.c` | per semaphore: mutex, value, failure status; one notification per device | query, signal, multi_signal, fail, wait, multi_wait | device queue and application, on any thread |
| Device queue | `runtime/driver/coralnpu_device.c` | none of its own: a call runs inline on the submitting thread | alloca, dealloca, execute, host_call, read, write, wait_semaphores | waits on semaphores, replays command buffers, signals semaphores |
| Inline command buffer | `runtime/driver/coralnpu_command_buffer.c` | cached dispatch state, push constants, binding arrays, FPU state | create, begin, end, dispatch, fill, update, copy | executable, simulator dispatch |
| Executable base | `runtime/driver/coralnpu_executable.c` | | workgroup loops, issue_call | called by the command buffer |
| Executable cache | `runtime/driver/coralnpu_executable_cache.c`, `runtime/sim/simulator_executable.c` | the list of loaders | infer_format, can_prepare_format, prepare_executable | loaders, simulator executable |
| Driver, registration, events | `runtime/driver/coralnpu_driver.c`, `registration/driver_module.c`, `coralnpu_event.c` | reference counts, a device's allocator and channel provider | create, destroy, replace, query | IREE registry, device, caches |
| Simulator dispatch | `runtime/sim/simulator_inline.c` | locals: the request, two allocation cursors | issue_dispatch_inline | ELF loader, simulator wrapper, firmware through memory |
| Simulator wrapper | `runtime/sim/simulator_mpact.cpp` | one global simulator | create, read, write, run | everything under `runtime/sim` |
| ELF loader | `runtime/sim/simulator_elf_loader.c` | simulator memory | load_elf_with_layout | simulator wrapper |
| Firmware | `crt/coralnpu_main.c`, `crt/coralnpu_exceptions.cc` | the request in device memory, exception words | main, exception handler | the compiled library, the host through memory |
| Firmware start-up | `crt/*.S`, `crt/coralnpu_tcm.ld.tpl`, `crt/cxx_guards.cc` | sections, guards, atexit table | clear .bss, constructors, destructors, exit | memory as the ELF loader leaves it, firmware main |
| Tile size selection | `compiler/Transforms/CoralNPUTileSizeSelection.cpp` | the lowering config of the root operation | register, DTCM and workgroup passes | run by the backend's configuration pipeline |
| Target backend | `compiler/Target/*.cpp` | temporary files, the binary op | serializeExecutable, linkDynamicLibrary | called by the IREE pipeline |
| Compiler driver | `compiler/tools/coralnpu_compile_lib.cc` | session, invocation, module, output | the command | IREE pipelines, the affinity profile pass |
| Affinity passes | `compiler/Transforms/CoralNPUAffinityAnnotation.cpp`, `CoralNPUDumpAffinityExecutionProfile.cpp` | affinities of operations, the profile | annotate, report | preprocessing, and the driver between stream and HAL |
| Matrix lowering | `compiler/Transforms/CoralNPUVectorToMatrix.cpp`, `CoralNPUMatrixToLLVM.cpp` | the function being rewritten, chains, tile numbers | find chains, lower them, one access per row | registered passes |
| Tools and plugins | `tools/`, `pjrt_plugin/` | | | |

### 1.2 What is hard, and what makes each part correct

- **Semaphores.** Threads race; a wait checks a list one lock at a time, sleeps,
  and reads the list again for its result. Correct: no wakeup is lost, no OK is
  torn together from different instants, payloads only grow, failures are final.
- **Device queue.** Submissions block the submitting thread, may fail half way,
  and host calls report errors only through semaphores. Correct: work follows
  its producers, errors reach consumers, nobody hangs without anyone being told.
- **Command buffer.** One cached state serves every dispatch. Correct: nothing of
  a failed dispatch is seen by the next, everything acquired is released, every
  workgroup is accounted for.
- **Simulator dispatch.** Host and firmware share memory that survives a
  dispatch. Correct: OK means this dispatch ran and its results arrived;
  failure leaves the host buffers alone.
- **ELF loader.** Untrusted sizes near the end of a 32-bit address space.
  Correct: writes stay in the regions, accepted images are whole.
- **Firmware start-up.** Assembly that relies on how the linker script aligns
  its sections, and a destructor table of eight. Correct: `main` finds memory as
  linked with every constructor called once; what was registered is undone in
  reverse order; a bootable image comes to an end.
- **Object lifetimes and the executable cache.** Creations that fail half way,
  objects that outlive their makers, loaders that are asked more than once.
  Correct: counts are the pointers, nothing is left in the end, no answer skips
  a loader.
- **Tile sizes.** A greedy search with a fallback. Correct: it ends, its tiles
  are usable and fit, and it gives up only when nothing fits.
- **Compiler driver and backend.** A chain of fallible steps with a module taken
  out of its invocation in between. Correct: a kept output is whole, phases run
  once, nothing leaks, and the profile counts every operation where it was placed.
- **Matrix lowering.** A rewrite in place of several chains, found before any is
  lowered, and inside tile loops. Correct: the function computes what it did. More
  is accepted than is lowered correctly, and the model says what can be relied on.

## 2. Modules

| Module | Models | Built on |
|---|---|---|
| `Timeline` | abstract specification of timeline semaphores: atomic signals, failures and waits | |
| `Semaphore` | `coralnpu_semaphore.c`, one critical section per step | implements `Timeline` |
| `DeviceQueue` | the queue calls of `coralnpu_device.c` | uses semaphores as `Timeline` promises (`UsesTimeline`) |
| `CommandBuffer` | `coralnpu_command_buffer.c`, `coralnpu_executable.c` | |
| `SimDispatch` | `simulator_inline.c`, `simulator_mpact.cpp`, `coralnpu_main.c`, `coralnpu_exceptions.cc`: host and firmware composed over shared memory | |
| `ElfLoader` | `simulator_elf_loader.c` | |
| `CrtStart` | `coralnpu_start.S`, `crt.S`, `cxx_guards.cc` at the addresses of `coralnpu_tcm.ld.tpl` | `ElfLoader`, whose memory it runs in |
| `RuntimeObjects` | who holds whom: `driver_module.c`, `coralnpu_driver.c`, creation and destruction in `coralnpu_device.c`, `coralnpu_event.c` | |
| `ExecutableCache` | `coralnpu_executable_cache.c`, query_i64, creation of a simulator executable | `RuntimeObjects`, whose caches and devices are asked |
| `LoopNest` | the tiling analysis and the footprint estimates, as operators | |
| `TileSizeSelection` | the three tile size passes | `LoopNest` |
| `Serialization` | `serializeExecutable` and the linker tool | |
| `Affinity` | the two affinity passes, as operators on a program | |
| `CompileDriver` | `coralnpu_compile_lib.cc` | `Serialization`, as the serializing phase; `Affinity`, as preprocessing and as the interruption after stream |
| `MatrixCode` | the operations the matrix lowering reads and writes, and what they compute | |
| `MatrixLowering` | `CoralNPUVectorToMatrix.cpp`, `CoralNPUMatrixToLLVM.cpp` | `MatrixCode` |
| `SemaphoreProofs` | theorems | `Semaphore`, and `Timeline` for the refinement |
| `BootProofs` | theorems | `CrtStart`, and with it `ElfLoader` |
| `RuntimeObjectsProofs` | theorems | `ExecutableCache`, and with it `RuntimeObjects` |
| `DeviceQueueProofs`, `CommandBufferProofs`, `SimDispatchProofs`, `TileSizeSelectionProofs`, `CompileDriverProofs` | theorems | the module of that name |
| `MC...` | instances for TLC | |

Operators named "Mutant" stand before the definition they corrupt. They are used
nowhere; replacing the definition by one must break the property that
`PROJECT.json` pairs it with, which shows that the property depends on the code.

### Semaphore
`current_value` and `failure_status` are the two fields behind a semaphore's
mutex; every action is one critical section or one step between two of them.
`pc`, `i` and `seen` are a thread's place in `multi_signal`, in the scan of
`all_signaled` / `any_signaled` and in `result_from_state`. `iree_notification`
is external and modelled from its use: `AwaitCheck`, `Prepare`, `Recheck` and
`Wake` are the condition before the sleep, the epoch taken, the condition again
and the sleep that a later post ends; `Expire` is the deadline. `snapshot` is a
history variable: there was an instant in this call at which the wait's
condition held and no semaphore of its list had failed. A signal below the
current payload is refused as in `signal_unsafe`.

### DeviceQueue
A submission goes through wait, work, signal (or fail) exactly as the queue calls
do, one semaphore of a list per step. `returned` is what its caller got. A host
call may fail (its semaphores are failed one by one and the call returns OK), be
non-blocking (it signals first), or be deferred (the application signals later).
`AppFail` is the application failing a timeline of its own.

### CommandBuffer
`dispatch_state`, `binding_ptrs` and `push_constants` are the cached state. A
dispatch is a sequence of steps - workgroup count, constants, binding count,
each binding, the loops - with the early returns of the code between them.
`log` records what each workgroup saw and returned.

### SimDispatch
Host (`pc`, cursors, request) and firmware (`fw`, `wg`) are processes over
`mem`, `mailbox` and `exception_info`. Addresses are small numbers, with a word
of 2 units and alignments of 4 so that unaligned and aligned addresses differ.
Images differ in whether loading them zeroes the request and the exception
words, which decides whether stale values survive. A dispatch's bindings need
not lie apart; `WritesApart` says that they lie in their buffers and that the
writeable ones do not overlap, as the run has them, and is a hypothesis only of
what is proved about where results end up.

### ElfLoader
Headers, program headers and symbols are records of the fields the code
compares; addresses wrap at `AddrModulus` (2^32 in the code). `ZeroChunk` is one
iteration of the BSS loop.

### CrtStart
`core` is where the core is, `ram` memory as it changes it. `LinkMap` gives the
addresses that the linker script gives to a program with so many constructors,
destructors and bytes of data and `.bss`: the constructor array ends at a
multiple of 16, filled with zeros, and `.bss` ends where it ends. `Placed` is the
part of it that the start-up code relies on, and what the proofs assume of an
image (`LinkAssumption`): whole words for the arrays, an aligned start of `.bss`,
and arrays, `.bss` and `_ret` apart. It does not say that `.bss` ends at a word or
that the constructors fill their array, which the script does not ensure. What
the core stores in `_ret` is a negative number, which no byte of a file is. A null
pointer in an array is `_start`, which the script puts at address 0. What
constructors, `main` and destructors do is external: register destructors, use a
function-local static, trap or return.

### RuntimeObjects and ExecutableCache
A pointer is `<<holder, slot, object>>`; `count` is changed only where the code
retains or releases, `refs` only where it stores or drops a pointer, so that
comparing them is a check. `releasing` is the stack of holders that are giving
up their pointers: `Release` drops one pointer of the innermost, in the order of
its slots, and puts what dies of it on top; `Released` takes a holder without
pointers off. A call of the application that releases is a holder too (`Call`),
since the pointer is on its stack until the count has been lowered.
`factory` goes through the four creations of `try_create`, each of which may
fail. A question to a cache or device (`q`) asks one loader per step, and a
loader may give any answer; `heard` is what the loaders said.

### LoopNest and TileSizeSelection
A root operation is a record with its loops, trip counts, operands and affine
maps. The classes of loops and the footprint are operators translated from the
C++; `Shrink` is one iteration of the shrink loop, `FallBack` and `GiveUp` its
two endings. The factor 1.2 is kept exactly as 6/5.

### Serialization and CompileDriver
The stages of `serializeExecutable` form a route that depends on the target;
every stage that can fail may fail. What is tracked is what the stages leave
behind: object files, the linked library, which of them are kept, the binary.
The driver runs the invocation of every piece; `Parse`, `StealModule`, `Resume`
and `ProfileFails` are the interruption after the stream phase, and
`EmitProfile` writes what `Affinity`'s `Report` makes of the piece. IREE's phases
are names, except that preprocessing annotates the piece's program and that
dispatch creation keeps an operation's affinity (`Streamed`, external, as the
IREE patch in the repository has it).

### MatrixCode and MatrixLowering
A function is a sequence of reads, contractions, loops (of loops) and writes of
tiles; a row of a tile is the sequence of what was added to it, so that a product
that is lost, repeated or computed for another type shows. An operand has its
element type and the form in which the contraction gets it: plain, behind a sign
(or float) or zero extension, or behind a broadcast. A product records how it is
combined, whether it is transposed and which operands are unsigned (`Effect`);
the instruction always adds, untransposed and signed (`InstructionEffect`). A
transfer has the rows its mask leaves and may be permuted, and its place may move
with the iteration of the tile loop around it. `Meaning` runs a function.
The lowering is one action per step of `analyzeChain` (`EnterLoop`,
`TraceUpdate`, ...), one per chain lowered, and one for `MatrixToLLVM`. `pc` is
"undefined" once the pass would follow a pointer to an erased operation, and
"invalid" when the IR it makes does not verify.

## 3. Runs

| Run | Asks | Result |
|---|---|---|
| `semaphore` | a waiter against a thread that signals, fails and queries: lost wakeups, torn results, order, refinement of `Timeline` | holds |
| `semaphore_deadline` | does every wait with a finite timeout return? | **violated** (finding 1) |
| `device_queue` | six submissions on three threads with failures: order, hangs, propagation | holds |
| `sim_dispatch` | up to three dispatches in a row of every kind, with every failure | holds |
| `command_buffer` | dispatches of different shapes in a row, failing anywhere | holds |
| `command_buffer_group_failure` | does OK mean that no workgroup failed? | **violated** (finding 2) |
| `boot` | 4,652 images around every edge, and programs with every number of constructors, destructors and bytes of `.bss` the small memory holds, loaded and started | holds |
| `runtime_objects` | a driver, two devices, a cache, and what they hold, created, replaced, failed and released in every order, with every question and every answer of two loaders | holds |
| `matrix_lowering` | functions with one chain of every shape, operand and transfer, chains inside tile loops, two plain chains in every order, and more chains than tiles | holds |
| `matrix_lowering_updates` | do all contractions of an accepted chain reach memory? | **violated** (finding 3) |
| `tile_sizes` | 20 operations, 3 targets, 3 option sets, 2 DTCM sizes, 5 pass sequences | holds |
| `compile_driver` | 5 inputs of up to three pieces under every combination of phases, pipelines and profile destinations, failures at every step | holds |

### Bounds, and why they are enough
- *Semaphores*: two semaphores, payloads to 2, lists of length 0 to 2 including
  the same semaphore twice. Every list shape that takes its own path occurs,
  and a second entry is all that a torn scan needs. One thread waits and one does
  everything else; two waiters do not interact except through the epoch, which
  the posts of the second thread already move.
- *Device queue*: three threads, so that a consumer can wait on two producers and
  a third thread on one of them.
- *Simulator dispatch*: three dispatches, so that a stale value can survive one
  and be met by the next; three cells of buffer; grids up to 2x2 and 1x1x2.
- *Command buffer*: two dispatches, the first to leave something behind.
- *Boot*: an address space of 32 with three regions, the last one ending where
  addresses end; chunks of 2, so that a tail takes up to two; words of 2 and
  arrays aligned to 4, so that one constructor leaves padding and two do not; a
  table of two destructors and three registrations.
- *Objects*: two devices of one driver, so that each can go first; one cache, one
  allocator and one provider of the application; two loaders, of which zero, one
  or two are available.
- *Matrix lowering*: tiles of two rows, two tile registers, loops of 0 to 2 trips.
  Three chains exhaust the registers; two chains show every way in which one
  disturbs another; a tile loop of two trips around a chain is enough for a tile
  of one iteration to be taken for that of another. Of the functions in the run
  399 are lowerable, 74 of them with nested loops; about 900 others come out
  with another meaning.
- *Tile sizes*: operations whose ranges are not multiples of anything, and DTCM
  sizes of 1 and 2 KB that make each of them fit at once, shrink, fall back or
  give up. `MaxTripCount` only names the width of a trip count.
- *Compiler driver*: five phases (two before stream, two after), up to three
  pieces, two executables in one piece; operations one byte below and one above
  the I/O threshold, of dynamic shape, of an unsupported type, already placed.

Deadlock is checked where the system never stops by itself (`command_buffer`,
`runtime_objects`), and in `matrix_lowering`, which says itself where it ends. It
is off where a state in which the program is done, the core halted or a
submission blocked on purpose is an end.

### Fairness
- `Semaphore`: weak fairness of every thread inside a call, and of the expiry of
  a finite deadline: the OS schedules runnable threads and mutexes are held for a
  few instructions. A thread need not start calls, and nobody need signal. The
  deadline properties assume that posts stop (`Quiet`), since each post sends a
  sleeper round its loop.
- `DeviceQueue`: weak fairness of every thread and of the completion of a
  deferred call, which the host call contract requires of the application.
- `SimDispatch`: weak fairness of host and firmware; a kernel may spin forever
  and `EveryDispatchReturns` excepts it.
- `TileSizeSelection`: weak fairness of the single-threaded pass manager.
- `CrtStart`: weak fairness of the core (`Run`): the simulator steps it for as
  long as it runs, and a function that is called returns or stops the core.

The other runs check safety only and need none.

## 4. Findings

1. **A multi-wait drops its deadline.** `multi_wait` on two or more semaphores
   waits with `iree_infinite_timeout()` (`coralnpu_semaphore.c:435`); the header
   promises DEADLINE_EXCEEDED (`coralnpu_semaphore.h:73`).
2. **A failed workgroup can be forgotten.** `break` leaves one of three loops and
   the next row overwrites the status (`coralnpu_executable.c:99`): of 1x2x2
   workgroups the third fails, the fourth succeeds, and the dispatch returns OK.
3. **Updates of a chain are lost.** `analyzeChain` collects "all updates"
   (`CoralNPUVectorToMatrix.cpp:139`); without a loop only the first of them is
   lowered (`:637`), and the products of the others never reach memory.

Other observations, most of them hazards in `PROJECT.json`. Runtime:
- `infer_format` tests the result so far and not the loader's answer, and so
  always stops at the first loader (`coralnpu_executable_cache.c:113`).
  `AnswersAreExhaustive` is about the other three questions.
- Semaphores and deferred command buffers point into their device and do not
  retain it; `coralnpu_semaphore.h:33` asks that the state outlive them.
- `create_device` makes the simulator anew, replacing the global one
  (`simulator_mpact.cpp:53`), also when there is no memory for the device and while
  another device exists. No lock is held: made by one thread during the dispatch
  of another, it wipes the arguments that were written, and the dispatch runs on
  zeros and returns OK. Nothing promises dispatches on several threads at once;
  the properties of `SimDispatch` are about one thread.
- Waiting for ALL does not end when one semaphore fails while another is not yet
  signaled, although the comment at `coralnpu_semaphore.c:342` says "(or any failed)".
- Of two writeable bindings of one range, the copy read back last wins;
  `OkDeliversResults` is checked for dispatches without such overlap.

Firmware start-up:
- `.init.array` is padded with zeros to a multiple of 16 bytes: unless the number
  of constructors is a multiple of four, the loop calls address 0 and the
  firmware starts again, for ever. `StartUpEnds` is about images without
  padding; `MainSeesCleanImage` says that `main` is reached in no other.
- `__bss_end__` is not aligned, and `crt_section_clear` stops the core with
  `ebreak` unless it is a multiple of four.
- The trap vector is installed after the constructors have run: a trap in one
  goes wherever `mtvec` pointed after reset ("lost").
- The destructor table refuses a ninth entry and its callers do not look; a
  destructor registered while destructors are called is never called.

Compiler:
- The DTCM pass caps tiles after aligning them, so a tile at the cap need not be
  a multiple of its register tile; `docs/design/tiling_levels_explained.md:85`
  asks for multiples, and its guided example ends with 24 where the code ends
  with 16.
- i1 operands weigh nothing in the footprint. The option parallelAlignment is
  resolved but the register tiles do not use it when there is no unrolled loop.
  After a fallback batch loops have register tile 0. A root without a shaped
  result leaves elemSizeBytes at 0, by which the register pass divides;
  `WidthAssumption` excludes it.
- The lowering of chains can be relied on for one contraction, or one loop that
  carries nothing else it computes and whose contractions are the whole chain,
  signed, summing, not transposed and all of one operand type, with whole tiles
  read and written in order, whose accumulator nobody else uses and whose initial
  tile is not overwritten before the load that replaces its read (`Lowerable`).
  `analyzeChain` accepts more: updates before and after a loop are lost like those
  of finding 3, other users of the accumulator get zeros, the configuration is
  that of the last chain, and f32 and i32 accumulators share one declared
  function. Sign and zero extensions are traced alike (`:53`) to the signed
  `vtmms`, in loops only; the type of rhs, the combining kind, masks and
  permutation maps are not looked at. `Passes.td` speaks of outer products, which
  are rejected. The width that `MatrixToLLVM` parses from a function's name is
  never found and always 32. The passes are registered and in no pipeline.
- `docs/design/tiling_levels_explained.md:83` wants fused producers and consumers
  counted in the footprint; the code counts the operands of the root operation, and
  `FitsDtcm` is about those.
- The affinity pass takes operations strictly above `--io-min-threshold-bytes`,
  whose description says "Minimum". A profile file is truncated for every piece
  of a split input; two affinities for different queues of one device have the
  same name in the report; of several entry points the last one's size counts.
- The interruption at the stream phase overrides `--compile-from`: resuming from a
  later phase compiles from stream again. `PhasesOnceInOrder` is stated for
  compilations from stream or earlier.
- An object attribute with inline data is linked as an empty file.

## 5. Proofs

The theorems are about every value of the constants that the named assumptions
admit; TLC evaluates those assumptions in every run that uses the module, and
checks the properties the theorems state on a small instance.

**`SemaphoreProofs`** - for any threads, semaphores, payload bound, lists and
roles (`MaxValueAssumption`, `ListAssumption`, `RoleAssumption`,
`CodeAssumption`):
`TypeCorrect` (`[]TypeOK`), `SentinelAgrees` (`[]FailureSentinel`) and
`PayloadsOnlyGrow` (`Monotone`). None is inductive alone: that a loop's index is
in its list depends on which operation the thread is in and on lists that are
not empty, and that a signal never lands on the failure value depends on its
payload being at most `MaxValue`. The inductive invariant is

    TInv == DomainsOK /\ FailureSentinel /\ \A t \in Threads : CallShape(t)

where `CallShape` ties a thread's place to the shape of its call. One lemma per
action shows that it preserves `TInv`; `Monotone` follows from the same lemmas.

In the same module, under the same assumptions: `OkWaitsAreSnapshots`
(`[]AwaitedOkIsSnapshot`), `QueriesAreLowerBounds` (`[]QueryIsLowerBound`) and
`SemaphoresImplementTimeline` (`Spec => ImplementsTimeline`). The invariant `WInv`
says what a scan knows: the entries behind `all_signaled` are signaled or failed
(`ScanInv`), what `result_from_state` observed is still so (`SeenInv`), a wait
without a deadline reads its result only after the condition held
(`PatientInv`), and a wait that reads its result has passed a clean instant
(`snapshot`), or has read or will read a failure, or its deadline expired and it
has one entry, which it reads in one step (`SnapshotInv`). All of it is stable because no step lowers a payload or revives
a semaphore (`StepForward`). For the refinement each critical section that
stores is a step of `Timeline`, so is the start and the return of a call, and
everything else stutters; the mapping is `Abs` in `Semaphore`. The abstract
specification has no fairness, so the refinement is about safety.

**`DeviceQueueProofs`** - for any program of submissions on any threads
(`QueueBoundAssumption`, `ProgramAssumption`): `WorkFollowsProducers`
(`[]WorkAfterProducers`) and `QueueUsesTimeline` (`Spec => UsesTimeline`). A
payload is reached only if a producer of at least that payload has worked, or is
a non-blocking call whose own waits are done (`Backed`); that this follows for
payloads that are reached by a larger signal, and that it survives failures,
which store the value above every payload, is `ValueInv` and `ThreadInv`.
`HangsAreReported` (`[]NoSilentHang`) is for programs that can finish, `Orderly`:
each submission is made once, and of any set of submissions that are left one is
the next of its thread and each payload it waits for has a producer outside the
set. Without it a program hangs although nothing failed; TLC evaluates it for the
program of the run (`ProgramOrderly`). The invariant `HangInv` says which
submissions have returned (`ReturnsInv`), that a failed semaphore has reached
every payload (`SentinelInv`), that who returned OK has reached its signals or is
deferred (`OkInv`), and how far a signal list is (`SignalInv`); at rest, the
submission that `Orderly` names then has all it waits for, unless an error was
returned.

**`CommandBufferProofs`** - for any dispatches (`DispatchAssumption`):
`DispatchesHoldNothing`, `WorkgroupsSeeTheirDispatch` and
`LoopsAccountForEveryGroup`. `StateInv` says, label by label, which part of the
cached state has been replaced by the current call, so that what an earlier one
left is gone before the loops; `LoopInv` says that a workgroup that the loops
are past has run or stands behind a failed one of its row, for grids of any
size, empty ones included.

**`SimDispatchProofs`** - for any image, grid, memory size, alignment and word
size (`UnitAssumption`, `ImageAssumption`, `DispatchAssumption`,
`CountAssumption`), and for one thread:
`OkDispatchesExecuted`, `OnlyResultsComeBack` and `ExceptionReportsAreFresh`. The
hypothesis `OneThread` is needed: another thread's `simulator_create` changes the
memory under a dispatch, which then runs on it and returns OK. The invariant `SInv` follows the call: which
arguments have been written, at which addresses, and that no later allocation or
write touches an earlier one (`ConstantsInv`, `TablesInv`, `BindingsInv`); that
the request in memory is the host's up to its status (`WaitInv`); and that the
log is the row-major sequence up to the loop counters (`LoopInv`, which takes the
arithmetic of `RowMajor` and `Rank`). Constants and tables lie below DDR and
bindings in it, which is why the alignments do not matter.
`OkDispatchesDeliver` (`[]OkDeliversResults`) also assumes `WritesApart`; it adds
that the second walk over the bindings is where the first one was (`WalkInv`),
that a workgroup leaves its outputs at those addresses (`OutputInv`), and that
what has been read back is not overwritten by a later binding (`DeliveredInv`),
which is false when writeable bindings overlap.

**`BootProofs`** - for any regions, chunk size, address width and images
(`RegionAssumption`, `ImageAssumption`): `LoaderTypes`,
`LoaderWritesInside` and `LoaderMemoryIsImage` (`[]MemoryIsImage`), about the
loader, which `CrtStart` extends and does not change. The loader writes a
segment in pieces, so the invariant adds that a segment being written has
passed `validate_segment` and that the zeroing cursor lies inside it; then each
chunk lies in the region the whole segment lies in. For the contents, `ZeroInv`
says how far the current segment is, and that everything else is as the
segments before it left it.
About the start-up on that memory, also for any word size, table size and number
of registrations and any link map that the script can produce (`CrtAssumption`,
`LinkAssumption`): `MainFindsCleanImage` (`[]MainSeesCleanImage`) and
`ResultsAreComplete` (`[]ExitIsComplete`). The invariant `BootInv` says that the
core changes only `.bss` and `_ret` (`RamInv`), so that the arrays are as loaded
when they are walked; that no result is in `_ret` before the end (`RetInv`); how
much of `.bss` is zero and that its end is aligned, or the clearing would not have
passed its test (`ClearInv`); that the table has the first registrations in order
and drops the rest (`AtexitInv`); and which calls have been made at each place of
the array loops (`ConstructorInv`, `DestructorInv`), where a registration by a
destructor goes behind the entries still to be called. A start-up that a null
pointer sends back to `_start` begins again with an empty list of calls.

**`RuntimeObjectsProofs`** - for any number of loaders, devices, caches,
allocators, providers and other objects with different names
(`NamesAssumption`): `ReferenceCountsAreHolders` (`[]CountsAreHolders`),
`ReleasingAllLeavesNothing` (`[]NothingLeft`) and `EveryLoaderIsAsked`
(`[]AnswersAreExhaustive`). `CountsAreHolders` needs that pointers are finitely
many and who may point to whom (`MayHold`); `NothingLeft` needs that who points is
alive or being released (`HolderInv`), and then goes down the three layers of
`MayHold`: without the application's pointers nothing of it is left, then no
loader and no allocator, then no plugin manager. `LoadersInv` says that a
driver, device or cache has all available loaders in their slots, and
`QuestionInv` that the loop has heard as many answers as its index says and
passed over each.

**`TileSizeSelectionProofs`** - for any operations, targets, options and DTCM
sizes (`RootAssumption`, `OptionAssumption`, `WidthAssumption`,
`TripCountAssumption`): `TilesAlwaysUsable`, i.e. `[]TilesUsable`. The invariant
`InputOK /\ ConfigOK /\ SearchOK` adds that the register tiles in the config are
at most the ranges and that the alignments are positive, without which halving
could reach 0. Maxima and minima of sets of loops come from the well-foundedness
of `<` on the naturals.
`RegisterTilesDivide` (`[]MultiplesUnlessCapped`) needs more about the search,
`EvenSearch` and `EvenConfig`: a register tile is 0, 1, the whole range or the
largest of its class of loops, and a cache tile is a multiple of it because
rounding down to the alignment keeps the multiple, except where the range cut it
off.
`TilesFitDtcm` (`[]FitsDtcm`) and `GivesUpRightly` (`[]GivesUpOnlyWhenHopeless`)
also assume what an operand's map and shape are (`ShapeAssumption`) and that DTCM
sizes are naturals (`DtcmAssumption`). Linalg, pack and unpack operands have
static shapes there, because only the fallback estimate for other operations
tests for dynamic sizes (`CoralNPUTileSizeSelection.cpp:454-462`). The first
theorem rests on `TouchedWithinEstimate`: the indices that a tile reaches along a
dimension lie in an interval of the length that the span estimate computes
(`AccessedInSpan`), so the products over an operand's dimensions and the sum over
the operands are at most the estimate. The second rests on `FootprintGrows`: for
each of the four kinds of estimate a larger tile never takes less. The invariant
`FitInv` adds to the one above that cache tiles in the config were accepted by the
estimate, also after the search went on with other tiles (`CacheFits`), and that
the search gives up at tiles of 1 that the estimate refuses (`GaveUpAtOne`):
when it is stuck with alignments of 1, a tile above 1 could still be halved.

Sums and products are folds. What they need (type, monotonicity, adding and
removing one element) is proved by induction on the size of a finite set, written
out as the least counterexample in a set of naturals, for the library's induction
theorems take an operator as a parameter. The folds are first characterised by a
function on subsets (`IsFold`), and nothing after `SumIsFold` and `ProductIsFold`
expands them. The part about sums is stated in `CompileDriverProofs` again, so
that neither module of proofs depends on the other's component.

**`CompileDriverProofs`** - for any pipeline, command lines and inputs
(`PhaseAssumption`, `OptionAssumption`, `InputAssumption`):
`CommandLeavesNothing` (`[]NothingLeaks`), `KeptOutputsAreWhole`
(`[]KeptOutputIsWhole`) and `PipelineRunsOnce` (`[]PhasesOnceInOrder`). The
invariant `CInv` says what exists at each place of the command and who has the
module (`LiveInv`), that a temporary file that is not kept belongs to the
executable at work, which is the first one without a binary (`FileInv`,
`JobInv`, `BinaryInv`), that what has run and what is planned make up the
pipeline of the mode on both sides of the interruption (`PlanInv`), and that
while nothing has failed every piece that is done has its whole output
(`OutInv`). The phases may have any names, repeated ones too, except those of the
CoralNPU passes.
`ProfilesSayPlacement` (`[]ProfileIsPlacement`) holds for programs of any length
and operations of any types (`Programs` in `Affinity`, where every dispatch has an
entry point). Between the annotation and the profile other phases run, so the
invariant `ReportInv` says that the program at hand is the piece's own with
affinities added only where the annotation may add them (`ProgramPlaced`, in which
`Placed` gives what the walk leaves alone), that every report that can be read
accounts for its piece (`ReportsAccount`), and that without a failure each piece
that went past the interruption has been reported on, into a file at least the one
at hand (`ReportsComplete`). That the rows add up to the operations is
`CountByClass`: a finite set has as many elements as its classes together.

**Only model-checked**:
- liveness and everything under fairness (`NoLostWakeup`,
  `SingleWaitObservesDeadline`, `EveryoneReturns`, `FailureReachesConsumers`,
  `EveryDispatchReturns`, `StartUpEnds`, `Terminates`), which is beyond the prover;
- `LowerableIsRight` of `MatrixLowering`: it compares `Meaning` before and after
  the passes, a recursive interpreter over code, nested loops and trips that the
  passes rewrite. A proof needs a simulation between runs of the two functions, by
  induction over the code and the trips, with renumbered values and results.

## 6. Not modelled, and why

- `queue_read`, `queue_write` and the command buffer's fill, update and copy hand
  everything to IREE, whose streaming and mapping code is not in the repository;
  barriers, events and debug groups return at once.
- Timepoints and destroying semaphores: nothing in the repository registers a
  timepoint, and the HAL forbids to destroy a semaphore that is in use.
- `crt_section_copy`: nothing calls it.
- The contents of LLVM modules and linker command lines, and the configuration
  attributes of a target: text that IREE and the linker interpret.
- The check test generator (`tools/check_gen`): a single-threaded tool in which
  the first failure ends the run; what it writes is what IREE compiles and
  evaluates. It keeps a cache of compiled generators by path, and a generator
  with mutable globals would carry state from one instance to the next.
- Plugin registration, PJRT plugin, list-mlir-ops: no state of their own.
- IREE, MLIR, LLVM, MPACT and the linker: external; what the code relies on is
  stated where it is used.

## 7. Plan

Done, in this order: semaphores and their abstract specification; device queue;
simulator dispatch with the firmware; command buffer; ELF loader; executable
cache; tile sizes; compiler driver and serialization; matrix lowering; object
lifetimes under the executable cache; start-up on the loaded image; the affinity
passes inside the compiler driver.

Next, for the proofs: every safety invariant of the passing runs is proved except
`LowerableIsRight`, whose interpreter is recursive; of it, the part about one chain
of one contraction outside loops, on an interpreter of straight-line code.

Next, for the model, if it grows: `queue_read` and `queue_write` once the contract
of IREE's streaming helpers is stated; several threads under `RuntimeObjects`.
