------------------------------ MODULE CrtStart ------------------------------
(***************************************************************************)
(* The start-up of the firmware on the memory that the ELF loader leaves:  *)
(* crt/coralnpu_start.S with crt_section_clear of crt/crt.S and the C++    *)
(* support of crt/cxx_guards.cc, at the addresses that the linker script   *)
(* crt/coralnpu_tcm.ld.tpl assigns.                                        *)
(*                                                                         *)
(* An image carries its link map, image.link: the bounds of .bss and of    *)
(* the constructor and destructor arrays, the address of _ret, and which   *)
(* byte of the file starts a pointer to which function.  What constructors,*)
(* main and destructors do is external: they may register destructors,     *)
(* construct a function-local static, trap, or return.                     *)
(***************************************************************************)
EXTENDS ElfLoader, SequencesExt

CONSTANTS
  WordSize,     \* 4
  ArrayAlign,   \* alignment of sections and of .init.array's end, 16
  MaxAtexit,    \* MAX_ATEXIT_ENTRIES, 8
  MaxCalls      \* bound on what one run registers

ASSUME CrtAssumption ==
  /\ WordSize \in Nat \ {0} /\ ArrayAlign % WordSize = 0
  /\ MaxAtexit \in Nat /\ MaxCalls \in Nat

VARIABLES
  ram,         \* memory as the core changes it
  core,        \* where the core is: "off", ..., "halted"
  cursor,      \* a0 of crt_section_clear, s0 and s1 of the array loops
  mtvec,
  a0,          \* what main returned
  calls,       \* functions called since _start and main's return, in order
  atexit,      \* atexit_entries up to atexit_count
  registered,  \* destructors that were to be registered, for the bound
  guard,       \* the guard variable of a function-local static
  halt         \* "none", "ebreak" or "mpause"

loader == vars
coreVars == <<ram, core, cursor, mtvec, a0, calls, atexit, registered, guard, halt>>
bootVars == <<loader, coreVars>>

link == image.link
Aligned(a) == a % WordSize = 0
\* What the core stores in _ret, apart from what the loader can leave there.
Sentinel == -2   \* 0x0badd00d
Value(v) == -3 - v

\* coralnpu_tcm.ld.tpl: the addresses it gives to a program of so many bytes of
\* code and data, constructors, destructors and bytes of .bss.
Up(a, align) == ((a + align - 1) \div align) * align

LinkMap(text, constructors, destructors, data, bss, functions) ==
  LET init == Up(Itcm.start + text, ArrayAlign)
      fini == Up(init + constructors * WordSize, ArrayAlign)
      ret == Up(Dtcm.start + data, WordSize)
      edata == Up(ret + WordSize, ArrayAlign)
  IN  [init |-> <<init, fini>>, fini |-> <<fini, fini + destructors * WordSize>>,
       ret |-> ret, bss |-> <<edata, edata + bss>>, functions |-> functions]

Between(bounds) == bounds[1] .. bounds[2] - 1
RetWord(map) == map.ret .. map.ret + WordSize - 1

\* Of this the start-up code relies on: the arrays are whole words of memory,
\* .bss starts at a word, and .bss, _ret and the arrays are apart.
Placed(map) ==
  /\ \A b \in {map.init, map.fini} :
       /\ b[1] \in Nat /\ b[2] \in b[1] .. AddrModulus /\ (b[2] - b[1]) % WordSize = 0
       /\ Between(b) \cap (Between(map.bss) \cup RetWord(map)) = {}
  /\ map.bss[1] \in Nat /\ map.bss[2] \in Nat /\ Aligned(map.bss[1])
  /\ map.ret \in Words /\ RetWord(map) \cap Between(map.bss) = {}

ASSUME LinkAssumption == \A m \in Images : Placed(m.link)

StoreWord(address, value) ==
  ram' = [a \in Words |-> IF a \in address .. address + WordSize - 1 THEN value ELSE ram[a]]

\* The function that a word of an array points to.  Padding is zeros, and at
\* address zero, where the ITCM starts, the script puts _start.
Unknown == -1
Reset == 0
Pointer(word) ==
  IF word = Zero THEN Reset
  ELSE IF word - 1 \in DOMAIN link.functions THEN link.functions[word - 1] ELSE Unknown

Event(kind, id) == [kind |-> kind, id |-> id]

BootInit ==
  /\ Init
  /\ ram = mem
  /\ core = "off"
  /\ cursor = 0
  /\ mtvec = "reset"
  /\ a0 = 0
  /\ calls = <<>>
  /\ atexit = <<>>
  /\ registered = 0
  /\ guard = FALSE
  /\ halt = "none"

\* The simulator starts the core at the entry point of an image that was loaded.
PowerOn ==
  /\ core = "off" /\ pc = "done" /\ result = "OK"
  /\ core' = "_start"
  /\ ram' = mem
  /\ UNCHANGED <<loader, cursor, mtvec, a0, calls, atexit, registered, guard, halt>>

Halt(how) == core' = "halted" /\ halt' = how

(***************************************************************************)
(* .bss is cleared word by word.  What cxx_guards.cc and function-local    *)
(* statics keep is in .bss.                                                *)
(***************************************************************************)
\* Mutant: the bounds need not be aligned.
ClearErrorNever(start, end) == start > end

ClearError(start, end) ==
  \/ start > end
  \/ start < end /\ ~(Aligned(start) /\ Aligned(end))

Start ==
  /\ core = "_start"
  /\ cursor' = link.bss[1]
  /\ calls' = <<>> /\ registered' = 0
  /\ IF ClearError(link.bss[1], link.bss[2])
     THEN Halt("ebreak") ELSE core' = "clear" /\ UNCHANGED halt
  /\ UNCHANGED <<loader, ram, mtvec, a0, atexit, guard>>

\* Mutant: the pointer is not advanced.
ClearWordInPlace ==
  /\ core = "clear" /\ cursor < link.bss[2]
  /\ StoreWord(cursor, Zero)
  /\ UNCHANGED <<loader, core, cursor, mtvec, a0, calls, atexit, registered, guard, halt>>

ClearWord ==
  /\ core = "clear" /\ cursor < link.bss[2]
  /\ StoreWord(cursor, Zero)
  /\ cursor' = cursor + WordSize
  /\ UNCHANGED <<loader, core, mtvec, a0, calls, atexit, registered, guard, halt>>

Cleared ==
  /\ core = "clear" /\ cursor >= link.bss[2]
  /\ core' = "constructors"
  /\ cursor' = link.init[1]
  /\ atexit' = <<>> /\ guard' = FALSE
  /\ UNCHANGED <<loader, ram, mtvec, a0, calls, registered, halt>>

(***************************************************************************)
(* __cxa_atexit: a full table refuses, and compiled code does not look.    *)
(***************************************************************************)
\* Mutant: the last entry is overwritten.
AtexitOverwrites(f) ==
  atexit' = IF Len(atexit) >= MaxAtexit THEN Front(atexit) \o <<f>> ELSE Append(atexit, f)

Atexit(f) ==
  atexit' = IF Len(atexit) >= MaxAtexit THEN atexit ELSE Append(atexit, f)

Register ==
  /\ registered < MaxCalls
  /\ Atexit(registered)
  /\ registered' = registered + 1

RegisterOrNot == Register \/ UNCHANGED <<atexit, registered>>

\* A function that is called runs to its end or stops the core: a trap goes to
\* mtvec.  Before the handler is installed nothing here says where that is.
Stop ==
  /\ core \in {"constructors", "main", "finalize", "destructors"}
  /\ core = "constructors" => cursor < link.init[2]
  /\ core = "finalize" => cursor > 0
  /\ core = "destructors" => cursor # link.fini[1]
  /\ core' = IF mtvec = "reset" THEN "lost" ELSE "halted"
  /\ halt' = IF mtvec = "reset" THEN "none" ELSE "ebreak"
  /\ UNCHANGED <<loader, ram, cursor, mtvec, a0, calls, atexit, registered, guard>>

CallConstructor ==
  /\ core = "constructors" /\ cursor < link.init[2]
  /\ LET f == Pointer(ram[cursor])
     IN  \/ /\ f \in {Reset, Unknown}
            /\ core' = IF f = Reset THEN "_start" ELSE "lost"
            /\ UNCHANGED <<cursor, calls, atexit, registered>>
         \/ /\ f \notin {Reset, Unknown}
            /\ calls' = Append(calls, Event("array", f))
            /\ cursor' = cursor + WordSize
            /\ RegisterOrNot
            /\ UNCHANGED core
  /\ UNCHANGED <<loader, ram, mtvec, a0, guard, halt>>

CallMain ==
  /\ core = "constructors" /\ cursor >= link.init[2]
  /\ mtvec' = "coralnpu_exception_handler"
  /\ StoreWord(link.ret, Sentinel)
  /\ calls' = Append(calls, Event("main", 0))
  /\ core' = "main"
  /\ UNCHANGED <<loader, cursor, a0, atexit, registered, guard, halt>>

\* main comes to a function-local static: __cxa_guard_acquire, its constructor,
\* __cxa_atexit, __cxa_guard_release.
UseStatic ==
  /\ core = "main" /\ ~guard
  /\ Register
  /\ guard' = TRUE
  /\ UNCHANGED <<loader, ram, core, cursor, mtvec, a0, calls, halt>>

MainReturns ==
  /\ core = "main"
  /\ a0' \in {0, 1}
  /\ calls' = Append(calls, Event("return", registered))
  /\ core' = "finalize"
  /\ cursor' = Len(atexit)
  /\ UNCHANGED <<loader, ram, mtvec, atexit, registered, guard, halt>>

(***************************************************************************)
(* __cxa_finalize: from the last entry to the first.  A destructor that    *)
(* registers another one does so behind the loop.                          *)
(***************************************************************************)
CallFinalizer ==
  /\ core = "finalize" /\ cursor > 0
  /\ calls' = Append(calls, Event("atexit", atexit[cursor]))
  /\ cursor' = cursor - 1
  /\ RegisterOrNot
  /\ UNCHANGED <<loader, ram, core, mtvec, a0, guard, halt>>

Finalized ==
  /\ core = "finalize" /\ cursor = 0
  /\ core' = "destructors"
  /\ atexit' = <<>>
  /\ cursor' = link.fini[2]
  /\ UNCHANGED <<loader, ram, mtvec, a0, calls, registered, guard, halt>>

CallDestructor ==
  /\ core = "destructors" /\ cursor # link.fini[1]
  /\ LET f == Pointer(ram[cursor - WordSize])
     IN  IF f \in {Reset, Unknown}
         THEN core' = (IF f = Reset THEN "_start" ELSE "lost") /\ UNCHANGED calls
         ELSE calls' = Append(calls, Event("array", f)) /\ UNCHANGED core
  /\ cursor' = cursor - WordSize
  /\ UNCHANGED <<loader, ram, mtvec, a0, atexit, registered, guard, halt>>

Exit ==
  /\ core = "destructors" /\ cursor = link.fini[1]
  /\ StoreWord(link.ret, Value(a0))
  /\ Halt(IF a0 = 0 THEN "mpause" ELSE "ebreak")
  /\ UNCHANGED <<loader, cursor, mtvec, a0, calls, atexit, registered, guard>>

Run ==
  \/ PowerOn \/ Start \/ ClearWord \/ Cleared \/ CallConstructor \/ CallMain \/ MainReturns
  \/ CallFinalizer \/ Finalized \/ CallDestructor \/ Exit

BootNext == (Next /\ UNCHANGED coreVars) \/ Run \/ UseStatic \/ Stop

\* The simulator steps the core for as long as it runs.
BootSpec == BootInit /\ [][BootNext]_bootVars /\ WF_bootVars(Run)

-----------------------------------------------------------------------------
FunctionsIn(bounds) ==
  LET count == (bounds[2] - bounds[1]) \div WordSize
  IN  [i \in 1 .. count |-> Event("array", Pointer(mem[bounds[1] + (i - 1) * WordSize]))]

\* What the linker script does not ensure but the code needs: .bss ends at a
\* word, and no padding follows the constructors.
Bootable ==
  /\ \A i \in 1 .. 2 : Aligned(link.bss[i])
  /\ \A i \in DOMAIN FunctionsIn(link.init) : FunctionsIn(link.init)[i].id \notin {Reset, Unknown}

\* main is called only in an image whose .bss is word-aligned and whose
\* constructor array has no padding, and it then finds memory as linked,
\* whatever an earlier dispatch left: .bss zero, whether or not a segment
\* covers it, everything else as loaded, and every constructor called once.
MainSeesCleanImage ==
  core = "main" =>
    /\ Bootable
    /\ calls = FunctionsIn(link.init) \o <<Event("main", 0)>>
    /\ \A a \in Words :
         ram[a] = IF a \in Between(link.bss) THEN Zero
                  ELSE IF a \in link.ret .. link.ret + WordSize - 1 THEN Sentinel ELSE mem[a]

\* A core that stops with something else than the sentinel in _ret has called
\* main once, then every destructor that got a place in the table before main
\* returned, in the reverse order of registration, then the destructor array
\* backwards; and it has stopped the way that main's result says.
ExitIsComplete ==
  core = "halted" /\ ram[link.ret] \in {Value(0), Value(1)} =>
    /\ \E count \in 0 .. MaxCalls :
         LET late == IF count < MaxAtexit THEN count ELSE MaxAtexit
         IN  calls = FunctionsIn(link.init) \o <<Event("main", 0), Event("return", count)>>
                       \o [i \in 1 .. late |-> Event("atexit", late - i)]
                       \o Reverse(FunctionsIn(link.fini))
    /\ ram[link.ret] = Value(a0) /\ (halt = "mpause" <=> a0 = 0)

\* An image that is bootable comes to an end, unless one of its functions
\* stops the core.
StartUpEnds == (core = "_start" /\ Bootable) ~> core \in {"halted", "lost"}
=============================================================================
