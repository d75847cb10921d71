--------------------------- MODULE RuntimeObjects ---------------------------
(***************************************************************************)
(* The reference counted objects of the runtime and who points to whom:    *)
(* the driver (registration/driver_module.c, coralnpu_driver.c), devices   *)
(* (coralnpu_device.c), executable caches (coralnpu_executable_cache.c),   *)
(* what they hold (executable loaders, the plugin manager behind them,     *)
(* allocators, channel providers) and the objects a device hands out that  *)
(* hold nothing (events, semaphores, command buffers, executables).        *)
(*                                                                         *)
(* A pointer is <<holder, slot, object>>.  Pointers are made together with *)
(* a retain and given up together with a release, each in the code that    *)
(* owns the holder; nothing but the properties compares `refs' and `count'. *)
(* One thread uses the objects: retain and release are atomic in IREE, and *)
(* the HAL leaves the use of an object by several threads to its callers.  *)
(***************************************************************************)
EXTENDS Integers, Sequences, FiniteSets, Functions

CONSTANTS
  Driver, PluginManager, HeapAllocator,  \* the factory makes one of each
  LoaderSeq,       \* the loaders that IREE can make, in their order
  Devices, Caches,
  OtherAllocators, Providers,            \* objects of the application
  Leaves,          \* names for objects that hold nothing
  App, Factory, Call                     \* holders that are not objects

Loaders == Range(LoaderSeq)
Allocators == {HeapAllocator} \cup OtherAllocators
Objects == {Driver, PluginManager} \cup Loaders \cup Devices \cup Caches
             \cup Allocators \cup Providers \cup Leaves
Owners == {Driver} \cup Devices \cup Caches

\* Different objects have different names, and are none of the other holders.
ASSUME NamesAssumption ==
  /\ LoaderSeq \in Seq(Loaders)
  /\ \A i, j \in 1 .. Len(LoaderSeq) : LoaderSeq[i] = LoaderSeq[j] => i = j
  /\ PluginManager \notin Loaders \cup Owners \cup Allocators \cup Providers \cup Leaves
  /\ Loaders \cap (Owners \cup Allocators \cup Providers \cup Leaves) = {}
  /\ Owners \cap (Allocators \cup Providers \cup Leaves) = {}
  /\ Driver \notin Devices \cup Caches /\ Devices \cap Caches = {}
  /\ Leaves \cap (Allocators \cup Providers) = {}
  /\ HeapAllocator \notin OtherAllocators /\ Allocators \cap Providers = {}
  /\ {App, Factory, Call} \cap Objects = {}
  /\ App # Factory /\ App # Call /\ Factory # Call

VARIABLES
  count,      \* resource.ref_count; 0 if there is no such object
  refs,       \* the pointers
  releasing,  \* holders that are giving up their pointers, the innermost first
  factory,    \* where iree_hal_coralnpu_driver_factory_try_create is
  available,  \* how many of the loaders are available in this process
  simulator   \* whether simulator_create was called

objects == <<count, refs, releasing, factory, available, simulator>>

\* Slots of pointers, in the order in which their holder gives them up.
NumLoaders == Len(LoaderSeq)
DriverAllocator == 0
LoaderSlot(i) == i
DeviceAllocator == NumLoaders + 1
DeviceProvider == NumLoaders + 2
ManagerSlot == NumLoaders + 3

Live(o) == count[o] > 0
Fresh(o) == count[o] = 0
Holds(h, o) == \E r \in refs : r[1] = h /\ r[3] = o
InSlot(h, s) == {r \in refs : r[1] = h /\ r[2] = s}
Idle == releasing = <<>> /\ factory = "idle"

PointersOf(h) == {r \in refs : r[1] = h}

\* New pointers, each with a retain of what it points to.
Retained(c, new) == [o \in Objects |-> c[o] + Cardinality({r \in new : r[3] = o})]

\* The loaders of one holder as another one takes them over.
LoadersFor(h, from) ==
  {<<h, r[2], r[3]>> : r \in {p \in refs : p[1] = from /\ p[3] \in Loaders}}

\* A new object for `owner', that retains what its pointers `new' point to.
Create(o, owner, slot, new) ==
  /\ Fresh(o)
  /\ count' = [Retained(count, new) EXCEPT ![o] = 1]
  /\ refs' = refs \cup new \cup {<<owner, slot, o>>}

Init ==
  /\ count = [o \in Objects |-> 0]
  /\ refs = {}
  /\ releasing = <<>>
  /\ factory = "idle"
  /\ available \in 0 .. NumLoaders
  /\ simulator = FALSE

-----------------------------------------------------------------------------
(* Releases.  The last one destroys the object, which then releases what it *)
(* holds, in the order of its slots, before the release returns.           *)

Release ==
  /\ releasing # <<>>
  /\ \E r \in PointersOf(Head(releasing)) :
       /\ \A p \in PointersOf(Head(releasing)) : r[2] <= p[2]
       /\ refs' = refs \ {r}
       /\ count' = [count EXCEPT ![r[3]] = @ - 1]
       /\ releasing' = IF count[r[3]] = 1 THEN <<r[3]>> \o releasing ELSE releasing
  /\ UNCHANGED <<factory, available, simulator>>

\* The object is freed, or the call that released returns.
Released ==
  /\ releasing # <<>> /\ PointersOf(Head(releasing)) = {}
  /\ releasing' = Tail(releasing)
  /\ UNCHANGED <<count, refs, factory, available, simulator>>

-----------------------------------------------------------------------------
(* iree_hal_coralnpu_driver_factory_try_create.  Each step may fail, and    *)
(* its locals are given up in the end either way.                          *)

TryCreate ==
  /\ Idle /\ Fresh(Driver) /\ Fresh(PluginManager) /\ Fresh(HeapAllocator)
  /\ \A l \in Loaders : Fresh(l)
  /\ \/ /\ Create(PluginManager, Factory, ManagerSlot, {})
        /\ factory' = "loaders"
     \/ /\ factory' = "release"
        /\ UNCHANGED <<count, refs>>
  /\ UNCHANGED <<releasing, available, simulator>>

\* iree_hal_create_all_available_executable_loaders: as many as are available,
\* or it fails and leaves none.  A loader retains the plugin manager.
CreateLoaders ==
  /\ factory = "loaders"
  /\ \/ /\ LET held == {<<LoaderSeq[i], ManagerSlot, PluginManager>> : i \in 1 .. available}
               mine == {<<Factory, LoaderSlot(i), LoaderSeq[i]>> : i \in 1 .. available}
           IN  /\ count' = Retained(count, held \cup mine)
               /\ refs' = refs \cup held \cup mine
        /\ factory' = "allocator"
     \/ /\ factory' = "release"
        /\ UNCHANGED <<count, refs>>
  /\ UNCHANGED <<releasing, available, simulator>>

CreateHeapAllocator ==
  /\ factory = "allocator"
  /\ \/ Create(HeapAllocator, Factory, 0, {}) /\ factory' = "driver"
     \/ factory' = "release" /\ UNCHANGED <<count, refs>>
  /\ UNCHANGED <<releasing, available, simulator>>

\* iree_hal_coralnpu_driver_create.
CreateDriver ==
  /\ factory = "driver"
  /\ factory' = "release"
  /\ \/ Create(Driver, App, 0,
               LoadersFor(Driver, Factory) \cup {<<Driver, DriverAllocator, HeapAllocator>>})
     \/ UNCHANGED <<count, refs>>
  /\ UNCHANGED <<releasing, available, simulator>>

\* Mutant: an error returns before the locals are given up.
ReleaseLocalsOnSuccess ==
  /\ factory = "release"
  /\ factory' = "idle"
  /\ releasing' = IF Live(Driver) THEN <<Factory>> ELSE <<>>
  /\ UNCHANGED <<count, refs, available, simulator>>

ReleaseLocals ==
  /\ factory = "release"
  /\ factory' = "idle"
  /\ releasing' = <<Factory>>
  /\ UNCHANGED <<count, refs, available, simulator>>

-----------------------------------------------------------------------------
(* What the application does with the objects it holds.                    *)

AppHolds(o) == Idle /\ Holds(App, o)

\* create_device_by_id.  The simulator is made anew even if there is no memory
\* for the device.
CreateDevice(d) ==
  /\ AppHolds(Driver)
  /\ simulator' = TRUE
  /\ \/ LET allocator == {<<d, DeviceAllocator, r[3]>> : r \in InSlot(Driver, DriverAllocator)}
        IN  Create(d, App, 0, LoadersFor(d, Driver) \cup allocator)
     \/ UNCHANGED <<count, refs>>
  /\ UNCHANGED <<releasing, factory, available>>

\* Mutant: the old object is released before the new one is retained.
ReplaceReleasesFirst(d, slot, new) ==
  /\ AppHolds(d)
  /\ AppHolds(new) \/ <<d, slot, new>> \in refs
  /\ LET old == InSlot(d, slot)
         kept == [o \in Objects |-> count[o] - Cardinality({r \in old : r[3] = o})]
     IN  /\ count' = [kept EXCEPT ![new] = IF Live(new) /\ @ = 0 THEN 0 ELSE @ + 1]
         /\ refs' = (refs \ old) \cup {<<d, slot, new>>}
  /\ UNCHANGED <<releasing, factory, available, simulator>>

\* replace_device_allocator, replace_channel_provider.  The new object may be
\* the one that is there, which the application need not hold.
Replace(d, slot, new) ==
  /\ AppHolds(d)
  /\ AppHolds(new) \/ <<d, slot, new>> \in refs
  /\ LET old == InSlot(d, slot)
         dropped == {<<Call, slot, r[3]>> : r \in old}
     IN  /\ count' = [count EXCEPT ![new] = @ + 1]
         /\ refs' = (refs \ old) \cup {<<d, slot, new>>} \cup dropped
         /\ releasing' = <<Call>>
  /\ UNCHANGED <<factory, available, simulator>>

ReplaceAllocator(d) == \E a \in Allocators : Replace(d, DeviceAllocator, a)
ReplaceProvider(d) == \E p \in Providers : Replace(d, DeviceProvider, p)

CreateCache(c, d) ==
  /\ AppHolds(d)
  /\ Create(c, App, 0, LoadersFor(c, d))
  /\ UNCHANGED <<releasing, factory, available, simulator>>

\* create_event, create_semaphore, create_command_buffer: what they make holds
\* nothing.  A semaphore points to the device's semaphore_state, a deferred
\* command buffer to its block pool, and neither retains the device.
CreateLeaf(o, d) ==
  /\ AppHolds(d)
  /\ Create(o, App, 0, {})
  /\ UNCHANGED <<releasing, factory, available, simulator>>

\* The application's own objects, and an allocator that it asks a device for.
AppCreate(o) ==
  /\ Idle
  /\ Create(o, App, 0, {})
  /\ UNCHANGED <<releasing, factory, available, simulator>>

AppRetain(a) ==
  /\ \E d \in Devices : AppHolds(d) /\ <<d, DeviceAllocator, a>> \in refs
  /\ ~ Holds(App, a)
  /\ count' = Retained(count, {<<App, 0, a>>})
  /\ refs' = refs \cup {<<App, 0, a>>}
  /\ UNCHANGED <<releasing, factory, available, simulator>>

\* The application hands its pointer to the call.
AppRelease(o) ==
  /\ AppHolds(o)
  /\ refs' = (refs \ {<<App, 0, o>>}) \cup {<<Call, 0, o>>}
  /\ releasing' = <<Call>>
  /\ UNCHANGED <<count, factory, available, simulator>>

ObjectStep ==
  \/ Release \/ Released \/ TryCreate \/ CreateLoaders \/ CreateHeapAllocator \/ CreateDriver
  \/ ReleaseLocals
  \/ \E d \in Devices :
       \/ CreateDevice(d) \/ ReplaceAllocator(d) \/ ReplaceProvider(d)
       \/ \E c \in Caches : CreateCache(c, d)
       \/ \E o \in Leaves : CreateLeaf(o, d)
  \/ \E o \in OtherAllocators \cup Providers : AppCreate(o)
  \/ \E a \in Allocators : AppRetain(a)
  \/ \E o \in Objects : AppRelease(o)

-----------------------------------------------------------------------------
\* In every state, also between the steps of a destruction or of a failing
\* creation, the count of an object is the number of pointers to it: nothing
\* is destroyed that a driver, device, cache or the application still points
\* to, whichever of them goes first, and a device that replaces its allocator
\* by the same one keeps it.
CountsAreHolders ==
  \A o \in Objects : count[o] = Cardinality({r \in refs : r[3] = o})

\* Once the application has released everything it was given, nothing is left,
\* also of a driver whose creation failed half way.
NothingLeft ==
  Idle /\ (\A r \in refs : r[1] # App) => \A o \in Objects : Fresh(o)
=============================================================================
