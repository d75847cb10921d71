------------------------ MODULE RuntimeObjectsProofs ------------------------
(***************************************************************************)
(* Reference counts are right, and nothing is left behind, for any number  *)
(* of loaders, devices, caches and other objects, in any order of          *)
(* creation, replacement and release.                                      *)
(***************************************************************************)
EXTENDS ExecutableCache, FiniteSetTheorems, TLAPS

Holders == Objects \cup {App, Factory, Call}

\* Who may point to what.  The objects form three layers: what the application
\* owns, the loaders and allocators under it, the plugin manager.
MayHold(r) ==
  \/ r[1] = App /\ r[3] \in Objects \ (Loaders \cup {PluginManager})
  \/ r[1] = Call /\ r[3] \in Objects \ {PluginManager}
  \/ r[1] = Factory /\ r[3] \in {PluginManager, HeapAllocator} \cup Loaders
  \/ r[1] \in Loaders /\ r[3] = PluginManager
  \/ r[1] \in Owners /\ r[3] \in Loaders \cup Allocators \cup Providers

TypeOK ==
  /\ count \in [Objects -> Nat]
  /\ refs \subseteq Holders \X Int \X Objects
  /\ IsFiniteSet(refs)
  /\ releasing \in Seq(Holders)
  /\ available \in 0 .. NumLoaders
  /\ \A r \in refs : MayHold(r) /\ (r[1] = App => r[2] = 0)

InRelease(h) == \E i \in 1 .. Len(releasing) : releasing[i] = h

\* Only a live object, or one on its way out, points to anything.
HolderInv ==
  \A r \in refs :
    /\ r[1] \in Objects => Live(r[1]) \/ InRelease(r[1])
    /\ r[1] = Call => InRelease(Call)
    /\ r[1] = Factory => factory # "idle" \/ InRelease(Factory)

\* The factory runs to its end before anything is released, and begins without
\* loaders.
FactoryInv ==
  /\ factory # "idle" => releasing = <<>>
  /\ factory = "loaders" => \A l \in Loaders : Fresh(l)

OInv == TypeOK /\ HolderInv /\ FactoryInv /\ CountsAreHolders

\* The pointers to an object.
To(S, o) == {r \in S : r[3] = o}

-----------------------------------------------------------------------------
(***************************************************************************)
(* Counting pointers.                                                      *)
(***************************************************************************)
\* The pointers to one object among finitely many.
LEMMA ToFinite ==
  ASSUME NEW S, IsFiniteSet(S), NEW o
  PROVE  IsFiniteSet(To(S, o)) /\ Cardinality(To(S, o)) \in Nat
<1>1. To(S, o) \in SUBSET S
  BY DEF To
<1> QED BY <1>1, FS_Subset, FS_CardinalityType

\* Disjoint sets add up.
LEMMA DisjointUnion ==
  ASSUME NEW S, NEW T, IsFiniteSet(S), IsFiniteSet(T), S \cap T = {}
  PROVE  Cardinality(S \cup T) = Cardinality(S) + Cardinality(T)
<1>1. Cardinality(S \cap T) = 0
  BY FS_EmptySet
<1>2. Cardinality(S) \in Nat /\ Cardinality(T) \in Nat
  BY FS_CardinalityType
<1>3. Cardinality(S \cup T) = Cardinality(S) + Cardinality(T) - Cardinality(S \cap T)
  BY FS_Union
<1> QED BY <1>1, <1>2, <1>3

\* A finite set stays finite when its elements are renamed.
LEMMA RenamedFinite ==
  ASSUME NEW S, IsFiniteSet(S), NEW h
  PROVE  IsFiniteSet({<<h, r[2], r[3]>> : r \in S})
<1> DEFINE T == {<<h, r[2], r[3]>> : r \in S}
           f == [r \in S |-> <<h, r[2], r[3]>>]
<1>1. f \in Surjection(S, T)
  BY DEF Surjection
<1> QED BY <1>1, FS_Surjection

LEMMA MovedFinite ==
  ASSUME NEW S, IsFiniteSet(S), NEW h, NEW s
  PROVE  IsFiniteSet({<<h, s, r[3]>> : r \in S})
<1> DEFINE T == {<<h, s, r[3]>> : r \in S}
           f == [r \in S |-> <<h, s, r[3]>>]
<1>1. f \in Surjection(S, T)
  BY DEF Surjection
<1> QED BY <1>1, FS_Surjection

\* New pointers, each with a retain.
LEMMA RetainedCounts ==
  ASSUME OInv, NEW new, IsFiniteSet(new), refs \cap new = {},
         count' = Retained(count, new), refs' = refs \cup new
  PROVE  CountsAreHolders' /\ count' \in [Objects -> Nat]
<1> SUFFICES ASSUME NEW o \in Objects
             PROVE  count'[o] = Cardinality(To(refs', o)) /\ count'[o] \in Nat
  BY DEF CountsAreHolders, Retained, To
<1>1. count[o] = Cardinality(To(refs, o)) /\ count'[o] = count[o] + Cardinality(To(new, o))
  BY DEF OInv, CountsAreHolders, Retained, To
<1>2. /\ IsFiniteSet(To(refs, o)) /\ Cardinality(To(refs, o)) \in Nat
      /\ IsFiniteSet(To(new, o)) /\ Cardinality(To(new, o)) \in Nat
  BY ToFinite DEF OInv, TypeOK
<1>3. To(refs', o) = To(refs, o) \cup To(new, o) /\ To(refs, o) \cap To(new, o) = {}
  BY DEF To
<1>4. Cardinality(To(refs', o)) = Cardinality(To(refs, o)) + Cardinality(To(new, o))
  BY <1>2, <1>3, DisjointUnion
<1> QED BY <1>1, <1>2, <1>4

\* An object that is created: nothing pointed to it, now its owner does.
LEMMA CreateCounts ==
  ASSUME OInv, NEW o \in Objects, NEW owner, NEW slot, NEW new, IsFiniteSet(new),
         refs \cap new = {}, \A r \in new : r[3] # o,
         Create(o, owner, slot, new)
  PROVE  /\ CountsAreHolders' /\ count' \in [Objects -> Nat] /\ IsFiniteSet(refs')
         /\ count'[o] > 0 /\ \A x \in Objects : count[x] > 0 => count'[x] > 0
         /\ \A x \in Objects : x # o /\ (\A r \in new : r[3] # x) => count'[x] = count[x]
<1>1. /\ count[o] = 0 /\ count' = [Retained(count, new) EXCEPT ![o] = 1]
      /\ refs' = refs \cup new \cup {<<owner, slot, o>>}
  BY DEF Create, Fresh
<1>2. To(refs, o) = {}
  <2>1. Cardinality(To(refs, o)) = 0
    BY <1>1 DEF OInv, CountsAreHolders, To
  <2>2. IsFiniteSet(To(refs, o))
    BY ToFinite DEF OInv, TypeOK
  <2> QED BY <2>1, <2>2, FS_EmptySet
<1>3. ASSUME NEW x \in Objects
      PROVE  /\ count'[x] = Cardinality(To(refs', x)) /\ count'[x] \in Nat
             /\ count[x] > 0 => count'[x] > 0
             /\ x # o /\ (\A r \in new : r[3] # x) => count'[x] = count[x]
             /\ x = o => count'[x] > 0
  <2>1. CASE x = o
    <3>1. To(refs', x) = {<<owner, slot, o>>}
      BY <1>1, <1>2, <2>1 DEF To
    <3>2. count'[x] = 1
      BY <1>1, <2>1 DEF Retained
    <3>3. Cardinality(To(refs', x)) = 1
      BY <3>1, FS_Singleton
    <3> QED BY <1>1, <2>1, <3>2, <3>3
  <2>2. CASE x # o
    <3>1. /\ count'[x] = count[x] + Cardinality(To(new, x))
          /\ count[x] = Cardinality(To(refs, x))
      BY <1>1, <2>2 DEF Retained, To, OInv, CountsAreHolders
    <3>2. /\ IsFiniteSet(To(refs, x)) /\ Cardinality(To(refs, x)) \in Nat
          /\ IsFiniteSet(To(new, x)) /\ Cardinality(To(new, x)) \in Nat
      BY ToFinite DEF OInv, TypeOK
    <3>3. To(refs', x) = To(refs, x) \cup To(new, x) /\ To(refs, x) \cap To(new, x) = {}
      BY <1>1, <2>2 DEF To
    <3>4. Cardinality(To(refs', x)) = Cardinality(To(refs, x)) + Cardinality(To(new, x))
      BY <3>2, <3>3, DisjointUnion
    <3>5. (\A r \in new : r[3] # x) => To(new, x) = {}
      BY DEF To
    <3>6. (\A r \in new : r[3] # x) => Cardinality(To(new, x)) = 0
      BY <3>5, FS_EmptySet
    <3> QED BY <2>2, <3>1, <3>2, <3>4, <3>6
  <2> QED BY <2>1, <2>2
<1>4. CountsAreHolders'
  BY <1>3 DEF CountsAreHolders, To
<1>5. count' \in [Objects -> Nat]
  BY <1>1, <1>3 DEF Retained
<1>6. IsFiniteSet(refs')
  <2>1. IsFiniteSet(refs \cup new)
    BY FS_Union DEF OInv, TypeOK
  <2> QED BY <1>1, <2>1, FS_AddElement
<1> QED BY <1>3, <1>4, <1>5, <1>6

-----------------------------------------------------------------------------
(***************************************************************************)
(* Creating objects.                                                       *)
(***************************************************************************)
\* An object that does not exist, and is not being destroyed, holds nothing.
LEMMA FreshHoldsNothing ==
  ASSUME OInv, NEW o \in Objects, Fresh(o), ~InRelease(o)
  PROVE  \A r \in refs : r[1] # o
BY DEF OInv, HolderInv, Fresh, Live

\* Nobody points to an object that does not exist.
LEMMA FreshIsUnheld ==
  ASSUME OInv, NEW o \in Objects, Fresh(o)
  PROVE  \A r \in refs : r[3] # o
<1>1. Cardinality(To(refs, o)) = 0
  BY DEF OInv, CountsAreHolders, To, Fresh
<1>2. IsFiniteSet(To(refs, o))
  BY ToFinite DEF OInv, TypeOK
<1>3. To(refs, o) = {}
  BY <1>1, <1>2, FS_EmptySet
<1> QED BY <1>3 DEF To

LEMMA CreateKeeps ==
  ASSUME OInv, NEW o \in Objects, NEW owner \in {App, Factory}, NEW slot \in Int,
         NEW new, IsFiniteSet(new), new = {} \/ ~InRelease(o),
         \A r \in new : /\ r \in Holders \X Int \X Objects
                        /\ r[1] = o /\ r[3] # o /\ MayHold(r),
         MayHold(<<owner, slot, o>>), owner = App => slot = 0,
         Create(o, owner, slot, new),
         UNCHANGED <<releasing, available>>,
         owner = Factory => factory' # "idle", factory # "idle" => factory' # "idle"
  PROVE  /\ TypeOK' /\ HolderInv' /\ CountsAreHolders'
         /\ \A x \in Objects : x # o /\ (\A r \in new : r[3] # x) => count'[x] = count[x]
<1>1. refs' = refs \cup new \cup {<<owner, slot, o>>} /\ Fresh(o)
  BY DEF Create
<1>2. refs \cap new = {}
  BY <1>1, FreshHoldsNothing
<1>3. /\ CountsAreHolders' /\ count' \in [Objects -> Nat] /\ IsFiniteSet(refs')
      /\ count'[o] > 0 /\ \A x \in Objects : count[x] > 0 => count'[x] > 0
      /\ \A x \in Objects : x # o /\ (\A r \in new : r[3] # x) => count'[x] = count[x]
  BY <1>2, CreateCounts
<1>4. TypeOK'
  <2>1. owner \in Holders /\ App \notin Objects
    BY NamesAssumption DEF Holders
  <2>2. refs' \subseteq Holders \X Int \X Objects
    BY <1>1, <2>1 DEF OInv, TypeOK
  <2>3. \A r \in refs' : MayHold(r) /\ (r[1] = App => r[2] = 0)
    BY <1>1, <2>1 DEF OInv, TypeOK
  <2> QED BY <1>3, <2>2, <2>3 DEF OInv, TypeOK
<1>5. HolderInv'
  <2> SUFFICES ASSUME NEW r \in refs'
      PROVE  /\ r[1] \in Objects => count'[r[1]] > 0 \/ InRelease(r[1])
             /\ r[1] = Call => InRelease(Call)
             /\ r[1] = Factory => factory' # "idle" \/ InRelease(Factory)
    BY DEF HolderInv, Live, InRelease
  <2>1. CASE r \in refs
    BY <1>3, <2>1 DEF OInv, HolderInv, Live
  <2>2. CASE r \in new
    <3>1. r[1] = o /\ o \notin {Call, Factory}
      BY <2>2, NamesAssumption
    <3> QED BY <3>1, <1>3
  <2>3. CASE r = <<owner, slot, o>>
    BY <2>3, NamesAssumption
  <2> QED BY <1>1, <2>1, <2>2, <2>3
<1> QED BY <1>3, <1>4, <1>5

\* What one holder takes over from another.
LEMMA TakenOver ==
  ASSUME OInv, NEW h \in Owners, NEW from
  PROVE  /\ IsFiniteSet(LoadersFor(h, from))
         /\ \A r \in LoadersFor(h, from) :
              /\ r \in Holders \X Int \X Objects
              /\ r[1] = h /\ r[3] \in Loaders /\ r[3] # h /\ MayHold(r)
<1> DEFINE S == {p \in refs : p[1] = from /\ p[3] \in Loaders}
<1>1. S \in SUBSET refs
  OBVIOUS
<1>2. IsFiniteSet(S)
  BY <1>1, FS_Subset DEF OInv, TypeOK
<1>3. IsFiniteSet({<<h, r[2], r[3]>> : r \in S})
  BY <1>2, RenamedFinite
<1>4. ASSUME NEW p \in S
      PROVE  /\ <<h, p[2], p[3]>> \in Holders \X Int \X Objects
             /\ p[3] \in Loaders /\ p[3] # h /\ MayHold(<<h, p[2], p[3]>>)
  BY NamesAssumption DEF OInv, TypeOK, MayHold, Holders, Owners, Objects
<1> HIDE DEF S
<1>5. LoadersFor(h, from) = {<<h, r[2], r[3]>> : r \in S}
  BY DEF LoadersFor, S
<1> QED BY <1>3, <1>4, <1>5

\* Creations leave the loaders alone while the factory is about to make them.
LEMMA FactoryKept ==
  ASSUME OInv, UNCHANGED releasing, factory' # "idle" => factory # "idle",
         factory' = "loaders" =>
            factory = "loaders" /\ \A l \in Loaders : count'[l] = count[l]
  PROVE  FactoryInv'
BY DEF OInv, FactoryInv, Fresh

\* The factory.
LEMMA TryCreateKeeps == ASSUME OInv, TryCreate PROVE OInv'
<1>1. /\ releasing = <<>> /\ factory = "idle" /\ UNCHANGED <<releasing, available>>
      /\ \A l \in Loaders : Fresh(l)
  BY DEF TryCreate, Idle
<1>2. CASE Create(PluginManager, Factory, ManagerSlot, {}) /\ factory' = "loaders"
  <2>1. PluginManager \in Objects /\ MayHold(<<Factory, ManagerSlot, PluginManager>>)
    BY DEF Objects, MayHold
  <2>2. ManagerSlot \in Int /\ App # Factory
    BY NamesAssumption DEF ManagerSlot, NumLoaders
  <2>3. IsFiniteSet({})
    BY FS_EmptySet
  <2>4. /\ TypeOK' /\ HolderInv' /\ CountsAreHolders'
        /\ \A x \in Objects : x # PluginManager => count'[x] = count[x]
    BY <1>1, <1>2, <2>1, <2>2, <2>3, CreateKeeps
  <2>5. \A l \in Loaders : l \in Objects /\ l # PluginManager
    BY NamesAssumption DEF Objects
  <2>6. FactoryInv'
    BY <1>1, <1>2, <2>4, <2>5 DEF FactoryInv, Fresh
  <2> QED BY <2>4, <2>6 DEF OInv
<1>3. CASE factory' = "release" /\ UNCHANGED <<count, refs>>
  <2>1. TypeOK' /\ HolderInv' /\ CountsAreHolders'
    BY <1>1, <1>3 DEF OInv, TypeOK, HolderInv, CountsAreHolders, Live, InRelease
  <2>2. FactoryInv'
    BY <1>1, <1>3 DEF FactoryInv
  <2> QED BY <2>1, <2>2 DEF OInv
<1> QED BY <1>2, <1>3 DEF TryCreate

LEMMA StepFailsKeeps ==
  ASSUME OInv, factory # "idle", factory' # "idle", factory' # "loaders",
         UNCHANGED <<count, refs, releasing, available>>
  PROVE  OInv'
<1>1. TypeOK' /\ HolderInv' /\ CountsAreHolders'
  BY DEF OInv, TypeOK, HolderInv, CountsAreHolders, Live, InRelease
<1>2. FactoryInv'
  BY FactoryKept
<1> QED BY <1>1, <1>2 DEF OInv

LEMMA CreateLoadersKeeps == ASSUME OInv, CreateLoaders PROVE OInv'
<1> DEFINE held == {<<LoaderSeq[i], ManagerSlot, PluginManager>> : i \in 1 .. available}
           mine == {<<Factory, LoaderSlot(i), LoaderSeq[i]>> : i \in 1 .. available}
<1>1. /\ factory = "loaders" /\ UNCHANGED <<releasing, available>>
      /\ factory' \in {"allocator", "release"}
      /\ \/ count' = Retained(count, held \cup mine) /\ refs' = refs \cup held \cup mine
         \/ factory' = "release" /\ UNCHANGED <<count, refs>>
  BY DEF CreateLoaders
<1>2. CASE UNCHANGED <<count, refs>>
  BY <1>1, <1>2, StepFailsKeeps
<1>3. CASE count' = Retained(count, held \cup mine) /\ refs' = refs \cup held \cup mine
  <2>1. releasing = <<>> /\ \A l \in Loaders : Fresh(l)
    BY <1>1 DEF OInv, FactoryInv
  <2>2. NumLoaders \in Nat /\ available \in 0 .. NumLoaders
    BY NamesAssumption DEF NumLoaders, OInv, TypeOK
  <2>3. \A i \in 1 .. available : LoaderSeq[i] \in Loaders /\ i \in Int
    BY <2>2, NamesAssumption DEF NumLoaders
  <2>4. ~\E h : InRelease(h)
    BY <2>1 DEF InRelease
  <2>5. \A l \in Loaders : l \in Objects /\ (\A r \in refs : r[1] # l /\ r[3] # l)
    BY <2>1, <2>4, FreshHoldsNothing, FreshIsUnheld DEF Objects
  <2>6. IsFiniteSet(held) /\ IsFiniteSet(mine)
    <3> DEFINE f == [i \in 1 .. available |-> <<LoaderSeq[i], ManagerSlot, PluginManager>>]
               g == [i \in 1 .. available |-> <<Factory, LoaderSlot(i), LoaderSeq[i]>>]
    <3>1. f \in Surjection(1 .. available, held) /\ g \in Surjection(1 .. available, mine)
      BY DEF Surjection
    <3>2. IsFiniteSet(1 .. available)
      BY <2>2, FS_Interval
    <3> QED BY <3>1, <3>2, FS_Surjection
  <2>7. /\ refs \cap (held \cup mine) = {} /\ IsFiniteSet(held \cup mine)
        /\ refs' = refs \cup (held \cup mine)
    <3>1. \A r \in held : r \notin refs
      BY <2>3, <2>5
    <3>2. \A r \in mine : r \notin refs
      BY <2>3, <2>5
    <3>3. IsFiniteSet(held \cup mine)
      BY <2>6, FS_Union
    <3> QED BY <1>3, <3>1, <3>2, <3>3
  <2>8. CountsAreHolders' /\ count' \in [Objects -> Nat]
    <3> HIDE DEF held, mine
    <3> QED BY <1>3, <2>7, RetainedCounts
  <2>9. TypeOK'
    <3>1. ManagerSlot \in Int /\ App # Factory /\ App \notin Objects
      BY NamesAssumption DEF ManagerSlot, NumLoaders
    <3>2. \A r \in held : r \in Holders \X Int \X Objects /\ MayHold(r) /\ r[1] # App
      BY <2>3, <2>5, <3>1 DEF Holders, Objects, MayHold
    <3>3. \A r \in mine : r \in Holders \X Int \X Objects /\ MayHold(r) /\ r[1] # App
      BY <2>3, <2>5, <3>1 DEF Holders, MayHold, LoaderSlot
    <3>4. IsFiniteSet(refs')
      BY <2>7, FS_Union DEF OInv, TypeOK
    <3> HIDE DEF held, mine
    <3>5. /\ refs' \subseteq Holders \X Int \X Objects
          /\ \A r \in refs' : MayHold(r) /\ (r[1] = App => r[2] = 0)
      BY <2>7, <3>2, <3>3 DEF OInv, TypeOK
    <3> QED BY <1>1, <2>8, <3>4, <3>5 DEF OInv, TypeOK
  <2>10. HolderInv'
    <3>1. \A i \in 1 .. available : count'[LoaderSeq[i]] > 0
      <4> SUFFICES ASSUME NEW i \in 1 .. available PROVE count'[LoaderSeq[i]] > 0
        OBVIOUS
      <4> DEFINE o == LoaderSeq[i]
      <4>1. <<Factory, LoaderSlot(i), o>> \in To(refs', o)
        BY <1>3 DEF To
      <4>2. o \in Objects /\ count'[o] = Cardinality(To(refs', o)) /\ count'[o] \in Nat
        BY <2>3, <2>5, <2>8 DEF CountsAreHolders, To
      <4>3. IsFiniteSet(To(refs', o))
        BY <2>9, ToFinite DEF TypeOK
      <4>4. Cardinality(To(refs', o)) # 0
        BY <4>1, <4>3, FS_EmptySet
      <4> QED BY <4>2, <4>4
    <3>2. \A x \in Objects : count[x] > 0 => count'[x] > 0
      <4> SUFFICES ASSUME NEW x \in Objects, count[x] > 0 PROVE count'[x] > 0
        OBVIOUS
      <4>1. count'[x] = count[x] + Cardinality(To(held \cup mine, x))
        BY <1>3 DEF Retained, To
      <4>2. Cardinality(To(held \cup mine, x)) \in Nat /\ count[x] \in Nat
        BY <2>7, ToFinite DEF OInv, TypeOK
      <4> HIDE DEF held, mine
      <4> QED BY <4>1, <4>2
    <3> SUFFICES ASSUME NEW r \in refs'
        PROVE  /\ r[1] \in Objects => count'[r[1]] > 0
               /\ r[1] # Call
               /\ r[1] = Factory => factory' # "idle"
      BY DEF HolderInv, Live
    <3>3. CASE r \in refs
      BY <1>1, <2>4, <3>2, <3>3 DEF OInv, HolderInv, Live
    <3>4. CASE r \in held
      BY <3>1, <3>4, <2>3, <2>5, NamesAssumption
    <3>5. CASE r \in mine
      BY <3>5, <1>1, NamesAssumption
    <3> QED BY <1>3, <3>3, <3>4, <3>5
  <2>11. FactoryInv'
    BY <1>1, FactoryKept
  <2> QED BY <2>8, <2>9, <2>10, <2>11 DEF OInv
<1> QED BY <1>1, <1>2, <1>3

LEMMA CreateHeapAllocatorKeeps == ASSUME OInv, CreateHeapAllocator PROVE OInv'
<1>1. factory = "allocator" /\ UNCHANGED <<releasing, available>>
  BY DEF CreateHeapAllocator
<1>2. CASE Create(HeapAllocator, Factory, 0, {}) /\ factory' = "driver"
  <2>1. HeapAllocator \in Objects /\ MayHold(<<Factory, 0, HeapAllocator>>) /\ App # Factory
    BY NamesAssumption DEF Objects, Allocators, MayHold
  <2>2. TypeOK' /\ HolderInv' /\ CountsAreHolders'
    BY <1>1, <1>2, <2>1, FS_EmptySet, CreateKeeps
  <2>3. FactoryInv'
    BY <1>1, <1>2, FactoryKept
  <2> QED BY <2>2, <2>3 DEF OInv
<1>3. CASE factory' = "release" /\ UNCHANGED <<count, refs>>
  BY <1>1, <1>3, StepFailsKeeps
<1> QED BY <1>2, <1>3 DEF CreateHeapAllocator

\* An owner is made of the loaders of another holder and some more.
LEMMA CreateOwnerKeeps ==
  ASSUME OInv, NEW o \in Owners, NEW from, NEW more, IsFiniteSet(more),
         \A r \in more : /\ r \in Holders \X Int \X Objects
                         /\ r[1] = o /\ r[3] \in Loaders \cup Allocators \cup Providers,
         releasing = <<>>, factory # "loaders", factory' # "loaders",
         Create(o, App, 0, LoadersFor(o, from) \cup more),
         UNCHANGED <<releasing, available>>, factory # "idle" <=> factory' # "idle"
  PROVE  OInv'
<1> DEFINE new == LoadersFor(o, from) \cup more
<1>1. IsFiniteSet(new)
  BY TakenOver, FS_Union
<1>2. o \in Objects /\ o \notin Loaders \cup {PluginManager}
  BY NamesAssumption DEF Objects, Owners
<1>3. MayHold(<<App, 0, o>>) /\ App # Factory
  BY <1>2, NamesAssumption DEF MayHold
<1>4. \A r \in new : /\ r \in Holders \X Int \X Objects
                     /\ r[1] = o /\ r[3] # o /\ MayHold(r)
  <2>1. \A r \in more : r[3] # o /\ MayHold(r)
    BY NamesAssumption DEF MayHold
  <2> QED BY <2>1, TakenOver
<1>5. ~InRelease(o)
  BY DEF InRelease
<1> HIDE DEF new
<1>6. Create(o, App, 0, new)
  BY DEF new
<1>7. TypeOK' /\ HolderInv' /\ CountsAreHolders'
  BY <1>1, <1>2, <1>3, <1>4, <1>5, <1>6, CreateKeeps
<1>8. FactoryInv'
  BY FactoryKept
<1> QED BY <1>7, <1>8 DEF OInv

LEMMA CreateDriverKeeps == ASSUME OInv, CreateDriver PROVE OInv'
<1>1. factory = "driver" /\ factory' = "release" /\ UNCHANGED <<releasing, available>>
  BY DEF CreateDriver
<1> DEFINE more == {<<Driver, DriverAllocator, HeapAllocator>>}
<1>2. CASE Create(Driver, App, 0, LoadersFor(Driver, Factory) \cup more)
  <2>1. IsFiniteSet(more) /\ Driver \in Owners
    BY FS_Singleton DEF Owners
  <2>2. \A r \in more : /\ r \in Holders \X Int \X Objects
                        /\ r[1] = Driver /\ r[3] \in Allocators
    BY DEF Holders, Objects, Allocators, DriverAllocator
  <2>3. releasing = <<>>
    BY <1>1 DEF OInv, FactoryInv
  <2> HIDE DEF more
  <2> QED BY <1>1, <1>2, <2>1, <2>2, <2>3, CreateOwnerKeeps
<1>3. CASE UNCHANGED <<count, refs>>
  BY <1>1, <1>3, StepFailsKeeps
<1> QED BY <1>2, <1>3 DEF CreateDriver

-----------------------------------------------------------------------------
(***************************************************************************)
(* Releasing.                                                              *)
(***************************************************************************)
\* One pointer fewer, and one count less; the last one puts its object on the
\* stack of holders that give up theirs.
LEMMA ReleaseKeeps == ASSUME OInv, Release PROVE OInv'
<1>1. PICK r \in PointersOf(Head(releasing)) :
        /\ refs' = refs \ {r}
        /\ count' = [count EXCEPT ![r[3]] = @ - 1]
        /\ releasing' = IF count[r[3]] = 1 THEN <<r[3]>> \o releasing ELSE releasing
  BY DEF Release
<1> DEFINE o == r[3]
<1>2. /\ r \in refs /\ o \in Objects /\ releasing # <<>> /\ releasing \in Seq(Holders)
      /\ UNCHANGED <<factory, available>>
  BY <1>1 DEF PointersOf, OInv, TypeOK, Release
<1>3. count[o] \in Nat /\ count[o] > 0
  <2>1. r \in To(refs, o) /\ IsFiniteSet(To(refs, o))
    BY <1>2, ToFinite DEF To, OInv, TypeOK
  <2>2. Cardinality(To(refs, o)) # 0
    BY <2>1, FS_EmptySet
  <2>3. count[o] = Cardinality(To(refs, o)) /\ count[o] \in Nat
    BY <1>2 DEF To, OInv, CountsAreHolders, TypeOK
  <2> QED BY <2>2, <2>3
<1>4. CountsAreHolders'
  <2> SUFFICES ASSUME NEW x \in Objects PROVE count'[x] = Cardinality(To(refs', x))
    BY DEF CountsAreHolders, To
  <2>1. count[x] = Cardinality(To(refs, x)) /\ IsFiniteSet(To(refs, x))
    BY ToFinite DEF OInv, CountsAreHolders, To, TypeOK
  <2>2. CASE x = o
    <3>1. To(refs', x) = To(refs, x) \ {r} /\ r \in To(refs, x)
      BY <1>1, <1>2, <2>2 DEF To
    <3>2. Cardinality(To(refs', x)) = Cardinality(To(refs, x)) - 1
      BY <2>1, <3>1, FS_RemoveElement
    <3> QED BY <1>1, <1>2, <2>1, <2>2, <3>2 DEF OInv, TypeOK
  <2>3. CASE x # o
    <3>1. To(refs', x) = To(refs, x)
      BY <1>1, <2>3 DEF To
    <3> QED BY <1>1, <2>1, <2>3, <3>1 DEF OInv, TypeOK
  <2> QED BY <2>2, <2>3
<1>5. /\ releasing' \in Seq(Holders)
      /\ \A h : InRelease(h) => InRelease(h)'
      /\ count[o] = 1 => InRelease(o)'
  <2>1. CASE count[o] = 1
    <3>1. releasing' = <<o>> \o releasing /\ <<o>> \in Seq(Holders) /\ o \in Holders
      BY <1>1, <1>2, <2>1 DEF Holders
    <3>2. /\ releasing' \in Seq(Holders) /\ Len(releasing') = 1 + Len(releasing)
          /\ Len(releasing) \in Nat /\ releasing'[1] = o
          /\ \A i \in 1 .. Len(releasing) : releasing'[i + 1] = releasing[i]
      BY <1>2, <3>1
    <3>3. ASSUME NEW h, InRelease(h) PROVE InRelease(h)'
      <4>1. PICK i \in 1 .. Len(releasing) : releasing[i] = h
        BY <3>3 DEF InRelease
      <4>2. i + 1 \in 1 .. Len(releasing') /\ releasing'[i + 1] = h
        BY <3>2, <4>1
      <4> QED BY <4>2 DEF InRelease
    <3>4. InRelease(o)'
      <4>1. 1 \in 1 .. Len(releasing')
        BY <3>2
      <4> QED BY <3>2, <4>1 DEF InRelease
    <3> QED BY <3>2, <3>3, <3>4
  <2>2. CASE count[o] # 1
    <3>1. releasing' = releasing
      BY <1>1, <2>2
    <3> QED BY <1>2, <2>2, <3>1 DEF InRelease
  <2> QED BY <2>1, <2>2
<1>6. TypeOK'
  <2>1. count' \in [Objects -> Nat]
    BY <1>1, <1>2, <1>3 DEF OInv, TypeOK
  <2>2. IsFiniteSet(refs')
    BY <1>1, FS_RemoveElement DEF OInv, TypeOK
  <2> QED BY <1>1, <1>2, <1>5, <2>1, <2>2 DEF OInv, TypeOK
<1>7. HolderInv'
  <2> SUFFICES ASSUME NEW p \in refs'
      PROVE  /\ p[1] \in Objects => count'[p[1]] > 0 \/ InRelease(p[1])'
             /\ p[1] = Call => InRelease(Call)'
             /\ p[1] = Factory => factory' # "idle" \/ InRelease(Factory)'
    BY DEF HolderInv, Live, InRelease
  <2>1. /\ p[1] \in Objects => count[p[1]] > 0 \/ InRelease(p[1])
        /\ p[1] = Call => InRelease(Call)
        /\ p[1] = Factory => factory # "idle" \/ InRelease(Factory)
    BY <1>1 DEF OInv, HolderInv, Live
  <2>2. ASSUME NEW h \in Objects, count[h] > 0 PROVE count'[h] > 0 \/ InRelease(h)'
    <3>1. CASE h = o /\ count[o] = 1
      BY <3>1, <1>5
    <3>2. CASE h = o /\ count[o] # 1
      BY <3>2, <1>1, <1>2, <1>3 DEF OInv, TypeOK
    <3>3. CASE h # o
      BY <3>3, <2>2, <1>1 DEF OInv, TypeOK
    <3> QED BY <3>1, <3>2, <3>3
  <2>3. \A h : InRelease(h) => InRelease(h)'
    BY <1>5
  <2> QED BY <1>2, <2>1, <2>2, <2>3
<1>8. FactoryInv'
  <2>1. factory = "idle"
    BY <1>2 DEF OInv, FactoryInv
  <2> QED BY <1>2, <2>1 DEF FactoryInv
<1> QED BY <1>4, <1>6, <1>7, <1>8 DEF OInv

LEMMA ReleasedKeeps == ASSUME OInv, Released PROVE OInv'
<1>1. /\ releasing # <<>> /\ PointersOf(Head(releasing)) = {}
      /\ releasing' = Tail(releasing) /\ releasing \in Seq(Holders)
      /\ UNCHANGED <<count, refs, factory, available>>
  BY DEF Released, OInv, TypeOK
<1>2. /\ releasing' \in Seq(Holders) /\ Len(releasing) \in Nat \ {0}
      /\ Len(releasing') = Len(releasing) - 1
      /\ \A i \in 1 .. Len(releasing') : releasing'[i] = releasing[i + 1]
      /\ Head(releasing) = releasing[1]
  BY <1>1
<1>3. ASSUME NEW r \in refs, InRelease(r[1]) PROVE InRelease(r[1])'
  <2>1. PICK i \in 1 .. Len(releasing) : releasing[i] = r[1]
    BY <1>3 DEF InRelease
  <2>2. i # 1
    BY <1>1, <1>2, <2>1 DEF PointersOf
  <2>3. i - 1 \in 1 .. Len(releasing') /\ releasing'[i - 1] = r[1]
    BY <1>2, <2>1, <2>2
  <2> QED BY <1>1, <2>3 DEF InRelease
<1>4. TypeOK' /\ CountsAreHolders'
  BY <1>1, <1>2 DEF OInv, TypeOK, CountsAreHolders
<1>5. HolderInv'
  <2> SUFFICES ASSUME NEW r \in refs
      PROVE  /\ r[1] \in Objects => count[r[1]] > 0 \/ InRelease(r[1])'
             /\ r[1] = Call => InRelease(Call)'
             /\ r[1] = Factory => factory # "idle" \/ InRelease(Factory)'
    BY <1>1 DEF HolderInv, Live, InRelease
  <2>1. /\ r[1] \in Objects => count[r[1]] > 0 \/ InRelease(r[1])
        /\ r[1] = Call => InRelease(r[1])
        /\ r[1] = Factory => factory # "idle" \/ InRelease(r[1])
    BY DEF OInv, HolderInv, Live
  <2>2. InRelease(r[1]) => InRelease(r[1])'
    BY <1>3
  <2> QED BY <1>1, <2>1, <2>2 DEF InRelease
<1>6. FactoryInv'
  <2>1. factory = "idle"
    BY <1>1 DEF OInv, FactoryInv
  <2> QED BY <1>1, <2>1 DEF FactoryInv
<1> QED BY <1>4, <1>5, <1>6 DEF OInv

\* A stack of one holder.
LEMMA OneReleases ==
  ASSUME NEW h \in Holders, releasing' = <<h>>
  PROVE  releasing' \in Seq(Holders) /\ InRelease(h)'
<1>1. Len(releasing') = 1 /\ releasing'[1] = h /\ 1 \in 1 .. 1
  OBVIOUS
<1>2. releasing' \in Seq(Holders)
  OBVIOUS
<1> QED BY <1>1, <1>2 DEF InRelease

LEMMA ReleaseLocalsKeeps == ASSUME OInv, ReleaseLocals PROVE OInv'
<1>1. /\ factory = "release" /\ factory' = "idle" /\ releasing' = <<Factory>>
      /\ UNCHANGED <<count, refs, available>>
  BY DEF ReleaseLocals
<1>2. releasing' \in Seq(Holders) /\ InRelease(Factory)'
  BY <1>1, OneReleases DEF Holders
<1>3. ~\E h : InRelease(h)
  BY <1>1 DEF OInv, FactoryInv, InRelease
<1>4. TypeOK' /\ CountsAreHolders' /\ FactoryInv'
  BY <1>1, <1>2 DEF OInv, TypeOK, CountsAreHolders, FactoryInv
<1>5. HolderInv'
  BY <1>1, <1>2, <1>3 DEF OInv, HolderInv, Live
<1> QED BY <1>4, <1>5 DEF OInv

-----------------------------------------------------------------------------
(***************************************************************************)
(* The application.                                                        *)
(***************************************************************************)
LEMMA UnchangedKeeps ==
  ASSUME OInv, UNCHANGED <<count, refs, releasing, factory, available>>
  PROVE  OInv'
BY DEF OInv, TypeOK, HolderInv, FactoryInv, CountsAreHolders, Live, Fresh, InRelease

LEMMA CreateDeviceKeeps ==
  ASSUME OInv, NEW d \in Devices, CreateDevice(d)
  PROVE  OInv'
<1>1. releasing = <<>> /\ factory = "idle" /\ UNCHANGED <<releasing, factory, available>>
  BY DEF CreateDevice, AppHolds, Idle
<1> DEFINE S == InSlot(Driver, DriverAllocator)
           more == {<<d, DeviceAllocator, r[3]>> : r \in S}
<1>2. CASE Create(d, App, 0, LoadersFor(d, Driver) \cup more)
  <2>1. S \in SUBSET refs
    BY DEF InSlot
  <2>2. IsFiniteSet(S)
    BY <2>1, FS_Subset DEF OInv, TypeOK
  <2>3. ASSUME NEW r \in S
        PROVE  r[3] \in Objects /\ r[3] \in Loaders \cup Allocators \cup Providers
    <3>1. r \in refs /\ r[1] = Driver
      BY DEF InSlot
    <3>2. Driver \notin Loaders /\ Driver \in Objects /\ Driver \notin {App, Call, Factory}
      BY NamesAssumption DEF Owners, Objects
    <3> QED BY <3>1, <3>2 DEF OInv, TypeOK, MayHold
  <2>4. DeviceAllocator \in Int /\ d \in Owners /\ d \in Holders
    BY NamesAssumption DEF DeviceAllocator, NumLoaders, Owners, Holders, Objects
  <2>5. IsFiniteSet(more)
    <3> HIDE DEF S
    <3>1. \A h, n : IsFiniteSet({<<h, n, r[3]>> : r \in S})
      BY <2>2, MovedFinite
    <3> QED BY <3>1
  <2>6. \A r \in more : /\ r \in Holders \X Int \X Objects
                        /\ r[1] = d /\ r[3] \in Loaders \cup Allocators \cup Providers
    BY <2>3, <2>4
  <2> HIDE DEF more
  <2> QED BY <1>1, <1>2, <2>4, <2>5, <2>6, CreateOwnerKeeps
<1>3. CASE UNCHANGED <<count, refs>>
  BY <1>1, <1>3, UnchangedKeeps
<1> QED BY <1>2, <1>3 DEF CreateDevice

LEMMA CreateCacheKeeps ==
  ASSUME OInv, NEW d, NEW c \in Caches, CreateCache(c, d)
  PROVE  OInv'
<1>1. /\ releasing = <<>> /\ factory = "idle" /\ UNCHANGED <<releasing, factory, available>>
      /\ Create(c, App, 0, LoadersFor(c, d) \cup {})
  BY DEF CreateCache, AppHolds, Idle
<1> QED BY <1>1, FS_EmptySet, CreateOwnerKeeps DEF Owners

\* Events, semaphores, command buffers and executables, and the application's
\* own allocators and channel providers.
LEMMA CreatePlainKeeps ==
  ASSUME OInv, NEW o \in Leaves \cup OtherAllocators \cup Providers,
         Create(o, App, 0, {}), UNCHANGED <<releasing, factory, available>>
  PROVE  OInv'
<1>1. o \in Objects /\ o \notin Loaders \cup {PluginManager}
  BY NamesAssumption DEF Objects, Allocators
<1>2. MayHold(<<App, 0, o>>) /\ App # Factory
  BY <1>1, NamesAssumption DEF MayHold
<1>3. /\ TypeOK' /\ HolderInv' /\ CountsAreHolders'
      /\ \A x \in Objects : x # o => count'[x] = count[x]
  BY <1>1, <1>2, FS_EmptySet, CreateKeeps
<1>4. \A l \in Loaders : count'[l] = count[l]
  BY <1>1, <1>3 DEF Objects
<1>5. FactoryInv'
  BY <1>4, FactoryKept
<1> QED BY <1>3, <1>5 DEF OInv

LEMMA AppRetainKeeps ==
  ASSUME OInv, NEW a \in Allocators, AppRetain(a)
  PROVE  OInv'
<1> DEFINE new == {<<App, 0, a>>}
<1>1. /\ releasing = <<>> /\ factory = "idle" /\ UNCHANGED <<releasing, factory, available>>
      /\ count' = Retained(count, new) /\ refs' = refs \cup new /\ refs \cap new = {}
  BY DEF AppRetain, AppHolds, Idle, Holds
<1>2. IsFiniteSet(new) /\ IsFiniteSet(refs')
  BY <1>1, FS_Singleton, FS_AddElement DEF OInv, TypeOK
<1>3. a \in Objects /\ a \notin Loaders \cup {PluginManager} /\ App \notin Objects
      /\ App # Call /\ App # Factory
  BY NamesAssumption DEF Objects
<1>4. CountsAreHolders' /\ count' \in [Objects -> Nat]
  BY <1>1, <1>2, RetainedCounts
<1>5. TypeOK'
  <2>1. <<App, 0, a>> \in Holders \X Int \X Objects /\ MayHold(<<App, 0, a>>)
    BY <1>3 DEF MayHold, Holders
  <2>2. /\ refs' \subseteq Holders \X Int \X Objects
        /\ \A r \in refs' : MayHold(r) /\ (r[1] = App => r[2] = 0)
    BY <1>1, <2>1 DEF OInv, TypeOK
  <2> QED BY <1>1, <1>2, <1>4, <2>2 DEF OInv, TypeOK
<1>6. HolderInv'
  <2>1. \A x \in Objects : count[x] > 0 => count'[x] > 0
    <3> SUFFICES ASSUME NEW x \in Objects, count[x] > 0 PROVE count'[x] > 0
      OBVIOUS
    <3>1. count'[x] = count[x] + Cardinality(To(new, x))
      BY <1>1 DEF Retained, To
    <3>2. Cardinality(To(new, x)) \in Nat /\ count[x] \in Nat
      BY <1>2, ToFinite DEF OInv, TypeOK
    <3> QED BY <3>1, <3>2
  <2> SUFFICES ASSUME NEW r \in refs'
      PROVE  (r[1] \in Objects => count'[r[1]] > 0) /\ r[1] # Call /\ r[1] # Factory
    BY DEF HolderInv, Live
  <2>2. CASE r \in refs
    <3>1. ~\E h : InRelease(h)
      BY <1>1 DEF InRelease
    <3> QED BY <1>1, <2>1, <2>2, <3>1 DEF OInv, HolderInv, Live
  <2>3. CASE r = <<App, 0, a>>
    BY <1>3, <2>3
  <2> QED BY <1>1, <2>2, <2>3
<1>7. FactoryInv'
  BY <1>1, FactoryKept
<1> QED BY <1>4, <1>5, <1>6, <1>7 DEF OInv

\* While nothing is released and no factory runs, only the application and
\* live objects hold anything.
LEMMA IdleHolders ==
  ASSUME OInv, Idle, NEW r \in refs
  PROVE  r[1] # Call /\ r[1] # Factory /\ (r[1] \in Objects => Live(r[1]))
<1>1. ~\E h : InRelease(h)
  BY DEF InRelease, Idle
<1> QED BY <1>1 DEF OInv, HolderInv, Idle

LEMMA AppReleaseKeeps ==
  ASSUME OInv, NEW o \in Objects, AppRelease(o)
  PROVE  OInv'
<1> DEFINE x == <<App, 0, o>>
           y == <<Call, 0, o>>
<1>1. /\ Idle /\ factory = "idle" /\ UNCHANGED <<count, factory, available>>
      /\ releasing' = <<Call>> /\ refs' = (refs \ {x}) \cup {y}
  BY DEF AppRelease, AppHolds, Idle
<1>2. x \in refs
  <2>1. PICK r \in refs : r[1] = App /\ r[3] = o
    BY DEF AppRelease, AppHolds, Holds
  <2> QED BY <2>1 DEF OInv, TypeOK
<1>3. y \notin refs
  BY <1>1, IdleHolders
<1>4. App # Call /\ App # Factory /\ Call # Factory /\ App \notin Objects /\ Call \notin Objects
  BY NamesAssumption
<1>5. releasing' \in Seq(Holders) /\ InRelease(Call)'
  BY <1>1, OneReleases DEF Holders
<1>6. CountsAreHolders'
  <2> SUFFICES ASSUME NEW w \in Objects PROVE Cardinality(To(refs', w)) = Cardinality(To(refs, w))
    BY <1>1 DEF OInv, CountsAreHolders, To
  <2>1. IsFiniteSet(To(refs, w)) /\ Cardinality(To(refs, w)) \in Nat
    BY ToFinite DEF OInv, TypeOK
  <2>2. CASE w = o
    <3>1. To(refs', w) = (To(refs, w) \ {x}) \cup {y} /\ x \in To(refs, w)
          /\ y \notin To(refs, w) \ {x}
      BY <1>1, <1>2, <1>3, <2>2 DEF To
    <3>2. /\ IsFiniteSet(To(refs, w) \ {x})
          /\ Cardinality(To(refs, w) \ {x}) = Cardinality(To(refs, w)) - 1
      BY <2>1, <3>1, FS_RemoveElement
    <3>3. Cardinality(To(refs', w)) = Cardinality(To(refs, w) \ {x}) + 1
      BY <3>1, <3>2, FS_AddElement
    <3> QED BY <2>1, <3>2, <3>3
  <2>3. CASE w # o
    <3>1. To(refs', w) = To(refs, w)
      BY <1>1, <2>3 DEF To
    <3> QED BY <3>1
  <2> QED BY <2>2, <2>3
<1>7. TypeOK'
  <2>1. IsFiniteSet(refs')
    BY <1>1, FS_RemoveElement, FS_AddElement DEF OInv, TypeOK
  <2>2. MayHold(y)
    BY <1>2, <1>4, NamesAssumption DEF OInv, TypeOK, MayHold, Owners, Objects
  <2>3. y \in Holders \X Int \X Objects
    BY DEF Holders
  <2>4. \A r \in refs' : MayHold(r) /\ (r[1] = App => r[2] = 0)
    BY <1>1, <2>2 DEF OInv, TypeOK
  <2> QED BY <1>1, <1>5, <2>1, <2>3, <2>4 DEF OInv, TypeOK
<1>8. HolderInv'
  BY <1>1, <1>4, <1>5, IdleHolders DEF HolderInv, Live
<1>9. FactoryInv'
  BY <1>1 DEF FactoryInv
<1> QED BY <1>6, <1>7, <1>8, <1>9 DEF OInv

\* The device points to the new object, and the call to the old one until it
\* has released it; they may be the same.
LEMMA ReplaceKeeps ==
  ASSUME OInv, NEW d \in Devices, NEW slot \in Int, NEW new \in Allocators \cup Providers,
         Replace(d, slot, new)
  PROVE  OInv'
<1> DEFINE old == InSlot(d, slot)
           dropped == {<<Call, slot, r[3]>> : r \in old}
           x(o) == <<d, slot, o>>
           y(o) == <<Call, slot, o>>
<1>1. /\ Idle /\ factory = "idle" /\ UNCHANGED <<factory, available>>
      /\ releasing' = <<Call>> /\ count' = [count EXCEPT ![new] = @ + 1]
      /\ refs' = (refs \ old) \cup {x(new)} \cup dropped
  BY DEF Replace, AppHolds, Idle
<1>2. old \in SUBSET refs /\ \A r \in old : r = x(r[3]) /\ r[3] \in Objects
  BY DEF InSlot, OInv, TypeOK
<1>3. \A r \in refs : r[1] # Call
  BY <1>1, IdleHolders
<1>4. d \in Objects /\ d \in Owners /\ new \in Objects /\ Call \notin Objects /\ App \notin Objects
      /\ Factory \notin Objects /\ App # Call /\ App # Factory /\ Call # Factory
  BY NamesAssumption DEF Objects, Owners
<1>5. releasing' \in Seq(Holders) /\ InRelease(Call)'
  BY <1>1, OneReleases DEF Holders
<1>6. IsFiniteSet(refs) /\ IsFiniteSet(old) /\ IsFiniteSet(dropped) /\ IsFiniteSet(refs')
  <2>1. IsFiniteSet(old)
    BY <1>2, FS_Subset DEF OInv, TypeOK
  <2>2. IsFiniteSet(dropped)
    <3> HIDE DEF old
    <3>1. \A h, n : IsFiniteSet({<<h, n, r[3]>> : r \in old})
      BY <2>1, MovedFinite
    <3> QED BY <3>1
  <2>3. IsFiniteSet(refs \ old)
    BY FS_Difference DEF OInv, TypeOK
  <2>4. IsFiniteSet((refs \ old) \cup {x(new)})
    BY <2>3, FS_AddElement
  <2> HIDE DEF dropped, old, x
  <2> QED BY <1>1, <2>1, <2>2, <2>4, FS_Union DEF OInv, TypeOK
<1>7. CountsAreHolders'
  <2> SUFFICES ASSUME NEW o \in Objects PROVE count'[o] = Cardinality(To(refs', o))
    BY DEF CountsAreHolders, To
  <2> DEFINE T == To(refs, o)
  <2>1. /\ IsFiniteSet(T) /\ Cardinality(T) \in Nat /\ count[o] = Cardinality(T)
        /\ y(o) \notin T
    BY <1>3, <1>6, ToFinite DEF OInv, CountsAreHolders, To
  <2>2. /\ To(dropped, o) = IF x(o) \in refs THEN {y(o)} ELSE {}
        /\ To(refs \ old, o) = T \ {x(o)}
        /\ To({x(new)}, o) = IF o = new THEN {x(o)} ELSE {}
    <3>1. \A r \in refs : r[3] = o => (r \in old <=> r = x(o))
      BY DEF InSlot, OInv, TypeOK
    <3>2. To(refs \ old, o) = T \ {x(o)}
      BY <3>1 DEF To
    <3>3. x(o) \in refs <=> \E r \in old : r[3] = o
      BY <1>2, <3>1
    <3>4. To(dropped, o) = IF x(o) \in refs THEN {y(o)} ELSE {}
      BY <3>3 DEF To
    <3>5. To({x(new)}, o) = IF o = new THEN {x(o)} ELSE {}
      BY DEF To
    <3> QED BY <3>2, <3>4, <3>5
  <2>3. To(refs', o) = (T \ {x(o)}) \cup To({x(new)}, o) \cup To(dropped, o)
    BY <1>1, <2>2 DEF To
  <2>4. count'[o] = IF o = new THEN count[o] + 1 ELSE count[o]
    BY <1>1, <1>4 DEF OInv, TypeOK
  <2>5. x(o) \in T <=> x(o) \in refs
    BY DEF To
  <2> HIDE DEF T, dropped, old
  <2>6. CASE o # new /\ x(o) \notin refs
    <3>1. To(refs', o) = T
      BY <2>2, <2>3, <2>5, <2>6
    <3> QED BY <2>1, <2>4, <2>6, <3>1
  <2>7. CASE o # new /\ x(o) \in refs
    <3>1. To(refs', o) = (T \ {x(o)}) \cup {y(o)} /\ x(o) \in T /\ y(o) \notin T \ {x(o)}
      BY <2>1, <2>2, <2>3, <2>5, <2>7
    <3>2. /\ IsFiniteSet(T \ {x(o)}) /\ Cardinality(T \ {x(o)}) = Cardinality(T) - 1
      BY <2>1, <3>1, FS_RemoveElement
    <3>3. Cardinality(To(refs', o)) = Cardinality(T \ {x(o)}) + 1
      BY <3>1, <3>2, FS_AddElement
    <3> QED BY <2>1, <2>4, <2>7, <3>2, <3>3
  <2>8. CASE o = new /\ x(o) \notin refs
    <3>1. To(refs', o) = T \cup {x(o)} /\ x(o) \notin T
      BY <2>2, <2>3, <2>5, <2>8
    <3>2. Cardinality(To(refs', o)) = Cardinality(T) + 1
      BY <2>1, <3>1, FS_AddElement
    <3> QED BY <2>1, <2>4, <2>8, <3>2
  <2>9. CASE o = new /\ x(o) \in refs
    <3>1. To(refs', o) = T \cup {y(o)} /\ y(o) \notin T
      BY <2>1, <2>2, <2>3, <2>5, <2>9
    <3>2. Cardinality(To(refs', o)) = Cardinality(T) + 1
      BY <2>1, <3>1, FS_AddElement
    <3> QED BY <2>1, <2>4, <2>9, <3>2
  <2> QED BY <2>6, <2>7, <2>8, <2>9
<1>8. TypeOK'
  <2>1. count' \in [Objects -> Nat]
    BY <1>1, <1>4 DEF OInv, TypeOK
  <2>2. \A r \in dropped : r \in Holders \X Int \X Objects /\ MayHold(r) /\ r[1] # App
    <3> SUFFICES ASSUME NEW o \in Objects, x(o) \in old
                 PROVE  y(o) \in Holders \X Int \X Objects /\ MayHold(y(o)) /\ Call # App
      BY <1>2
    <3>1. MayHold(x(o))
      BY <1>2 DEF OInv, TypeOK
    <3>2. d \notin Loaders /\ d \notin {App, Call, Factory}
      BY <1>4, NamesAssumption
    <3>3. o \in Loaders \cup Allocators \cup Providers
      BY <3>1, <3>2 DEF MayHold
    <3>4. o # PluginManager
      BY <3>3, NamesAssumption
    <3> QED BY <1>4, <3>4 DEF MayHold, Holders
  <2>3. x(new) \in Holders \X Int \X Objects /\ MayHold(x(new)) /\ d # App
    BY <1>4 DEF MayHold, Holders
  <2> HIDE DEF dropped, old, x
  <2>4. /\ refs' \subseteq Holders \X Int \X Objects
        /\ \A r \in refs' : MayHold(r)
    BY <1>1, <2>2, <2>3 DEF OInv, TypeOK
  <2>5. \A r \in refs' : r[1] = App => r[2] = 0
    BY <1>1, <1>4, <2>2, <2>3 DEF OInv, TypeOK, x
  <2> QED BY <1>1, <1>5, <1>6, <2>1, <2>4, <2>5 DEF OInv, TypeOK
<1>9. HolderInv'
  <2>1. count[d] > 0 /\ \A o \in Objects : count[o] > 0 => count'[o] > 0
    <3>1. PICK r \in refs : r[3] = d
      BY DEF Replace, AppHolds, Holds
    <3>2. r \in To(refs, d) /\ IsFiniteSet(To(refs, d)) /\ count[d] = Cardinality(To(refs, d))
      <4>1. IsFiniteSet(To(refs, d))
        BY ToFinite DEF OInv, TypeOK
      <4> QED BY <1>4, <3>1, <4>1 DEF To, OInv, CountsAreHolders
    <3>3. count[d] # 0
      BY <3>2, FS_EmptySet
    <3> QED BY <1>1, <1>4, <3>3 DEF OInv, TypeOK
  <2> SUFFICES ASSUME NEW r \in refs'
      PROVE  /\ r[1] \in Objects => count'[r[1]] > 0
             /\ r[1] # Factory
    BY <1>5 DEF HolderInv, Live
  <2>2. CASE r \in refs
    BY <1>1, <2>1, <2>2, IdleHolders DEF Live
  <2>3. CASE r = x(new)
    BY <2>1, <2>3, <1>4
  <2>4. CASE r \in dropped
    BY <2>4, <1>4
  <2> QED BY <1>1, <2>2, <2>3, <2>4
<1>10. FactoryInv'
  BY <1>1 DEF FactoryInv
<1> QED BY <1>7, <1>8, <1>9, <1>10 DEF OInv

-----------------------------------------------------------------------------
(***************************************************************************)
(* Theorems.                                                               *)
(***************************************************************************)
LEMMA InitOInv == CacheInit => OInv
<1> SUFFICES ASSUME Init PROVE OInv
  BY DEF CacheInit
<1>1. TypeOK
  BY FS_EmptySet DEF Init, TypeOK
<1>2. CountsAreHolders
  <2> SUFFICES ASSUME NEW o \in Objects PROVE count[o] = Cardinality(To(refs, o))
    BY DEF CountsAreHolders, To
  <2>1. To(refs, o) = {}
    BY DEF Init, To
  <2> QED BY <2>1, FS_EmptySet DEF Init
<1> QED BY <1>1, <1>2 DEF Init, OInv, HolderInv, FactoryInv

LEMMA ObjectStepKeeps == ASSUME OInv, ObjectStep PROVE OInv'
<1>1. ASSUME NEW d \in Devices, ReplaceAllocator(d) \/ ReplaceProvider(d) PROVE OInv'
  <2>1. DeviceAllocator \in Int /\ DeviceProvider \in Int
    BY NamesAssumption DEF DeviceAllocator, DeviceProvider, NumLoaders
  <2> QED BY <1>1, <2>1, ReplaceKeeps DEF ReplaceAllocator, ReplaceProvider
<1>2. ASSUME NEW d \in Devices, NEW o \in Leaves, CreateLeaf(o, d) PROVE OInv'
  BY <1>2, CreatePlainKeeps DEF CreateLeaf
<1>3. ASSUME NEW o \in OtherAllocators \cup Providers, AppCreate(o) PROVE OInv'
  BY <1>3, CreatePlainKeeps DEF AppCreate
<1> QED BY <1>1, <1>2, <1>3, ReleaseKeeps, ReleasedKeeps, TryCreateKeeps,
           CreateLoadersKeeps, CreateHeapAllocatorKeeps, CreateDriverKeeps,
           ReleaseLocalsKeeps, CreateDeviceKeeps, CreateCacheKeeps, AppRetainKeeps,
           AppReleaseKeeps DEF ObjectStep

LEMMA StepOInv == OInv /\ [Next]_vars => OInv'
<1> SUFFICES ASSUME OInv, [Next]_vars PROVE OInv'
  OBVIOUS
<1>1. CASE UNCHANGED objects
  BY <1>1, UnchangedKeeps DEF objects
<1>2. CASE ObjectStep
  BY <1>2, ObjectStepKeeps
<1>3. ASSUME NEW made, ExecutableIf(made) PROVE OInv'
  <2>1. CASE made
    BY <1>3, <2>1, CreatePlainKeeps DEF ExecutableIf, Executable
  <2>2. CASE ~made
    BY <1>3, <2>2, UnchangedKeeps DEF ExecutableIf
  <2> QED BY <2>1, <2>2
<1>4. CASE PrepareSimulator
  BY <1>3, <1>4 DEF PrepareSimulator
<1>5. CASE PrepareExecutable
  BY <1>1, <1>3, <1>5 DEF PrepareExecutable
<1>6. CASE UNCHANGED vars
  BY <1>1, <1>6 DEF vars
<1> QED BY <1>1, <1>2, <1>4, <1>5, <1>6
       DEF Next, Ask, InferFormat, CanPrepareFormat, QueryFormat, CanPrepare, Answered

LEMMA Inductive == Spec => []OInv
BY InitOInv, StepOInv, PTL DEF Spec

\* In every state, also in the middle of a destruction, of a failing creation
\* or of a replacement by the same object, the reference count of a driver,
\* device, cache, loader, allocator or other object is the number of pointers
\* to it: none is destroyed that something still points to.
THEOREM ReferenceCountsAreHolders == Spec => []CountsAreHolders
<1>1. OInv => CountsAreHolders
  BY DEF OInv
<1> QED BY <1>1, Inductive, PTL

\* When the application has released all that it was given, every object is
\* gone: the pointers form layers, without a cycle that would keep itself alive.
THEOREM ReleasingAllLeavesNothing == Spec => []NothingLeft
<1>1. OInv => NothingLeft
  <2> SUFFICES ASSUME OInv, Idle, \A r \in refs : r[1] # App, NEW o \in Objects
               PROVE  count[o] = 0
    BY DEF NothingLeft, Fresh
  <2>1. ASSUME NEW x \in Objects, count[x] # 0
        PROVE  \E r \in refs : r[3] = x /\ r[1] \in Objects /\ count[r[1]] # 0
    <3>1. count[x] = Cardinality(To(refs, x)) /\ IsFiniteSet(To(refs, x))
      BY ToFinite DEF OInv, TypeOK, CountsAreHolders, To
    <3>2. To(refs, x) # {}
      BY <2>1, <3>1, FS_EmptySet
    <3>3. PICK r \in refs : r[3] = x
      BY <3>2 DEF To
    <3>4. r[1] \in Objects /\ Live(r[1])
      BY <3>3, IdleHolders DEF OInv, TypeOK, Holders
    <3> QED BY <3>3, <3>4 DEF Live, OInv, TypeOK
  <2>2. \A r \in refs : r[1] \in Objects =>
          \/ r[1] \in Loaders /\ r[3] = PluginManager
          \/ r[1] \in Owners /\ r[3] \in Loaders \cup Allocators \cup Providers
    BY NamesAssumption DEF OInv, TypeOK, MayHold
  <2>3. \A x \in Owners : x \in Objects /\ count[x] = 0
    <3> SUFFICES ASSUME NEW x \in Owners, count[x] # 0 PROVE FALSE
      BY DEF Owners, Objects
    <3>1. x \in Objects
      BY DEF Owners, Objects
    <3>2. PICK r \in refs : r[3] = x /\ r[1] \in Objects
      BY <2>1, <3>1
    <3>3. x = PluginManager \/ x \in Loaders \cup Allocators \cup Providers
      BY <2>2, <3>2
    <3> QED BY <3>3, NamesAssumption
  <2>4. \A x \in Loaders : x \in Objects /\ count[x] = 0
    <3> SUFFICES ASSUME NEW x \in Loaders, count[x] # 0 PROVE FALSE
      BY DEF Objects
    <3>1. x \in Objects
      BY DEF Objects
    <3>2. PICK r \in refs : r[3] = x /\ r[1] \in Objects /\ count[r[1]] # 0
      BY <2>1, <3>1
    <3>3. r[1] \in Owners
      BY <2>2, <3>2, NamesAssumption
    <3> QED BY <2>3, <3>2, <3>3
  <2> QED BY <2>1, <2>2, <2>3, <2>4
<1> QED BY <1>1, Inductive, PTL

-----------------------------------------------------------------------------
(***************************************************************************)
(* Answers.  Every owner that is alive holds all the loaders there are, so *)
(* that a question that has been passed over by each of those it asked has *)
(* been put to all of them.                                                *)
(***************************************************************************)
Complete(h) == LoadersOf(h) = {<<h, i, LoaderSeq[i]>> : i \in 1 .. available}

LoadersInv ==
  /\ \A h \in Owners : Live(h) => Complete(h)
  /\ factory \in {"allocator", "driver"} => Complete(Factory)
  /\ \A h \in Objects : InRelease(h) => Fresh(h)
  /\ q # NoQuestion => Idle

Ops == {"infer_format", "can_prepare_format", "prepare_executable", "query_i64"}

Answers == SupportAnswers \cup InferAnswers \cup LoadAnswers
Results == Answers \cup {"none", "TRUE", "FALSE", "INVALID_ARGUMENT"}

Passed(s) == \A i \in 1 .. Len(s) : s[i] \in PassedOver

\* What is known about a question: it is asked of a live owner, and goes on
\* only as long as it is passed over.
QuestionInv ==
  q # NoQuestion =>
    /\ q \in [op : Ops, subject : Owners, simulator_format : BOOLEAN, empty : BOOLEAN,
              status : {"OK"} \cup InferAnswers, heard : Seq(Answers),
              result : Results]
    /\ Live(q.subject)
    /\ Len(q.heard) <= available
    /\ q.op # "infer_format" /\ ~q.simulator_format =>
         IF q.result \in {"none", "FALSE", "NOT_FOUND"}
         THEN Passed(q.heard) /\ (q.result # "none" => Len(q.heard) = available)
         ELSE /\ q.heard # <<>> /\ Last(q.heard) \notin PassedOver
              /\ Passed(Front(q.heard))
              /\ q.result = IF Last(q.heard) = "SUPPORTED" THEN "TRUE" ELSE Last(q.heard)

AInv == OInv /\ LoadersInv /\ QuestionInv

\* An object is alive just when something points to it.
LEMMA LiveIsHeld ==
  ASSUME OInv, NEW o \in Objects
  PROVE  Live(o) <=> \E r \in refs : r[3] = o
<1>1. /\ count[o] = Cardinality(To(refs, o)) /\ count[o] \in Nat
  BY DEF OInv, TypeOK, CountsAreHolders, To
<1>2. IsFiniteSet(To(refs, o))
  BY ToFinite DEF OInv, TypeOK
<1>3. count[o] = 0 <=> To(refs, o) = {}
  BY <1>1, <1>2, FS_EmptySet
<1> QED BY <1>1, <1>3 DEF Live, To

LEMMA LiveIsHeldNext ==
  ASSUME OInv', NEW o \in Objects
  PROVE  Live(o)' <=> \E r \in refs' : r[3] = o
<1>1. /\ count'[o] = Cardinality(To(refs', o)) /\ count'[o] \in Nat
  BY DEF OInv, TypeOK, CountsAreHolders, To
<1>2. IsFiniteSet(To(refs', o))
  BY ToFinite DEF OInv, TypeOK
<1>3. count'[o] = 0 <=> To(refs', o) = {}
  BY <1>1, <1>2, FS_EmptySet
<1> QED BY <1>1, <1>3 DEF Live, To

\* A holder keeps its loaders in a step that neither adds nor removes any.
LEMMA SameLoaders ==
  ASSUME NEW h, available' = available, Complete(h),
         \A r \in refs \cup refs' : r[1] = h /\ r[3] \in Loaders => (r \in refs <=> r \in refs')
  PROVE  Complete(h)'
<1>1. LoadersOf(h)' = LoadersOf(h)
  BY DEF LoadersOf, PointersOf
<1> QED BY <1>1 DEF Complete

LEMMA OwnerKeepsLoaders ==
  ASSUME OInv, OInv', LoadersInv, available' = available,
         NEW h \in Owners, Live(h)',
         \A r \in refs' : r[3] = h => \E p \in refs : p[3] = h,
         \A r \in refs \cup refs' : r[1] = h /\ r[3] \in Loaders => (r \in refs <=> r \in refs')
  PROVE  Complete(h)'
<1>1. h \in Objects
  BY DEF Owners, Objects
<1>2. Live(h)
  BY <1>1, LiveIsHeld, LiveIsHeldNext
<1>3. Complete(h)
  BY <1>2 DEF LoadersInv
<1> QED BY <1>3, SameLoaders

\* Several owners at once: their loaders stay, and no owner is new.
LEMMA OwnersKeep ==
  ASSUME OInv, OInv', LoadersInv, available' = available,
         \A r \in refs' : r[3] \in Owners => \E p \in refs : p[3] = r[3],
         \A r \in refs \cup refs' :
            r[1] \in Owners /\ r[3] \in Loaders => (r \in refs <=> r \in refs')
  PROVE  \A h \in Owners : Live(h)' => Complete(h)'
<1> SUFFICES ASSUME NEW h \in Owners, Live(h)' PROVE Complete(h)'
  OBVIOUS
<1> QED BY OwnerKeepsLoaders

\* A new owner takes all loaders over from a holder that has them all.
LEMMA TakesAll ==
  ASSUME OInv, NEW h \in Owners, NEW from, Complete(from), available' = available,
         \A r \in refs : r[1] # h,
         NEW more, \A r \in more : r[1] = h => r[3] \notin Loaders,
         refs' = refs \cup LoadersFor(h, from) \cup more
  PROVE  Complete(h)'
<1> DEFINE all(x) == {<<x, i, LoaderSeq[i]>> : i \in 1 .. available}
<1>1. LoadersOf(from) = all(from)
  BY DEF Complete
<1>2. LoadersFor(h, from) = {<<h, r[2], r[3]>> : r \in LoadersOf(from)}
  BY DEF LoadersFor, LoadersOf, PointersOf
<1>3. LoadersFor(h, from) = all(h)
  <2>1. ASSUME NEW i \in 1 .. available
        PROVE  <<h, i, LoaderSeq[i]>> \in LoadersFor(h, from)
    <3> DEFINE p == <<from, i, LoaderSeq[i]>>
    <3>1. p \in LoadersOf(from)
      BY <1>1
    <3>2. p[2] = i /\ p[3] = LoaderSeq[i]
      OBVIOUS
    <3> HIDE DEF p
    <3>3. <<h, p[2], p[3]>> \in LoadersFor(h, from)
      BY <1>2, <3>1
    <3> QED BY <3>2, <3>3
  <2>2. ASSUME NEW p \in LoadersOf(from) PROVE <<h, p[2], p[3]>> \in all(h)
    <3>1. PICK i \in 1 .. available : p = <<from, i, LoaderSeq[i]>>
      BY <1>1
    <3>2. p[2] = i /\ p[3] = LoaderSeq[i]
      BY <3>1
    <3> QED BY <3>2
  <2>3. \A r \in LoadersFor(h, from) : r \in all(h)
    <3> HIDE DEF all
    <3> QED BY <1>2, <2>2
  <2>4. \A r \in all(h) : r \in LoadersFor(h, from)
    BY <2>1
  <2> HIDE DEF all
  <2> QED BY <2>3, <2>4
<1>4. \A r \in LoadersFor(h, from) : r[1] = h /\ r[3] \in Loaders
  BY DEF LoadersFor
<1>5. LoadersOf(h)' = LoadersFor(h, from)
  BY <1>4 DEF LoadersOf, PointersOf
<1> QED BY <1>3, <1>5 DEF Complete

\* The steps between which nothing is being destroyed.
LEMMA QuietLoaders ==
  ASSUME OInv, OInv', LoadersInv, q = NoQuestion, q' = q, available' = available,
         releasing' \in {<<>>, <<Call>>, <<Factory>>},
         \A h \in Owners : Live(h)' => Complete(h)',
         factory' \in {"allocator", "driver"} => Complete(Factory)'
  PROVE  LoadersInv'
<1>1. \A h \in Objects : ~InRelease(h)'
  <2>1. Call \notin Objects /\ Factory \notin Objects
    BY NamesAssumption
  <2>2. CASE releasing' = <<>>
    BY <2>2 DEF InRelease
  <2>3. CASE releasing' = <<Call>>
    BY <2>1, <2>3 DEF InRelease
  <2>4. CASE releasing' = <<Factory>>
    BY <2>1, <2>4 DEF InRelease
  <2> QED BY <2>2, <2>3, <2>4
<1> QED BY <1>1 DEF LoadersInv

\* Creating something that is neither an owner nor a loader.
LEMMA PlainOwners ==
  ASSUME OInv, OInv', LoadersInv, available' = available,
         NEW o, o \notin Owners \cup Loaders, NEW owner, NEW slot,
         refs' = refs \cup {<<owner, slot, o>>}
  PROVE  /\ \A h \in Owners : Live(h)' => Complete(h)'
         /\ Complete(Factory) => Complete(Factory)'
<1>1. \A r \in refs' : r[3] \in Owners \cup Loaders => r \in refs
  OBVIOUS
<1>2. \A r \in refs : r \in refs'
  OBVIOUS
<1>3. \A h \in Owners : Live(h)' => Complete(h)'
  BY <1>1, <1>2, OwnersKeep
<1>4. Complete(Factory) => Complete(Factory)'
  BY <1>1, <1>2, SameLoaders
<1> QED BY <1>3, <1>4

\* Creating an owner, from a holder that has all loaders.
LEMMA NewOwner ==
  ASSUME OInv, OInv', LoadersInv, available' = available, releasing = <<>>,
         NEW o \in Owners, NEW from, Complete(from), NEW more,
         \A r \in more : r[1] = o /\ r[3] \notin Loaders \cup Owners,
         Create(o, App, 0, LoadersFor(o, from) \cup more)
  PROVE  \A h \in Owners : Live(h)' => Complete(h)'
<1> DEFINE x == <<App, 0, o>>
<1>1. /\ Fresh(o) /\ refs' = refs \cup LoadersFor(o, from) \cup (more \cup {x})
  BY DEF Create
<1>2. o \in Objects /\ App \notin Owners /\ \A h \in Owners : h \notin Loaders
  BY NamesAssumption DEF Owners, Objects
<1>3. \A r \in refs : r[1] # o
  <2>1. ~InRelease(o)
    BY DEF InRelease
  <2> QED BY <1>1, <1>2, <2>1, FreshHoldsNothing
<1>4. x[1] = App /\ x[3] = o
  OBVIOUS
<1>5. \A r \in LoadersFor(o, from) : r[1] = o /\ r[3] \in Loaders
  BY DEF LoadersFor
<1> HIDE DEF x
<1>6. Complete(o)'
  <2>1. \A r \in more \cup {x} : r[1] = o => r[3] \notin Loaders
    BY <1>2, <1>4
  <2> QED BY <1>1, <1>3, <2>1, TakesAll
<1>7. ASSUME NEW h \in Owners, h # o, Live(h)' PROVE Complete(h)'
  <2>1. \A r \in refs' : r[3] = h => r \in refs
    BY <1>1, <1>2, <1>4, <1>5, <1>7
  <2>2. \A r \in refs' : r[1] = h => r \in refs
    BY <1>1, <1>2, <1>4, <1>5, <1>7
  <2>3. \A r \in refs : r \in refs'
    BY <1>1
  <2> QED BY <1>7, <2>1, <2>2, <2>3, OwnerKeepsLoaders
<1> QED BY <1>6, <1>7

-----------------------------------------------------------------------------
\* The steps of the objects.
LEMMA ReleaseLoaders ==
  ASSUME OInv, OInv', LoadersInv, q = NoQuestion, q' = q, Release
  PROVE  LoadersInv'
<1>1. PICK r \in PointersOf(Head(releasing)) :
        /\ refs' = refs \ {r}
        /\ count' = [count EXCEPT ![r[3]] = @ - 1]
        /\ releasing' = IF count[r[3]] = 1 THEN <<r[3]>> \o releasing ELSE releasing
  BY DEF Release
<1>2. /\ r \in refs /\ r[1] = Head(releasing) /\ r[3] \in Objects
      /\ releasing # <<>> /\ releasing \in Seq(Holders) /\ count \in [Objects -> Nat]
      /\ UNCHANGED <<factory, available>>
  BY <1>1 DEF PointersOf, OInv, TypeOK, Release
<1>3. InRelease(r[1]) /\ factory = "idle"
  BY <1>2 DEF InRelease, OInv, FactoryInv
<1>4. Live(r[3])
  BY <1>2, LiveIsHeld
<1>5. ASSUME NEW h \in Owners, Live(h)' PROVE Complete(h)'
  <2>1. h \in Objects
    BY DEF Owners, Objects
  <2>2. PICK p \in refs' : p[3] = h
    BY <1>5, <2>1, LiveIsHeldNext
  <2>3. Live(h)
    BY <1>1, <2>1, <2>2, LiveIsHeld
  <2>4. h # r[1]
    BY <1>3, <2>1, <2>3 DEF LoadersInv, Live, Fresh
  <2>5. \A z \in refs \cup refs' : z[1] = h => (z \in refs <=> z \in refs')
    BY <1>1, <2>4
  <2> QED BY <1>1, <1>2, <1>5, <2>5, OwnerKeepsLoaders
<1>6. ASSUME NEW h \in Objects, InRelease(h)' PROVE Fresh(h)'
  <2>1. CASE h = r[3] /\ count[h] = 1
    BY <1>1, <1>2, <2>1 DEF Fresh
  <2>2. CASE InRelease(h)
    <3>1. Fresh(h)
      BY <2>2 DEF LoadersInv
    <3>2. h # r[3]
      BY <1>4, <3>1 DEF Live, Fresh
    <3> QED BY <1>1, <1>2, <3>1, <3>2 DEF Fresh
  <2>3. InRelease(h) \/ (h = r[3] /\ count[h] = 1)
    <3>1. CASE count[r[3]] = 1
      <4>1. releasing' = <<r[3]>> \o releasing
        BY <1>1, <3>1
      <4>2. PICK i \in 1 .. Len(releasing') : releasing'[i] = h
        BY <1>6 DEF InRelease
      <4>3. Len(releasing') = 1 + Len(releasing) /\ Len(releasing) \in Nat
        BY <1>2, <4>1
      <4>4. CASE i = 1
        <5>1. releasing'[1] = r[3]
          BY <1>2, <4>1
        <5> QED BY <4>2, <4>4, <5>1, <3>1
      <4>5. CASE i # 1
        <5>1. i - 1 \in 1 .. Len(releasing) /\ releasing'[i] = releasing[i - 1]
          BY <1>2, <4>1, <4>2, <4>3, <4>5
        <5> QED BY <4>2, <5>1 DEF InRelease
      <4> QED BY <4>4, <4>5
    <3>2. CASE count[r[3]] # 1
      BY <1>1, <1>6, <3>2 DEF InRelease
    <3> QED BY <3>1, <3>2
  <2> QED BY <2>1, <2>2, <2>3
<1> QED BY <1>2, <1>3, <1>5, <1>6 DEF LoadersInv

LEMMA ReleasedLoaders ==
  ASSUME OInv, LoadersInv, q = NoQuestion, q' = q, Released
  PROVE  LoadersInv'
<1>1. /\ releasing # <<>> /\ releasing' = Tail(releasing) /\ releasing \in Seq(Holders)
      /\ UNCHANGED <<count, refs, factory, available>>
  BY DEF Released, OInv, TypeOK
<1>2. ASSUME NEW h, InRelease(h)' PROVE InRelease(h)
  <2>1. PICK i \in 1 .. Len(releasing') : releasing'[i] = h
    BY <1>2 DEF InRelease
  <2>2. i + 1 \in 1 .. Len(releasing) /\ releasing[i + 1] = h
    BY <1>1, <2>1
  <2> QED BY <2>2 DEF InRelease
<1> QED BY <1>1, <1>2 DEF LoadersInv, Complete, LoadersOf, PointersOf, Live, Fresh

LEMMA FactoryLoaders ==
  ASSUME OInv, OInv', LoadersInv, q = NoQuestion, q' = q,
         TryCreate \/ CreateLoaders \/ CreateHeapAllocator \/ CreateDriver \/ ReleaseLocals
  PROVE  LoadersInv'
<1>1. /\ available' = available
      /\ releasing = <<>> /\ releasing' \in {<<>>, <<Factory>>}
  BY DEF TryCreate, CreateLoaders, CreateHeapAllocator, CreateDriver, ReleaseLocals,
         Idle, OInv, FactoryInv
<1>2. CASE refs' = refs /\ factory' \notin {"allocator", "driver"}
  <2>1. \A h \in Owners : Live(h)' => Complete(h)'
    BY <1>1, <1>2, OwnersKeep
  <2> QED BY <1>1, <1>2, <2>1, QuietLoaders
<1>3. CASE Create(PluginManager, Factory, ManagerSlot, {}) /\ factory' = "loaders"
  <2>1. PluginManager \notin Owners \cup Loaders
    BY NamesAssumption
  <2>2. refs' = refs \cup {<<Factory, ManagerSlot, PluginManager>>}
    BY <1>3 DEF Create
  <2> QED BY <1>1, <1>3, <2>1, <2>2, PlainOwners, QuietLoaders
<1>4. CASE CreateLoaders /\ factory' = "allocator"
  <2> DEFINE held == {<<LoaderSeq[i], ManagerSlot, PluginManager>> : i \in 1 .. available}
             mine == {<<Factory, LoaderSlot(i), LoaderSeq[i]>> : i \in 1 .. available}
  <2>1. factory = "loaders" /\ refs' = refs \cup held \cup mine
    BY <1>4 DEF CreateLoaders
  <2>2. \A i \in 1 .. available : LoaderSeq[i] \in Loaders
    BY NamesAssumption DEF OInv, TypeOK, NumLoaders
  <2>3. \A r \in refs : r[3] \notin Loaders
    <3>1. \A l \in Loaders : l \in Objects /\ Fresh(l)
      BY <2>1 DEF OInv, FactoryInv, Objects
    <3> QED BY <3>1, FreshIsUnheld
  <2>4. PluginManager \notin Loaders \cup Owners /\ Factory \notin Owners
        /\ \A l \in Loaders : l \notin Owners
    BY NamesAssumption DEF Owners, Objects
  <2>5. \A r \in held : r[3] = PluginManager
    OBVIOUS
  <2>6. \A r \in mine : r[1] = Factory /\ r[3] \in Loaders
    BY <2>2
  <2>7. Complete(Factory)'
    <3>1. mine = {<<Factory, i, LoaderSeq[i]>> : i \in 1 .. available}
      BY DEF LoaderSlot
    <3> HIDE DEF held, mine
    <3>2. LoadersOf(Factory)' = mine
      BY <2>1, <2>3, <2>4, <2>5, <2>6 DEF LoadersOf, PointersOf
    <3> QED BY <1>1, <3>1, <3>2 DEF Complete
  <2>8. \A h \in Owners : Live(h)' => Complete(h)'
    <3> HIDE DEF held, mine
    <3>1. \A r \in refs' : r[3] \in Owners => r \in refs
      BY <2>1, <2>4, <2>5, <2>6
    <3>2. \A r \in refs' : r[1] \in Owners /\ r[3] \in Loaders => r \in refs
      BY <2>1, <2>4, <2>5, <2>6
    <3>3. \A r \in refs : r \in refs'
      BY <2>1
    <3> QED BY <1>1, <3>1, <3>2, <3>3, OwnersKeep
  <2> QED BY <1>1, <2>7, <2>8, QuietLoaders
<1>5. CASE CreateHeapAllocator /\ factory' = "driver"
  <2>1. factory = "allocator" /\ Create(HeapAllocator, Factory, 0, {})
    BY <1>5 DEF CreateHeapAllocator
  <2>2. HeapAllocator \notin Owners \cup Loaders
    BY NamesAssumption DEF Allocators
  <2>3. refs' = refs \cup {<<Factory, 0, HeapAllocator>>}
    BY <2>1 DEF Create
  <2>4. Complete(Factory)
    BY <2>1 DEF LoadersInv
  <2> QED BY <1>1, <2>2, <2>3, <2>4, PlainOwners, QuietLoaders
<1>6. CASE CreateDriver /\ refs' # refs
  <2> DEFINE more == {<<Driver, DriverAllocator, HeapAllocator>>}
  <2>1. /\ factory = "driver" /\ factory' = "release"
        /\ Create(Driver, App, 0, LoadersFor(Driver, Factory) \cup more)
    BY <1>6 DEF CreateDriver
  <2>2. Complete(Factory) /\ Driver \in Owners
    BY <2>1 DEF LoadersInv, Owners
  <2>3. \A r \in more : r[1] = Driver /\ r[3] \notin Loaders \cup Owners
    BY NamesAssumption DEF Allocators
  <2> HIDE DEF more
  <2>4. \A h \in Owners : Live(h)' => Complete(h)'
    BY <1>1, <2>1, <2>2, <2>3, NewOwner
  <2> QED BY <1>1, <2>1, <2>4, QuietLoaders
<1>7. CASE TryCreate
  BY <1>2, <1>3, <1>7 DEF TryCreate
<1>8. CASE CreateLoaders
  BY <1>2, <1>4, <1>8 DEF CreateLoaders
<1>9. CASE CreateHeapAllocator
  BY <1>2, <1>5, <1>9 DEF CreateHeapAllocator
<1>10. CASE CreateDriver
  BY <1>2, <1>6, <1>10 DEF CreateDriver
<1>11. CASE ReleaseLocals
  BY <1>2, <1>11 DEF ReleaseLocals
<1> QED BY <1>7, <1>8, <1>9, <1>10, <1>11

\* An object that the application holds is alive, and complete if an owner.
LEMMA AppHeld ==
  ASSUME OInv, LoadersInv, NEW o \in Owners, AppHolds(o)
  PROVE  Live(o) /\ Complete(o) /\ o \in Objects
<1>1. o \in Objects
  BY DEF Owners, Objects
<1>2. Live(o)
  BY <1>1, LiveIsHeld DEF AppHolds, Holds
<1> QED BY <1>1, <1>2 DEF LoadersInv

LEMMA CreateDeviceLoaders ==
  ASSUME OInv, OInv', LoadersInv, q = NoQuestion, q' = q, NEW d \in Devices, CreateDevice(d)
  PROVE  LoadersInv'
<1> DEFINE S == InSlot(Driver, DriverAllocator)
           more == {<<d, DeviceAllocator, r[3]>> : r \in S}
<1>1. releasing = <<>> /\ factory = "idle" /\ UNCHANGED <<releasing, factory, available>>
  BY DEF CreateDevice, AppHolds, Idle
<1>2. Driver \in Owners /\ d \in Owners /\ AppHolds(Driver)
  BY DEF Owners, CreateDevice
<1>3. Complete(Driver)
  BY <1>2, AppHeld
<1>4. CASE Create(d, App, 0, LoadersFor(d, Driver) \cup more)
  <2>1. ASSUME NEW r \in S PROVE r[3] \notin Loaders \cup Owners
    <3>1. r \in refs /\ r[1] = Driver /\ r[2] = 0
      BY DEF InSlot, DriverAllocator
    <3>2. Driver \notin Loaders /\ Driver \notin {App, Call, Factory}
      BY NamesAssumption DEF Owners, Objects
    <3>3. r[3] \in Loaders \cup Allocators \cup Providers
      BY <3>1, <3>2 DEF OInv, TypeOK, MayHold
    <3>4. ASSUME r[3] \in Loaders PROVE FALSE
      <4>1. r \in LoadersOf(Driver)
        BY <3>1, <3>4 DEF LoadersOf, PointersOf
      <4>2. PICK i \in 1 .. available : r = <<Driver, i, LoaderSeq[i]>>
        BY <1>3, <4>1 DEF Complete
      <4>3. r[2] = i
        BY <4>2
      <4> QED BY <3>1, <4>2, <4>3 DEF OInv, TypeOK
    <3> QED BY <3>3, <3>4, NamesAssumption
  <2>2. \A r \in more : r[1] = d /\ r[3] \notin Loaders \cup Owners
    BY <2>1
  <2> HIDE DEF more
  <2>3. \A h \in Owners : Live(h)' => Complete(h)'
    BY <1>1, <1>2, <1>3, <1>4, <2>2, NewOwner
  <2> QED BY <1>1, <2>3, QuietLoaders
<1>5. CASE UNCHANGED <<count, refs>>
  <2>1. \A h \in Owners : Live(h)' => Complete(h)'
    BY <1>1, <1>5, OwnersKeep
  <2> QED BY <1>1, <2>1, QuietLoaders
<1> QED BY <1>4, <1>5 DEF CreateDevice

LEMMA CreateCacheLoaders ==
  ASSUME OInv, OInv', LoadersInv, q = NoQuestion, q' = q,
         NEW d \in Devices, NEW c \in Caches, CreateCache(c, d)
  PROVE  LoadersInv'
<1>1. /\ releasing = <<>> /\ factory = "idle" /\ UNCHANGED <<releasing, factory, available>>
      /\ Create(c, App, 0, LoadersFor(c, d) \cup {})
  BY DEF CreateCache, AppHolds, Idle
<1>2. d \in Owners /\ c \in Owners /\ AppHolds(d)
  BY DEF Owners, CreateCache
<1>3. Complete(d)
  BY <1>2, AppHeld
<1>4. \A h \in Owners : Live(h)' => Complete(h)'
  BY <1>1, <1>2, <1>3, NewOwner
<1> QED BY <1>1, <1>4, QuietLoaders

\* Loaders are not in the slots that are replaced.
LEMMA ReplaceLoaders ==
  ASSUME OInv, OInv', LoadersInv, q = NoQuestion, q' = q, NEW d \in Devices,
         NEW slot \in Int, slot > NumLoaders, NEW new \in Allocators \cup Providers,
         Replace(d, slot, new)
  PROVE  LoadersInv'
<1> DEFINE old == InSlot(d, slot)
           dropped == {<<Call, slot, r[3]>> : r \in old}
           x == <<d, slot, new>>
<1>1. /\ AppHolds(d) /\ factory = "idle" /\ UNCHANGED <<factory, available>>
      /\ releasing' = <<Call>> /\ refs' = (refs \ old) \cup {x} \cup dropped
  BY DEF Replace, AppHolds, Idle
<1>2. d \in Owners /\ new \notin Loaders \cup Owners /\ Call \notin Owners
  BY NamesAssumption DEF Owners, Objects
<1>3. Complete(d)
  BY <1>1, <1>2, AppHeld
<1>4. ASSUME NEW r \in old PROVE r \in refs /\ r[3] \notin Loaders
  <2>1. r \in refs /\ r[1] = d /\ r[2] = slot
    BY DEF InSlot
  <2>2. ASSUME r[3] \in Loaders PROVE FALSE
    <3>1. r \in LoadersOf(d)
      BY <2>1, <2>2 DEF LoadersOf, PointersOf
    <3>2. PICK i \in 1 .. available : r = <<d, i, LoaderSeq[i]>>
      BY <1>3, <3>1 DEF Complete
    <3>3. slot = i
      BY <2>1, <3>2
    <3> QED BY <3>2, <3>3, NamesAssumption DEF OInv, TypeOK, NumLoaders
  <2> QED BY <2>1, <2>2
<1>5. \A r \in dropped : r[1] = Call /\ \E p \in old : p[3] = r[3]
  OBVIOUS
<1>6. x[3] = new
  OBVIOUS
<1> HIDE DEF old, dropped, x
<1>7. \A r \in refs' : r[3] \in Owners => \E p \in refs : p[3] = r[3]
  BY <1>1, <1>2, <1>4, <1>5, <1>6
<1>8. \A r \in refs \cup refs' :
        r[1] \in Owners /\ r[3] \in Loaders => (r \in refs <=> r \in refs')
  BY <1>1, <1>2, <1>4, <1>5, <1>6
<1>9. \A h \in Owners : Live(h)' => Complete(h)'
  BY <1>1, <1>7, <1>8, OwnersKeep
<1> QED BY <1>1, <1>9, QuietLoaders

LEMMA PlainLoaders ==
  ASSUME OInv, OInv', LoadersInv, q = NoQuestion, q' = q, Idle,
         NEW o \in Leaves \cup Allocators \cup Providers,
         refs' = refs \cup {<<App, 0, o>>}, UNCHANGED <<releasing, factory, available>>
  PROVE  LoadersInv'
<1>1. o \notin Owners \cup Loaders /\ releasing' = <<>> /\ factory' = "idle"
  BY NamesAssumption DEF Idle
<1>2. \A h \in Owners : Live(h)' => Complete(h)'
  BY <1>1, PlainOwners
<1> QED BY <1>1, <1>2, QuietLoaders

LEMMA AppReleaseLoaders ==
  ASSUME OInv, OInv', LoadersInv, q = NoQuestion, q' = q, NEW o \in Objects, AppRelease(o)
  PROVE  LoadersInv'
<1> DEFINE x == <<App, 0, o>>
           y == <<Call, 0, o>>
<1>1. /\ factory = "idle" /\ UNCHANGED <<factory, available>> /\ releasing' = <<Call>>
      /\ refs' = (refs \ {x}) \cup {y} /\ \E p \in refs : p[3] = o
  BY DEF AppRelease, AppHolds, Idle, Holds
<1>2. x[1] = App /\ y[1] = Call /\ y[3] = o
  OBVIOUS
<1>3. App \notin Owners /\ Call \notin Owners
  BY NamesAssumption DEF Owners, Objects
<1> HIDE DEF x, y
<1>4. \A r \in refs' : r[3] \in Owners => \E p \in refs : p[3] = r[3]
  BY <1>1, <1>2
<1>5. \A r \in refs \cup refs' : r[1] \in Owners => (r \in refs <=> r \in refs')
  BY <1>1, <1>2, <1>3
<1>6. \A h \in Owners : Live(h)' => Complete(h)'
  BY <1>1, <1>4, <1>5, OwnersKeep
<1> QED BY <1>1, <1>6, QuietLoaders

LEMMA ObjectStepLoaders ==
  ASSUME OInv, LoadersInv, q = NoQuestion, q' = q, ObjectStep
  PROVE  LoadersInv'
<1>0. OInv'
  BY ObjectStepKeeps
<1>1. ASSUME NEW d \in Devices, ReplaceAllocator(d) \/ ReplaceProvider(d) PROVE LoadersInv'
  <2>1. /\ DeviceAllocator \in Int /\ DeviceAllocator > NumLoaders
        /\ DeviceProvider \in Int /\ DeviceProvider > NumLoaders
    BY NamesAssumption DEF DeviceAllocator, DeviceProvider, NumLoaders
  <2> QED BY <1>0, <1>1, <2>1, ReplaceLoaders DEF ReplaceAllocator, ReplaceProvider
<1>2. ASSUME NEW d \in Devices, NEW o \in Leaves, CreateLeaf(o, d) PROVE LoadersInv'
  BY <1>0, <1>2, PlainLoaders DEF CreateLeaf, Create, AppHolds
<1>3. ASSUME NEW o \in OtherAllocators \cup Providers, AppCreate(o) PROVE LoadersInv'
  BY <1>0, <1>3, PlainLoaders DEF AppCreate, Create, Allocators
<1>4. ASSUME NEW a \in Allocators, AppRetain(a) PROVE LoadersInv'
  BY <1>0, <1>4, PlainLoaders DEF AppRetain, AppHolds
<1> QED BY <1>0, <1>1, <1>2, <1>3, <1>4, ReleaseLoaders, ReleasedLoaders, FactoryLoaders,
           CreateDeviceLoaders, CreateCacheLoaders, AppReleaseLoaders DEF ObjectStep

-----------------------------------------------------------------------------
\* Questions.  A holder of all the loaders asks as many as there are.
LEMMA CompleteCount ==
  ASSUME OInv, NEW h, Complete(h)
  PROVE  Cardinality(LoadersOf(h)) = available
<1> DEFINE f == [i \in 1 .. available |-> <<h, i, LoaderSeq[i]>>]
           S == {<<h, i, LoaderSeq[i]>> : i \in 1 .. available}
<1>1. available \in Nat
  BY NamesAssumption DEF OInv, TypeOK, NumLoaders
<1>2. f \in Surjection(1 .. available, S)
  BY DEF Surjection
<1>3. f \in Injection(1 .. available, S)
  <2>1. \A i \in 1 .. available : f[i] \in S
    OBVIOUS
  <2>2. ASSUME NEW i \in 1 .. available, NEW j \in 1 .. available, f[i] = f[j] PROVE i = j
    <3>1. f[i] = <<h, i, LoaderSeq[i]>> /\ f[j] = <<h, j, LoaderSeq[j]>>
      OBVIOUS
    <3> QED BY <2>2, <3>1
  <2>3. f \in [1 .. available -> S]
    BY <2>1
  <2> QED BY <2>2, <2>3 DEF Injection, IsInjective
<1>4. IsFiniteSet(1 .. available) /\ Cardinality(1 .. available) = available
  BY <1>1, FS_Interval
<1>5. Cardinality(S) = available
  <2> HIDE DEF f, S
  <2> QED BY <1>2, <1>3, <1>4, FS_Surjection
<1> QED BY <1>5 DEF Complete

\* The objects while a question is being answered: at most a leaf is made.
LEMMA QuestionObjects ==
  ASSUME OInv, LoadersInv, Idle, NEW made, UNCHANGED objects \/ ExecutableIf(made)
  PROVE  /\ OInv' /\ Idle' /\ available' = available
         /\ \A h \in Owners : Live(h)' => Complete(h)'
         /\ \A h \in Owners : Live(h) => Live(h)'
         /\ \A h \in Objects : ~InRelease(h)'
<1>1. UNCHANGED <<releasing, factory, available>>
  BY DEF objects, ExecutableIf
<1>2. Idle' /\ \A h \in Objects : ~InRelease(h)'
  BY <1>1 DEF Idle, InRelease
<1>3. CASE UNCHANGED <<count, refs>>
  <2>1. OInv'
    BY <1>1, <1>3, UnchangedKeeps
  <2>2. \A h \in Owners : Live(h)' => Complete(h)'
    BY <1>1, <1>3, <2>1, OwnersKeep
  <2> QED BY <1>1, <1>2, <1>3, <2>1, <2>2 DEF Live
<1>4. ASSUME NEW o \in Leaves, Create(o, App, 0, {})
      PROVE  /\ OInv' /\ \A h \in Owners : Live(h)' => Complete(h)'
             /\ \A h \in Owners : Live(h) => Live(h)'
  <2>1. OInv'
    BY <1>1, <1>4, CreatePlainKeeps
  <2>2. refs' = refs \cup {<<App, 0, o>>} /\ o \notin Owners \cup Loaders
    BY <1>4, NamesAssumption DEF Create
  <2>3. \A h \in Owners : Live(h)' => Complete(h)'
    BY <1>1, <2>1, <2>2, PlainOwners
  <2>4. \A h \in Owners : h \in Objects
    BY DEF Owners, Objects
  <2>5. \A h \in Owners : Live(h) => Live(h)'
    BY <2>1, <2>2, <2>4, LiveIsHeld, LiveIsHeldNext
  <2> QED BY <2>1, <2>3, <2>5
<1> QED BY <1>1, <1>2, <1>3, <1>4 DEF objects, ExecutableIf, Executable

\* One answer more.
LEMMA OneMore ==
  ASSUME NEW s \in Seq(Answers), NEW a \in Answers
  PROVE  /\ Append(s, a) \in Seq(Answers) /\ Append(s, a) # <<>>
         /\ Len(Append(s, a)) = Len(s) + 1
         /\ Last(Append(s, a)) = a /\ Front(Append(s, a)) = s
         /\ Passed(s) /\ a \in PassedOver => Passed(Append(s, a))
<1>1. /\ Append(s, a) \in Seq(Answers) /\ Len(Append(s, a)) = Len(s) + 1 /\ Len(s) \in Nat
      /\ \A i \in 1 .. Len(s) : Append(s, a)[i] = s[i]
      /\ Append(s, a)[Len(s) + 1] = a
  OBVIOUS
<1>2. Last(Append(s, a)) = a
  BY <1>1 DEF Last
<1>3. Front(Append(s, a)) = s
  <2>1. Front(Append(s, a)) = SubSeq(Append(s, a), 1, Len(s))
    BY <1>1 DEF Front
  <2> QED BY <1>1, <2>1
<1>4. Passed(s) /\ a \in PassedOver => Passed(Append(s, a))
  BY <1>1 DEF Passed
<1>5. Append(s, a) # <<>>
  BY <1>1
<1> QED BY <1>1, <1>2, <1>3, <1>4, <1>5

\* A question whose answer is not known goes on to the next loader just when
\* there is another one.
LEMMA MoreLoaders ==
  ASSUME AInv, q # NoQuestion
  PROVE  /\ More <=> Len(q.heard) < available
         /\ q.heard \in Seq(Answers) /\ Len(q.heard) \in Nat /\ available \in Nat
         /\ q.subject \in Owners /\ Idle
<1>1. q.subject \in Owners /\ Live(q.subject) /\ q.heard \in Seq(Answers) /\ Idle
  BY DEF AInv, QuestionInv, LoadersInv
<1>2. Complete(q.subject)
  BY <1>1 DEF AInv, LoadersInv
<1>3. Cardinality(LoadersOf(q.subject)) = available
  BY <1>2, CompleteCount DEF AInv
<1>4. available \in Nat /\ Len(q.heard) \in Nat
  BY <1>1, NamesAssumption DEF AInv, OInv, TypeOK, NumLoaders
<1> QED BY <1>1, <1>3, <1>4 DEF More

LEMMA HearKeeps ==
  ASSUME AInv, q # NoQuestion, q.result = "none", More, available' = available,
         count'[q.subject] > 0,
         NEW a \in Answers, NEW st \in {"OK"} \cup InferAnswers, NEW res \in Results,
         Hear(a, st, res),
         q.op # "infer_format" /\ ~q.simulator_format =>
           res = IF a \in PassedOver THEN "none" ELSE IF a = "SUPPORTED" THEN "TRUE" ELSE a
  PROVE  QuestionInv'
<1> DEFINE s == q.heard
           t == Append(s, a)
<1>1. q' = [q EXCEPT !.heard = t, !.status = st, !.result = res]
  BY DEF Hear
<1>2. /\ q \in [op : Ops, subject : Owners, simulator_format : BOOLEAN, empty : BOOLEAN,
                status : {"OK"} \cup InferAnswers, heard : Seq(Answers), result : Results]
      /\ q.op # "infer_format" /\ ~q.simulator_format => Passed(s)
  BY DEF AInv, QuestionInv, Results
<1>3. s \in Seq(Answers) /\ Len(s) \in Nat /\ Len(s) < available /\ available \in Nat
  BY MoreLoaders
<1>4. /\ t \in Seq(Answers) /\ t # <<>> /\ Len(t) = Len(s) + 1
      /\ Last(t) = a /\ Front(t) = s /\ (Passed(s) /\ a \in PassedOver => Passed(t))
  BY <1>3, OneMore
<1> HIDE DEF s, t
<1>5. /\ q' \in [op : Ops, subject : Owners, simulator_format : BOOLEAN, empty : BOOLEAN,
                 status : {"OK"} \cup InferAnswers, heard : Seq(Answers), result : Results]
      /\ q'.op = q.op /\ q'.subject = q.subject /\ q'.simulator_format = q.simulator_format
      /\ q'.heard = t /\ q'.result = res
  BY <1>1, <1>2, <1>4
<1>6. count'[q'.subject] > 0 /\ Len(q'.heard) <= available'
  BY <1>3, <1>4, <1>5
<1>7. ASSUME q.op # "infer_format", ~q.simulator_format
      PROVE  IF res \in {"none", "FALSE", "NOT_FOUND"}
             THEN Passed(t) /\ res = "none"
             ELSE /\ t # <<>> /\ Last(t) \notin PassedOver /\ Passed(Front(t))
                  /\ res = IF Last(t) = "SUPPORTED" THEN "TRUE" ELSE Last(t)
  <2>1. CASE a \in PassedOver
    BY <1>2, <1>4, <1>7, <2>1
  <2>2. CASE a \notin PassedOver
    <3>1. res \notin {"none", "FALSE", "NOT_FOUND"}
      BY <1>7, <2>2 DEF PassedOver, Answers, SupportAnswers, InferAnswers, LoadAnswers
    <3> QED BY <1>2, <1>4, <1>7, <2>2, <3>1
  <2> QED BY <2>1, <2>2
<1> QED BY <1>5, <1>6, <1>7 DEF QuestionInv, Results, Live

LEMMA AnswerKeeps ==
  ASSUME AInv, q # NoQuestion, q.result = "none", available' = available, count'[q.subject] > 0,
         NEW res \in Results \ {"none"}, Answer(res),
         q.op # "infer_format" /\ ~q.simulator_format =>
           res \in {"FALSE", "NOT_FOUND"} /\ ~More
  PROVE  QuestionInv'
<1>1. q' = [q EXCEPT !.result = res]
  BY DEF Answer
<1>2. /\ q \in [op : Ops, subject : Owners, simulator_format : BOOLEAN, empty : BOOLEAN,
                status : {"OK"} \cup InferAnswers, heard : Seq(Answers), result : Results]
      /\ Len(q.heard) <= available
      /\ q.op # "infer_format" /\ ~q.simulator_format => Passed(q.heard)
  BY DEF AInv, QuestionInv, Results
<1>3. ~More => Len(q.heard) = available
  BY <1>2, MoreLoaders
<1>4. /\ q' \in [op : Ops, subject : Owners, simulator_format : BOOLEAN, empty : BOOLEAN,
                 status : {"OK"} \cup InferAnswers, heard : Seq(Answers), result : Results]
      /\ q'.op = q.op /\ q'.subject = q.subject /\ q'.simulator_format = q.simulator_format
      /\ q'.heard = q.heard /\ q'.result = res
  BY <1>1, <1>2
<1>5. count'[q'.subject] > 0 /\ Len(q'.heard) <= available'
  BY <1>2, <1>4
<1>6. ASSUME q.op # "infer_format", ~q.simulator_format
      PROVE  /\ res \in {"none", "FALSE", "NOT_FOUND"}
             /\ Passed(q'.heard) /\ Len(q'.heard) = available'
  BY <1>2, <1>3, <1>4, <1>6
<1> QED BY <1>4, <1>5, <1>6 DEF QuestionInv, Results, Live

\* A question step.  `made' says whether it makes an executable.
LEMMA QuestionStepKeeps ==
  ASSUME AInv, q # NoQuestion, NEW made, UNCHANGED objects \/ ExecutableIf(made)
  PROVE  OInv' /\ LoadersInv' /\ available' = available /\ count'[q.subject] > 0
<1>1. q.subject \in Owners /\ Live(q.subject) /\ Idle
  BY DEF AInv, QuestionInv, LoadersInv
<1>2. /\ OInv' /\ Idle' /\ available' = available
      /\ \A h \in Owners : Live(h)' => Complete(h)'
      /\ \A h \in Owners : Live(h) => Live(h)'
      /\ \A h \in Objects : ~InRelease(h)'
  BY <1>1, QuestionObjects DEF AInv
<1>3. LoadersInv'
  BY <1>2 DEF LoadersInv, Idle
<1>4. count'[q.subject] > 0
  <2>1. ASSUME NEW h \in Owners, Live(h), h = q.subject PROVE count'[h] > 0
    BY <1>2, <2>1 DEF Live
  <2> QED BY <1>1, <2>1 DEF Live
<1> QED BY <1>2, <1>3, <1>4

LEMMA StepAInv == AInv /\ [Next]_vars => AInv'
<1> SUFFICES ASSUME AInv, [Next]_vars PROVE AInv'
  OBVIOUS
<1>1. CASE UNCHANGED vars
  BY <1>1 DEF vars, objects, AInv, OInv, TypeOK, HolderInv, FactoryInv, CountsAreHolders,
              LoadersInv, QuestionInv, Complete, LoadersOf, PointersOf, InRelease, Live,
              Fresh, Idle
<1>2. CASE q = NoQuestion /\ ObjectStep /\ UNCHANGED q
  <2>1. OInv' /\ LoadersInv'
    BY <1>2, ObjectStepKeeps, ObjectStepLoaders DEF AInv
  <2>2. QuestionInv'
    BY <1>2 DEF QuestionInv
  <2> QED BY <2>1, <2>2 DEF AInv
<1>3. ASSUME NEW op \in Ops, NEW h \in Owners, Ask(op, h) PROVE AInv'
  <2>1. PICK f \in BOOLEAN, e \in BOOLEAN : q' = Asked(op, h, f, e)
    BY <1>3 DEF Ask
  <2>2. q = NoQuestion /\ UNCHANGED objects /\ AppHolds(h) /\ Idle
    BY <1>3 DEF Ask, AppHolds
  <2>3. count[h] > 0 /\ available \in Nat
    BY <2>2, AppHeld, NamesAssumption DEF AInv, OInv, TypeOK, NumLoaders, Live
  <2>4. OInv' /\ LoadersInv'
    <3>1. OInv'
      BY <2>2, UnchangedKeeps DEF AInv, objects
    <3>2. \A x \in Owners : Live(x)' => Complete(x)'
      BY <2>2 DEF AInv, LoadersInv, objects, Live, Complete, LoadersOf, PointersOf
    <3>3. Idle' /\ \A x \in Objects : ~InRelease(x)'
      BY <2>2 DEF Idle, InRelease, objects
    <3> QED BY <3>1, <3>2, <3>3 DEF LoadersInv, Idle
  <2>5. /\ q' \in [op : Ops, subject : Owners, simulator_format : BOOLEAN, empty : BOOLEAN,
                   status : {"OK"} \cup InferAnswers, heard : Seq(Answers), result : Results]
        /\ q'.subject = h /\ q'.heard = <<>> /\ q'.result = "none"
    BY <2>1 DEF Asked, Results
  <2>6. Passed(<<>>) /\ Len(<<>>) = 0
    BY DEF Passed
  <2>7. QuestionInv'
    BY <2>2, <2>3, <2>5, <2>6 DEF QuestionInv, Results, Live, objects
  <2> QED BY <2>4, <2>7 DEF AInv
<1>4. CASE InferFormat
  <2>1. q # NoQuestion /\ q.op = "infer_format" /\ q.result = "none" /\ UNCHANGED objects
    BY <1>4 DEF InferFormat, Asking, NoQuestion
  <2>2. OInv' /\ LoadersInv' /\ available' = available /\ count'[q.subject] > 0
    BY <2>1, QuestionStepKeeps
  <2>3. q.status \in {"OK"} \cup InferAnswers
    BY <2>1 DEF AInv, QuestionInv
  <2>4. ASSUME NEW answer \in InferAnswers, More,
               Hear(answer, InferNext(q.status, answer).status,
                    InferNext(q.status, answer).result)
        PROVE  QuestionInv'
    <3>1. CASE q.status = "OK"
      <4>1. InferNext(q.status, answer) = [status |-> "OK", result |-> "OK"]
        BY <3>1 DEF InferNext
      <4> QED BY <2>1, <2>2, <2>4, <4>1, HearKeeps DEF Answers, Results, InferAnswers
    <3>2. CASE q.status # "OK" /\ answer = "INCOMPATIBLE"
      <4>1. InferNext(q.status, answer) = [status |-> "INCOMPATIBLE", result |-> "none"]
        BY <3>2 DEF InferNext
      <4> QED BY <2>1, <2>2, <2>4, <4>1, HearKeeps DEF Answers, Results, InferAnswers
    <3>3. CASE q.status # "OK" /\ answer # "INCOMPATIBLE"
      <4>1. InferNext(q.status, answer) = [status |-> answer, result |-> answer]
        BY <3>3 DEF InferNext
      <4>2. Hear(answer, answer, answer)
        BY <2>4, <4>1
      <4>3. answer \in Answers /\ answer \in Results /\ answer \in {"OK"} \cup InferAnswers
        BY DEF Answers, Results
      <4> QED BY <2>1, <2>2, <2>4, <4>2, <4>3, HearKeeps
    <3> QED BY <3>1, <3>2, <3>3
  <2>5. CASE ~More /\ Answer(q.status)
    <3>1. q.status \in Results \ {"none"}
      BY <2>3 DEF Results, Answers, InferAnswers
    <3> QED BY <2>1, <2>2, <2>5, <3>1, AnswerKeeps DEF AInv
  <2>6. QuestionInv'
    BY <1>4, <2>2, <2>4, <2>5 DEF InferFormat, AInv
  <2> QED BY <2>2, <2>6 DEF AInv
<1>5. ASSUME NEW op \in {"can_prepare_format", "query_i64"}, CanPrepare(op) PROVE AInv'
  <2>1. q # NoQuestion /\ q.op = op /\ q.result = "none" /\ UNCHANGED objects
    BY <1>5 DEF CanPrepare, Asking, NoQuestion
  <2>2. OInv' /\ LoadersInv' /\ available' = available /\ count'[q.subject] > 0
    BY <2>1, QuestionStepKeeps
  <2>3. CASE q.simulator_format /\ Answer("TRUE")
    <3>1. "TRUE" \in Results \ {"none"}
      BY DEF Results
    <3> QED BY <2>1, <2>2, <2>3, <3>1, AnswerKeeps DEF AInv
  <2>4. ASSUME NEW answer \in SupportAnswers, More, ~q.simulator_format,
               Hear(answer, "OK", IF answer = "SUPPORTED" THEN "TRUE" ELSE "none")
        PROVE  QuestionInv'
    <3>1. CASE answer = "SUPPORTED"
      <4>1. Hear(answer, "OK", "TRUE") /\ answer \notin PassedOver
        BY <2>4, <3>1 DEF PassedOver
      <4> QED BY <2>1, <2>2, <2>4, <3>1, <4>1, HearKeeps DEF Answers, Results
    <3>2. CASE answer # "SUPPORTED"
      <4>1. Hear(answer, "OK", "none") /\ answer \in PassedOver
        BY <2>4, <3>2 DEF PassedOver, SupportAnswers
      <4> QED BY <2>1, <2>2, <2>4, <3>2, <4>1, HearKeeps DEF Answers, Results
    <3> QED BY <3>1, <3>2
  <2>5. CASE ~More /\ Answer("FALSE")
    <3>1. "FALSE" \in Results \ {"none"} /\ "FALSE" \in {"FALSE", "NOT_FOUND"}
      BY DEF Results
    <3> QED BY <2>1, <2>2, <2>5, <3>1, AnswerKeeps DEF AInv
  <2>6. QuestionInv'
    BY <1>5, <2>2, <2>3, <2>4, <2>5 DEF CanPrepare, AInv
  <2> QED BY <2>2, <2>6 DEF AInv
<1>6. CASE PrepareSimulator
  <2>1. PICK result \in {"INVALID_ARGUMENT", "RESOURCE_EXHAUSTED", "OK"} :
          Answer(result) /\ ExecutableIf(result = "OK")
    BY <1>6 DEF PrepareSimulator
  <2>2. q # NoQuestion /\ q.simulator_format /\ q.result = "none"
    BY <1>6 DEF PrepareSimulator, Asking, NoQuestion
  <2>3. OInv' /\ LoadersInv' /\ available' = available /\ count'[q.subject] > 0
    BY <2>1, <2>2, QuestionStepKeeps
  <2>4. result \in Results \ {"none"}
    BY DEF Results, Answers, LoadAnswers
  <2>5. QuestionInv'
    BY <2>1, <2>2, <2>3, <2>4, AnswerKeeps
  <2> QED BY <2>3, <2>5 DEF AInv
<1>7. CASE PrepareExecutable
  <2>1. /\ q # NoQuestion /\ ~q.simulator_format /\ q.result = "none"
        /\ q.op = "prepare_executable"
    BY <1>7 DEF PrepareExecutable, Asking, NoQuestion
  <2>2. ASSUME NEW answer \in LoadAnswers, More, ExecutableIf(answer = "OK"),
               Hear(answer, "OK", IF answer \in PassedOver THEN "none" ELSE answer)
        PROVE  AInv'
    <3>1. OInv' /\ LoadersInv' /\ available' = available /\ count'[q.subject] > 0
      BY <2>1, <2>2, QuestionStepKeeps
    <3>2. CASE answer \in PassedOver
      <4>1. Hear(answer, "OK", "none")
        BY <2>2, <3>2
      <4>2. QuestionInv'
        BY <2>1, <2>2, <3>1, <3>2, <4>1, HearKeeps DEF Answers, Results
      <4> QED BY <3>1, <4>2 DEF AInv
    <3>3. CASE answer \notin PassedOver
      <4>1. Hear(answer, "OK", answer) /\ answer # "SUPPORTED"
        BY <2>2, <3>3 DEF LoadAnswers
      <4>2. QuestionInv'
        BY <2>1, <2>2, <3>1, <3>3, <4>1, HearKeeps DEF Answers, Results
      <4> QED BY <3>1, <4>2 DEF AInv
    <3> QED BY <3>2, <3>3
  <2>3. CASE ~More /\ Answer("NOT_FOUND") /\ UNCHANGED objects
    <3>1. OInv' /\ LoadersInv' /\ available' = available /\ count'[q.subject] > 0
      BY <2>1, <2>3, QuestionStepKeeps
    <3>2. "NOT_FOUND" \in Results \ {"none"}
      BY DEF Results, Answers, LoadAnswers
    <3>3. QuestionInv'
      BY <2>1, <2>3, <3>1, <3>2, AnswerKeeps
    <3> QED BY <3>1, <3>3 DEF AInv
  <2> QED BY <1>7, <2>2, <2>3 DEF PrepareExecutable
<1>8. CASE Answered
  <2>1. q # NoQuestion /\ UNCHANGED objects /\ q' = NoQuestion
    BY <1>8 DEF Answered
  <2>2. OInv' /\ LoadersInv'
    BY <2>1, QuestionStepKeeps
  <2> QED BY <2>1, <2>2 DEF AInv, QuestionInv
<1>9. ASSUME NEW op \in {"infer_format", "can_prepare_format", "prepare_executable"},
             NEW c \in Caches, Ask(op, c)
      PROVE  AInv'
  BY <1>3, <1>9 DEF Ops, Owners
<1>10. ASSUME NEW d \in Devices, Ask("query_i64", d) PROVE AInv'
  BY <1>3, <1>10 DEF Ops, Owners
<1>11. CASE CanPrepareFormat \/ QueryFormat
  BY <1>5, <1>11 DEF CanPrepareFormat, QueryFormat
<1> QED BY <1>1, <1>2, <1>4, <1>6, <1>7, <1>8, <1>9, <1>10, <1>11 DEF Next

LEMMA InitAInv == CacheInit => AInv
<1> SUFFICES ASSUME CacheInit PROVE AInv
  OBVIOUS
<1>1. OInv
  BY InitOInv
<1>2. QuestionInv
  BY DEF CacheInit, QuestionInv
<1>3. /\ count = [o \in Objects |-> 0] /\ releasing = <<>> /\ factory = "idle"
      /\ q = NoQuestion
  BY DEF CacheInit, Init
<1>4. \A h \in Owners : h \in Objects
  BY DEF Owners, Objects
<1>5. LoadersInv
  BY <1>3, <1>4 DEF LoadersInv, Live, InRelease
<1> QED BY <1>1, <1>2, <1>5 DEF AInv

\* can_prepare_format and query_i64 say no, and prepare_executable gives up,
\* only when every available loader has been asked and has passed the
\* executable over, through a cache or device that may have outlived the driver
\* it took the loaders from; any other answer is that of the first loader that
\* did not pass it over.
THEOREM EveryLoaderIsAsked == Spec => []AnswersAreExhaustive
<1>1. AInv => AnswersAreExhaustive
  <2> SUFFICES ASSUME AInv, q # NoQuestion, q.op # "infer_format", q.result # "none",
                      ~q.simulator_format
               PROVE  AnswersAreExhaustive
    BY DEF AnswersAreExhaustive
  <2>1. q.heard \in Seq(Answers)
    BY MoreLoaders
  <2>2. ASSUME NEW s \in Seq(Answers) PROVE Passed(s) <=> Range(s) \subseteq PassedOver
    BY DEF Passed, Range
  <2>3. CASE q.result \in {"FALSE", "NOT_FOUND"}
    <3>1. Passed(q.heard) /\ Len(q.heard) = available
      BY <2>3 DEF AInv, QuestionInv
    <3>2. Range(q.heard) \subseteq PassedOver
      BY <2>1, <2>2, <3>1
    <3> QED BY <2>3, <3>1, <3>2 DEF AnswersAreExhaustive
  <2>4. CASE q.result \notin {"FALSE", "NOT_FOUND"}
    <3>1. /\ q.heard # <<>> /\ Last(q.heard) \notin PassedOver /\ Passed(Front(q.heard))
          /\ q.result = IF Last(q.heard) = "SUPPORTED" THEN "TRUE" ELSE Last(q.heard)
      BY <2>4 DEF AInv, QuestionInv
    <3>2. Front(q.heard) \in Seq(Answers)
      BY <2>1, <3>1 DEF Front
    <3>3. Range(Front(q.heard)) \subseteq PassedOver
      BY <2>2, <3>1, <3>2
    <3>4. ~(Range(q.heard) \subseteq PassedOver)
      <4>1. Len(q.heard) \in 1 .. Len(q.heard) /\ q.heard[Len(q.heard)] \notin PassedOver
        BY <2>1, <3>1 DEF Last
      <4>2. ~Passed(q.heard)
        BY <4>1 DEF Passed
      <4> QED BY <2>1, <2>2, <4>2
    <3> QED BY <2>4, <3>1, <3>3, <3>4 DEF AnswersAreExhaustive
  <2> QED BY <2>3, <2>4
<1> QED BY <1>1, InitAInv, StepAInv, PTL DEF Spec
=============================================================================
