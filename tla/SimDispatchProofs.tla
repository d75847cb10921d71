------------------------- MODULE SimDispatchProofs -------------------------
(***************************************************************************)
(* What a dispatch on the simulator that returns has done, for any image,  *)
(* arguments, memory sizes and alignments.  The simulator is one global    *)
(* object without a lock, and what is proved holds while one thread uses   *)
(* it: with two, OkMeansExecuted is false.                                 *)
(***************************************************************************)
EXTENDS SimDispatch, TLAPS

OneThread == \A g, h \in Hosts : g = h

Labels == {"idle", "load", "constants", "tables", "local", "bindings", "run",
           "wait", "readback", "done"}
Request ==
  [magic : BOOLEAN, status : Statuses, return_code : Int,
   workgroup_count : Nat \X Nat \X Nat, push_constant_count : Nat,
   binding_count : Nat, ordinal : Nat, push_constants_addr : Nat,
   binding_ptrs_addr : Nat, binding_lengths_addr : Nat, local_memory_addr : Nat]
Results == {"OK", "OUT_OF_RANGE", "INVALID_ARGUMENT", "FAILED_PRECONDITION",
            "RESOURCE_EXHAUSTED", "DATA_LOSS", "INTERNAL"}

TypeOK ==
  /\ pc \in [Hosts -> Labels] /\ call \in [Hosts -> Dispatches]
  /\ request \in [Hosts -> Request] /\ mailbox \in [RequestAddrs -> Request]
  /\ heap_cursor \in [Hosts -> Nat] /\ ddr_cursor \in [Hosts -> Nat]
  /\ k \in [Hosts -> Nat \ {0}]
  /\ result \in [Hosts -> Results] /\ reported \in [Hosts -> BOOLEAN]
  /\ DOMAIN before = Hosts
  /\ code \in DOMAIN Images \cup {NoImage}
  /\ wg \in Nat \X Nat \X Nat
  /\ fw \in {"halted", "main", "lookup", "loop", "spinning"}
  /\ log \in Seq({log[n] : n \in DOMAIN log})

\* The image is loaded, and the core has not been collected from.
Loaded == {"constants", "tables", "local", "bindings", "run", "wait"}

\* A call changes host buffers only when it reads results back.
Confined(h) ==
  \A name \in DOMAIN host : \A c \in DOMAIN host[name] :
    host[name][c] # before[h][name][c] =>
      \E n \in DOMAIN Bindings(h) :
        LET b == Bindings(h)[n]
        IN  /\ b.writeable /\ b.buffer = name
            /\ c \in b.offset .. b.offset + b.length - 1

BufferInv(h) ==
  /\ pc[h] = "load" \/ pc[h] \in Loaded \/ (pc[h] = "done" /\ result[h] # "OK")
       => host = before[h]
  /\ pc[h] = "readback" \/ (pc[h] = "done" /\ result[h] = "OK") => Confined(h)

\* The exception words: zero from the loading of the image to a trap.
ExceptionInv(h) ==
  /\ pc[h] = "load" \/ pc[h] \in Loaded => ~reported[h]
  /\ "exception_info" \in ImageOf(h).zeroed =>
       /\ pc[h] \in Loaded \ {"wait"} => exception_info = 0
       /\ pc[h] = "wait" /\ exception_info # 0 => trapped
       /\ pc[h] \in {"readback", "done"} /\ reported[h] => trapped

(***************************************************************************)
(* The arguments in memory, as the stages of the call put them there.      *)
(***************************************************************************)
NumConstants(h) == Len(call[h].constants)
NumBindings(h) == Len(Bindings(h))
ConstantsAt(h) == request[h].push_constants_addr
PtrsAt(h) == request[h].binding_ptrs_addr
LengthsAt(h) == request[h].binding_lengths_addr
\* Where the table says that a binding is.
Place(h, n) == mem[Word(PtrsAt(h), n)]

RequestInv(h) ==
  pc[h] \in Loaded =>
    /\ code = call[h].image
    /\ request[h].magic /\ request[h].status = "READY"
    /\ request[h].workgroup_count = call[h].groups
    /\ request[h].push_constant_count = NumConstants(h)
    /\ request[h].binding_count = NumBindings(h)
    /\ heap_cursor[h] \in 1 .. DdrBase

ConstantsInv(h) ==
  pc[h] \in Loaded \ {"constants"} /\ NumConstants(h) # 0 =>
    /\ ConstantsAt(h) >= 1
    /\ ConstantsAt(h) + NumConstants(h) * WordSize <= heap_cursor[h]
    /\ \A n \in 1 .. NumConstants(h) : mem[Word(ConstantsAt(h), n)] = call[h].constants[n]

TablesInv(h) ==
  pc[h] \in {"local", "bindings", "run", "wait"} /\ NumBindings(h) # 0 =>
    /\ PtrsAt(h) >= 1
    /\ NumConstants(h) # 0 => ConstantsAt(h) + NumConstants(h) * WordSize <= PtrsAt(h)
    /\ PtrsAt(h) + NumBindings(h) * WordSize <= LengthsAt(h)
    /\ LengthsAt(h) + NumBindings(h) * WordSize <= heap_cursor[h]

\* Until a workgroup has run, a binding's place holds what its buffer held.
PlaceInv(h, n) ==
  LET b == Bindings(h)[n]
  IN  /\ Place(h, n) \in DdrBase .. DdrLimit
      /\ Place(h, n) + b.length <= ddr_cursor[h]
      /\ mem[Word(LengthsAt(h), n)] = b.length
      /\ pc[h] # "wait" \/ log = <<>> =>
           \A i \in 0 .. b.length - 1 :
             mem[Place(h, n) + i] = before[h][b.buffer][b.offset + i]

BindingsInv(h) ==
  pc[h] \in {"bindings", "run", "wait"} =>
    /\ ddr_cursor[h] \in DdrBase .. DdrLimit
    /\ k[h] \in 1 .. NumBindings(h) + 1
    /\ pc[h] # "bindings" => k[h] = NumBindings(h) + 1
    /\ \A n \in 1 .. k[h] - 1 : PlaceInv(h, n)

(***************************************************************************)
(* The run.                                                                *)
(***************************************************************************)
RowMajor(n, g) == <<n % g[1], (n \div g[1]) % g[2], n \div (g[1] * g[2])>>
Rank(w, g) == w[1] + g[1] * (w[2] + g[2] * w[3])

\* The loops stand at the workgroup that comes next in row-major order.
LoopInv(g) ==
  /\ \A n \in 1 .. Len(log) : log[n].id = RowMajor(n - 1, g)
  /\ g[1] = 0 \/ g[2] = 0 => log = <<>>
  /\ g[1] # 0 /\ g[2] # 0 =>
       /\ wg[1] < g[1] /\ wg[2] < g[2] /\ wg[3] <= g[3]
       /\ wg[3] = g[3] => wg[1] = 0 /\ wg[2] = 0
       /\ Len(log) = Rank(wg, g)

\* What the workgroups saw.
SawInv(h) ==
  /\ \A n \in DOMAIN log : log[n].constants = call[h].constants
  /\ log # <<>> => log[1].inputs =
       [n \in DOMAIN Bindings(h) |-> Contents(before[h], Bindings(h)[n])]

\* A request that differs from another in its status and return code only.
Answers(r, q) == r = [q EXCEPT !.status = r.status, !.return_code = r.return_code]

\* The request and the log while the core works.
WaitInv(h) ==
  LET box == mailbox[ImageOf(h).request_addr]
  IN  /\ Answers(box, request[h])
      /\ fw = "main" => box.status = "READY"
      /\ fw \in {"main", "lookup"} => log = <<>>
      /\ fw \in {"lookup", "loop", "spinning"} => box.status = "RUNNING"
      /\ fw = "loop" => LoopInv(call[h].groups)
      /\ fw = "halted" /\ box.status = "COMPLETE" => InRowMajorOrder(log, call[h].groups)
      /\ SawInv(h)

RunInv(h) ==
  /\ pc[h] = "run" => mailbox[ImageOf(h).request_addr] = request[h]
  /\ pc[h] = "wait" => WaitInv(h)
  /\ pc[h] = "readback" \/ (pc[h] = "done" /\ result[h] = "OK") =>
       InRowMajorOrder(log, call[h].groups) /\ SawInv(h)

LayoutInv(h) == RequestInv(h) /\ ConstantsInv(h) /\ TablesInv(h) /\ BindingsInv(h)

SInv ==
  /\ TypeOK
  /\ \A h \in Hosts : BufferInv(h) /\ ExceptionInv(h) /\ LayoutInv(h) /\ RunInv(h)

-----------------------------------------------------------------------------
(***************************************************************************)
(* Arithmetic.                                                             *)
(***************************************************************************)
LEMMA DivMod ==
  ASSUME NEW m \in Nat, NEW a \in Nat \ {0}, NEW r \in 0 .. a - 1
  PROVE  (m * a + r) \div a = m /\ (m * a + r) % a = r
<1>1. (m * a + r) \div a = m
  OBVIOUS
<1>2. (m * a + r) % a = r
  OBVIOUS
<1> QED BY <1>1, <1>2

LEMMA Product == ASSUME NEW a \in Nat, NEW b \in Nat PROVE a * b \in Nat
OBVIOUS

\* An aligned address is not before the cursor.
LEMMA Aligned ==
  ASSUME NEW c \in Nat, NEW a \in Nat \ {0}
  PROVE  AlignUp(c, a) \in Nat /\ AlignUp(c, a) >= c
BY DEF AlignUp

\* A workgroup's rank is its position in row-major order.
LEMMA RankRow ==
  ASSUME NEW w \in Nat \X Nat \X Nat, NEW g \in Nat \X Nat \X Nat, w[1] < g[1], w[2] < g[2]
  PROVE  Rank(w, g) \in Nat /\ RowMajor(Rank(w, g), g) = w
<1> DEFINE x == w[1]
           y == w[2]
           z == w[3]
           g1 == g[1]
           g2 == g[2]
           v == y + g2 * z
           n == x + g1 * v
<1>1. w = <<x, y, z>> /\ x \in Nat /\ y \in Nat /\ z \in Nat /\ g1 \in Nat /\ g2 \in Nat
      /\ x < g1 /\ y < g2
  OBVIOUS
<1>2. Rank(w, g) = n /\ RowMajor(n, g) = <<n % g1, (n \div g1) % g2, n \div (g1 * g2)>>
  BY DEF Rank, RowMajor
<1> HIDE DEF x, y, z, g1, g2
<1>3. v \in Nat /\ v = z * g2 + y /\ y \in 0 .. g2 - 1 /\ g2 \in Nat \ {0}
      /\ x \in 0 .. g1 - 1 /\ g1 \in Nat \ {0}
  BY <1>1
<1>4. x + g1 * y \in 0 .. g1 * g2 - 1 /\ g1 * g2 \in Nat \ {0}
  BY <1>1
<1>5. n = z * (g1 * g2) + (x + g1 * y)
  BY <1>1
<1> HIDE DEF v
<1>6. n = v * g1 + x /\ n \in Nat
  BY <1>1, <1>3
<1> HIDE DEF n
<1>7. n \div (g1 * g2) = z
  BY <1>1, <1>4, <1>5, DivMod
<1>8. v % g2 = y
  BY <1>1, <1>3, DivMod
<1>9. n % g1 = x /\ n \div g1 = v
  BY <1>3, <1>6, DivMod
<1> QED BY <1>1, <1>2, <1>6, <1>7, <1>8, <1>9

\* The workgroup after it.
LEMMA RankNext ==
  ASSUME NEW w \in Nat \X Nat \X Nat, NEW g \in Nat \X Nat \X Nat, w[1] < g[1], w[2] < g[2]
  PROVE  /\ Rank(w, g) + 1 = Rank(<<w[1] + 1, w[2], w[3]>>, g)
         /\ w[1] + 1 >= g[1] => Rank(w, g) + 1 = Rank(<<0, w[2] + 1, w[3]>>, g)
         /\ w[1] + 1 >= g[1] /\ w[2] + 1 >= g[2] =>
              Rank(w, g) + 1 = Rank(<<0, 0, w[3] + 1>>, g)
<1> DEFINE x == w[1]
           y == w[2]
           z == w[3]
           g1 == g[1]
           g2 == g[2]
           u == g2 * z
           v == g1 * (y + u)
<1>1. x \in Nat /\ y \in Nat /\ z \in Nat /\ g1 \in Nat /\ g2 \in Nat /\ x < g1 /\ y < g2
  OBVIOUS
<1>2. /\ Rank(w, g) = x + v /\ Rank(<<x + 1, y, z>>, g) = (x + 1) + v
      /\ Rank(<<0, y + 1, z>>, g) = 0 + g1 * ((y + 1) + u)
      /\ Rank(<<0, 0, z + 1>>, g) = 0 + g1 * (0 + g2 * (z + 1))
  BY DEF Rank
<1> HIDE DEF x, y, z, g1, g2
<1>3. u \in Nat /\ g2 * (z + 1) = u + g2
  BY <1>1
<1> HIDE DEF u
<1>4. v \in Nat /\ v + g1 = g1 * ((y + 1) + u)
  BY <1>1, <1>3
<1> HIDE DEF v
<1>5. ASSUME x + 1 >= g1 PROVE (x + v) + 1 = 0 + g1 * ((y + 1) + u)
  BY <1>1, <1>4, <1>5
<1>6. ASSUME y + 1 >= g2 PROVE (y + 1) + u = 0 + g2 * (z + 1)
  BY <1>1, <1>3, <1>6
<1>7. (x + v) + 1 = (x + 1) + v
  BY <1>1, <1>4
<1>8. ASSUME x + 1 >= g1, y + 1 >= g2 PROVE (x + v) + 1 = 0 + g1 * (0 + g2 * (z + 1))
  <2>1. (x + v) + 1 = 0 + g1 * ((y + 1) + u) /\ (y + 1) + u = 0 + g2 * (z + 1)
    BY <1>5, <1>6, <1>8
  <2> QED BY <2>1
<1> QED BY <1>2, <1>5, <1>7, <1>8 DEF x, y, z, g1, g2

\* The n-th word of a table lies in it, and apart from the others.
LEMMA Words ==
  ASSUME NEW base \in Nat, NEW num \in Nat, NEW n \in 1 .. num
  PROVE  /\ Word(base, n) \in base .. base + num * WordSize - 1
         /\ (Word(base, n) - base) \div WordSize + 1 = n
         /\ \A m \in 1 .. num : Word(base, m) = Word(base, n) => m = n
<1>1. WordSize \in Nat \ {0}
  BY UnitAssumption
<1> DEFINE W == WordSize
<1> HIDE DEF W
<1>2. W \in Nat \ {0}
  BY <1>1 DEF W
<1>3. (n - 1) * W \in Nat /\ (n - 1) * W + W <= num * W
  BY <1>2
<1>4. ((n - 1) * W) \div W = n - 1
  <2>1. n - 1 \in Nat /\ 0 \in 0 .. W - 1
    BY <1>2
  <2>2. ((n - 1) * W + 0) \div W = n - 1
    BY <1>2, <2>1, DivMod
  <2> QED BY <1>3, <2>2
<1>5. ASSUME NEW m \in 1 .. num, base + (m - 1) * W = base + (n - 1) * W PROVE m = n
  <2>1. (m - 1) * W = (n - 1) * W
    <3>1. (m - 1) * W \in Nat
      BY <1>2
    <3> QED BY <1>3, <1>5, <3>1
  <2>2. CASE m < n
    <3>1. m * W <= (n - 1) * W /\ (m - 1) * W + W = m * W
      BY <1>2, <2>2
    <3> QED BY <1>2, <1>3, <2>1, <3>1
  <2>3. CASE n < m
    <3>1. n * W <= (m - 1) * W /\ (n - 1) * W + W = n * W
      BY <1>2, <2>3
    <3> QED BY <1>2, <1>3, <2>1, <3>1
  <2> QED BY <2>2, <2>3
<1>6. Word(base, n) = base + (n - 1) * W /\ \A m \in 1 .. num : Word(base, m) = base + (m - 1) * W
  BY DEF Word, W
<1>7. Word(base, n) \in base .. base + num * W - 1
  BY <1>2, <1>3, <1>6
<1>8. Word(base, n) - base = (n - 1) * W
  BY <1>3, <1>6
<1> QED BY <1>4, <1>5, <1>6, <1>7, <1>8 DEF W

\* A sequence is one of its own elements.
LEMMA OwnSeq ==
  ASSUME NEW S, NEW s \in Seq(S)
  PROVE  s \in Seq({s[n] : n \in DOMAIN s})
OBVIOUS

LEMMA OwnFunction ==
  ASSUME NEW S, NEW s \in Seq(S)
  PROVE  s = [n \in DOMAIN s |-> s[n]]
<1>1. s \in [1 .. Len(s) -> S]
  OBVIOUS
<1> QED BY <1>1, Zenon

-----------------------------------------------------------------------------
(***************************************************************************)
(* Types.                                                                  *)
(***************************************************************************)
\* What a dispatch says of its image.
LEMMA DispatchType ==
  ASSUME NEW d \in Dispatches
  PROVE  /\ d.image \in DOMAIN Images /\ d.groups \in Nat \X Nat \X Nat /\ d.ordinal \in Nat
         /\ d.local_memory \in Nat
         /\ d.constants \in Seq(Int) /\ Len(d.constants) \in Nat
         /\ DOMAIN d.constants = 1 .. Len(d.constants)
         /\ d.bindings \in Seq(Binding) /\ Len(d.bindings) \in Nat
         /\ DOMAIN d.bindings = 1 .. Len(d.bindings)
         /\ Len(d.constants) % CountModulus = Len(d.constants)
         /\ Len(d.bindings) % CountModulus = Len(d.bindings)
         /\ Images[d.image].heap_start \in 1 .. DdrBase
         /\ Images[d.image].heap_end \in Nat /\ Images[d.image].heap_end <= DdrBase
         /\ Images[d.image].request_addr \in RequestAddrs
<1>1. /\ d.image \in DOMAIN Images /\ d.groups \in Nat \X Nat \X Nat /\ d.ordinal \in Nat
      /\ d.local_memory \in Nat
      /\ d.constants \in Seq(Int) /\ d.bindings \in Seq(Binding)
  BY DispatchAssumption
<1>2. /\ Len(d.constants) \in Nat /\ DOMAIN d.constants = 1 .. Len(d.constants)
      /\ Len(d.bindings) \in Nat /\ DOMAIN d.bindings = 1 .. Len(d.bindings)
  BY <1>1
<1>3. CountModulus \in Nat \ {0} /\ DdrBase \in Nat \ {0}
  BY UnitAssumption
<1>4. /\ Len(d.constants) \in 0 .. CountModulus - 1
      /\ Len(d.bindings) \in 0 .. CountModulus - 1
  BY <1>2, <1>3, CountAssumption
<1>5. \A n \in 0 .. CountModulus - 1 : n % CountModulus = n
  BY <1>3
<1>6. /\ Images[d.image].heap_start \in 1 .. DdrBase
      /\ Images[d.image].heap_end \in Nat /\ Images[d.image].heap_end <= DdrBase
  BY <1>1, <1>3, ImageAssumption
<1>7. Images[d.image].request_addr \in RequestAddrs
  BY <1>1 DEF RequestAddrs
<1> QED BY <1>1, <1>2, <1>4, <1>5, <1>6, <1>7

LEMMA EmptyIsRequest == EmptyRequest \in Request
BY DEF EmptyRequest, Request, Statuses

LEMMA Updated ==
  ASSUME NEW D, NEW S, NEW f \in [D -> S], NEW x \in D, NEW v \in S
  PROVE  [f EXCEPT ![x] = v] \in [D -> S]
OBVIOUS

LEMMA AddrUpdated ==
  ASSUME NEW r \in Request, NEW v \in Nat
  PROVE  /\ [r EXCEPT !.push_constants_addr = v] \in Request
         /\ [r EXCEPT !.local_memory_addr = v] \in Request
<1>1. [r EXCEPT !.push_constants_addr = v] \in Request
  BY DEF Request
<1>2. [r EXCEPT !.local_memory_addr = v] \in Request
  BY DEF Request
<1> QED BY <1>1, <1>2

LEMMA TablesUpdated ==
  ASSUME NEW r \in Request, NEW v \in Nat, NEW w \in Nat
  PROVE  [r EXCEPT !.binding_ptrs_addr = v, !.binding_lengths_addr = w] \in Request
BY DEF Request

LEMMA StatusUpdated ==
  ASSUME NEW r \in Request, NEW s \in Statuses, NEW rc \in Int
  PROVE  /\ [r EXCEPT !.return_code = rc, !.status = s] \in Request
         /\ [r EXCEPT !.status = s, !.return_code = rc] \in Request
<1>1. [r EXCEPT !.return_code = rc, !.status = s] \in Request
  BY DEF Request
<1>2. [r EXCEPT !.status = s, !.return_code = rc] \in Request
  BY DEF Request
<1> QED BY <1>1, <1>2

LEMMA InitType == Init => TypeOK
<1> SUFFICES ASSUME Init PROVE TypeOK
  OBVIOUS
<1>1. (CHOOSE d \in Dispatches : TRUE) \in Dispatches
  BY DispatchAssumption
<1>2. call \in [Hosts -> Dispatches]
  BY <1>1 DEF Init
<1>3. request \in [Hosts -> Request] /\ mailbox \in [RequestAddrs -> Request]
  BY EmptyIsRequest DEF Init
<1>4. ddr_cursor \in [Hosts -> Nat] /\ heap_cursor \in [Hosts -> Nat]
  BY UnitAssumption DEF Init
<1>5. log \in Seq({log[n] : n \in DOMAIN log})
  BY DEF Init
<1>6. pc \in [Hosts -> Labels] /\ result \in [Hosts -> Results]
  BY DEF Init, Labels, Results
<1> QED BY <1>2, <1>3, <1>4, <1>5, <1>6 DEF Init, TypeOK

LEMMA HostType == ASSUME TypeOK, NEW h \in Hosts, Host(h) \/ simulator_create(h) PROVE TypeOK'
<1>0. /\ call[h] \in Dispatches /\ heap_cursor[h] \in Nat /\ ddr_cursor[h] \in Nat
      /\ k[h] \in Nat \ {0} /\ request[h] \in Request
      /\ WordSize \in Nat \ {0} /\ LocalAlign \in Nat \ {0} /\ BindingAlign \in Nat \ {0}
      /\ DdrBase \in Nat
  BY UnitAssumption DEF TypeOK
<1>00. /\ heap_cursor \in [Hosts -> Nat] /\ request \in [Hosts -> Request]
       /\ ddr_cursor \in [Hosts -> Nat] /\ k \in [Hosts -> Nat \ {0}]
       /\ pc \in [Hosts -> Labels] /\ result \in [Hosts -> Results]
  BY DEF TypeOK
<1>1. CASE simulator_create(h)
  <2>1. mailbox' \in [RequestAddrs -> Request]
    BY <1>1, EmptyIsRequest DEF simulator_create
  <2> QED BY <1>1, <2>1 DEF simulator_create, TypeOK, callVars, runVars
<1>2. ASSUME NEW d \in Dispatches, Issue(h, d) PROVE TypeOK'
  <2>1. pc' \in [Hosts -> Labels] /\ result' \in [Hosts -> Results]
    BY <1>2 DEF Issue, Finish, Goto, TypeOK, Labels, Results
  <2> QED BY <1>2, <2>1 DEF Issue, TypeOK, simVars, runVars
<1>3. CASE LoadElf(h)
  <2>1. ImageOf(h).heap_start \in Nat /\ ImageOf(h).request_addr \in RequestAddrs
        /\ call[h].image \in DOMAIN Images
    BY <1>0, DispatchType, UnitAssumption DEF ImageOf
  <2>2. pc' \in [Hosts -> Labels] /\ result' \in [Hosts -> Results]
    BY <1>3 DEF LoadElf, Finish, Goto, TypeOK, Labels, Results
  <2>3. request' \in [Hosts -> Request]
    <3> DEFINE r == [EmptyRequest EXCEPT
                       !.magic = TRUE, !.status = "READY",
                       !.workgroup_count = call[h].groups,
                       !.push_constant_count = Len(call[h].constants) % CountModulus,
                       !.binding_count = Len(Bindings(h)) % CountModulus,
                       !.ordinal = call[h].ordinal]
    <3>1. r \in Request
      BY <1>0, DispatchType, EmptyIsRequest DEF Request, Statuses, Bindings
    <3>2. request' = [request EXCEPT ![h] = r] \/ request' = request
      BY <1>3 DEF LoadElf
    <3> HIDE DEF r
    <3> QED BY <3>1, <3>2 DEF TypeOK
  <2>4. mailbox' \in [RequestAddrs -> Request]
    BY <1>3, EmptyIsRequest DEF LoadElf, WriteSegments, TypeOK
  <2>5. code' = call[h].image /\ heap_cursor' = [heap_cursor EXCEPT ![h] = ImageOf(h).heap_start]
        /\ UNCHANGED <<fw, wg, runVars, before, call, ddr_cursor, k, reported>>
    BY <1>3 DEF LoadElf, WriteSegments
  <2>6. code' \in DOMAIN Images \cup {NoImage} /\ heap_cursor' \in [Hosts -> Nat]
    BY <2>1, <2>5 DEF TypeOK
  <2> QED BY <2>2, <2>3, <2>4, <2>5, <2>6 DEF TypeOK, runVars
<1>4. CASE LoadElfFails(h)
  <2>1. call[h].image \in DOMAIN Images
    BY <1>0, DispatchType
  <2>2. pc' \in [Hosts -> Labels] /\ result' \in [Hosts -> Results]
    BY <1>4 DEF LoadElfFails, Finish, Goto, TypeOK, Labels, Results
  <2>3. mailbox' \in [RequestAddrs -> Request] /\ code' \in DOMAIN Images \cup {NoImage}
    BY <1>4, <2>1, EmptyIsRequest DEF LoadElfFails, WriteSegments, TypeOK
  <2> QED BY <1>4, <2>2, <2>3 DEF LoadElfFails, TypeOK, runVars
<1>5. CASE PutConstants(h)
  <2> DEFINE n == Len(call[h].constants)
             addr == AlignUp(heap_cursor[h], WordSize)
  <2>1. n \in Nat /\ addr \in Nat
    BY <1>0, DispatchType, Aligned
  <2>2. /\ \/ UNCHANGED <<request, heap_cursor>>
           \/ /\ request' = [request EXCEPT ![h].push_constants_addr = addr]
              /\ heap_cursor' = [heap_cursor EXCEPT ![h] = addr + n * WordSize]
        /\ pc' = [pc EXCEPT ![h] = "tables"]
        /\ UNCHANGED <<mailbox, code, fw, wg, log, before, call, ddr_cursor, k, result, reported>>
    BY <1>5 DEF PutConstants, Goto, runVars
  <2> HIDE DEF n, addr
  <2>3. n * WordSize \in Nat
    BY <1>0, <2>1, Product
  <2>4. heap_cursor' \in [Hosts -> Nat]
    <3>1. addr + n * WordSize \in Nat
      BY <2>1, <2>3
    <3> QED BY <1>00, <2>2, <3>1, Updated
  <2>5. request' \in [Hosts -> Request]
    <3>1. [request[h] EXCEPT !.push_constants_addr = addr] \in Request
      BY <1>0, <2>1, AddrUpdated
    <3>2. [request EXCEPT ![h].push_constants_addr = addr]
            = [request EXCEPT ![h] = [request[h] EXCEPT !.push_constants_addr = addr]]
      OBVIOUS
    <3> QED BY <1>00, <2>2, <3>1, <3>2, Updated
  <2>6. pc' \in [Hosts -> Labels]
    BY <2>2 DEF TypeOK, Labels
  <2> QED BY <2>2, <2>4, <2>5, <2>6 DEF TypeOK
<1>6. CASE AllocateTables(h)
  <2> DEFINE n == Len(Bindings(h))
             ptrs == AlignUp(heap_cursor[h], WordSize)
             lengths == LengthsAddr(ptrs, n)
  <2>1. n \in Nat /\ ptrs \in Nat
    BY <1>0, DispatchType, Aligned DEF Bindings
  <2>2. /\ \/ UNCHANGED <<request, heap_cursor>>
           \/ /\ request' = [request EXCEPT ![h].binding_ptrs_addr = ptrs,
                                            ![h].binding_lengths_addr = lengths]
              /\ heap_cursor' = [heap_cursor EXCEPT ![h] = lengths + n * WordSize]
        /\ pc' = [pc EXCEPT ![h] = "local"]
        /\ UNCHANGED <<mailbox, code, fw, wg, log, before, call, ddr_cursor, k, result, reported>>
    BY <1>6 DEF AllocateTables, Goto, runVars, simVars
  <2> HIDE DEF n, ptrs
  <2>3. n * WordSize \in Nat
    BY <1>0, <2>1, Product
  <2>4. lengths \in Nat
    <3>1. ptrs + n * WordSize \in Nat
      BY <2>1, <2>3
    <3> QED BY <1>0, <3>1, Aligned DEF LengthsAddr
  <2> HIDE DEF lengths
  <2>5. heap_cursor' \in [Hosts -> Nat]
    BY <2>2, <2>3, <2>4 DEF TypeOK
  <2>6. request' \in [Hosts -> Request]
    <3> DEFINE v == [request[h] EXCEPT !.binding_ptrs_addr = ptrs,
                                       !.binding_lengths_addr = lengths]
    <3>1. v \in Request
      BY <1>0, <2>1, <2>4, TablesUpdated
    <3>2. [request EXCEPT ![h].binding_ptrs_addr = ptrs, ![h].binding_lengths_addr = lengths]
            = [request EXCEPT ![h] = v]
      BY <1>00
    <3> HIDE DEF v
    <3>3. request' = [request EXCEPT ![h] = v] \/ request' = request
      BY <2>2, <3>2
    <3> QED BY <1>00, <3>1, <3>3, Updated
  <2>7. pc' \in [Hosts -> Labels]
    BY <2>2 DEF TypeOK, Labels
  <2> QED BY <2>2, <2>5, <2>6, <2>7 DEF TypeOK
<1>7. CASE PutLocalMemory(h)
  <2> DEFINE n == call[h].local_memory
             addr == AlignUp(heap_cursor[h], LocalAlign)
  <2>1. n \in Nat /\ addr \in Nat
    BY <1>0, DispatchType, Aligned
  <2>2. /\ \/ UNCHANGED <<request, heap_cursor>>
           \/ /\ request' = [request EXCEPT ![h].local_memory_addr = addr]
              /\ heap_cursor' = [heap_cursor EXCEPT ![h] = addr + n]
        /\ pc' = [pc EXCEPT ![h] = "bindings"]
        /\ ddr_cursor' = [ddr_cursor EXCEPT ![h] = DdrBase]
        /\ k' = [k EXCEPT ![h] = 1]
        /\ UNCHANGED <<mailbox, code, fw, wg, log, before, call, result, reported>>
    BY <1>7 DEF PutLocalMemory, Goto, runVars
  <2> HIDE DEF n, addr
  <2>3. heap_cursor' \in [Hosts -> Nat]
    <3>1. addr + n \in Nat
      BY <2>1
    <3> QED BY <1>00, <2>2, <3>1, Updated
  <2>4. request' \in [Hosts -> Request]
    <3>1. [request[h] EXCEPT !.local_memory_addr = addr] \in Request
      BY <1>0, <2>1, AddrUpdated
    <3>2. [request EXCEPT ![h].local_memory_addr = addr]
            = [request EXCEPT ![h] = [request[h] EXCEPT !.local_memory_addr = addr]]
      OBVIOUS
    <3> QED BY <1>00, <2>2, <3>1, <3>2, Updated
  <2>5. pc' \in [Hosts -> Labels]
    BY <2>2 DEF TypeOK, Labels
  <2>6. ddr_cursor' \in [Hosts -> Nat] /\ k' \in [Hosts -> Nat \ {0}]
    BY <1>0, <2>2 DEF TypeOK
  <2> QED BY <2>2, <2>3, <2>4, <2>5, <2>6 DEF TypeOK
<1>8. CASE HeapExhausted(h)
  <2>1. pc' \in [Hosts -> Labels] /\ result' \in [Hosts -> Results]
    BY <1>8 DEF HeapExhausted, Finish, Goto, TypeOK, Labels, Results
  <2> QED BY <1>8, <2>1 DEF HeapExhausted, TypeOK, simVars, runVars
<1>9. CASE PutBinding(h) \/ ReadBack(h)
  <2> DEFINE b == Bindings(h)[k[h]]
             addr == AlignUp(ddr_cursor[h], BindingAlign)
  <2>1. k[h] \in 1 .. Len(Bindings(h))
    BY <1>0, <1>9 DEF PutBinding, ReadBack
  <2>2. b \in Binding
    BY <1>0, <2>1, DispatchType DEF Bindings
  <2>3. b.length \in Nat /\ addr \in Nat
    BY <1>0, <2>2, Aligned DEF Binding
  <2>4. /\ ddr_cursor' = [ddr_cursor EXCEPT ![h] = addr + b.length]
        /\ k' = [k EXCEPT ![h] = k[h] + 1]
    BY <1>9 DEF PutBinding, ReadBack, ReadBackAddr
  <2> HIDE DEF b, addr
  <2>5. ddr_cursor' \in [Hosts -> Nat] /\ k' \in [Hosts -> Nat \ {0}]
    <3>1. addr + b.length \in Nat /\ k[h] + 1 \in Nat \ {0}
      BY <1>0, <2>3
    <3>2. ddr_cursor \in [Hosts -> Nat] /\ k \in [Hosts -> Nat \ {0}]
      BY DEF TypeOK
    <3> QED BY <2>4, <3>1, <3>2
  <2> QED BY <1>9, <2>5 DEF PutBinding, ReadBack, TypeOK, simVars, runVars
<1>10. CASE BindingRefused(h)
  <2>1. pc' \in [Hosts -> Labels] /\ result' \in [Hosts -> Results]
    BY <1>10 DEF BindingRefused, Finish, Goto, TypeOK, Labels, Results
  <2> QED BY <1>10, <2>1 DEF BindingRefused, TypeOK, simVars, runVars
<1>11. CASE WriteRequest(h)
  <2>1. mailbox' \in [RequestAddrs -> Request] /\ pc' \in [Hosts -> Labels]
    BY <1>0, <1>11 DEF WriteRequest, Goto, TypeOK, Labels
  <2> QED BY <1>11, <2>1 DEF WriteRequest, TypeOK, runVars
<1>12. CASE Run(h)
  <2>1. pc' \in [Hosts -> Labels] /\ log' \in Seq({log'[n] : n \in DOMAIN log'})
    BY <1>12 DEF Run, Goto, TypeOK, Labels
  <2> QED BY <1>12, <2>1 DEF Run, TypeOK
<1>13. CASE Collect(h)
  <2> DEFINE r == mailbox[ImageOf(h).request_addr]
  <2>1. r \in Request
    BY <1>0, DispatchType DEF ImageOf, TypeOK
  <2>2. /\ request' = [request EXCEPT ![h] = r] /\ Verdict(r) \in Results
        /\ reported' = [reported EXCEPT ![h] = exception_info # 0]
    BY <1>13 DEF Collect, Verdict, Results
  <2> HIDE DEF r
  <2>3. request' \in [Hosts -> Request] /\ reported' \in [Hosts -> BOOLEAN]
    BY <2>1, <2>2 DEF TypeOK
  <2>4. \/ /\ pc' = [pc EXCEPT ![h] = "readback"] /\ UNCHANGED result
           /\ ddr_cursor' = [ddr_cursor EXCEPT ![h] = DdrBase] /\ k' = [k EXCEPT ![h] = 1]
        \/ /\ pc' = [pc EXCEPT ![h] = "done"] /\ UNCHANGED <<ddr_cursor, k>>
           /\ result' = [result EXCEPT ![h] = Verdict(r)]
    BY <1>13 DEF Collect, Finish, Goto, r
  <2>5. pc' \in [Hosts -> Labels] /\ result' \in [Hosts -> Results]
    <3>1. "readback" \in Labels /\ "done" \in Labels
      BY DEF Labels
    <3>2. CASE pc' = [pc EXCEPT ![h] = "readback"] /\ UNCHANGED result
      BY <1>00, <3>1, <3>2, Updated
    <3>3. CASE pc' = [pc EXCEPT ![h] = "done"] /\ result' = [result EXCEPT ![h] = Verdict(r)]
      BY <1>00, <2>2, <3>1, <3>3, Updated
    <3> QED BY <2>4, <3>2, <3>3
  <2>6. ddr_cursor' \in [Hosts -> Nat] /\ k' \in [Hosts -> Nat \ {0}]
    BY <1>0, <1>00, <2>4, Updated
  <2> QED BY <1>13, <2>3, <2>5, <2>6 DEF Collect, TypeOK, simVars, runVars
<1>14. CASE ReadBackDone(h)
  <2>1. pc' \in [Hosts -> Labels] /\ result' \in [Hosts -> Results]
    BY <1>14 DEF ReadBackDone, Finish, Goto, TypeOK, Labels, Results
  <2> QED BY <1>14, <2>1 DEF ReadBackDone, TypeOK, simVars, runVars
<1>15. CASE Return(h)
  <2>1. pc' \in [Hosts -> Labels]
    BY <1>15 DEF Return, Goto, TypeOK, Labels
  <2> QED BY <1>15, <2>1 DEF Return, TypeOK, simVars, runVars
<1> QED BY <1>1, <1>2, <1>3, <1>4, <1>5, <1>6, <1>7, <1>8, <1>9, <1>10, <1>11, <1>12, <1>13,
           <1>14, <1>15 DEF Host

\* The request that the core works on.
LEMMA BoxType ==
  ASSUME TypeOK, Stepping
  PROVE  Box \in RequestAddrs /\ mailbox[Box] \in Request
         /\ mailbox[Box].workgroup_count \in Nat \X Nat \X Nat
<1>1. code \in DOMAIN Images
  BY DEF Stepping, TypeOK
<1>2. Box \in RequestAddrs
  BY <1>1 DEF Box, RequestAddrs
<1>3. mailbox[Box] \in Request
  BY <1>2 DEF TypeOK
<1> QED BY <1>2, <1>3 DEF Request

LEMMA NextGroupType ==
  ASSUME TypeOK, NEW g \in Nat \X Nat \X Nat
  PROVE  NextGroup(g) \in Nat \X Nat \X Nat
<1>1. wg \in Nat \X Nat \X Nat
  BY DEF TypeOK
<1>2. wg = <<wg[1], wg[2], wg[3]>> /\ wg[1] \in Nat /\ wg[2] \in Nat /\ wg[3] \in Nat
      /\ g[1] \in Nat /\ g[2] \in Nat
  BY <1>1
<1>3. CASE wg[1] + 1 < g[1]
  <2>1. NextGroup(g) = [wg EXCEPT ![1] = wg[1] + 1]
    BY <1>2, <1>3 DEF NextGroup
  <2>2. [wg EXCEPT ![1] = wg[1] + 1] = <<wg[1] + 1, wg[2], wg[3]>>
    BY <1>2
  <2> QED BY <1>2, <2>1, <2>2
<1>4. CASE wg[1] + 1 >= g[1] /\ wg[2] + 1 < g[2]
  <2>1. NextGroup(g) = <<0, wg[2] + 1, wg[3]>>
    BY <1>2, <1>4 DEF NextGroup
  <2> QED BY <1>2, <2>1
<1>5. CASE wg[1] + 1 >= g[1] /\ wg[2] + 1 >= g[2]
  <2>1. NextGroup(g) = <<0, 0, wg[3] + 1>>
    BY <1>2, <1>5 DEF NextGroup
  <2> QED BY <1>2, <2>1
<1> QED BY <1>2, <1>3, <1>4, <1>5

LEMMA FirmwareType == ASSUME TypeOK, Firmware PROVE TypeOK'
<1>1. UNCHANGED hostSide /\ code' = code /\ Stepping
  BY DEF Firmware, FwMain, FwLookup, KernelReturns, KernelFails, KernelTraps, KernelSpins,
         FwComplete
<1>2. Box \in RequestAddrs /\ mailbox[Box] \in Request
      /\ mailbox[Box].workgroup_count \in Nat \X Nat \X Nat
  BY <1>1, BoxType
<1>3. ASSUME NEW s \in Statuses, NEW rc \in Int
      PROVE  [mailbox EXCEPT ![Box].return_code = rc, ![Box].status = s]
               \in [RequestAddrs -> Request]
  <2> DEFINE v == [mailbox[Box] EXCEPT !.return_code = rc, !.status = s]
  <2>1. v \in Request /\ mailbox \in [RequestAddrs -> Request]
    BY <1>2, StatusUpdated DEF TypeOK
  <2>2. [mailbox EXCEPT ![Box].return_code = rc, ![Box].status = s] = [mailbox EXCEPT ![Box] = v]
    BY <1>2, <2>1
  <2> HIDE DEF v
  <2> QED BY <1>2, <2>1, <2>2, Updated
<1>4. \A r : RequestError(r) \in Int
  BY DEF RequestError
<1>5. \A image, ordinal : LookupError(image, ordinal) \in Int
  BY DEF LookupError
<1>6. CASE FwMain
  <2>1. mailbox' \in [RequestAddrs -> Request]
    <3>1. CASE RequestError(mailbox[Box]) = 0
      <4>1. mailbox' = [mailbox EXCEPT ![Box].status = "RUNNING", ![Box].return_code = 0]
        BY <1>6, <3>1 DEF FwMain, FailOr
      <4>2. [mailbox[Box] EXCEPT !.status = "RUNNING", !.return_code = 0] \in Request
        <5>1. "RUNNING" \in Statuses /\ 0 \in Int
          BY DEF Statuses
        <5> QED BY <1>2, <5>1, StatusUpdated
      <4>3. mailbox' = [mailbox EXCEPT ![Box] =
                          [mailbox[Box] EXCEPT !.status = "RUNNING", !.return_code = 0]]
        BY <4>1
      <4> QED BY <1>2, <4>2, <4>3 DEF TypeOK
    <3>2. CASE RequestError(mailbox[Box]) # 0
      <4>1. mailbox' = [mailbox EXCEPT ![Box].return_code = RequestError(mailbox[Box]),
                                       ![Box].status = "ERROR"]
        BY <1>6, <3>2 DEF FwMain, FailOr
      <4> QED BY <1>3, <1>4, <4>1 DEF Statuses
    <3> QED BY <3>1, <3>2
  <2>2. fw' \in {"halted", "lookup"} /\ wg' = wg
    BY <1>6 DEF FwMain, FailOr
  <2> QED BY <1>1, <1>6, <2>1, <2>2 DEF FwMain, TypeOK, hostSide, callVars, runVars
<1>7. CASE FwLookup
  <2> DEFINE e == LookupError(Images[code], mailbox[Box].ordinal)
  <2>1. mailbox' \in [RequestAddrs -> Request]
    <3>1. CASE e = 0
      BY <1>7, <3>1 DEF FwLookup, FailOr, TypeOK
    <3>2. CASE e # 0
      <4>1. mailbox' = [mailbox EXCEPT ![Box].return_code = e, ![Box].status = "ERROR"]
        BY <1>7, <3>2 DEF FwLookup, FailOr
      <4> QED BY <1>3, <1>5, <4>1 DEF Statuses
    <3> QED BY <3>1, <3>2
  <2>2. fw' \in {"halted", "loop"} /\ wg' \in Nat \X Nat \X Nat
    BY <1>7 DEF FwLookup, FailOr, TypeOK
  <2> QED BY <1>1, <1>7, <2>1, <2>2 DEF FwLookup, TypeOK, hostSide, callVars, runVars
<1>8. CASE KernelReturns
  <2>1. wg' \in Nat \X Nat \X Nat
    BY <1>2, <1>8, NextGroupType DEF KernelReturns
  <2>2. log' \in Seq({log'[n] : n \in DOMAIN log'})
    <3> DEFINE S == {log[n] : n \in DOMAIN log}
    <3>1. PICK e : log' = Append(log, e)
      BY <1>8 DEF KernelReturns
    <3>2. log \in Seq(S)
      BY DEF TypeOK
    <3> HIDE DEF S
    <3>3. log \in Seq(S \cup {e})
      BY <3>2
    <3>4. Append(log, e) \in Seq(S \cup {e})
      BY <3>3
    <3> QED BY <3>1, <3>4, OwnSeq
  <2> QED BY <1>1, <1>8, <2>1, <2>2 DEF KernelReturns, TypeOK, hostSide, callVars
<1>9. CASE KernelFails
  <2>1. mailbox' = [mailbox EXCEPT ![Box].return_code = 1, ![Box].status = "ERROR"]
        /\ fw' = "halted" /\ wg' = wg
    BY <1>9 DEF KernelFails, FailOr
  <2>2. mailbox' \in [RequestAddrs -> Request]
    BY <1>3, <2>1 DEF Statuses
  <2> QED BY <1>1, <1>9, <2>1, <2>2 DEF KernelFails, TypeOK, hostSide, callVars, runVars
<1>10. CASE KernelTraps
  BY <1>1, <1>10 DEF KernelTraps, AfterException, TypeOK, hostSide, callVars
<1>11. CASE KernelSpins
  BY <1>1, <1>11 DEF KernelSpins, TypeOK, hostSide, callVars, runVars
<1>12. CASE FwComplete
  <2>1. mailbox' = [mailbox EXCEPT ![Box].return_code = 0, ![Box].status = "COMPLETE"]
        /\ fw' = "halted" /\ wg' = wg
    BY <1>12 DEF FwComplete
  <2>2. mailbox' \in [RequestAddrs -> Request]
    BY <1>3, <2>1 DEF Statuses
  <2> QED BY <1>1, <1>12, <2>1, <2>2 DEF FwComplete, TypeOK, hostSide, callVars, runVars
<1> QED BY <1>6, <1>7, <1>8, <1>9, <1>10, <1>11, <1>12 DEF Firmware

-----------------------------------------------------------------------------
(***************************************************************************)
(* The host's buffers, and the exception words.                            *)
(***************************************************************************)
\* The steps of the one thread there is.
LEMMA OneThreadStep ==
  ASSUME OneThread, [Next]_vars, NEW h \in Hosts
  PROVE  UNCHANGED vars \/ Firmware \/ Host(h) \/ simulator_create(h)
BY DEF OneThread, Next

\* A step that goes from a label before the results to another one.
LEMMA BufferKept ==
  ASSUME TypeOK, NEW h \in Hosts, BufferInv(h), UNCHANGED <<host, before>>,
         pc[h] = "load" \/ pc[h] \in Loaded, pc'[h] # "readback",
         pc'[h] = "done" => result'[h] # "OK"
  PROVE  BufferInv(h)'
<1>1. host = before[h]
  BY DEF BufferInv
<1> QED BY <1>1 DEF BufferInv

LEMMA BufferStep ==
  ASSUME OneThread, TypeOK, NEW h \in Hosts, BufferInv(h), [Next]_vars
  PROVE  BufferInv(h)'
<1>0. pc \in [Hosts -> Labels] /\ result \in [Hosts -> Results] /\ k[h] \in Nat \ {0}
      /\ call \in [Hosts -> Dispatches]
  BY DEF TypeOK
<1>1. CASE UNCHANGED <<host, before, pc, result, call>>
  BY <1>1 DEF BufferInv, Confined, Bindings
<1>2. CASE UNCHANGED vars \/ Firmware \/ simulator_create(h)
  BY <1>1, <1>2 DEF vars, Firmware, FwMain, FwLookup, KernelReturns, KernelFails, KernelTraps,
     KernelSpins, FwComplete, simulator_create, hostSide, callVars
<1>3. ASSUME NEW d \in Dispatches, Issue(h, d) PROVE BufferInv(h)'
  <2>1. before'[h] = host' /\ pc'[h] \in {"load", "done"}
    BY <1>0, <1>3 DEF Issue, Finish, Goto, TypeOK
  <2>2. pc'[h] = "done" => result'[h] # "OK"
    BY <1>0, <1>3 DEF Issue, Finish, Goto
  <2> QED BY <2>1, <2>2 DEF BufferInv
<1>4. CASE LoadElf(h)
  <2>1. pc[h] = "load" /\ UNCHANGED <<host, before>> /\ pc'[h] \in {"constants", "done"}
        /\ (pc'[h] = "done" => result'[h] # "OK")
    BY <1>0, <1>4 DEF LoadElf, Finish, Goto
  <2> QED BY <2>1, BufferKept
<1>5. CASE LoadElfFails(h)
  <2>1. pc[h] = "load" /\ UNCHANGED <<host, before>> /\ pc'[h] = "done" /\ result'[h] # "OK"
    BY <1>0, <1>5 DEF LoadElfFails, Finish, Goto
  <2> QED BY <2>1, BufferKept
<1>6. CASE PutConstants(h) \/ AllocateTables(h) \/ PutLocalMemory(h)
  <2>1. pc[h] \in Loaded /\ UNCHANGED <<host, before>> /\ pc'[h] \in {"tables", "local", "bindings"}
    BY <1>0, <1>6 DEF PutConstants, AllocateTables, PutLocalMemory, Goto, Loaded
  <2> QED BY <2>1, BufferKept
<1>7. CASE HeapExhausted(h) \/ BindingRefused(h)
  <2>1. pc[h] \in Loaded /\ UNCHANGED <<host, before>> /\ pc'[h] = "done" /\ result'[h] # "OK"
    BY <1>0, <1>7 DEF HeapExhausted, BindingRefused, Finish, Goto, Loaded
  <2> QED BY <2>1, BufferKept
<1>8. CASE PutBinding(h)
  BY <1>1, <1>8 DEF PutBinding
<1>9. CASE WriteRequest(h) \/ Run(h)
  <2>1. pc[h] \in Loaded /\ UNCHANGED <<host, before>> /\ pc'[h] \in {"run", "wait"}
    BY <1>0, <1>9 DEF WriteRequest, Run, Goto, Loaded
  <2> QED BY <2>1, BufferKept
<1>10. CASE Collect(h)
  <2>1. pc[h] = "wait" /\ UNCHANGED <<host, before, call>> /\ pc'[h] \in {"readback", "done"}
    BY <1>0, <1>10 DEF Collect, Finish, Goto
  <2>2. pc'[h] = "done" => result'[h] # "OK"
    BY <1>0, <1>10 DEF Collect, Finish, Goto
  <2>3. host = before[h]
    BY <2>1 DEF BufferInv, Loaded
  <2> QED BY <2>1, <2>2, <2>3 DEF BufferInv, Confined, Loaded
<1>11. CASE ReadBack(h)
  <2> DEFINE b == Bindings(h)[k[h]]
  <2>1. /\ pc[h] = "readback" /\ UNCHANGED <<before, call, pc>>
        /\ k[h] \in DOMAIN Bindings(h)
    <3>1. k[h] <= Len(Bindings(h)) /\ pc[h] = "readback" /\ UNCHANGED <<before, call, pc>>
      BY <1>11 DEF ReadBack
    <3> QED BY <1>0, <3>1, DispatchType DEF Bindings
  <2>2. Confined(h)
    BY <2>1 DEF BufferInv
  <2>3. \/ host' = host
        \/ /\ b.writeable
           /\ host' = [host EXCEPT ![b.buffer] =
                         [c \in DOMAIN host[b.buffer] |->
                            IF c \in b.offset .. b.offset + b.length - 1
                            THEN Peek(ReadBackAddr(h) + (c - b.offset)) ELSE host[b.buffer][c]]]
    BY <1>11 DEF ReadBack, ReadsBack
  <2>4. ASSUME NEW name \in DOMAIN host', NEW c \in DOMAIN host'[name]
        PROVE  /\ name \in DOMAIN host /\ c \in DOMAIN host[name]
               /\ host'[name][c] = host[name][c]
                  \/ (b.writeable /\ b.buffer = name /\ c \in b.offset .. b.offset + b.length - 1)
    <3>1. CASE host' = host
      BY <3>1
    <3>2. CASE host' # host
      <4> HIDE DEF b
      <4> QED BY <2>3, <3>2
    <3> QED BY <3>1, <3>2
  <2>5. Bindings(h)' = Bindings(h)
    BY <2>1 DEF Bindings
  <2>6. Confined(h)'
    <3> SUFFICES ASSUME NEW name \in DOMAIN host', NEW c \in DOMAIN host'[name],
                        host'[name][c] # before[h][name][c]
                 PROVE  \E n \in DOMAIN Bindings(h) :
                          /\ Bindings(h)[n].writeable /\ Bindings(h)[n].buffer = name
                          /\ c \in Bindings(h)[n].offset ..
                                     Bindings(h)[n].offset + Bindings(h)[n].length - 1
      BY <2>1, <2>5 DEF Confined
    <3>1. CASE host'[name][c] = host[name][c]
      BY <2>2, <2>4, <3>1 DEF Confined
    <3>2. CASE host'[name][c] # host[name][c]
      BY <2>1, <2>4, <3>2
    <3> QED BY <3>1, <3>2
  <2> QED BY <2>1, <2>6 DEF BufferInv, Loaded
<1>12. CASE ReadBackDone(h)
  <2>1. pc[h] = "readback" /\ UNCHANGED <<host, before, call>> /\ pc'[h] = "done" /\ result'[h] = "OK"
    BY <1>0, <1>12 DEF ReadBackDone, Finish, Goto
  <2> QED BY <2>1 DEF BufferInv, Confined, Bindings, Loaded
<1>13. CASE Return(h)
  <2>1. pc'[h] = "idle"
    BY <1>0, <1>13 DEF Return, Goto
  <2> QED BY <2>1 DEF BufferInv, Loaded
<1> QED BY <1>2, <1>3, <1>4, <1>5, <1>6, <1>7, <1>8, <1>9, <1>10, <1>11, <1>12, <1>13,
           OneThreadStep DEF Host

LEMMA ExceptionStep ==
  ASSUME OneThread, TypeOK, NEW h \in Hosts, ExceptionInv(h), [Next]_vars
  PROVE  ExceptionInv(h)'
<1>0. pc \in [Hosts -> Labels] /\ reported \in [Hosts -> BOOLEAN] /\ call \in [Hosts -> Dispatches]
  BY DEF TypeOK
<1>1. CASE UNCHANGED <<exception_info, pc, reported, trapped, call>>
  BY <1>1 DEF ExceptionInv, ImageOf
<1>2. CASE UNCHANGED vars \/ FwMain \/ FwLookup \/ KernelReturns \/ KernelFails \/ KernelSpins
           \/ FwComplete \/ PutBinding(h) \/ ReadBack(h)
  BY <1>1, <1>2 DEF vars, FwMain, FwLookup, KernelReturns, KernelFails, KernelSpins,
     FwComplete, PutBinding, ReadBack, hostSide, callVars, runVars, simVars
<1>3. CASE KernelTraps
  <2>1. (\E g \in Hosts : pc[g] = "wait") /\ UNCHANGED <<pc, reported, call>> /\ trapped'
    BY <1>3 DEF KernelTraps, Stepping, hostSide, callVars
  <2>2. pc[h] = "wait"
    BY <2>1 DEF OneThread
  <2> QED BY <2>1, <2>2 DEF ExceptionInv, ImageOf
<1>4. CASE simulator_create(h) \/ Return(h)
  <2>1. pc'[h] = "idle"
    BY <1>0, <1>4 DEF simulator_create, Return, Goto, callVars
  <2> QED BY <2>1 DEF ExceptionInv, Loaded
<1>5. ASSUME NEW d \in Dispatches, Issue(h, d) PROVE ExceptionInv(h)'
  <2>1. pc'[h] \in {"load", "done"} /\ ~reported'[h]
    BY <1>0, <1>5 DEF Issue, Finish, Goto
  <2> QED BY <2>1 DEF ExceptionInv, Loaded
<1>6. CASE LoadElf(h)
  <2>1. /\ pc[h] = "load" /\ pc'[h] \in {"constants", "done"} /\ UNCHANGED <<reported, call>>
        /\ exception_info' = ExceptionInfoAfter(ImageOf(h))
    BY <1>0, <1>6 DEF LoadElf, WriteSegments, Finish, Goto
  <2> QED BY <2>1 DEF ExceptionInv, ExceptionInfoAfter, ImageOf, Loaded
<1>7. CASE LoadElfFails(h)
  <2>1. pc[h] = "load" /\ pc'[h] = "done" /\ UNCHANGED reported
    BY <1>0, <1>7 DEF LoadElfFails, Finish, Goto
  <2> QED BY <2>1 DEF ExceptionInv, Loaded
<1>8. CASE PutConstants(h) \/ AllocateTables(h) \/ PutLocalMemory(h) \/ WriteRequest(h)
  <2>1. /\ pc[h] \in Loaded \ {"wait"} /\ pc'[h] \in Loaded \ {"wait"}
        /\ UNCHANGED <<reported, call, exception_info>>
    BY <1>0, <1>8 DEF PutConstants, AllocateTables, PutLocalMemory, WriteRequest, Goto, Loaded,
                      simVars
  <2> QED BY <2>1 DEF ExceptionInv, ImageOf, Loaded
<1>9. CASE HeapExhausted(h) \/ BindingRefused(h)
  <2>1. pc[h] \in Loaded /\ pc'[h] = "done" /\ UNCHANGED reported
    BY <1>0, <1>9 DEF HeapExhausted, BindingRefused, Finish, Goto, Loaded
  <2> QED BY <2>1 DEF ExceptionInv, Loaded
<1>10. CASE Run(h)
  <2>1. pc[h] = "run" /\ pc'[h] = "wait" /\ UNCHANGED <<reported, call, exception_info>>
    BY <1>0, <1>10 DEF Run, Goto
  <2> QED BY <2>1 DEF ExceptionInv, ImageOf, Loaded
<1>11. CASE Collect(h)
  <2>1. /\ pc[h] = "wait" /\ pc'[h] \in {"readback", "done"}
        /\ reported' = [reported EXCEPT ![h] = exception_info # 0]
        /\ UNCHANGED <<call, trapped>>
    BY <1>0, <1>11 DEF Collect, Finish, Goto, runVars
  <2>2. reported'[h] = (exception_info # 0)
    BY <1>0, <2>1
  <2> QED BY <2>1, <2>2 DEF ExceptionInv, ImageOf, Loaded
<1>12. CASE ReadBackDone(h)
  <2>1. pc[h] = "readback" /\ pc'[h] = "done" /\ UNCHANGED <<reported, call, trapped>>
    BY <1>0, <1>12 DEF ReadBackDone, Finish, Goto, runVars
  <2> QED BY <2>1 DEF ExceptionInv, ImageOf, Loaded
<1> QED BY <1>2, <1>3, <1>4, <1>5, <1>6, <1>7, <1>8, <1>9, <1>10, <1>11, <1>12,
           OneThreadStep DEF Host, Firmware

-----------------------------------------------------------------------------
(***************************************************************************)
(* The arguments.  Constants and tables lie below DDR and are written in   *)
(* order from the start of the heap, the bindings in order from DdrBase:   *)
(* nothing that is written later overwrites what is there.                 *)
(***************************************************************************)
LEMMA Written ==
  ASSUME NEW cells, WriteMem(cells), NEW a \in Addr
  PROVE  mem'[a] = IF a \in DOMAIN cells THEN cells[a] ELSE mem[a]
BY DEF WriteMem

LEMMA Sizes ==
  /\ WordSize \in Nat \ {0} /\ LocalAlign \in Nat \ {0} /\ BindingAlign \in Nat \ {0}
  /\ DdrBase \in Nat \ {0} /\ DdrLimit \in Nat /\ DdrBase < DdrLimit
  /\ \A a \in 1 .. DdrBase - 1 : a \in Addr
  /\ \A a \in DdrBase .. DdrLimit - 1 : a \in Addr
BY UnitAssumption DEF Addr

\* The types of what a call has.
LEMMA CallType ==
  ASSUME TypeOK, NEW h \in Hosts
  PROVE  /\ call[h] \in Dispatches /\ request[h] \in Request
         /\ NumConstants(h) \in Nat /\ NumBindings(h) \in Nat
         /\ ConstantsAt(h) \in Nat /\ PtrsAt(h) \in Nat /\ LengthsAt(h) \in Nat
         /\ heap_cursor[h] \in Nat /\ ddr_cursor[h] \in Nat /\ k[h] \in Nat \ {0}
         /\ call[h].local_memory \in Nat
         /\ ImageOf(h).heap_end \in Nat /\ ImageOf(h).heap_end <= DdrBase
         /\ ImageOf(h).heap_start \in 1 .. DdrBase
         /\ NumConstants(h) * WordSize \in Nat /\ NumBindings(h) * WordSize \in Nat
         /\ \A n \in 1 .. NumBindings(h) :
              Bindings(h)[n].length \in Nat /\ Bindings(h)[n].offset \in Nat
<1>1. /\ call[h] \in Dispatches /\ request[h] \in Request
      /\ heap_cursor[h] \in Nat /\ ddr_cursor[h] \in Nat /\ k[h] \in Nat \ {0}
  BY DEF TypeOK
<1>2. ConstantsAt(h) \in Nat /\ PtrsAt(h) \in Nat /\ LengthsAt(h) \in Nat
  BY <1>1 DEF Request, ConstantsAt, PtrsAt, LengthsAt
<1>3. /\ NumConstants(h) \in Nat /\ NumBindings(h) \in Nat /\ call[h].local_memory \in Nat
      /\ ImageOf(h).heap_end \in Nat /\ ImageOf(h).heap_end <= DdrBase
      /\ ImageOf(h).heap_start \in 1 .. DdrBase
      /\ Bindings(h) \in Seq(Binding)
  BY <1>1, DispatchType DEF NumConstants, NumBindings, Bindings, ImageOf
<1>4. NumConstants(h) * WordSize \in Nat /\ NumBindings(h) * WordSize \in Nat
  BY <1>3, Sizes, Product
<1>5. \A n \in 1 .. NumBindings(h) : Bindings(h)[n] \in Binding
  BY <1>3 DEF NumBindings
<1>6. \A n \in 1 .. NumBindings(h) :
        Bindings(h)[n].length \in Nat /\ Bindings(h)[n].offset \in Nat
  BY <1>5 DEF Binding
<1> QED BY <1>1, <1>2, <1>3, <1>4, <1>6

\* Where the constants and the tables are.
LEMMA LowConstants ==
  ASSUME TypeOK, NEW h \in Hosts, LayoutInv(h), pc[h] \in Loaded \ {"constants"},
         NEW n \in 1 .. NumConstants(h)
  PROVE  /\ Word(ConstantsAt(h), n) \in 1 .. DdrBase - 1
         /\ Word(ConstantsAt(h), n) < heap_cursor[h]
<1>1. NumConstants(h) \in Nat /\ ConstantsAt(h) \in Nat /\ heap_cursor[h] \in Nat
      /\ NumConstants(h) * WordSize \in Nat
  BY CallType
<1>2. /\ ConstantsAt(h) >= 1 /\ heap_cursor[h] \in 1 .. DdrBase
      /\ ConstantsAt(h) + NumConstants(h) * WordSize <= heap_cursor[h]
  BY <1>1 DEF LayoutInv, ConstantsInv, RequestInv
<1>3. Word(ConstantsAt(h), n) \in ConstantsAt(h) .. ConstantsAt(h) + NumConstants(h) * WordSize - 1
  BY <1>1, Words
<1> QED BY <1>1, <1>2, <1>3, Sizes

LEMMA LowTables ==
  ASSUME TypeOK, NEW h \in Hosts, LayoutInv(h), pc[h] \in {"local", "bindings", "run", "wait"},
         NEW n \in 1 .. NumBindings(h)
  PROVE  /\ Word(PtrsAt(h), n) \in 1 .. DdrBase - 1 /\ Word(LengthsAt(h), n) \in 1 .. DdrBase - 1
         /\ Word(PtrsAt(h), n) < heap_cursor[h] /\ Word(LengthsAt(h), n) < heap_cursor[h]
         /\ \A m \in 1 .. NumBindings(h) :
              /\ Word(PtrsAt(h), n) < Word(LengthsAt(h), m)
              /\ m # n => Word(PtrsAt(h), m) # Word(PtrsAt(h), n)
              /\ m # n => Word(LengthsAt(h), m) # Word(LengthsAt(h), n)
         /\ \A m \in 1 .. NumConstants(h) :
              Word(ConstantsAt(h), m) < Word(PtrsAt(h), n)
<1>1. /\ NumBindings(h) \in Nat /\ PtrsAt(h) \in Nat /\ LengthsAt(h) \in Nat
      /\ heap_cursor[h] \in Nat /\ NumBindings(h) * WordSize \in Nat
      /\ NumConstants(h) \in Nat /\ ConstantsAt(h) \in Nat /\ NumConstants(h) * WordSize \in Nat
  BY CallType
<1>2. /\ PtrsAt(h) >= 1 /\ heap_cursor[h] \in 1 .. DdrBase
      /\ NumConstants(h) # 0 => ConstantsAt(h) + NumConstants(h) * WordSize <= PtrsAt(h)
      /\ PtrsAt(h) + NumBindings(h) * WordSize <= LengthsAt(h)
      /\ LengthsAt(h) + NumBindings(h) * WordSize <= heap_cursor[h]
  BY <1>1 DEF LayoutInv, TablesInv, RequestInv, Loaded
<1>3. \A m \in 1 .. NumBindings(h) :
        /\ Word(PtrsAt(h), m) \in PtrsAt(h) .. PtrsAt(h) + NumBindings(h) * WordSize - 1
        /\ Word(LengthsAt(h), m) \in LengthsAt(h) .. LengthsAt(h) + NumBindings(h) * WordSize - 1
  BY <1>1, Words
<1>4. \A m \in 1 .. NumConstants(h) :
        Word(ConstantsAt(h), m)
          \in ConstantsAt(h) .. ConstantsAt(h) + NumConstants(h) * WordSize - 1
  BY <1>1, Words
<1>5. \A m \in 1 .. NumBindings(h) :
        /\ m # n => Word(PtrsAt(h), m) # Word(PtrsAt(h), n)
        /\ m # n => Word(LengthsAt(h), m) # Word(LengthsAt(h), n)
  BY <1>1, Words
<1>6. /\ Word(PtrsAt(h), n) \in 1 .. DdrBase - 1 /\ Word(LengthsAt(h), n) \in 1 .. DdrBase - 1
      /\ Word(PtrsAt(h), n) < heap_cursor[h] /\ Word(LengthsAt(h), n) < heap_cursor[h]
  BY <1>1, <1>2, <1>3, Sizes
<1>7. \A m \in 1 .. NumBindings(h) : Word(PtrsAt(h), n) < Word(LengthsAt(h), m)
  BY <1>1, <1>2, <1>3
<1>8. \A m \in 1 .. NumConstants(h) : Word(ConstantsAt(h), m) < Word(PtrsAt(h), n)
  BY <1>1, <1>2, <1>3, <1>4
<1> QED BY <1>5, <1>6, <1>7, <1>8

\* Outside of the stages there is nothing to keep.
LEMMA LayoutIdle ==
  ASSUME NEW h \in Hosts, pc'[h] \notin Loaded
  PROVE  LayoutInv(h)'
BY DEF LayoutInv, RequestInv, ConstantsInv, TablesInv, BindingsInv, Loaded

\* From the last binding on, the tables and constants stay, and the bindings
\* until a workgroup has run.
LEMMA LayoutKept ==
  ASSUME TypeOK, NEW h \in Hosts, LayoutInv(h),
         UNCHANGED <<request, call, heap_cursor, ddr_cursor, k, code, before>>,
         pc[h] \in {"bindings", "run", "wait"}, pc'[h] \in {"run", "wait"},
         k[h] = NumBindings(h) + 1,
         \A a \in 1 .. DdrBase - 1 : mem'[a] = mem[a],
         pc'[h] # "wait" \/ log' = <<>> => mem' = mem /\ (pc[h] # "wait" \/ log = <<>>)
  PROVE  LayoutInv(h)'
<1>0. pc[h] \in Loaded \ {"constants"} /\ pc'[h] \in Loaded
  BY DEF Loaded
<1>1. /\ NumConstants(h)' = NumConstants(h) /\ NumBindings(h)' = NumBindings(h)
      /\ ConstantsAt(h)' = ConstantsAt(h) /\ PtrsAt(h)' = PtrsAt(h)
      /\ LengthsAt(h)' = LengthsAt(h) /\ Bindings(h)' = Bindings(h)
  BY DEF NumConstants, NumBindings, ConstantsAt, PtrsAt, LengthsAt, Bindings
<1>2. RequestInv(h)'
  BY <1>0, <1>1 DEF LayoutInv, RequestInv
<1>3. ConstantsInv(h)'
  <2>1. \A n \in 1 .. NumConstants(h) : Word(ConstantsAt(h), n) \in 1 .. DdrBase - 1
    BY <1>0, LowConstants
  <2> QED BY <1>0, <1>1, <2>1 DEF LayoutInv, ConstantsInv, Word
<1>4. TablesInv(h)'
  BY <1>1 DEF LayoutInv, TablesInv
<1>5. \A n \in 1 .. NumBindings(h) :
        /\ Word(PtrsAt(h), n) \in 1 .. DdrBase - 1 /\ Word(LengthsAt(h), n) \in 1 .. DdrBase - 1
  BY LowTables
<1>6. BindingsInv(h) /\ k[h] \in Nat /\ NumBindings(h) \in Nat
  BY CallType DEF LayoutInv
<1>7. ASSUME NEW n \in 1 .. NumBindings(h) PROVE PlaceInv(h, n)'
  <2>1. PlaceInv(h, n)
    BY <1>6, <1>7 DEF BindingsInv
  <2>2. Place(h, n)' = Place(h, n) /\ mem'[Word(LengthsAt(h), n)] = mem[Word(LengthsAt(h), n)]
    BY <1>1, <1>5 DEF Place, Word
  <2> QED BY <1>1, <2>1, <2>2 DEF PlaceInv, Word
<1>8. BindingsInv(h)'
  <2>1. \A n \in 1 .. k'[h] - 1 : PlaceInv(h, n)'
    BY <1>6, <1>7
  <2> QED BY <1>1, <1>6, <2>1 DEF BindingsInv
<1> QED BY <1>2, <1>3, <1>4, <1>8 DEF LayoutInv

LEMMA LoadElfLayout ==
  ASSUME TypeOK, NEW h \in Hosts, LoadElf(h)
  PROVE  LayoutInv(h)'
<1>1. pc \in [Hosts -> Labels] /\ request \in [Hosts -> Request] /\ heap_cursor \in [Hosts -> Nat]
  BY DEF TypeOK
<1>2. CASE ~ImageOf(h).abi_matches
  <2>1. pc'[h] = "done"
    BY <1>1, <1>2 DEF LoadElf, Finish, Goto
  <2> QED BY <2>1, LayoutIdle DEF Loaded
<1>3. CASE ImageOf(h).abi_matches
  <2> DEFINE r == [EmptyRequest EXCEPT
                     !.magic = TRUE, !.status = "READY",
                     !.workgroup_count = call[h].groups,
                     !.push_constant_count = Len(call[h].constants) % CountModulus,
                     !.binding_count = Len(Bindings(h)) % CountModulus,
                     !.ordinal = call[h].ordinal]
  <2>1. pc'[h] = "constants" /\ request' = [request EXCEPT ![h] = r]
    BY <1>1, <1>3 DEF LoadElf, Goto
  <2>2. code' = call[h].image /\ call' = call
        /\ heap_cursor' = [heap_cursor EXCEPT ![h] = ImageOf(h).heap_start]
    BY <1>3 DEF LoadElf, WriteSegments
  <2>3. /\ r.magic /\ r.status = "READY" /\ r.workgroup_count = call[h].groups
        /\ r.push_constant_count = Len(call[h].constants) % CountModulus
        /\ r.binding_count = Len(Bindings(h)) % CountModulus
    BY DEF EmptyRequest
  <2> HIDE DEF r
  <2>4. request'[h] = r /\ heap_cursor'[h] = ImageOf(h).heap_start
    BY <1>1, <2>1, <2>2
  <2>5. /\ Len(call[h].constants) % CountModulus = NumConstants(h)
        /\ Len(Bindings(h)) % CountModulus = NumBindings(h)
    BY CallType, DispatchType DEF NumConstants, NumBindings, Bindings
  <2>6. NumConstants(h)' = NumConstants(h) /\ NumBindings(h)' = NumBindings(h)
    BY <2>2 DEF NumConstants, NumBindings, Bindings
  <2>7. RequestInv(h)'
    BY <2>2, <2>3, <2>4, <2>5, <2>6, CallType DEF RequestInv
  <2> QED BY <2>1, <2>7 DEF LayoutInv, ConstantsInv, TablesInv, BindingsInv, Loaded
<1> QED BY <1>2, <1>3

\* What the request says does not change with an address.
LEMMA AddrKeeps ==
  ASSUME NEW r \in Request, NEW v \in Nat
  PROVE  /\ LET s == [r EXCEPT !.push_constants_addr = v]
            IN  /\ s.push_constants_addr = v /\ s.magic = r.magic /\ s.status = r.status
                /\ s.workgroup_count = r.workgroup_count
                /\ s.push_constant_count = r.push_constant_count
                /\ s.binding_count = r.binding_count
         /\ LET s == [r EXCEPT !.local_memory_addr = v]
            IN  /\ s.push_constants_addr = r.push_constants_addr
                /\ s.binding_ptrs_addr = r.binding_ptrs_addr
                /\ s.binding_lengths_addr = r.binding_lengths_addr
                /\ s.magic = r.magic /\ s.status = r.status
                /\ s.workgroup_count = r.workgroup_count
                /\ s.push_constant_count = r.push_constant_count
                /\ s.binding_count = r.binding_count
BY DEF Request

LEMMA TablesKeep ==
  ASSUME NEW r \in Request, NEW v \in Nat, NEW w \in Nat
  PROVE  LET s == [r EXCEPT !.binding_ptrs_addr = v, !.binding_lengths_addr = w]
         IN  /\ s.binding_ptrs_addr = v /\ s.binding_lengths_addr = w
             /\ s.push_constants_addr = r.push_constants_addr
             /\ s.magic = r.magic /\ s.status = r.status
             /\ s.workgroup_count = r.workgroup_count
             /\ s.push_constant_count = r.push_constant_count
             /\ s.binding_count = r.binding_count
BY DEF Request

LEMMA PutConstantsLayout ==
  ASSUME TypeOK, NEW h \in Hosts, LayoutInv(h), PutConstants(h)
  PROVE  LayoutInv(h)'
<1> DEFINE n == NumConstants(h)
           addr == AlignUp(heap_cursor[h], WordSize)
           r == [request[h] EXCEPT !.push_constants_addr = addr]
           cells == [a \in {Word(addr, m) : m \in 1 .. n} |->
                       call[h].constants[(a - addr) \div WordSize + 1]]
<1>1. pc \in [Hosts -> Labels] /\ request \in [Hosts -> Request] /\ heap_cursor \in [Hosts -> Nat]
  BY DEF TypeOK
<1>2. /\ pc[h] = "constants" /\ pc' = [pc EXCEPT ![h] = "tables"]
      /\ UNCHANGED <<call, code>>
      /\ n = 0 => UNCHANGED <<mem, request, heap_cursor>>
      /\ n # 0 => /\ addr + n * WordSize <= ImageOf(h).heap_end
                  /\ request' = [request EXCEPT ![h].push_constants_addr = addr]
                  /\ heap_cursor' = [heap_cursor EXCEPT ![h] = addr + n * WordSize]
                  /\ WriteMem(cells)
  BY DEF PutConstants, Goto, NumConstants
<1>3. /\ request[h] \in Request /\ n \in Nat /\ n * WordSize \in Nat
      /\ ImageOf(h).heap_end \in Nat /\ ImageOf(h).heap_end <= DdrBase
  BY CallType
<1>4. RequestInv(h) /\ pc[h] \in Loaded
  BY <1>2 DEF LayoutInv, Loaded
<1>5. heap_cursor[h] \in 1 .. DdrBase
  BY <1>4 DEF RequestInv
<1>6. addr \in Nat /\ addr >= heap_cursor[h]
  BY <1>5, Sizes, Aligned
<1>7. NumConstants(h)' = NumConstants(h) /\ NumBindings(h)' = NumBindings(h) /\ pc'[h] = "tables"
  BY <1>1, <1>2 DEF NumConstants, NumBindings, Bindings
<1>8. CASE n = 0
  <2>1. RequestInv(h)'
    BY <1>2, <1>4, <1>7, <1>8 DEF RequestInv, Loaded
  <2> QED BY <1>7, <1>8, <2>1 DEF LayoutInv, ConstantsInv, TablesInv, BindingsInv
<1>9. CASE n # 0
  <2>1. request'[h] = r /\ heap_cursor'[h] = addr + n * WordSize
    BY <1>1, <1>2, <1>9
  <2>2. /\ r.push_constants_addr = addr /\ r.magic = request[h].magic
        /\ r.status = request[h].status /\ r.workgroup_count = request[h].workgroup_count
        /\ r.push_constant_count = request[h].push_constant_count
        /\ r.binding_count = request[h].binding_count
    BY <1>3, <1>6, AddrKeeps
  <2>3. ASSUME NEW m \in 1 .. n PROVE mem'[Word(addr, m)] = call[h].constants[m]
    <3>1. /\ Word(addr, m) \in addr .. addr + n * WordSize - 1
          /\ (Word(addr, m) - addr) \div WordSize + 1 = m
      BY <1>3, <1>6, Words
    <3>2. Word(addr, m) \in Addr
      BY <1>2, <1>3, <1>5, <1>6, <1>9, <3>1, Sizes
    <3>3. Word(addr, m) \in DOMAIN cells /\ cells[Word(addr, m)] = call[h].constants[m]
      BY <3>1
    <3> HIDE DEF cells, n, addr
    <3> QED BY <1>2, <1>9, <3>2, <3>3, Written
  <2> HIDE DEF r, cells, addr, n
  <2>4. heap_cursor'[h] \in 1 .. DdrBase
    BY <1>2, <1>3, <1>5, <1>6, <1>9, <2>1, Sizes
  <2>5. RequestInv(h)'
    BY <1>2, <1>4, <1>7, <2>1, <2>2, <2>4 DEF RequestInv
  <2>6. ConstantsAt(h)' = addr
    BY <2>1, <2>2 DEF ConstantsAt
  <2>7. ConstantsInv(h)'
    <3>1. addr >= 1 /\ addr + n * WordSize <= heap_cursor'[h]
      BY <1>3, <1>5, <1>6, <2>1
    <3> QED BY <1>2, <1>7, <2>3, <2>6, <3>1 DEF ConstantsInv, n, Word
  <2> QED BY <1>7, <2>5, <2>7 DEF LayoutInv, TablesInv, BindingsInv
<1> QED BY <1>8, <1>9

LEMMA AllocateTablesLayout ==
  ASSUME TypeOK, NEW h \in Hosts, LayoutInv(h), AllocateTables(h)
  PROVE  LayoutInv(h)'
<1> DEFINE n == NumBindings(h)
           ptrs == AlignUp(heap_cursor[h], WordSize)
           lengths == LengthsAddr(ptrs, n)
           r == [request[h] EXCEPT !.binding_ptrs_addr = ptrs, !.binding_lengths_addr = lengths]
<1>1. pc \in [Hosts -> Labels] /\ request \in [Hosts -> Request] /\ heap_cursor \in [Hosts -> Nat]
  BY DEF TypeOK
<1>2. /\ pc[h] = "tables" /\ pc' = [pc EXCEPT ![h] = "local"]
      /\ UNCHANGED <<call, code, mem>>
      /\ n = 0 => UNCHANGED <<request, heap_cursor>>
      /\ n # 0 => /\ lengths + n * WordSize <= ImageOf(h).heap_end
                  /\ request' = [request EXCEPT ![h].binding_ptrs_addr = ptrs,
                                                ![h].binding_lengths_addr = lengths]
                  /\ heap_cursor' = [heap_cursor EXCEPT ![h] = lengths + n * WordSize]
  BY DEF AllocateTables, Goto, NumBindings, simVars
<1>3. /\ request[h] \in Request /\ n \in Nat /\ n * WordSize \in Nat
      /\ ImageOf(h).heap_end \in Nat /\ ImageOf(h).heap_end <= DdrBase
      /\ NumConstants(h) * WordSize \in Nat /\ ConstantsAt(h) \in Nat
  BY CallType
<1>4. RequestInv(h) /\ ConstantsInv(h) /\ pc[h] \in Loaded \ {"constants"}
  BY <1>2 DEF LayoutInv, Loaded
<1>5. heap_cursor[h] \in 1 .. DdrBase
  BY <1>4 DEF RequestInv
<1>6. ptrs \in Nat /\ ptrs >= heap_cursor[h]
  BY <1>5, Sizes, Aligned
<1>7. /\ NumConstants(h)' = NumConstants(h) /\ NumBindings(h)' = NumBindings(h)
      /\ pc'[h] = "local" /\ pc'[h] \in Loaded \ {"constants"}
  BY <1>1, <1>2 DEF NumConstants, NumBindings, Bindings, Loaded
<1>8. lengths \in Nat /\ lengths >= ptrs + n * WordSize
  <2> HIDE DEF n, ptrs
  <2>1. ptrs + n * WordSize \in Nat
    BY <1>3, <1>6
  <2> QED BY <2>1, Sizes, Aligned DEF LengthsAddr
<1>9. CASE n = 0
  <2>1. RequestInv(h)'
    BY <1>2, <1>4, <1>7, <1>9 DEF RequestInv
  <2>2. ConstantsInv(h)'
    BY <1>2, <1>4, <1>7, <1>9 DEF ConstantsInv, ConstantsAt, Word
  <2> QED BY <1>7, <1>9, <2>1, <2>2 DEF LayoutInv, TablesInv, BindingsInv
<1>10. CASE n # 0
  <2> HIDE DEF n, ptrs, lengths
  <2>1. request'[h] = r /\ heap_cursor'[h] = lengths + n * WordSize
    BY <1>1, <1>2, <1>10
  <2>2. /\ r.binding_ptrs_addr = ptrs /\ r.binding_lengths_addr = lengths
        /\ r.push_constants_addr = request[h].push_constants_addr /\ r.magic = request[h].magic
        /\ r.status = request[h].status /\ r.workgroup_count = request[h].workgroup_count
        /\ r.push_constant_count = request[h].push_constant_count
        /\ r.binding_count = request[h].binding_count
    BY <1>3, <1>6, <1>8, TablesKeep
  <2> HIDE DEF r
  <2>3. heap_cursor'[h] \in 1 .. DdrBase /\ heap_cursor'[h] >= heap_cursor[h]
    BY <1>2, <1>3, <1>5, <1>6, <1>8, <1>10, <2>1, Sizes
  <2>4. RequestInv(h)'
    BY <1>2, <1>4, <1>7, <2>1, <2>2, <2>3 DEF RequestInv
  <2>5. ConstantsAt(h)' = ConstantsAt(h) /\ PtrsAt(h)' = ptrs /\ LengthsAt(h)' = lengths
    BY <2>1, <2>2 DEF ConstantsAt, PtrsAt, LengthsAt
  <2>6. NumConstants(h) # 0 =>
          /\ ConstantsAt(h) >= 1
          /\ ConstantsAt(h) + NumConstants(h) * WordSize <= heap_cursor[h]
    BY <1>4 DEF ConstantsInv
  <2>7. ConstantsInv(h)'
    <3>1. NumConstants(h) # 0 =>
            ConstantsAt(h) + NumConstants(h) * WordSize <= heap_cursor'[h]
      BY <1>3, <1>5, <2>3, <2>6
    <3> QED BY <1>2, <1>4, <1>7, <2>5, <2>6, <3>1 DEF ConstantsInv, Word
  <2>8. TablesInv(h)'
    <3>1. /\ ptrs >= 1 /\ lengths + n * WordSize <= heap_cursor'[h]
          /\ ptrs + n * WordSize <= lengths
      BY <1>3, <1>5, <1>6, <1>8, <2>1
    <3>2. NumConstants(h) # 0 => ConstantsAt(h) + NumConstants(h) * WordSize <= ptrs
      BY <1>3, <1>5, <1>6, <2>6
    <3> QED BY <1>7, <2>5, <3>1, <3>2 DEF TablesInv, n
  <2> QED BY <1>7, <2>4, <2>7, <2>8 DEF LayoutInv, BindingsInv
<1> QED BY <1>9, <1>10

LEMMA PutLocalMemoryLayout ==
  ASSUME TypeOK, NEW h \in Hosts, LayoutInv(h), PutLocalMemory(h)
  PROVE  LayoutInv(h)'
<1> DEFINE n == call[h].local_memory
           addr == AlignUp(heap_cursor[h], LocalAlign)
           r == [request[h] EXCEPT !.local_memory_addr = addr]
           cells == [a \in addr .. addr + n - 1 |-> 0]
<1>1. /\ pc \in [Hosts -> Labels] /\ request \in [Hosts -> Request]
      /\ heap_cursor \in [Hosts -> Nat] /\ ddr_cursor \in [Hosts -> Nat]
      /\ k \in [Hosts -> Nat \ {0}]
  BY DEF TypeOK
<1>2. /\ pc[h] = "local" /\ pc' = [pc EXCEPT ![h] = "bindings"]
      /\ UNCHANGED <<call, code, before>>
      /\ ddr_cursor' = [ddr_cursor EXCEPT ![h] = DdrBase] /\ k' = [k EXCEPT ![h] = 1]
      /\ n = 0 => UNCHANGED <<mem, request, heap_cursor>>
      /\ n # 0 => /\ addr + n <= ImageOf(h).heap_end
                  /\ request' = [request EXCEPT ![h].local_memory_addr = addr]
                  /\ heap_cursor' = [heap_cursor EXCEPT ![h] = addr + n]
                  /\ WriteMem(cells)
  BY DEF PutLocalMemory, Goto
<1>3. /\ request[h] \in Request /\ n \in Nat
      /\ ImageOf(h).heap_end \in Nat /\ ImageOf(h).heap_end <= DdrBase
      /\ NumConstants(h) * WordSize \in Nat /\ ConstantsAt(h) \in Nat
      /\ NumBindings(h) * WordSize \in Nat /\ PtrsAt(h) \in Nat /\ LengthsAt(h) \in Nat
      /\ NumConstants(h) \in Nat /\ NumBindings(h) \in Nat
  BY CallType
<1>4. RequestInv(h) /\ ConstantsInv(h) /\ TablesInv(h) /\ pc[h] \in Loaded \ {"constants"}
  BY <1>2 DEF LayoutInv, Loaded
<1>5. heap_cursor[h] \in 1 .. DdrBase
  BY <1>4 DEF RequestInv
<1>6. addr \in Nat /\ addr >= heap_cursor[h]
  BY <1>5, Sizes, Aligned
<1>7. /\ NumConstants(h)' = NumConstants(h) /\ NumBindings(h)' = NumBindings(h)
      /\ pc'[h] = "bindings" /\ pc'[h] \in Loaded \ {"constants"}
      /\ ddr_cursor'[h] = DdrBase /\ k'[h] = 1
  BY <1>1, <1>2 DEF NumConstants, NumBindings, Bindings, Loaded
<1>8. /\ heap_cursor'[h] \in 1 .. DdrBase /\ heap_cursor'[h] >= heap_cursor[h]
      /\ ConstantsAt(h)' = ConstantsAt(h) /\ PtrsAt(h)' = PtrsAt(h) /\ LengthsAt(h)' = LengthsAt(h)
      /\ request'[h].magic = request[h].magic /\ request'[h].status = request[h].status
      /\ request'[h].workgroup_count = request[h].workgroup_count
      /\ request'[h].push_constant_count = request[h].push_constant_count
      /\ request'[h].binding_count = request[h].binding_count
      /\ \A a \in 1 .. DdrBase - 1 : a < heap_cursor[h] => mem'[a] = mem[a]
  <2>1. CASE n = 0
    BY <1>2, <1>5, <2>1 DEF ConstantsAt, PtrsAt, LengthsAt
  <2>2. CASE n # 0
    <3>1. request'[h] = r /\ heap_cursor'[h] = addr + n
      BY <1>1, <1>2, <2>2
    <3>2. /\ r.push_constants_addr = request[h].push_constants_addr
          /\ r.binding_ptrs_addr = request[h].binding_ptrs_addr
          /\ r.binding_lengths_addr = request[h].binding_lengths_addr
          /\ r.magic = request[h].magic /\ r.status = request[h].status
          /\ r.workgroup_count = request[h].workgroup_count
          /\ r.push_constant_count = request[h].push_constant_count
          /\ r.binding_count = request[h].binding_count
      BY <1>3, <1>6, AddrKeeps
    <3>3. ASSUME NEW a \in 1 .. DdrBase - 1, a < heap_cursor[h] PROVE mem'[a] = mem[a]
      <4>1. a \notin DOMAIN cells /\ a \in Addr
        BY <1>5, <1>6, <3>3, Sizes
      <4> HIDE DEF cells
      <4> QED BY <1>2, <2>2, <4>1, Written
    <3> HIDE DEF r, cells, addr, n
    <3>4. heap_cursor'[h] \in 1 .. DdrBase /\ heap_cursor'[h] >= heap_cursor[h]
      BY <1>2, <1>3, <1>5, <1>6, <2>2, <3>1, Sizes
    <3> QED BY <3>1, <3>2, <3>3, <3>4 DEF ConstantsAt, PtrsAt, LengthsAt
  <2> QED BY <2>1, <2>2
<1> HIDE DEF n, addr, r, cells
<1>9. RequestInv(h)'
  BY <1>2, <1>4, <1>7, <1>8 DEF RequestInv
<1>10. ConstantsInv(h)'
  <2> SUFFICES ASSUME NumConstants(h) # 0
      PROVE  /\ ConstantsAt(h) >= 1
             /\ ConstantsAt(h) + NumConstants(h) * WordSize <= heap_cursor'[h]
             /\ \A m \in 1 .. NumConstants(h) :
                  mem'[Word(ConstantsAt(h), m)] = call[h].constants[m]
    BY <1>2, <1>7, <1>8 DEF ConstantsInv, Word
  <2>1. /\ ConstantsAt(h) >= 1
        /\ ConstantsAt(h) + NumConstants(h) * WordSize <= heap_cursor[h]
        /\ \A m \in 1 .. NumConstants(h) : mem[Word(ConstantsAt(h), m)] = call[h].constants[m]
    BY <1>4 DEF ConstantsInv
  <2>2. \A m \in 1 .. NumConstants(h) :
          /\ Word(ConstantsAt(h), m) \in 1 .. DdrBase - 1
          /\ Word(ConstantsAt(h), m) < heap_cursor[h]
    BY <1>4, LowConstants
  <2>3. ConstantsAt(h) + NumConstants(h) * WordSize <= heap_cursor'[h]
    BY <1>3, <1>5, <1>8, <2>1
  <2> QED BY <1>8, <2>1, <2>2, <2>3
<1>11. TablesInv(h)'
  <2> SUFFICES ASSUME NumBindings(h) # 0
      PROVE  /\ PtrsAt(h) >= 1
             /\ NumConstants(h) # 0 => ConstantsAt(h) + NumConstants(h) * WordSize <= PtrsAt(h)
             /\ PtrsAt(h) + NumBindings(h) * WordSize <= LengthsAt(h)
             /\ LengthsAt(h) + NumBindings(h) * WordSize <= heap_cursor'[h]
    BY <1>7, <1>8 DEF TablesInv
  <2>1. /\ PtrsAt(h) >= 1
        /\ NumConstants(h) # 0 => ConstantsAt(h) + NumConstants(h) * WordSize <= PtrsAt(h)
        /\ PtrsAt(h) + NumBindings(h) * WordSize <= LengthsAt(h)
        /\ LengthsAt(h) + NumBindings(h) * WordSize <= heap_cursor[h]
    BY <1>2, <1>4 DEF TablesInv
  <2> QED BY <1>3, <1>5, <1>8, <2>1
<1>12. BindingsInv(h)'
  <2>1. ddr_cursor'[h] \in DdrBase .. DdrLimit /\ k'[h] \in 1 .. NumBindings(h) + 1
    BY <1>3, <1>7, Sizes
  <2>2. \A m \in 1 .. k'[h] - 1 : PlaceInv(h, m)'
    BY <1>7
  <2> QED BY <1>7, <2>1, <2>2 DEF BindingsInv
<1> QED BY <1>9, <1>10, <1>11, <1>12 DEF LayoutInv

LEMMA PutBindingLayout ==
  ASSUME TypeOK, NEW h \in Hosts, LayoutInv(h), BufferInv(h), PutBinding(h)
  PROVE  LayoutInv(h)'
<1> DEFINE kk == k[h]
           b == Bindings(h)[kk]
           addr == AlignUp(ddr_cursor[h], BindingAlign)
           ptr == Word(PtrsAt(h), kk)
           len == Word(LengthsAt(h), kk)
           cells == [a \in {ptr, len} \cup addr .. addr + b.length - 1 |->
                       CASE a >= addr -> host[b.buffer][b.offset + (a - addr)]
                         [] a = ptr -> addr
                         [] OTHER -> b.length]
<1>1. k \in [Hosts -> Nat \ {0}] /\ ddr_cursor \in [Hosts -> Nat]
  BY DEF TypeOK
<1>2. /\ pc[h] = "bindings" /\ kk <= NumBindings(h) /\ addr + b.length <= DdrLimit
      /\ WriteMem(cells)
      /\ ddr_cursor' = [ddr_cursor EXCEPT ![h] = addr + b.length]
      /\ k' = [k EXCEPT ![h] = kk + 1]
      /\ UNCHANGED <<pc, call, request, heap_cursor, code, before>>
  BY DEF PutBinding, NumBindings, FitsDdr, AllocationEnd, PtrsAt, LengthsAt
<1>3. /\ RequestInv(h) /\ ConstantsInv(h) /\ TablesInv(h) /\ BindingsInv(h)
      /\ pc[h] \in Loaded \ {"constants"} /\ host = before[h]
  BY <1>2 DEF LayoutInv, Loaded, BufferInv
<1>4. kk \in 1 .. NumBindings(h) /\ NumBindings(h) \in Nat /\ NumConstants(h) \in Nat
  BY <1>1, <1>2, CallType
<1>5. b.length \in Nat /\ b.offset \in Nat
  BY <1>4, CallType
<1>6. ddr_cursor[h] \in DdrBase .. DdrLimit
  BY <1>2, <1>3 DEF BindingsInv
<1>7. addr \in Nat /\ addr >= ddr_cursor[h]
  BY <1>6, Sizes, Aligned
<1>8. addr \in DdrBase .. DdrLimit
  BY <1>2, <1>5, <1>6, <1>7, Sizes
<1>9. /\ NumConstants(h)' = NumConstants(h) /\ NumBindings(h)' = NumBindings(h)
      /\ ConstantsAt(h)' = ConstantsAt(h) /\ PtrsAt(h)' = PtrsAt(h)
      /\ LengthsAt(h)' = LengthsAt(h) /\ Bindings(h)' = Bindings(h)
      /\ ddr_cursor'[h] = addr + b.length /\ k'[h] = kk + 1
  BY <1>1, <1>2 DEF NumConstants, NumBindings, ConstantsAt, PtrsAt, LengthsAt, Bindings
<1>10. /\ ptr \in 1 .. DdrBase - 1 /\ len \in 1 .. DdrBase - 1 /\ ptr < len
       /\ \A m \in 1 .. NumConstants(h) :
            /\ Word(ConstantsAt(h), m) \in 1 .. DdrBase - 1
            /\ Word(ConstantsAt(h), m) < ptr
  BY <1>2, <1>3, <1>4, LowTables, LowConstants
<1>11. /\ cells[ptr] = addr /\ cells[len] = b.length
       /\ \A i \in 0 .. b.length - 1 : cells[addr + i] = before[h][b.buffer][b.offset + i]
       /\ DOMAIN cells = {ptr, len} \cup addr .. addr + b.length - 1
  <2> HIDE DEF ptr, len, addr, b
  <2>1. DOMAIN cells = {ptr, len} \cup addr .. addr + b.length - 1
    OBVIOUS
  <2>2. ~(ptr >= addr) /\ ~(len >= addr) /\ len # ptr
    BY <1>8, <1>10, Sizes
  <2>3. cells[ptr] = addr
    BY <2>2
  <2>4. cells[len] = b.length
    BY <2>2
  <2>5. ASSUME NEW i \in 0 .. b.length - 1
        PROVE  cells[addr + i] = before[h][b.buffer][b.offset + i]
    <3>1. addr + i \in addr .. addr + b.length - 1 /\ addr + i >= addr /\ (addr + i) - addr = i
      BY <1>5, <1>8, Sizes
    <3> DEFINE a == addr + i
    <3>2. a \in DOMAIN cells /\ a >= addr /\ a - addr = i
      BY <2>1, <3>1
    <3> HIDE DEF a
    <3>3. a # ptr
      BY <2>2, <3>2
    <3>4. cells[a] = host[b.buffer][b.offset + (a - addr)]
      BY <3>2, <3>3
    <3> QED BY <1>3, <3>2, <3>4 DEF a
  <2> QED BY <2>1, <2>3, <2>4, <2>5
<1> HIDE DEF cells, ptr, len, addr, b
<1>12. \A a \in Addr : a \notin {ptr, len} /\ ~(a \in addr .. addr + b.length - 1) => mem'[a] = mem[a]
  BY <1>2, <1>11, Written
<1>13. /\ mem'[ptr] = addr /\ mem'[len] = b.length
       /\ \A i \in 0 .. b.length - 1 : mem'[addr + i] = before[h][b.buffer][b.offset + i]
  <2>1. ptr \in Addr /\ len \in Addr /\ \A i \in 0 .. b.length - 1 : addr + i \in Addr
    BY <1>2, <1>5, <1>8, <1>10, Sizes
  <2>2. \A i \in 0 .. b.length - 1 : addr + i \in DOMAIN cells
    BY <1>5, <1>8, <1>11, Sizes
  <2> QED BY <1>2, <1>11, <2>1, <2>2, Written
<1>14. RequestInv(h)'
  BY <1>2, <1>3, <1>9 DEF RequestInv
<1>15. ConstantsInv(h)'
  <2>1. \A m \in 1 .. NumConstants(h) : mem'[Word(ConstantsAt(h), m)] = mem[Word(ConstantsAt(h), m)]
    <3> SUFFICES ASSUME NEW m \in 1 .. NumConstants(h)
                 PROVE  mem'[Word(ConstantsAt(h), m)] = mem[Word(ConstantsAt(h), m)]
      OBVIOUS
    <3> DEFINE c == Word(ConstantsAt(h), m)
    <3>1. c \in 1 .. DdrBase - 1 /\ c < ptr
      BY <1>10
    <3> HIDE DEF c
    <3>2. c \in Addr /\ c \notin {ptr, len} /\ ~(c \in addr .. addr + b.length - 1)
      BY <1>8, <1>10, <3>1, Sizes
    <3>3. mem'[c] = mem[c]
      BY <1>12, <3>2
    <3> QED BY <3>3 DEF c
  <2> QED BY <1>2, <1>3, <1>9, <2>1 DEF ConstantsInv, Word
<1>16. TablesInv(h)'
  BY <1>2, <1>3, <1>9 DEF TablesInv
<1>17. ASSUME NEW n, n = kk PROVE PlaceInv(h, n)'
  <2>1. Place(h, n)' = addr /\ mem'[Word(LengthsAt(h), n)'] = b.length
    BY <1>2, <1>9, <1>13, <1>17 DEF Place, Word, ptr, len
  <2>2. Bindings(h)'[n] = b
    BY <1>9, <1>17 DEF b
  <2>3. addr + b.length <= ddr_cursor'[h]
    BY <1>5, <1>7, <1>9
  <2> QED BY <1>2, <1>8, <1>9, <1>13, <2>1, <2>2, <2>3 DEF PlaceInv
<1>18. ASSUME NEW n \in 1 .. kk - 1 PROVE PlaceInv(h, n)'
  <2>1. PlaceInv(h, n) /\ n \in 1 .. NumBindings(h) /\ n # kk
    BY <1>2, <1>3, <1>4 DEF BindingsInv
  <2> DEFINE p == Word(PtrsAt(h), n)
             l == Word(LengthsAt(h), n)
             c == Bindings(h)[n]
  <2>2. /\ p \in 1 .. DdrBase - 1 /\ l \in 1 .. DdrBase - 1
        /\ p # ptr /\ l # len /\ p # len /\ l # ptr
    <3>1. /\ p \in 1 .. DdrBase - 1 /\ l \in 1 .. DdrBase - 1 /\ p < len
          /\ p # ptr /\ l # len
      BY <1>2, <1>4, <2>1, LowTables DEF ptr, len
    <3>2. ptr < l
      BY <1>2, <1>4, <2>1, LowTables DEF ptr
    <3> QED BY <1>10, <3>1, <3>2
  <2>3. /\ Place(h, n) \in DdrBase .. DdrLimit /\ Place(h, n) + c.length <= ddr_cursor[h]
        /\ mem[l] = c.length
        /\ \A i \in 0 .. c.length - 1 : mem[Place(h, n) + i] = before[h][c.buffer][c.offset + i]
    BY <1>2, <2>1 DEF PlaceInv
  <2>4. c.length \in Nat
    BY <2>1, CallType
  <2>5. Place(h, n)' = mem'[p] /\ Place(h, n) = mem[p] /\ l = Word(LengthsAt(h), n)'
    BY <1>2, <1>9 DEF Place, Word
  <2> HIDE DEF p, l, c
  <2>6. mem'[p] = mem[p] /\ mem'[l] = mem[l]
    <3>1. p \in Addr /\ l \in Addr
          /\ ~(p \in addr .. addr + b.length - 1) /\ ~(l \in addr .. addr + b.length - 1)
      BY <1>8, <2>2, Sizes
    <3> QED BY <1>12, <2>2, <3>1
  <2>7. ASSUME NEW i \in 0 .. c.length - 1
        PROVE  mem'[Place(h, n) + i] = before[h][c.buffer][c.offset + i]
    <3> DEFINE a == Place(h, n) + i
    <3>1. Place(h, n) \in Nat /\ a \in DdrBase .. DdrLimit - 1 /\ a < addr
      BY <1>6, <1>7, <2>3, <2>4, Sizes
    <3>2. mem[a] = before[h][c.buffer][c.offset + i]
      BY <2>3
    <3> HIDE DEF a
    <3>3. a \in Addr /\ a \notin {ptr, len} /\ ~(a \in addr .. addr + b.length - 1)
      BY <1>7, <1>10, <3>1, Sizes
    <3>4. mem'[a] = mem[a]
      BY <1>12, <3>3
    <3> QED BY <3>2, <3>4 DEF a
  <2>8. Place(h, n) + c.length <= addr + b.length
    BY <1>5, <1>6, <1>7, <2>3, <2>4, Sizes
  <2>9. PlaceInv(h, n)' = (/\ Place(h, n)' \in DdrBase .. DdrLimit
                           /\ Place(h, n)' + c.length <= ddr_cursor'[h]
                           /\ mem'[l] = c.length
                           /\ pc'[h] # "wait" \/ log' = <<>> =>
                                \A i \in 0 .. c.length - 1 :
                                  mem'[Place(h, n)' + i] = before'[h][c.buffer][c.offset + i])
    BY <1>9, <2>5 DEF PlaceInv, c
  <2> QED BY <1>2, <1>9, <2>3, <2>5, <2>6, <2>7, <2>8, <2>9
<1>19. BindingsInv(h)'
  <2>1. \A n \in 1 .. k'[h] - 1 : PlaceInv(h, n)'
    <3> SUFFICES ASSUME NEW n \in 1 .. k'[h] - 1 PROVE PlaceInv(h, n)'
      OBVIOUS
    <3>1. n = kk \/ n \in 1 .. kk - 1
      BY <1>4, <1>9
    <3> HIDE DEF kk
    <3>2. CASE n = kk
      BY <1>17, <3>2
    <3> QED BY <1>18, <3>1, <3>2
  <2>2. ddr_cursor'[h] \in DdrBase .. DdrLimit /\ k'[h] \in 1 .. NumBindings(h) + 1
    BY <1>2, <1>4, <1>5, <1>8, <1>9, Sizes
  <2> QED BY <1>2, <1>9, <2>1, <2>2 DEF BindingsInv
<1> QED BY <1>14, <1>15, <1>16, <1>19 DEF LayoutInv

-----------------------------------------------------------------------------
(***************************************************************************)
(* The core works on the request of the thread that waits.                 *)
(***************************************************************************)
LEMMA StatusKeeps ==
  ASSUME NEW r \in Request, NEW s \in Statuses, NEW rc \in Int
  PROVE  LET t == [r EXCEPT !.status = s, !.return_code = rc]
         IN  /\ t.magic = r.magic /\ t.workgroup_count = r.workgroup_count
             /\ t.push_constant_count = r.push_constant_count
             /\ t.binding_count = r.binding_count
             /\ t.push_constants_addr = r.push_constants_addr
             /\ t.binding_ptrs_addr = r.binding_ptrs_addr
             /\ t.binding_lengths_addr = r.binding_lengths_addr
BY DEF Request

LEMMA Working ==
  ASSUME OneThread, TypeOK, NEW h \in Hosts, LayoutInv(h), RunInv(h), Stepping
  PROVE  /\ pc[h] = "wait" /\ Box = ImageOf(h).request_addr /\ Box \in RequestAddrs
         /\ mailbox[Box] \in Request /\ mailbox[Box].workgroup_count = call[h].groups
         /\ mailbox[Box].push_constant_count = NumConstants(h)
         /\ mailbox[Box].binding_count = NumBindings(h)
         /\ mailbox[Box].push_constants_addr = ConstantsAt(h)
         /\ mailbox[Box].binding_ptrs_addr = PtrsAt(h)
         /\ mailbox[Box].binding_lengths_addr = LengthsAt(h)
<1>1. pc[h] = "wait" /\ pc[h] \in Loaded
  BY DEF Stepping, OneThread, Loaded
<1>2. RequestInv(h) /\ code = call[h].image
  BY <1>1 DEF LayoutInv, RequestInv
<1>3. Box = ImageOf(h).request_addr
  BY <1>2 DEF Box, ImageOf
<1>4. Box \in RequestAddrs /\ mailbox[Box] \in Request
  BY BoxType
<1> DEFINE r == mailbox[Box]
           s == r.status
           rc == r.return_code
<1>5. r = [request[h] EXCEPT !.status = s, !.return_code = rc]
  BY <1>1, <1>3 DEF RunInv, WaitInv, Answers
<1>6. request[h] \in Request /\ s \in Statuses /\ rc \in Int
  BY <1>4, CallType DEF Request
<1> HIDE DEF r, s, rc
<1>7. /\ r.workgroup_count = request[h].workgroup_count
      /\ r.push_constant_count = request[h].push_constant_count
      /\ r.binding_count = request[h].binding_count
      /\ r.push_constants_addr = request[h].push_constants_addr
      /\ r.binding_ptrs_addr = request[h].binding_ptrs_addr
      /\ r.binding_lengths_addr = request[h].binding_lengths_addr
  BY <1>5, <1>6, StatusKeeps
<1> QED BY <1>1, <1>2, <1>3, <1>4, <1>7 DEF r, RequestInv, ConstantsAt, PtrsAt, LengthsAt

\* The tables lead the core to where the host has put the bindings.
LEMMA BindingSeen ==
  ASSUME OneThread, TypeOK, NEW h \in Hosts, LayoutInv(h), RunInv(h), Stepping,
         NEW n \in 1 .. NumBindings(h)
  PROVE  /\ Peek(Word(mailbox[Box].binding_ptrs_addr, n)) = Place(h, n)
         /\ FwBinding(mailbox[Box], n) = Place(h, n) .. Place(h, n) + Bindings(h)[n].length - 1
         /\ Place(h, n) \in DdrBase .. DdrLimit
         /\ Place(h, n) + Bindings(h)[n].length <= DdrLimit
         /\ PlaceInv(h, n)
<1>1. /\ pc[h] = "wait" /\ mailbox[Box].binding_ptrs_addr = PtrsAt(h)
      /\ mailbox[Box].binding_lengths_addr = LengthsAt(h)
  BY Working
<1>2. Word(PtrsAt(h), n) \in Addr /\ Word(LengthsAt(h), n) \in Addr
  BY <1>1, LowTables, Sizes
<1>3. NumBindings(h) \in Nat /\ Bindings(h)[n].length \in Nat
  BY CallType
<1>4. PlaceInv(h, n) /\ ddr_cursor[h] \in DdrBase .. DdrLimit
  BY <1>1, <1>3 DEF LayoutInv, BindingsInv
<1>5. /\ Place(h, n) \in DdrBase .. DdrLimit /\ mem[Word(LengthsAt(h), n)] = Bindings(h)[n].length
      /\ Place(h, n) + Bindings(h)[n].length <= ddr_cursor[h]
  BY <1>4 DEF PlaceInv
<1>6. Place(h, n) + Bindings(h)[n].length <= DdrLimit
  BY <1>3, <1>4, <1>5, Sizes
<1>7. /\ Peek(Word(PtrsAt(h), n)) = Place(h, n)
      /\ Peek(Word(LengthsAt(h), n)) = Bindings(h)[n].length
  BY <1>2, <1>5 DEF Peek, Place
<1> QED BY <1>1, <1>4, <1>5, <1>6, <1>7 DEF FwBinding

LEMMA ConstantsSeen ==
  ASSUME OneThread, TypeOK, NEW h \in Hosts, LayoutInv(h), RunInv(h), Stepping
  PROVE  FwConstants(mailbox[Box]) = call[h].constants
<1>1. /\ pc[h] = "wait" /\ mailbox[Box].push_constants_addr = ConstantsAt(h)
      /\ mailbox[Box].push_constant_count = NumConstants(h) /\ pc[h] \in Loaded \ {"constants"}
  BY Working DEF Loaded
<1>2. \A n \in 1 .. NumConstants(h) : Peek(Word(ConstantsAt(h), n)) = call[h].constants[n]
  <2> SUFFICES ASSUME NEW n \in 1 .. NumConstants(h)
               PROVE  Peek(Word(ConstantsAt(h), n)) = call[h].constants[n]
    OBVIOUS
  <2>1. Word(ConstantsAt(h), n) \in Addr
    BY <1>1, LowConstants, Sizes
  <2>2. NumConstants(h) # 0
    BY CallType
  <2>3. mem[Word(ConstantsAt(h), n)] = call[h].constants[n]
    BY <1>1, <2>2 DEF LayoutInv, ConstantsInv
  <2> QED BY <2>1, <2>3 DEF Peek
<1>3. FwConstants(mailbox[Box]) = [n \in 1 .. NumConstants(h) |-> call[h].constants[n]]
  BY <1>1, <1>2 DEF FwConstants
<1>4. call[h].constants \in Seq(Int) /\ DOMAIN call[h].constants = 1 .. NumConstants(h)
  BY CallType, DispatchType DEF NumConstants
<1> QED BY <1>3, <1>4, OwnFunction

\* The first workgroup of a run reads what the host's buffers held.
LEMMA InputsSeen ==
  ASSUME OneThread, TypeOK, NEW h \in Hosts, LayoutInv(h), RunInv(h), Stepping, log = <<>>
  PROVE  FwInputs(mailbox[Box]) =
           [n \in DOMAIN Bindings(h) |-> Contents(before[h], Bindings(h)[n])]
<1> DEFINE r == mailbox[Box]
           seen(n) == LET cells == FwBinding(r, n)
                          first == Peek(Word(r.binding_ptrs_addr, n))
                      IN  [c \in {a - first : a \in cells} |-> Peek(first + c)]
<1>1. r.binding_count = NumBindings(h) /\ pc[h] = "wait"
  BY Working
<1>2. DOMAIN Bindings(h) = 1 .. NumBindings(h)
  BY CallType, DispatchType DEF NumBindings, Bindings
<1>3. ASSUME NEW n \in 1 .. NumBindings(h)
      PROVE  seen(n) = Contents(before[h], Bindings(h)[n])
  <2> DEFINE b == Bindings(h)[n]
             p == Place(h, n)
  <2>1. /\ Peek(Word(r.binding_ptrs_addr, n)) = p /\ FwBinding(r, n) = p .. p + b.length - 1
        /\ p \in DdrBase .. DdrLimit /\ p + b.length <= DdrLimit
        /\ \A i \in 0 .. b.length - 1 : mem[p + i] = before[h][b.buffer][b.offset + i]
    BY BindingSeen DEF PlaceInv
  <2>2. b.length \in Nat
    BY CallType
  <2> HIDE DEF b, p
  <2>3. seen(n) = [c \in {a - p : a \in p .. p + b.length - 1} |-> Peek(p + c)]
    BY <2>1
  <2>4. {a - p : a \in p .. p + b.length - 1} = 0 .. b.length - 1
    <3>1. p \in Nat
      BY <2>1, Sizes
    <3>2. ASSUME NEW i \in 0 .. b.length - 1
          PROVE  \E a \in p .. p + b.length - 1 : i = a - p
      BY <2>2, <3>1
    <3>3. ASSUME NEW a \in p .. p + b.length - 1 PROVE a - p \in 0 .. b.length - 1
      BY <2>2, <3>1
    <3> QED BY <3>2, <3>3
  <2>5. ASSUME NEW c \in 0 .. b.length - 1 PROVE Peek(p + c) = before[h][b.buffer][b.offset + c]
    <3>1. p + c \in Addr
      BY <2>1, <2>2, Sizes
    <3> QED BY <2>1, <3>1 DEF Peek
  <2> HIDE DEF seen
  <2> QED BY <2>3, <2>4, <2>5 DEF Contents, b
<1>4. FwInputs(r) = [n \in 1 .. NumBindings(h) |-> seen(n)]
  BY <1>1 DEF FwInputs
<1> HIDE DEF seen
<1> QED BY <1>2, <1>3, <1>4

\* Workgroups write nothing below DDR.
LEMMA FirmwareMemory ==
  ASSUME OneThread, TypeOK, NEW h \in Hosts, LayoutInv(h), RunInv(h), Firmware
  PROVE  /\ \A a \in 1 .. DdrBase - 1 : mem'[a] = mem[a]
         /\ pc[h] = "wait" /\ pc' = pc /\ call' = call /\ request' = request /\ run' = run
<1>1. Stepping /\ pc' = pc /\ call' = call /\ request' = request /\ run' = run
  BY DEF Firmware, FwMain, FwLookup, KernelReturns, KernelFails, KernelTraps, KernelSpins,
         FwComplete, hostSide, callVars, runVars
<1>2. pc[h] = "wait" /\ mailbox[Box].binding_count = NumBindings(h)
  BY <1>1, Working
<1>3. CASE mem' = mem
  BY <1>1, <1>2, <1>3
<1>4. CASE KernelReturns
  <2> DEFINE r == mailbox[Box]
             cells == [a \in UNION {FwBinding(r, n) :
                         n \in Images[code].outputs \cap 1 .. r.binding_count} |-> Token]
  <2>1. WriteMem(cells)
    BY <1>4 DEF KernelReturns
  <2>2. \A n \in 1 .. NumBindings(h) : \A a \in FwBinding(r, n) : ~(a < DdrBase)
    <3> SUFFICES ASSUME NEW n \in 1 .. NumBindings(h), NEW a \in FwBinding(r, n)
                 PROVE  ~(a < DdrBase)
      OBVIOUS
    <3>1. /\ FwBinding(r, n) = Place(h, n) .. Place(h, n) + Bindings(h)[n].length - 1
          /\ Place(h, n) \in DdrBase .. DdrLimit
      BY <1>1, BindingSeen
    <3>2. Bindings(h)[n].length \in Nat
      BY CallType
    <3> QED BY <3>1, <3>2, Sizes
  <2>3. \A a \in 1 .. DdrBase - 1 : a \notin DOMAIN cells /\ a \in Addr
    BY <1>2, <2>2, Sizes
  <2> HIDE DEF cells
  <2>4. \A a \in 1 .. DdrBase - 1 : mem'[a] = mem[a]
    BY <2>1, <2>3, Written
  <2> QED BY <1>1, <1>2, <2>4
<1>5. mem' = mem \/ KernelReturns
  BY DEF Firmware, FwMain, FwLookup, KernelFails, KernelTraps, KernelSpins, FwComplete
<1> QED BY <1>3, <1>4, <1>5

LEMMA LayoutStep ==
  ASSUME OneThread, TypeOK, NEW h \in Hosts, BufferInv(h), LayoutInv(h), RunInv(h), [Next]_vars
  PROVE  LayoutInv(h)'
<1>0. pc \in [Hosts -> Labels] /\ k[h] \in Nat /\ NumBindings(h) \in Nat
  BY CallType DEF TypeOK
<1>1. CASE UNCHANGED <<request, call, heap_cursor, ddr_cursor, k, code, before, pc, mem, log>>
  BY <1>1 DEF LayoutInv, RequestInv, ConstantsInv, TablesInv, BindingsInv, PlaceInv, Place,
              NumConstants, NumBindings, ConstantsAt, PtrsAt, LengthsAt, Bindings
<1>2. CASE UNCHANGED vars \/ FwMain \/ FwLookup \/ KernelFails \/ KernelTraps \/ KernelSpins
           \/ FwComplete
  BY <1>1, <1>2 DEF vars, FwMain, FwLookup, KernelFails, KernelTraps, KernelSpins, FwComplete,
     hostSide, callVars, runVars, simVars
<1>3. CASE KernelReturns
  <2>1. /\ \E e : log' = Append(log, e)
        /\ UNCHANGED <<request, call, heap_cursor, ddr_cursor, k, code, before, pc>>
    BY <1>3 DEF KernelReturns, hostSide, callVars
  <2>2. pc[h] = "wait" /\ \A a \in 1 .. DdrBase - 1 : mem'[a] = mem[a]
    BY <1>3, FirmwareMemory DEF Firmware
  <2>3. log' # <<>>
    BY <2>1 DEF TypeOK
  <2>4. k[h] = NumBindings(h) + 1
    BY <2>2 DEF LayoutInv, BindingsInv
  <2> QED BY <2>1, <2>2, <2>3, <2>4, LayoutKept
<1>4. CASE pc'[h] \in {"idle", "load", "readback", "done"}
  BY <1>4, LayoutIdle DEF Loaded
<1>5. CASE simulator_create(h) \/ LoadElfFails(h) \/ HeapExhausted(h) \/ BindingRefused(h)
           \/ Collect(h) \/ ReadBack(h) \/ ReadBackDone(h) \/ Return(h)
           \/ \E d \in Dispatches : Issue(h, d)
  <2>1. pc'[h] \in {"idle", "load", "readback", "done"}
    BY <1>0, <1>5 DEF simulator_create, LoadElfFails, HeapExhausted, BindingRefused, Collect,
       ReadBack, ReadBackDone, Return, Issue, Finish, Goto, callVars
  <2> QED BY <1>4, <2>1
<1>6. CASE LoadElf(h)
  BY <1>6, LoadElfLayout
<1>7. CASE PutConstants(h)
  BY <1>7, PutConstantsLayout
<1>8. CASE AllocateTables(h)
  BY <1>8, AllocateTablesLayout
<1>9. CASE PutLocalMemory(h)
  BY <1>9, PutLocalMemoryLayout
<1>10. CASE PutBinding(h)
  BY <1>10, PutBindingLayout
<1>11. CASE WriteRequest(h) \/ Run(h)
  <2>1. /\ pc[h] \in {"bindings", "run"} /\ pc'[h] \in {"run", "wait"}
        /\ pc[h] = "bindings" => k[h] > NumBindings(h)
        /\ UNCHANGED <<request, call, heap_cursor, ddr_cursor, k, code, before, mem>>
    BY <1>0, <1>11 DEF WriteRequest, Run, Goto, NumBindings
  <2>2. k[h] \in 1 .. NumBindings(h) + 1 /\ (pc[h] # "bindings" => k[h] = NumBindings(h) + 1)
    BY <2>1 DEF LayoutInv, BindingsInv
  <2>3. k[h] = NumBindings(h) + 1
    BY <1>0, <2>1, <2>2
  <2> QED BY <2>1, <2>3, LayoutKept
<1> QED BY <1>2, <1>3, <1>5, <1>6, <1>7, <1>8, <1>9, <1>10, <1>11, OneThreadStep
        DEF Host, Firmware

-----------------------------------------------------------------------------
(***************************************************************************)
(* The run: the loops go through the workgroups in row-major order.        *)
(***************************************************************************)
LEMMA LoopStarts ==
  ASSUME NEW g \in Nat \X Nat \X Nat, log' = <<>>, wg' = <<0, 0, 0>>
  PROVE  LoopInv(g)'
BY DEF LoopInv, Rank

LEMMA LoopStep ==
  ASSUME TypeOK, NEW g \in Nat \X Nat \X Nat, LoopInv(g), ~LoopDone(g), wg' = NextGroup(g),
         NEW e, e.id = wg, log' = Append(log, e)
  PROVE  LoopInv(g)'
<1> DEFINE N == Len(log)
<1>1. /\ wg \in Nat \X Nat \X Nat /\ wg[1] \in Nat /\ wg[2] \in Nat /\ wg[3] \in Nat
      /\ wg = <<wg[1], wg[2], wg[3]>> /\ g[1] \in Nat /\ g[2] \in Nat /\ g[3] \in Nat
  BY DEF TypeOK
<1>2. g[1] # 0 /\ g[2] # 0 /\ wg[3] < g[3]
  BY <1>1 DEF LoopDone
<1>3. wg[1] < g[1] /\ wg[2] < g[2] /\ N = Rank(wg, g)
  BY <1>2 DEF LoopInv
<1>4. N \in Nat /\ Len(log') = N + 1 /\ log'[N + 1] = e /\ \A n \in 1 .. N : log'[n] = log[n]
  BY DEF TypeOK
<1>5. \A n \in 1 .. N : log[n].id = RowMajor(n - 1, g)
  BY DEF LoopInv
<1> HIDE DEF N
<1>6. \A n \in 1 .. Len(log') : log'[n].id = RowMajor(n - 1, g)
  <2> SUFFICES ASSUME NEW n \in 1 .. N + 1 PROVE log'[n].id = RowMajor(n - 1, g)
    BY <1>4
  <2>1. CASE n \in 1 .. N
    BY <1>4, <1>5, <2>1
  <2>2. CASE n = N + 1
    <3>1. n - 1 = N
      BY <1>4, <2>2
    <3> QED BY <1>1, <1>3, <1>4, <2>2, <3>1, RankRow
  <2> QED BY <1>4, <2>1, <2>2
<1>7. /\ wg'[1] < g[1] /\ wg'[2] < g[2] /\ wg'[3] <= g[3]
      /\ wg'[3] = g[3] => wg'[1] = 0 /\ wg'[2] = 0
      /\ N + 1 = Rank(wg', g)
  <2>1. CASE wg[1] + 1 < g[1]
    <3>1. wg' = [wg EXCEPT ![1] = wg[1] + 1]
      BY <1>1, <2>1 DEF NextGroup
    <3>2. wg' = <<wg[1] + 1, wg[2], wg[3]>>
      BY <1>1, <3>1
    <3>3. N + 1 = Rank(wg', g)
      BY <1>1, <1>3, <3>2, RankNext
    <3> QED BY <1>1, <1>2, <1>3, <2>1, <3>2, <3>3
  <2>2. CASE wg[1] + 1 >= g[1] /\ wg[2] + 1 < g[2]
    <3>1. wg' = <<0, wg[2] + 1, wg[3]>>
      BY <1>1, <2>2 DEF NextGroup
    <3>2. N + 1 = Rank(wg', g)
      BY <1>1, <1>3, <2>2, <3>1, RankNext
    <3> QED BY <1>1, <1>2, <2>2, <3>1, <3>2
  <2>3. CASE wg[1] + 1 >= g[1] /\ wg[2] + 1 >= g[2]
    <3>1. wg' = <<0, 0, wg[3] + 1>>
      BY <1>1, <2>3 DEF NextGroup
    <3>2. N + 1 = Rank(wg', g)
      BY <1>1, <1>3, <2>3, <3>1, RankNext
    <3> QED BY <1>1, <1>2, <3>1, <3>2
  <2> QED BY <1>1, <2>1, <2>2, <2>3
<1> QED BY <1>2, <1>4, <1>6, <1>7 DEF LoopInv

LEMMA LoopEnds ==
  ASSUME TypeOK, NEW g \in Nat \X Nat \X Nat, LoopInv(g), LoopDone(g)
  PROVE  InRowMajorOrder(log, g)
<1>1. wg[1] \in Nat /\ wg[2] \in Nat /\ wg[3] \in Nat
      /\ g[1] \in Nat /\ g[2] \in Nat /\ g[3] \in Nat /\ Len(log) \in Nat
  BY DEF TypeOK
<1>2. Len(log) = g[1] * g[2] * g[3]
  <2>1. CASE g[1] = 0 \/ g[2] = 0
    <3>1. Len(log) = 0
      BY <2>1 DEF LoopInv
    <3>2. g[1] * g[2] = 0
      BY <1>1, <2>1
    <3> QED BY <1>1, <3>1, <3>2
  <2>2. CASE g[1] # 0 /\ g[2] # 0
    <3>1. wg[3] = g[3]
      BY <1>1, <2>2 DEF LoopDone, LoopInv
    <3>2. Len(log) = 0 + g[1] * (0 + g[2] * g[3])
      BY <2>2, <3>1 DEF LoopInv, Rank
    <3> QED BY <1>1, <3>2
  <2> QED BY <2>1, <2>2
<1> QED BY <1>2 DEF LoopInv, InRowMajorOrder, RowMajor

LEMMA AnswersSelf == ASSUME NEW q \in Request PROVE Answers(q, q)
BY DEF Answers, Request

Answer(r, s, rc) == [r EXCEPT !.return_code = rc, !.status = s]

LEMMA AnswersUpdated ==
  ASSUME NEW q \in Request, NEW r \in Request, Answers(r, q), NEW s \in Statuses, NEW rc \in Int
  PROVE  Answers(Answer(r, s, rc), q) /\ Answer(r, s, rc).status = s
<1> DEFINE a == r.status
           b == r.return_code
           t == [q EXCEPT !.status = s, !.return_code = rc]
<1>1. r = [q EXCEPT !.status = a, !.return_code = b]
  BY DEF Answers
<1> HIDE DEF a, b
<1>2. [r EXCEPT !.return_code = rc, !.status = s] = t
  BY <1>1 DEF Request
<1>3. t.status = s /\ t.return_code = rc
  BY DEF Request
<1>4. Answers(t, q)
  BY <1>3 DEF Answers
<1>5. Answer(r, s, rc) = t
  BY <1>2 DEF Answer
<1> HIDE DEF t
<1> QED BY <1>3, <1>4, <1>5

\* The core answers in the request of the call.
LEMMA BoxUpdated ==
  ASSUME OneThread, TypeOK, NEW h \in Hosts, LayoutInv(h), RunInv(h), Stepping,
         NEW s \in Statuses, NEW rc \in Int, UNCHANGED <<request, call>>,
         \/ mailbox' = [mailbox EXCEPT ![Box].return_code = rc, ![Box].status = s]
         \/ mailbox' = [mailbox EXCEPT ![Box].status = s, ![Box].return_code = rc]
  PROVE  LET box == mailbox'[ImageOf(h)'.request_addr]
         IN  Answers(box, request'[h]) /\ box.status = s
<1>1. /\ pc[h] = "wait" /\ Box = ImageOf(h).request_addr /\ Box \in RequestAddrs
      /\ mailbox[Box] \in Request
  BY Working
<1>2. ImageOf(h)' = ImageOf(h)
  BY DEF ImageOf
<1>3. Answers(mailbox[Box], request[h]) /\ request[h] \in Request
  BY <1>1, CallType DEF RunInv, WaitInv
<1>4. mailbox'[Box] = Answer(mailbox[Box], s, rc)
  <2> DEFINE r == mailbox[Box]
  <2>1. mailbox \in [RequestAddrs -> Request] /\ r \in Request
    BY <1>1 DEF TypeOK
  <2>2. \/ mailbox'[Box] = [r EXCEPT !.return_code = rc, !.status = s]
        \/ mailbox'[Box] = [r EXCEPT !.status = s, !.return_code = rc]
    BY <1>1, <2>1
  <2> HIDE DEF r
  <2>3. [r EXCEPT !.return_code = rc, !.status = s] = [r EXCEPT !.status = s, !.return_code = rc]
    BY <2>1 DEF Request
  <2> QED BY <2>2, <2>3 DEF Answer, r
<1>5. Answers(mailbox'[Box], request[h]) /\ mailbox'[Box].status = s
  BY <1>1, <1>3, <1>4, AnswersUpdated
<1> QED BY <1>1, <1>2, <1>5

\* A failure ends the run; it is not taken for a completion.
LEMMA FailRun ==
  ASSUME OneThread, TypeOK, NEW h \in Hosts, LayoutInv(h), RunInv(h), Stepping,
         NEW rc \in Int, UNCHANGED <<request, call, log, before, pc>>, fw' = "halted",
         mailbox' = [mailbox EXCEPT ![Box].return_code = rc, ![Box].status = "ERROR"]
  PROVE  RunInv(h)'
<1> DEFINE box == mailbox'[ImageOf(h)'.request_addr]
<1>1. pc[h] = "wait" /\ pc'[h] = "wait"
  BY Working
<1>2. "ERROR" \in Statuses
  BY DEF Statuses
<1>3. Answers(box, request'[h]) /\ box.status = "ERROR"
  BY <1>2, BoxUpdated
<1>4. SawInv(h)'
  BY <1>1 DEF RunInv, WaitInv, SawInv, Bindings
<1> QED BY <1>1, <1>3, <1>4 DEF RunInv, WaitInv

LEMMA FirmwareRun ==
  ASSUME OneThread, TypeOK, NEW h \in Hosts, LayoutInv(h), RunInv(h), Firmware
  PROVE  RunInv(h)'
<1> DEFINE box == mailbox'[ImageOf(h)'.request_addr]
<1>1. Stepping /\ UNCHANGED <<request, call, before, pc>>
  BY DEF Firmware, FwMain, FwLookup, KernelReturns, KernelFails, KernelTraps, KernelSpins,
         FwComplete, hostSide, callVars
<1>2. /\ pc[h] = "wait" /\ Box = ImageOf(h).request_addr
      /\ mailbox[Box].workgroup_count = call[h].groups
      /\ ImageOf(h)' = ImageOf(h) /\ pc'[h] = "wait" /\ Bindings(h)' = Bindings(h)
  BY <1>1, Working DEF ImageOf, Bindings
<1>3. WaitInv(h) /\ SawInv(h)
  BY <1>2 DEF RunInv, WaitInv
<1>4. call[h].groups \in Nat \X Nat \X Nat
  BY CallType, DispatchType
<1>5. SawInv(h)' \/ log' # log
  BY <1>1, <1>2, <1>3 DEF SawInv
<1>6. CASE FwMain
  <2> DEFINE e == RequestError(mailbox[Box])
  <2>1. log' = log
    BY <1>6 DEF FwMain, runVars
  <2>2. CASE e = 0
    <3> DEFINE rc == 0
    <3>1. /\ mailbox' = [mailbox EXCEPT ![Box].status = "RUNNING", ![Box].return_code = rc]
          /\ fw = "main" /\ fw' = "lookup"
      BY <1>6, <2>2 DEF FwMain, FailOr
    <3>2. "RUNNING" \in Statuses /\ rc \in Int
      BY DEF Statuses
    <3> HIDE DEF rc
    <3>3. Answers(box, request'[h]) /\ box.status = "RUNNING"
      BY <1>1, <3>1, <3>2, BoxUpdated
    <3>4. log' = <<>>
      BY <1>3, <2>1, <3>1 DEF WaitInv
    <3> QED BY <1>2, <1>5, <2>1, <3>1, <3>3, <3>4 DEF RunInv, WaitInv
  <2>3. CASE e # 0
    <3>1. /\ mailbox' = [mailbox EXCEPT ![Box].return_code = e, ![Box].status = "ERROR"]
          /\ fw' = "halted"
      BY <1>6, <2>3 DEF FwMain, FailOr
    <3>2. e \in Int
      BY DEF RequestError
    <3> HIDE DEF e
    <3> QED BY <1>1, <2>1, <3>1, <3>2, FailRun
  <2> QED BY <2>2, <2>3
<1>7. CASE FwLookup
  <2> DEFINE e == LookupError(Images[code], mailbox[Box].ordinal)
  <2>1. log' = log
    BY <1>7 DEF FwLookup, runVars
  <2>2. CASE e = 0
    <3>1. mailbox' = mailbox /\ fw = "lookup" /\ fw' = "loop" /\ wg' = <<0, 0, 0>>
      BY <1>7, <2>2 DEF FwLookup, FailOr
    <3>2. log' = <<>> /\ box.status = "RUNNING" /\ Answers(box, request'[h])
      BY <1>1, <1>2, <1>3, <2>1, <3>1 DEF WaitInv
    <3>3. LoopInv(call[h].groups)'
      BY <1>1, <1>4, <3>1, <3>2, LoopStarts DEF LoopInv
    <3> QED BY <1>2, <1>5, <2>1, <3>1, <3>2, <3>3 DEF RunInv, WaitInv
  <2>3. CASE e # 0
    <3>1. /\ mailbox' = [mailbox EXCEPT ![Box].return_code = e, ![Box].status = "ERROR"]
          /\ fw' = "halted"
      BY <1>7, <2>3 DEF FwLookup, FailOr
    <3>2. e \in Int
      BY DEF LookupError
    <3> HIDE DEF e
    <3> QED BY <1>1, <2>1, <3>1, <3>2, FailRun
  <2> QED BY <2>2, <2>3
<1>8. CASE KernelReturns
  <2> DEFINE e == [id |-> wg, constants |-> FwConstants(mailbox[Box]),
                   inputs |-> FwInputs(mailbox[Box])]
             g == call[h].groups
  <2>1. /\ mailbox' = mailbox /\ fw = "loop" /\ fw' = "loop" /\ log' = Append(log, e)
        /\ ~LoopDone(g) /\ wg' = NextGroup(g)
    BY <1>2, <1>8 DEF KernelReturns
  <2>2. box.status = "RUNNING" /\ Answers(box, request'[h]) /\ LoopInv(g)
    BY <1>1, <1>2, <1>3, <2>1 DEF WaitInv
  <2>3. e.id = wg /\ e.constants = call[h].constants
    BY <1>1, ConstantsSeen
  <2>4. log = <<>> => e.inputs =
          [n \in DOMAIN Bindings(h) |-> Contents(before[h], Bindings(h)[n])]
    BY <1>1, InputsSeen
  <2>5. /\ Len(log) \in Nat /\ DOMAIN log = 1 .. Len(log) /\ DOMAIN log' = 1 .. Len(log) + 1
        /\ log'[Len(log) + 1] = e /\ \A n \in 1 .. Len(log) : log'[n] = log[n]
        /\ log # <<>> => Len(log) # 0
        /\ log = <<>> => Len(log) = 0
    BY <2>1 DEF TypeOK
  <2> HIDE DEF e
  <2>6. \A d : d = g => LoopInv(d)'
    BY <1>4, <2>1, <2>2, <2>3, LoopStep
  <2>7. LoopInv(call[h].groups)'
    BY <1>1, <2>6
  <2>8. \A n \in DOMAIN log' : log'[n].constants = call[h].constants
    <3>1. \A n \in DOMAIN log : log[n].constants = call[h].constants
      BY <1>3 DEF SawInv
    <3>2. \A n \in DOMAIN log' : n = Len(log) + 1 \/ n \in 1 .. Len(log)
      BY <2>5
    <3> QED BY <2>3, <2>5, <3>1, <3>2
  <2>9. log'[1].inputs = [n \in DOMAIN Bindings(h) |-> Contents(before[h], Bindings(h)[n])]
    <3>1. CASE log = <<>>
      BY <2>4, <2>5, <3>1
    <3>2. CASE log # <<>>
      <4>1. log'[1] = log[1]
        BY <2>5, <3>2
      <4> QED BY <1>3, <3>2, <4>1 DEF SawInv
    <3> QED BY <3>1, <3>2
  <2>10. SawInv(h)'
    BY <1>1, <1>2, <2>8, <2>9 DEF SawInv, Contents
  <2> QED BY <1>2, <2>1, <2>2, <2>7, <2>10 DEF RunInv, WaitInv
<1>9. CASE KernelFails
  <2> DEFINE rc == 1
  <2>1. /\ mailbox' = [mailbox EXCEPT ![Box].return_code = rc, ![Box].status = "ERROR"]
        /\ fw' = "halted" /\ log' = log
    BY <1>9 DEF KernelFails, FailOr, runVars
  <2>2. rc \in Int
    OBVIOUS
  <2> HIDE DEF rc
  <2> QED BY <1>1, <2>1, <2>2, FailRun
<1>10. CASE KernelTraps \/ KernelSpins
  <2>1. mailbox' = mailbox /\ fw = "loop" /\ fw' \in {"halted", "spinning"} /\ log' = log
    BY <1>10 DEF KernelTraps, KernelSpins, AfterException, runVars
  <2>2. box.status = "RUNNING" /\ Answers(box, request'[h])
    BY <1>1, <1>2, <1>3, <2>1 DEF WaitInv
  <2> QED BY <1>2, <1>5, <2>1, <2>2 DEF RunInv, WaitInv
<1>11. CASE FwComplete
  <2> DEFINE rc == 0
  <2>1. /\ mailbox' = [mailbox EXCEPT ![Box].return_code = rc, ![Box].status = "COMPLETE"]
        /\ fw = "loop" /\ fw' = "halted" /\ log' = log /\ LoopDone(call[h].groups)
    BY <1>2, <1>11 DEF FwComplete, runVars
  <2>2. "COMPLETE" \in Statuses /\ rc \in Int
    BY DEF Statuses
  <2> HIDE DEF rc
  <2>3. Answers(box, request'[h]) /\ box.status = "COMPLETE"
    BY <1>1, <2>1, <2>2, BoxUpdated
  <2>4. InRowMajorOrder(log, call[h].groups)
    BY <1>3, <1>4, <2>1, LoopEnds DEF WaitInv
  <2>5. InRowMajorOrder(log, call[h].groups)'
    BY <1>1, <2>1, <2>4 DEF InRowMajorOrder
  <2> QED BY <1>2, <1>5, <2>1, <2>3, <2>5 DEF RunInv, WaitInv
<1> QED BY <1>6, <1>7, <1>8, <1>9, <1>10, <1>11 DEF Firmware

LEMMA RunStep ==
  ASSUME OneThread, TypeOK, NEW h \in Hosts, LayoutInv(h), RunInv(h), [Next]_vars
  PROVE  RunInv(h)'
<1>0. /\ pc \in [Hosts -> Labels] /\ result \in [Hosts -> Results]
      /\ mailbox \in [RequestAddrs -> Request] /\ ImageOf(h).request_addr \in RequestAddrs
      /\ request[h] \in Request
  BY CallType, DispatchType DEF TypeOK, ImageOf
<1>1. CASE UNCHANGED vars
  BY <1>1 DEF vars, simVars, callVars, runVars, RunInv, WaitInv, SawInv, LoopInv, LoopDone,
     InRowMajorOrder, ImageOf, Bindings, Contents
<1>2. CASE Firmware
  BY <1>2, FirmwareRun
<1>3. CASE pc'[h] \notin {"run", "wait", "readback"} /\ (pc'[h] = "done" => result'[h] # "OK")
  BY <1>3 DEF RunInv
<1>4. CASE simulator_create(h) \/ Return(h) \/ PutBinding(h)
           \/ PutConstants(h) \/ AllocateTables(h) \/ PutLocalMemory(h)
  <2>1. pc'[h] \notin {"run", "wait", "readback", "done"}
    BY <1>0, <1>4 DEF simulator_create, Return, PutConstants, AllocateTables, PutLocalMemory,
       PutBinding, Goto, callVars
  <2> QED BY <1>3, <2>1
<1>5. CASE LoadElf(h) \/ LoadElfFails(h) \/ HeapExhausted(h) \/ BindingRefused(h)
           \/ \E d \in Dispatches : Issue(h, d)
  <2>1. pc'[h] \in {"load", "constants", "done"} /\ (pc'[h] = "done" => result'[h] # "OK")
    BY <1>0, <1>5 DEF LoadElf, LoadElfFails, HeapExhausted, BindingRefused, Issue, Finish, Goto
  <2> QED BY <1>3, <2>1
<1>6. CASE WriteRequest(h)
  <2>1. /\ mailbox' = [mailbox EXCEPT ![ImageOf(h).request_addr] = request[h]]
        /\ pc'[h] = "run" /\ UNCHANGED <<call, request>>
    BY <1>0, <1>6 DEF WriteRequest, Goto
  <2>2. ImageOf(h)' = ImageOf(h)
    BY <2>1 DEF ImageOf
  <2> QED BY <1>0, <2>1, <2>2 DEF RunInv
<1>7. CASE Run(h)
  <2>1. /\ pc[h] = "run" /\ pc'[h] = "wait" /\ fw' = "main" /\ log' = <<>>
        /\ UNCHANGED <<call, request, mailbox, before>>
    BY <1>0, <1>7 DEF Run, Goto
  <2>2. mailbox'[ImageOf(h)'.request_addr] = request'[h]
    BY <2>1 DEF RunInv, ImageOf
  <2>3. request'[h] \in Request /\ request'[h].status = "READY"
    BY <1>0, <2>1 DEF LayoutInv, RequestInv, Loaded
  <2>4. Answers(request'[h], request'[h])
    BY <2>3, AnswersSelf
  <2>5. SawInv(h)'
    BY <2>1 DEF SawInv
  <2> QED BY <2>1, <2>2, <2>3, <2>4, <2>5 DEF RunInv, WaitInv
<1>8. CASE Collect(h)
  <2> DEFINE r == mailbox[ImageOf(h).request_addr]
  <2>1. pc[h] = "wait" /\ fw = "halted" /\ UNCHANGED <<call, log, before>>
    BY <1>8 DEF Collect, runVars
  <2>2. CASE Verdict(r) # "OK"
    <3>1. pc'[h] = "done" /\ result'[h] # "OK"
      BY <1>0, <1>8, <2>2 DEF Collect, Finish, Goto
    <3> QED BY <1>3, <3>1
  <2>3. CASE Verdict(r) = "OK"
    <3>1. pc'[h] = "readback"
      BY <1>0, <1>8, <2>3 DEF Collect, Goto
    <3>2. r.status = "COMPLETE"
      BY <2>3 DEF Verdict
    <3>3. InRowMajorOrder(log, call[h].groups) /\ SawInv(h)
      BY <2>1, <3>2 DEF RunInv, WaitInv
    <3>4. InRowMajorOrder(log, call[h].groups)' /\ SawInv(h)'
      BY <2>1, <3>3 DEF InRowMajorOrder, SawInv, Bindings, Contents
    <3> QED BY <3>1, <3>4 DEF RunInv
  <2> QED BY <2>2, <2>3
<1>9. CASE ReadBack(h) \/ ReadBackDone(h)
  <2>1. pc[h] = "readback" /\ pc'[h] \in {"readback", "done"} /\ UNCHANGED <<call, log, before>>
    BY <1>0, <1>9 DEF ReadBack, ReadBackDone, Finish, Goto, runVars
  <2>2. InRowMajorOrder(log, call[h].groups) /\ SawInv(h)
    BY <2>1 DEF RunInv
  <2>3. InRowMajorOrder(log, call[h].groups)' /\ SawInv(h)'
    BY <2>1, <2>2 DEF InRowMajorOrder, SawInv, Bindings, Contents
  <2> QED BY <2>1, <2>3 DEF RunInv
<1> QED BY <1>1, <1>2, <1>4, <1>5, <1>6, <1>7, <1>8, <1>9, OneThreadStep DEF Host

-----------------------------------------------------------------------------
(***************************************************************************)
(* The theorems.                                                           *)
(***************************************************************************)
LEMMA InitSInv == Init => SInv
<1> SUFFICES ASSUME Init PROVE SInv
  OBVIOUS
<1>1. TypeOK
  BY InitType
<1>2. \A h \in Hosts : pc[h] = "idle"
  BY DEF Init
<1>3. \A h \in Hosts : BufferInv(h) /\ ExceptionInv(h) /\ LayoutInv(h) /\ RunInv(h)
  BY <1>2 DEF BufferInv, ExceptionInv, LayoutInv, RunInv, RequestInv, ConstantsInv, TablesInv,
     BindingsInv, Loaded
<1> QED BY <1>1, <1>3 DEF SInv

LEMMA StepSInv == ASSUME OneThread, SInv, [Next]_vars PROVE SInv'
<1>1. TypeOK'
  <2>1. CASE UNCHANGED vars
    BY <2>1 DEF SInv, TypeOK, vars, simVars, callVars, runVars
  <2> QED BY <2>1, HostType, FirmwareType DEF SInv, Next
<1>2. ASSUME NEW h \in Hosts PROVE BufferInv(h)' /\ ExceptionInv(h)' /\ LayoutInv(h)' /\ RunInv(h)'
  BY BufferStep, ExceptionStep, LayoutStep, RunStep DEF SInv
<1> QED BY <1>1, <1>2 DEF SInv

\* One thread, one dispatch at a time: the inductive invariant.
THEOREM OneThreadInvariant == ASSUME OneThread PROVE Spec => []SInv
<1>1. SInv /\ [Next]_vars => SInv'
  BY StepSInv
<1> QED BY <1>1, InitSInv, PTL DEF Spec

\* With one thread, a dispatch that returns OK was executed: every workgroup
\* once, in row-major order, on this call's constants and buffer contents
\* (simulator_inline.c, the request round trip through coralnpu_main.c).
THEOREM OkDispatchesExecuted == ASSUME OneThread PROVE Spec => []OkMeansExecuted
<1>1. SInv => OkMeansExecuted
  BY DEF SInv, RunInv, SawInv, OkMeansExecuted
<1> QED BY <1>1, OneThreadInvariant, PTL

\* With one thread, host buffers change only where a dispatch that returns OK
\* may write them (simulator_inline.c, the read-back loop and every early return).
THEOREM OnlyResultsComeBack == ASSUME OneThread PROVE Spec => []OnlyResultsReachBuffers
<1>1. SInv => OnlyResultsReachBuffers
  BY DEF SInv, BufferInv, Confined, OnlyResultsReachBuffers
<1> QED BY <1>1, OneThreadInvariant, PTL

\* With one thread, an exception that simulator_run prints was taken in that run
\* (simulator_mpact.cpp reads words that only loading an image clears).
THEOREM ExceptionReportsAreFresh == ASSUME OneThread PROVE Spec => []ReportIsFresh
<1>1. SInv => ReportIsFresh
  BY DEF SInv, ExceptionInv, ReportIsFresh
<1> QED BY <1>1, OneThreadInvariant, PTL

-----------------------------------------------------------------------------
(***************************************************************************)
(* The results.  The second walk over the bindings finds each one where    *)
(* the first has put it.                                                   *)
(***************************************************************************)
HostTyped ==
  /\ DOMAIN host = DOMAIN BufferCells
  /\ \A name \in DOMAIN BufferCells : DOMAIN host[name] = DOMAIN BufferCells[name]

\* The bindings that the first walk has placed.
Placed(h) == IF pc[h] = "bindings" THEN 1 .. k[h] - 1 ELSE 1 .. NumBindings(h)

\* The cursor of a walk when it comes to a binding.
Cursor(h, n) == IF n = 1 THEN DdrBase ELSE Place(h, n - 1) + Bindings(h)[n - 1].length

WalkInv(h) ==
  /\ pc[h] \in {"bindings", "run", "wait", "readback"} =>
       \A n \in Placed(h) :
         /\ Place(h, n) = AlignUp(Cursor(h, n), BindingAlign)
         /\ Place(h, n) \in DdrBase .. DdrLimit
         /\ Place(h, n) + Bindings(h)[n].length <= DdrLimit
         /\ Bindings(h)[n].length # 0 => Bindings(h)[n].buffer # "null"
  /\ pc[h] \in {"bindings", "readback"} =>
       k[h] \in 1 .. NumBindings(h) + 1 /\ ddr_cursor[h] = Cursor(h, k[h])

Outputs(h) == ImageOf(h).outputs \cap 1 .. NumBindings(h)

\* What the workgroups have written is still in DDR.
OutputInv(h) ==
  pc[h] \in {"wait", "readback"} /\ log # <<>> =>
    \A n \in Outputs(h) : \A i \in 0 .. Bindings(h)[n].length - 1 : mem[Place(h, n) + i] = Token

\* A result is in its buffer.
Delivered(h, n) ==
  \A i \in 0 .. Bindings(h)[n].length - 1 :
    host[Bindings(h)[n].buffer][Bindings(h)[n].offset + i] = Token

DeliveredInv(h) ==
  /\ pc[h] = "readback" /\ log # <<>> =>
       \A n \in Outputs(h) : n < k[h] /\ Bindings(h)[n].writeable => Delivered(h, n)
  /\ pc[h] = "done" /\ result[h] = "OK" /\ log # <<>> =>
       \A n \in Outputs(h) : Bindings(h)[n].writeable => Delivered(h, n)

DInv ==
  /\ SInv /\ HostTyped
  /\ \A h \in Hosts : WalkInv(h) /\ OutputInv(h) /\ DeliveredInv(h)

LEMMA AnswersKeep ==
  ASSUME NEW q \in Request, NEW r \in Request, Answers(r, q)
  PROVE  r.binding_ptrs_addr = q.binding_ptrs_addr
<1> DEFINE s == r.status
           rc == r.return_code
<1>1. r = [q EXCEPT !.status = s, !.return_code = rc] /\ s \in Statuses /\ rc \in Int
  BY DEF Answers, Request
<1> HIDE DEF s, rc
<1> QED BY <1>1, StatusKeeps

\* The places stay while the table of addresses does.
LEMMA PlaceKept ==
  ASSUME TypeOK, NEW h \in Hosts, call' = call, PtrsAt(h)' = PtrsAt(h),
         \A n \in 1 .. NumBindings(h) : mem'[Word(PtrsAt(h), n)] = mem[Word(PtrsAt(h), n)]
  PROVE  /\ NumBindings(h)' = NumBindings(h) /\ Bindings(h)' = Bindings(h)
         /\ Outputs(h)' = Outputs(h)
         /\ \A n \in 1 .. NumBindings(h) : Place(h, n)' = Place(h, n)
         /\ \A n \in 1 .. NumBindings(h) + 1 : Cursor(h, n)' = Cursor(h, n)
<1>1. /\ NumBindings(h)' = NumBindings(h) /\ Bindings(h)' = Bindings(h)
      /\ Outputs(h)' = Outputs(h)
  BY DEF NumBindings, Bindings, Outputs, ImageOf
<1>2. \A n \in 1 .. NumBindings(h) : Place(h, n)' = Place(h, n)
  BY DEF Place, Word
<1>3. \A n \in 1 .. NumBindings(h) + 1 : Cursor(h, n)' = Cursor(h, n)
  <2> SUFFICES ASSUME NEW n \in 1 .. NumBindings(h) + 1 PROVE Cursor(h, n)' = Cursor(h, n)
    OBVIOUS
  <2>1. CASE n = 1
    BY <2>1 DEF Cursor
  <2>2. CASE n # 1
    <3>1. n - 1 \in 1 .. NumBindings(h)
      BY <2>2, CallType
    <3>2. Place(h, n - 1)' = Place(h, n - 1)
      BY <1>2, <3>1
    <3> QED BY <1>1, <2>2, <3>2 DEF Cursor
  <2> QED BY <2>1, <2>2
<1> QED BY <1>1, <1>2, <1>3

\* A walk that has come to its end, or that starts again.
LEMMA WalkKept ==
  ASSUME TypeOK, NEW h \in Hosts, WalkInv(h), call' = call, PtrsAt(h)' = PtrsAt(h),
         \A n \in 1 .. NumBindings(h) : mem'[Word(PtrsAt(h), n)] = mem[Word(PtrsAt(h), n)],
         pc[h] \in {"bindings", "run", "wait", "readback"},
         pc[h] = "bindings" => k[h] > NumBindings(h),
         pc'[h] \in {"run", "wait", "readback"},
         pc'[h] = "readback" => k'[h] \in 1 .. NumBindings(h) + 1 /\ ddr_cursor'[h] = Cursor(h, k'[h])
  PROVE  WalkInv(h)'
<1>1. /\ NumBindings(h)' = NumBindings(h) /\ Bindings(h)' = Bindings(h)
      /\ \A n \in 1 .. NumBindings(h) : Place(h, n)' = Place(h, n)
      /\ \A n \in 1 .. NumBindings(h) + 1 : Cursor(h, n)' = Cursor(h, n)
  BY PlaceKept
<1>2. NumBindings(h) \in Nat /\ k[h] \in Nat
  BY CallType
<1>3. Placed(h) = 1 .. NumBindings(h)
  <2>1. pc[h] = "bindings" => k[h] = NumBindings(h) + 1
    BY <1>2 DEF WalkInv
  <2> QED BY <1>2, <2>1 DEF Placed
<1>4. Placed(h)' = 1 .. NumBindings(h)
  BY <1>1 DEF Placed
<1>5. ASSUME NEW n \in 1 .. NumBindings(h)
      PROVE  /\ Place(h, n)' = AlignUp(Cursor(h, n)', BindingAlign)
             /\ Place(h, n)' \in DdrBase .. DdrLimit
             /\ Place(h, n)' + Bindings(h)'[n].length <= DdrLimit
             /\ Bindings(h)'[n].length # 0 => Bindings(h)'[n].buffer # "null"
  <2>1. n \in 1 .. NumBindings(h) + 1 /\ n \in Placed(h)
    BY <1>2, <1>3
  <2> QED BY <1>1, <2>1 DEF WalkInv
<1>6. pc'[h] = "readback" =>
        k'[h] \in 1 .. NumBindings(h)' + 1 /\ ddr_cursor'[h] = Cursor(h, k[h])'
  <2> SUFFICES ASSUME pc'[h] = "readback"
               PROVE  ddr_cursor'[h] = Cursor(h, k[h])'
    BY <1>1
  <2>1. \A m : m = k'[h] => ddr_cursor'[h] = Cursor(h, m)'
    BY <1>1
  <2> QED BY <2>1 DEF Cursor, Place, PtrsAt, Bindings, Word
<1> QED BY <1>4, <1>5, <1>6 DEF WalkInv, AlignUp

\* One more binding is placed.
LEMMA PutBindingWalk ==
  ASSUME TypeOK, NEW h \in Hosts, LayoutInv(h), WalkInv(h), PutBinding(h)
  PROVE  WalkInv(h)'
<1> DEFINE kk == k[h]
           b == Bindings(h)[kk]
           addr == AlignUp(ddr_cursor[h], BindingAlign)
           ptr == Word(PtrsAt(h), kk)
           len == Word(LengthsAt(h), kk)
           cells == [a \in {ptr, len} \cup addr .. addr + b.length - 1 |->
                       CASE a >= addr -> host[b.buffer][b.offset + (a - addr)]
                         [] a = ptr -> addr
                         [] OTHER -> b.length]
<1>1. k \in [Hosts -> Nat \ {0}] /\ ddr_cursor \in [Hosts -> Nat]
  BY DEF TypeOK
<1>2. /\ pc[h] = "bindings" /\ kk <= NumBindings(h) /\ addr + b.length <= DdrLimit
      /\ WriteMem(cells) /\ (b.length # 0 => b.buffer # "null")
      /\ ddr_cursor' = [ddr_cursor EXCEPT ![h] = addr + b.length]
      /\ k' = [k EXCEPT ![h] = kk + 1]
      /\ UNCHANGED <<pc, call, request>>
  BY DEF PutBinding, NumBindings, FitsDdr, AllocationEnd, PtrsAt, LengthsAt
<1>3. /\ ddr_cursor[h] \in DdrBase .. DdrLimit /\ ddr_cursor[h] = Cursor(h, kk)
      /\ Placed(h) = 1 .. kk - 1
  BY <1>2 DEF LayoutInv, BindingsInv, WalkInv, Placed
<1>4. kk \in 1 .. NumBindings(h) /\ NumBindings(h) \in Nat /\ b.length \in Nat
  BY <1>1, <1>2, CallType
<1>5. addr \in Nat /\ addr >= ddr_cursor[h]
  BY CallType, Sizes, Aligned
<1>6. addr \in DdrBase .. DdrLimit
  BY <1>2, <1>3, <1>4, <1>5, Sizes
<1>7. ptr \in 1 .. DdrBase - 1 /\ len \in 1 .. DdrBase - 1 /\ ptr < len
  BY <1>2, <1>4, LowTables
<1>8. /\ ddr_cursor'[h] = addr + b.length /\ k'[h] = kk + 1 /\ PtrsAt(h)' = PtrsAt(h)
      /\ NumBindings(h)' = NumBindings(h) /\ Bindings(h)' = Bindings(h) /\ pc'[h] = "bindings"
  BY <1>1, <1>2 DEF PtrsAt, NumBindings, Bindings
<1>9. DOMAIN cells = {ptr, len} \cup addr .. addr + b.length - 1 /\ cells[ptr] = addr
  <2> HIDE DEF ptr, len, addr, b
  <2>1. ~(ptr >= addr)
    BY <1>6, <1>7, Sizes
  <2> QED BY <2>1
<1> HIDE DEF cells
<1>10. mem'[ptr] = addr
  <2>1. ptr \in Addr /\ ptr \in DOMAIN cells
    BY <1>7, <1>9, Sizes
  <2> QED BY <1>2, <1>9, <2>1, Written
<1>11. ASSUME NEW n \in 1 .. kk - 1 PROVE Place(h, n)' = Place(h, n)
  <2> DEFINE p == Word(PtrsAt(h), n)
  <2>1. p \in 1 .. DdrBase - 1 /\ p # ptr /\ p < len
    <3>1. n \in 1 .. NumBindings(h) /\ n # kk
      BY <1>4
    <3> QED BY <1>2, <1>4, <3>1, LowTables
  <2> HIDE DEF p, ptr, len, addr, b
  <2>2. p \in Addr /\ p \notin DOMAIN cells
    BY <1>4, <1>6, <1>7, <1>9, <2>1, Sizes
  <2>3. mem'[p] = mem[p]
    BY <1>2, <2>2, Written
  <2> QED BY <1>8, <2>3 DEF Place, Word, p
<1>12. ASSUME NEW n, n = kk PROVE Place(h, n)' = addr
  BY <1>8, <1>10, <1>12 DEF Place, Word
<1> HIDE DEF ptr, len, addr
<1>13. ASSUME NEW n \in 1 .. kk PROVE Cursor(h, n)' = Cursor(h, n)
  <2>1. CASE n = 1
    BY <2>1 DEF Cursor
  <2>2. CASE n # 1
    <3>1. n - 1 \in 1 .. kk - 1
      BY <1>4, <2>2
    <3>2. Place(h, n - 1)' = Place(h, n - 1)
      BY <1>11, <3>1
    <3> QED BY <1>8, <2>2, <3>2 DEF Cursor
  <2> QED BY <2>1, <2>2
<1>14. Placed(h)' = 1 .. kk
  BY <1>4, <1>8 DEF Placed
<1>15. ASSUME NEW n \in 1 .. kk
       PROVE  /\ Place(h, n)' = AlignUp(Cursor(h, n)', BindingAlign)
              /\ Place(h, n)' \in DdrBase .. DdrLimit
              /\ Place(h, n)' + Bindings(h)'[n].length <= DdrLimit
              /\ Bindings(h)'[n].length # 0 => Bindings(h)'[n].buffer # "null"
  <2>1. CASE n = kk
    <3>1. Place(h, n)' = addr /\ Cursor(h, n)' = ddr_cursor[h] /\ Bindings(h)'[n] = b
      BY <1>3, <1>8, <1>12, <1>13, <2>1
    <3> QED BY <1>2, <1>6, <3>1 DEF addr
  <2>2. CASE n # kk
    <3>1. n \in 1 .. kk - 1
      BY <1>4, <2>2
    <3>2. /\ Place(h, n) = AlignUp(Cursor(h, n), BindingAlign)
          /\ Place(h, n) \in DdrBase .. DdrLimit
          /\ Place(h, n) + Bindings(h)[n].length <= DdrLimit
          /\ Bindings(h)[n].length # 0 => Bindings(h)[n].buffer # "null"
      BY <1>2, <1>3, <3>1 DEF WalkInv
    <3> QED BY <1>8, <1>11, <1>13, <3>1, <3>2
  <2> QED BY <2>1, <2>2
<1>16. ASSUME NEW n, n = kk + 1 PROVE Cursor(h, n)' = addr + b.length
  <2>1. n # 1 /\ n - 1 = kk
    BY <1>4, <1>16
  <2>2. Place(h, n - 1)' = addr
    BY <1>12, <2>1
  <2> QED BY <1>8, <2>1, <2>2 DEF Cursor
<1>17. ddr_cursor'[h] = Cursor(h, k[h])'
  <2>1. \A m : m = k'[h] => ddr_cursor'[h] = Cursor(h, m)'
    BY <1>8, <1>16
  <2> QED BY <2>1 DEF Cursor, Place, PtrsAt, Bindings, Word
<1>18. k'[h] \in 1 .. NumBindings(h)' + 1
  BY <1>4, <1>8
<1> QED BY <1>14, <1>15, <1>17, <1>18 DEF WalkInv, AlignUp

LEMMA WalkStep ==
  ASSUME OneThread, SInv, NEW h \in Hosts, WalkInv(h), [Next]_vars
  PROVE  WalkInv(h)'
<1>0. /\ TypeOK /\ LayoutInv(h) /\ RunInv(h)
      /\ pc \in [Hosts -> Labels] /\ k \in [Hosts -> Nat \ {0}] /\ ddr_cursor \in [Hosts -> Nat]
      /\ request \in [Hosts -> Request] /\ NumBindings(h) \in Nat
      /\ \A n \in 1 .. NumBindings(h) : Bindings(h)[n].length \in Nat
  BY CallType DEF SInv, TypeOK
<1>1. CASE UNCHANGED vars
  BY <1>1 DEF vars, simVars, callVars, WalkInv, Placed, Place, Cursor, NumBindings, Bindings,
     PtrsAt
<1>2. CASE pc'[h] \notin {"bindings", "run", "wait", "readback"}
  BY <1>2 DEF WalkInv
<1>3. CASE simulator_create(h) \/ LoadElf(h) \/ LoadElfFails(h) \/ HeapExhausted(h)
           \/ BindingRefused(h) \/ ReadBackDone(h) \/ Return(h)
           \/ PutConstants(h) \/ AllocateTables(h) \/ \E d \in Dispatches : Issue(h, d)
  <2>1. pc'[h] \notin {"bindings", "run", "wait", "readback"}
    BY <1>0, <1>3 DEF simulator_create, LoadElf, LoadElfFails, HeapExhausted, BindingRefused,
       ReadBackDone, Return, PutConstants, AllocateTables, Issue, Finish, Goto, callVars
  <2> QED BY <1>2, <2>1
<1>4. CASE Firmware
  <2>1. /\ \A a \in 1 .. DdrBase - 1 : mem'[a] = mem[a]
        /\ pc[h] = "wait" /\ pc' = pc /\ call' = call /\ request' = request
    BY <1>0, <1>4, FirmwareMemory
  <2>2. \A n \in 1 .. NumBindings(h) : Word(PtrsAt(h), n) \in 1 .. DdrBase - 1
    BY <1>0, <2>1, LowTables
  <2>3. PtrsAt(h)' = PtrsAt(h)
    BY <2>1 DEF PtrsAt
  <2> QED BY <1>0, <2>1, <2>2, <2>3, WalkKept
<1>5. CASE PutLocalMemory(h)
  <2>1. /\ pc'[h] = "bindings" /\ k'[h] = 1 /\ ddr_cursor'[h] = DdrBase /\ call' = call
    BY <1>0, <1>5 DEF PutLocalMemory, Goto
  <2>2. NumBindings(h)' = NumBindings(h) /\ Placed(h)' = {} /\ Cursor(h, k[h])' = DdrBase
    BY <2>1 DEF NumBindings, Bindings, Placed, Cursor
  <2> QED BY <1>0, <2>1, <2>2 DEF WalkInv
<1>6. CASE PutBinding(h)
  BY <1>0, <1>6, PutBindingWalk
<1>7. CASE WriteRequest(h) \/ Run(h)
  <2>1. /\ pc[h] \in {"bindings", "run"} /\ pc'[h] \in {"run", "wait"}
        /\ pc[h] = "bindings" => k[h] > NumBindings(h)
        /\ call' = call /\ request' = request /\ mem' = mem
    BY <1>0, <1>7 DEF WriteRequest, Run, Goto, NumBindings
  <2>2. PtrsAt(h)' = PtrsAt(h)
    BY <2>1 DEF PtrsAt
  <2> QED BY <1>0, <2>1, <2>2, WalkKept
<1>8. CASE Collect(h)
  <2> DEFINE r == mailbox[ImageOf(h).request_addr]
  <2>1. /\ pc[h] = "wait" /\ call' = call /\ mem' = mem
        /\ request' = [request EXCEPT ![h] = r] /\ pc'[h] \in {"readback", "done"}
        /\ pc'[h] = "readback" => k'[h] = 1 /\ ddr_cursor'[h] = DdrBase
    BY <1>0, <1>8 DEF Collect, Finish, Goto, simVars
  <2>2. r \in Request /\ request[h] \in Request
    BY <1>0, CallType, DispatchType DEF ImageOf, TypeOK
  <2>3. Answers(r, request[h])
    BY <1>0, <2>1 DEF RunInv, WaitInv
  <2> HIDE DEF r
  <2>4. PtrsAt(h)' = PtrsAt(h)
    <3>1. request'[h] = r
      BY <1>0, <2>1
    <3> QED BY <2>2, <2>3, <3>1, AnswersKeep DEF PtrsAt
  <2>5. CASE pc'[h] = "done"
    BY <1>2, <2>5
  <2>6. CASE pc'[h] = "readback"
    <3>1. k'[h] \in 1 .. NumBindings(h) + 1 /\ ddr_cursor'[h] = Cursor(h, k'[h])
      BY <1>0, <2>1, <2>6 DEF Cursor
    <3> QED BY <1>0, <2>1, <2>4, <2>6, <3>1, WalkKept
  <2> QED BY <2>1, <2>5, <2>6
<1>9. CASE ReadBack(h)
  <2> DEFINE kk == k[h]
             b == Bindings(h)[kk]
             addr == AlignUp(ddr_cursor[h], BindingAlign)
  <2>1. /\ pc[h] = "readback" /\ pc' = pc /\ call' = call /\ request' = request /\ mem' = mem
        /\ kk <= NumBindings(h) /\ k'[h] = kk + 1 /\ ddr_cursor'[h] = addr + b.length
    BY <1>0, <1>9 DEF ReadBack, ReadBackAddr, simVars, NumBindings
  <2>2. kk \in 1 .. NumBindings(h) /\ ddr_cursor[h] = Cursor(h, kk)
    BY <1>0, <2>1 DEF WalkInv
  <2>3. Place(h, kk) = addr
    BY <2>1, <2>2 DEF WalkInv, Placed
  <2> HIDE DEF addr, kk
  <2>4. kk + 1 # 1 /\ (kk + 1) - 1 = kk /\ kk + 1 \in 1 .. NumBindings(h) + 1
    BY <1>0, <2>2
  <2>5. Cursor(h, kk + 1) = addr + b.length
    BY <2>3, <2>4 DEF Cursor
  <2>6. k'[h] \in 1 .. NumBindings(h) + 1 /\ ddr_cursor'[h] = Cursor(h, k'[h])
    BY <2>1, <2>4, <2>5
  <2>7. PtrsAt(h)' = PtrsAt(h)
    BY <2>1 DEF PtrsAt
  <2> QED BY <1>0, <2>1, <2>6, <2>7, WalkKept
<1> QED BY <1>1, <1>3, <1>4, <1>5, <1>6, <1>7, <1>8, <1>9, OneThreadStep DEF Host

LEMMA OutputStep ==
  ASSUME OneThread, SInv, NEW h \in Hosts, OutputInv(h), [Next]_vars
  PROVE  OutputInv(h)'
<1>0. /\ TypeOK /\ LayoutInv(h) /\ RunInv(h)
      /\ pc \in [Hosts -> Labels] /\ request \in [Hosts -> Request] /\ NumBindings(h) \in Nat
      /\ \A n \in 1 .. NumBindings(h) : Bindings(h)[n].length \in Nat
  BY CallType DEF SInv, TypeOK
<1>1. CASE /\ mem' = mem /\ log' = log /\ run' = run /\ call' = call /\ PtrsAt(h)' = PtrsAt(h)
           /\ pc[h] \in {"wait", "readback"} \/ pc'[h] = pc[h]
  <2>1. /\ NumBindings(h)' = NumBindings(h) /\ Bindings(h)' = Bindings(h)
        /\ Outputs(h)' = Outputs(h)
        /\ \A n \in 1 .. NumBindings(h) : Place(h, n)' = Place(h, n)
    BY <1>0, <1>1, PlaceKept
  <2>2. Outputs(h) \subseteq 1 .. NumBindings(h)
    BY DEF Outputs
  <2>3. Token' = Token
    BY <1>1 DEF Token
  <2> QED BY <1>1, <2>1, <2>2, <2>3 DEF OutputInv
<1>2. CASE pc'[h] \notin {"wait", "readback"} \/ log' = <<>>
  BY <1>2 DEF OutputInv
<1>3. CASE UNCHANGED vars
  BY <1>1, <1>3 DEF vars, simVars, callVars, runVars, PtrsAt
<1>4. CASE Firmware
  <2>1. /\ \A a \in 1 .. DdrBase - 1 : mem'[a] = mem[a]
        /\ pc[h] = "wait" /\ pc' = pc /\ call' = call /\ request' = request /\ run' = run
    BY <1>0, <1>4, FirmwareMemory
  <2>2. PtrsAt(h)' = PtrsAt(h)
    BY <2>1 DEF PtrsAt
  <2>3. CASE mem' = mem /\ log' = log
    BY <1>1, <2>1, <2>2, <2>3
  <2>4. CASE KernelReturns
    <3> DEFINE r == mailbox[Box]
               outs == Images[code].outputs \cap 1 .. r.binding_count
               cells == [a \in UNION {FwBinding(r, n) : n \in outs} |-> Token]
    <3>1. Stepping /\ WriteMem(cells)
      BY <2>4 DEF KernelReturns
    <3>2. r.binding_count = NumBindings(h) /\ code = call[h].image
      BY <1>0, <2>1, <3>1, Working DEF LayoutInv, RequestInv, Loaded
    <3>3. outs = Outputs(h)
      BY <3>2 DEF Outputs, ImageOf
    <3>4. \A n \in 1 .. NumBindings(h) : Word(PtrsAt(h), n) \in 1 .. DdrBase - 1
      BY <1>0, <2>1, LowTables
    <3>5. /\ NumBindings(h)' = NumBindings(h) /\ Bindings(h)' = Bindings(h)
          /\ Outputs(h)' = Outputs(h)
          /\ \A n \in 1 .. NumBindings(h) : Place(h, n)' = Place(h, n)
      BY <1>0, <2>1, <2>2, <3>4, PlaceKept
    <3>6. ASSUME NEW n \in Outputs(h), NEW i \in 0 .. Bindings(h)[n].length - 1
          PROVE  mem'[Place(h, n) + i] = Token
      <4>1. n \in 1 .. NumBindings(h) /\ Bindings(h)[n].length \in Nat
        BY <1>0 DEF Outputs
      <4>2. /\ FwBinding(r, n) = Place(h, n) .. Place(h, n) + Bindings(h)[n].length - 1
            /\ Place(h, n) \in DdrBase .. DdrLimit
            /\ Place(h, n) + Bindings(h)[n].length <= DdrLimit
        BY <1>0, <3>1, <4>1, BindingSeen
      <4> DEFINE a == Place(h, n) + i
      <4>3. a \in FwBinding(r, n) /\ a \in Addr
        BY <4>1, <4>2, Sizes
      <4> HIDE DEF a
      <4>4. a \in DOMAIN cells /\ cells[a] = Token
        BY <3>3, <4>3
      <4> HIDE DEF cells
      <4>5. mem'[a] = Token
        BY <3>1, <4>3, <4>4, Written
      <4> QED BY <4>5 DEF a
    <3>7. Token' = Token /\ Outputs(h) \subseteq 1 .. NumBindings(h)
      BY <2>1 DEF Token, Outputs
    <3> HIDE DEF cells, outs, r
    <3> QED BY <3>5, <3>6, <3>7 DEF OutputInv
  <2>5. (mem' = mem /\ log' = log) \/ KernelReturns
    BY <1>4 DEF Firmware, FwMain, FwLookup, KernelFails, KernelTraps, KernelSpins, FwComplete,
       runVars
  <2> QED BY <2>3, <2>4, <2>5
<1>5. CASE Run(h)
  BY <1>2, <1>5 DEF Run
<1>6. CASE Collect(h)
  <2> DEFINE r == mailbox[ImageOf(h).request_addr]
  <2>1. /\ pc[h] = "wait" /\ call' = call /\ mem' = mem /\ log' = log /\ run' = run
        /\ request' = [request EXCEPT ![h] = r]
    BY <1>6 DEF Collect, simVars, runVars
  <2>2. r \in Request /\ request[h] \in Request
    BY <1>0, CallType, DispatchType DEF ImageOf, TypeOK
  <2>3. Answers(r, request[h])
    BY <1>0, <2>1 DEF RunInv, WaitInv
  <2> HIDE DEF r
  <2>4. PtrsAt(h)' = PtrsAt(h)
    <3>1. request'[h] = r
      BY <1>0, <2>1
    <3> QED BY <2>2, <2>3, <3>1, AnswersKeep DEF PtrsAt
  <2> QED BY <1>1, <2>1, <2>4
<1>7. CASE ReadBack(h)
  BY <1>1, <1>7 DEF ReadBack, simVars, runVars, PtrsAt
<1>8. CASE simulator_create(h) \/ LoadElf(h) \/ LoadElfFails(h) \/ HeapExhausted(h)
           \/ BindingRefused(h) \/ ReadBackDone(h) \/ Return(h) \/ PutLocalMemory(h)
           \/ PutBinding(h) \/ WriteRequest(h)
           \/ PutConstants(h) \/ AllocateTables(h) \/ \E d \in Dispatches : Issue(h, d)
  <2>1. pc'[h] \notin {"wait", "readback"}
    BY <1>0, <1>8 DEF simulator_create, LoadElf, LoadElfFails, HeapExhausted, BindingRefused,
       ReadBackDone, Return, PutConstants, AllocateTables, PutLocalMemory, PutBinding,
       WriteRequest, Issue, Finish, Goto, callVars
  <2> QED BY <1>2, <2>1
<1> QED BY <1>3, <1>4, <1>5, <1>6, <1>7, <1>8, OneThreadStep DEF Host

LEMMA HostTypedStep ==
  ASSUME HostTyped, [Next]_vars
  PROVE  HostTyped'
<1>1. host' = host \/ \E h \in Hosts : ReadBack(h)
  BY DEF vars, Next, Host, Firmware, simulator_create, Issue, LoadElf, LoadElfFails, PutConstants,
     AllocateTables, PutLocalMemory, HeapExhausted, PutBinding, BindingRefused, WriteRequest, Run,
     Collect, ReadBackDone, Return, FwMain, FwLookup, KernelReturns, KernelFails, KernelTraps,
     KernelSpins, FwComplete, hostSide
<1>2. CASE host' = host
  BY <1>2 DEF HostTyped
<1>3. ASSUME NEW h \in Hosts, ReadBack(h) PROVE HostTyped'
  <2>1. PICK name, f : host' = host \/ host' = [host EXCEPT ![name] = [c \in DOMAIN host[name] |-> f[c]]]
    <3> DEFINE b == Bindings(h)[k[h]]
               f == [c \in DOMAIN host[b.buffer] |->
                       IF c \in b.offset .. b.offset + b.length - 1
                       THEN Peek(ReadBackAddr(h) + (c - b.offset)) ELSE host[b.buffer][c]]
    <3>1. host' = host \/ host' = [host EXCEPT ![b.buffer] = f]
      BY <1>3 DEF ReadBack
    <3>2. f = [c \in DOMAIN host[b.buffer] |-> f[c]]
      OBVIOUS
    <3> HIDE DEF f, b
    <3> QED BY <3>1, <3>2
  <2> QED BY <2>1 DEF HostTyped
<1> QED BY <1>1, <1>2, <1>3

\* What reading one binding back does to a cell.
LEMMA ReadBackCell ==
  ASSUME NEW h \in Hosts, ReadBack(h), NEW name \in DOMAIN host, NEW c \in DOMAIN host[name]
  PROVE  LET b == Bindings(h)[k[h]]
         IN  host'[name][c] = IF ReadsBack(b) /\ name = b.buffer /\ c \in Covers(b)
                              THEN Peek(ReadBackAddr(h) + (c - b.offset)) ELSE host[name][c]
<1> DEFINE b == Bindings(h)[k[h]]
           f == [d \in DOMAIN host[b.buffer] |->
                   IF d \in Covers(b)
                   THEN Peek(ReadBackAddr(h) + (d - b.offset)) ELSE host[b.buffer][d]]
<1>1. host' = IF ReadsBack(b) THEN [host EXCEPT ![b.buffer] = f] ELSE host
  BY DEF ReadBack, Covers
<1>2. CASE ReadsBack(b) /\ name = b.buffer
  <2>1. host'[name] = f
    BY <1>1, <1>2
  <2>2. f[c] = IF c \in Covers(b) THEN Peek(ReadBackAddr(h) + (c - b.offset)) ELSE host[name][c]
    BY <1>2
  <2> QED BY <1>2, <2>1, <2>2
<1>3. CASE ReadsBack(b) /\ name # b.buffer
  <2> HIDE DEF f
  <2>1. host'[name] = host[name]
    BY <1>1, <1>3
  <2> QED BY <1>3, <2>1
<1>4. CASE ~ReadsBack(b)
  BY <1>1, <1>4
<1> QED BY <1>2, <1>3, <1>4

\* The second walk delivers the binding that it comes to, and leaves the ones
\* that it has delivered alone.
LEMMA ReadBackDelivers ==
  ASSUME WritesApart, HostTyped, TypeOK, NEW h \in Hosts, WalkInv(h), OutputInv(h),
         DeliveredInv(h), ReadBack(h), log # <<>>,
         NEW n \in Outputs(h), n <= k[h], Bindings(h)[n].writeable
  PROVE  \A i \in 0 .. Bindings(h)[n].length - 1 :
           host'[Bindings(h)[n].buffer][Bindings(h)[n].offset + i] = Token
<1> DEFINE kk == k[h]
           b == Bindings(h)[kk]
           d == Bindings(h)[n]
<1>1. pc[h] = "readback" /\ kk <= NumBindings(h) /\ NumBindings(h) \in Nat
      /\ call[h] \in Dispatches /\ DOMAIN Bindings(h) = 1 .. NumBindings(h)
      /\ Bindings(h) = call[h].bindings
  BY CallType, DispatchType DEF ReadBack, NumBindings, Bindings
<1>2. /\ kk \in 1 .. NumBindings(h) /\ n \in 1 .. NumBindings(h)
      /\ Placed(h) = 1 .. NumBindings(h) /\ ddr_cursor[h] = Cursor(h, kk)
  BY <1>1, CallType DEF WalkInv, Outputs, Placed
<1>3. ReadBackAddr(h) = Place(h, kk)
  BY <1>1, <1>2 DEF ReadBackAddr, WalkInv
<1>4. /\ d.length \in Nat /\ d.offset \in Nat /\ b.length \in Nat /\ b.offset \in Nat
      /\ d.buffer \in DOMAIN BufferCells \cup {"null"}
  <2>1. Bindings(h)[n] \in Binding
    BY <1>1, <1>2, DispatchType
  <2> QED BY <1>2, <2>1, CallType DEF Binding
<1> SUFFICES ASSUME NEW i \in 0 .. d.length - 1
             PROVE  host'[d.buffer][d.offset + i] = Token
  OBVIOUS
<1> DEFINE c == d.offset + i
<1>5. d.length # 0 /\ c \in Covers(d)
  BY <1>4 DEF Covers
<1>6. d.buffer # "null" /\ Place(h, n) \in DdrBase .. DdrLimit /\ Place(h, n) + d.length <= DdrLimit
  BY <1>1, <1>2, <1>5 DEF WalkInv
<1>7. d.buffer \in DOMAIN host /\ c \in DOMAIN host[d.buffer]
  <2>1. Covers(d) \subseteq DOMAIN BufferCells[d.buffer]
    BY <1>1, <1>2, <1>6 DEF WritesApart
  <2> QED BY <1>4, <1>5, <1>6, <2>1 DEF HostTyped
<1>8. host'[d.buffer][c] = IF ReadsBack(b) /\ d.buffer = b.buffer /\ c \in Covers(b)
                           THEN Peek(ReadBackAddr(h) + (c - b.offset)) ELSE host[d.buffer][c]
  BY <1>7, ReadBackCell
<1>9. CASE n = kk
  <2>1. ReadsBack(d) /\ d = b
    BY <1>5, <1>9 DEF ReadsBack
  <2>2. c - d.offset = i
    BY <1>4
  <2>3. host'[d.buffer][c] = Peek(Place(h, n) + i)
    BY <1>3, <1>5, <1>8, <1>9, <2>1, <2>2
  <2>4. Place(h, n) + i \in Addr
    BY <1>4, <1>6, Sizes
  <2>5. mem[Place(h, n) + i] = Token
    BY <1>1 DEF OutputInv
  <2> QED BY <2>3, <2>4, <2>5 DEF Peek
<1>10. CASE n # kk
  <2>1. n < kk
    BY <1>2, <1>10
  <2>2. host[d.buffer][c] = Token
    BY <1>1, <2>1 DEF DeliveredInv, Delivered
  <2>3. ~(ReadsBack(b) /\ d.buffer = b.buffer /\ c \in Covers(b))
    <3>1. b.writeable /\ d.buffer = b.buffer => Covers(d) \cap Covers(b) = {}
      BY <1>1, <1>2, <1>10 DEF WritesApart
    <3> QED BY <1>5, <3>1 DEF ReadsBack
  <2> HIDE DEF c, b, d
  <2>4. host'[d.buffer][c] = Token
    BY <1>8, <2>2, <2>3
  <2> QED BY <2>4 DEF c
<1> QED BY <1>9, <1>10

LEMMA DeliveredStep ==
  ASSUME OneThread, WritesApart, SInv, HostTyped, NEW h \in Hosts, WalkInv(h), OutputInv(h),
         DeliveredInv(h), [Next]_vars
  PROVE  DeliveredInv(h)'
<1>0. /\ TypeOK /\ LayoutInv(h) /\ RunInv(h) /\ NumBindings(h) \in Nat
      /\ pc \in [Hosts -> Labels] /\ result \in [Hosts -> Results]
      /\ k \in [Hosts -> Nat \ {0}]
  BY CallType DEF SInv, TypeOK
<1>1. CASE pc'[h] \notin {"readback", "done"} \/ (pc'[h] = "done" /\ result'[h] # "OK")
  BY <1>1 DEF DeliveredInv
<1>2. CASE UNCHANGED vars
  BY <1>2 DEF vars, simVars, callVars, runVars, DeliveredInv, Delivered, Outputs, Bindings,
     NumBindings, ImageOf, Token
<1>3. CASE Firmware
  <2>1. pc'[h] = "wait"
    BY <1>0, <1>3, FirmwareMemory
  <2> QED BY <1>1, <2>1
<1>4. CASE simulator_create(h) \/ LoadElf(h) \/ LoadElfFails(h) \/ HeapExhausted(h)
           \/ BindingRefused(h) \/ Return(h) \/ PutLocalMemory(h)
           \/ PutBinding(h) \/ WriteRequest(h) \/ Run(h)
           \/ PutConstants(h) \/ AllocateTables(h) \/ \E d \in Dispatches : Issue(h, d)
  <2>1. pc'[h] \notin {"readback", "done"} \/ (pc'[h] = "done" /\ result'[h] # "OK")
    BY <1>0, <1>4 DEF simulator_create, LoadElf, LoadElfFails, HeapExhausted, BindingRefused,
       Return, PutConstants, AllocateTables, PutLocalMemory, PutBinding, WriteRequest, Run,
       Issue, Finish, Goto, callVars
  <2> QED BY <1>1, <2>1
<1>5. CASE Collect(h)
  <2>1. \/ pc'[h] = "done" /\ result'[h] # "OK"
        \/ pc'[h] = "readback" /\ k'[h] = 1
    BY <1>0, <1>5 DEF Collect, Finish, Goto
  <2>2. CASE pc'[h] = "readback" /\ k'[h] = 1
    <3>1. Outputs(h)' \subseteq Nat \ {0}
      BY DEF Outputs
    <3> QED BY <2>2, <3>1 DEF DeliveredInv
  <2> QED BY <1>1, <2>1, <2>2
<1>6. CASE ReadBack(h)
  <2>1. /\ pc'[h] = "readback" /\ k'[h] = k[h] + 1 /\ log' = log /\ run' = run /\ call' = call
    BY <1>0, <1>6 DEF ReadBack, runVars
  <2>2. Outputs(h)' = Outputs(h) /\ Bindings(h)' = Bindings(h) /\ Token' = Token
        /\ Outputs(h) \subseteq Nat /\ k[h] \in Nat
    BY <1>0, <2>1 DEF Outputs, Bindings, Token, ImageOf, NumBindings
  <2>3. ASSUME log # <<>>, NEW n \in Outputs(h), n < k[h] + 1, Bindings(h)[n].writeable
        PROVE  Delivered(h, n)'
    <3>1. n <= k[h]
      BY <2>2, <2>3
    <3>2. \A i \in 0 .. Bindings(h)[n].length - 1 :
            host'[Bindings(h)[n].buffer][Bindings(h)[n].offset + i] = Token
      BY <1>0, <1>6, <2>3, <3>1, ReadBackDelivers
    <3> QED BY <2>2, <3>2 DEF Delivered
  <2> QED BY <2>1, <2>2, <2>3 DEF DeliveredInv
<1>7. CASE ReadBackDone(h)
  <2>1. /\ pc[h] = "readback" /\ k[h] > NumBindings(h) /\ pc'[h] = "done"
        /\ log' = log /\ run' = run /\ call' = call /\ host' = host
    BY <1>0, <1>7 DEF ReadBackDone, Finish, Goto, runVars, NumBindings
  <2>2. Outputs(h)' = Outputs(h) /\ Bindings(h)' = Bindings(h) /\ Token' = Token
    BY <2>1 DEF Outputs, Bindings, Token, ImageOf, NumBindings
  <2>3. \A n \in Outputs(h) : n < k[h]
    BY <1>0, <2>1 DEF Outputs
  <2>4. \A n \in Outputs(h) : Delivered(h, n)' = Delivered(h, n)
    BY <2>1, <2>2 DEF Delivered
  <2> QED BY <2>1, <2>2, <2>3, <2>4 DEF DeliveredInv
<1> QED BY <1>2, <1>3, <1>4, <1>5, <1>6, <1>7, OneThreadStep DEF Host

\* With one thread, and bindings that lie in their buffers and are written
\* apart, a dispatch that returns OK has left in the host's buffers what its
\* workgroups wrote (simulator_inline.c, the two walks over the bindings).
THEOREM OkDispatchesDeliver ==
  ASSUME OneThread, WritesApart PROVE Spec => []OkDeliversResults
<1>1. Init => DInv
  <2> SUFFICES ASSUME Init PROVE DInv
    OBVIOUS
  <2>1. HostTyped /\ \A h \in Hosts : pc[h] = "idle"
    BY DEF Init, HostTyped
  <2>2. \A h \in Hosts : WalkInv(h) /\ OutputInv(h) /\ DeliveredInv(h)
    BY <2>1 DEF WalkInv, OutputInv, DeliveredInv
  <2> QED BY <2>1, <2>2, InitSInv DEF DInv
<1>2. DInv /\ [Next]_vars => DInv'
  <2> SUFFICES ASSUME DInv, [Next]_vars PROVE DInv'
    OBVIOUS
  <2>1. ASSUME NEW h \in Hosts PROVE WalkInv(h)' /\ OutputInv(h)' /\ DeliveredInv(h)'
    BY WalkStep, OutputStep, DeliveredStep DEF DInv
  <2> QED BY <2>1, StepSInv, HostTypedStep DEF DInv
<1>3. DInv => OkDeliversResults
  <2> SUFFICES ASSUME DInv, NEW h \in Hosts, pc[h] = "done", result[h] = "OK", log # <<>>,
                      NEW n \in ImageOf(h).outputs \cap DOMAIN Bindings(h),
                      Bindings(h)[n].writeable
               PROVE  Contents(host, Bindings(h)[n])
                        = [c \in 0 .. Bindings(h)[n].length - 1 |-> Token]
    BY DEF OkDeliversResults
  <2>1. n \in Outputs(h)
    BY CallType, DispatchType DEF DInv, SInv, Outputs, NumBindings, Bindings
  <2>2. Delivered(h, n)
    BY <2>1 DEF DInv, DeliveredInv
  <2> QED BY <2>2 DEF Delivered, Contents
<1> QED BY <1>1, <1>2, <1>3, PTL DEF Spec
=============================================================================
