-------------------------- MODULE MCMatrixLowering --------------------------
(***************************************************************************)
(* Functions of one chain of every shape, with every kind of operands and  *)
(* transfers and inside tile loops; of two chains of the plain shapes in   *)
(* every order of their reads; and with more chains than tiles.            *)
(* Tiles have two rows and there are two of them.                          *)
(***************************************************************************)
EXTENDS MatrixLowering

MCAddresses == 0 .. 7
A == [base |-> 0, stride |-> 2, step |-> 0]
B == [base |-> 1, stride |-> 2, step |-> 0]
C == [base |-> 4, stride |-> 1, step |-> 0]

\* Tiles that a tile loop goes through: those of A and B, and those behind.
TA == [base |-> 0, stride |-> 2, step |-> 1]
TC == [base |-> 4, stride |-> 2, step |-> 1]

PlainMaps == << <<"m", "k">>, <<"k", "n">>, <<"m", "n">> >>
TransposedMaps == << <<"m", "k">>, <<"k", "n">>, <<"n", "m">> >>

\* Both operands of a contraction.  Its own operands have one type, so that one
\* that is extended goes with one that has the accumulator's type.
Input(ty, form) == [ty |-> ty, form |-> form]
Both(ty, form) == <<Input(ty, form), Input(ty, form)>>
Plain == Both("f32", "plain")
Kinds ==
  {Plain, Both("f32", "bcast"), Both("bf16", "plain"), Both("bf16", "sext"),
   Both("i8", "sext"), Both("i8", "zext"), <<Input("i8", "sext"), Input("i8", "zext")>>,
   <<Input("f32", "plain"), Input("bf16", "sext")>>,
   <<Input("bf16", "sext"), Input("f32", "plain")>>}

Contract(id, acc, kind) ==
  [k |-> "contract", id |-> id, acc |-> acc, p |-> id, lhs |-> kind[1], rhs |-> kind[2],
   kind |-> "add", accTy |-> AccType(kind[1].ty), maps |-> PlainMaps, reduction |-> "k",
   sizes |-> [d \in {"m", "n", "k"} |-> IF d = "k" THEN 1 ELSE NumRows]]
Read(id, ref) ==
  [k |-> "read", id |-> id, src |-> ref, rows |-> Rows, permuted |-> FALSE]
Write(id, val, ref) ==
  [k |-> "write", id |-> id, val |-> val, dst |-> ref, rows |-> Rows, permuted |-> FALSE,
   tile |-> TRUE]
Use(id, val) == [k |-> "use", id |-> id, val |-> val]
Other(id) == [k |-> "other", id |-> id, p |-> id]
Loop(id, trips, inits, body, yields) ==
  [k |-> "loop", id |-> id, trips |-> trips, inits |-> inits, body |-> body, yields |-> yields]

O(id) == <<"op", id>>
Iter(l, i) == <<"iter", l, i>>
Res(l, i) == <<"res", l, i>>

\* One chain from init to a write to ref, its operations numbered from o.
Straight(o, init, kind, ref) == <<Contract(o + 1, init, kind), Write(o + 9, O(o + 1), ref)>>
InLoop(o, trips, init, kind, ref) ==
  <<Loop(o + 5, trips, <<init>>, <<Contract(o + 1, Iter(o + 5, 1), kind)>>, <<O(o + 1)>>),
    Write(o + 9, Res(o + 5, 1), ref)>>

Shapes(init, kind) ==
  LET c1 == Contract(1, init, kind)
      i1 == Contract(1, Iter(5, 1), kind)
      l1 == Loop(5, 2, <<init>>, <<i1>>, <<O(1)>>)
      w1 == Write(9, O(1), B)
      wl == Write(9, Res(5, 1), B)
      one == {Straight(0, init, kind, B)} \cup {InLoop(0, t, init, kind, B) : t \in 0 .. 2}
      several ==
        {<<c1, Contract(2, O(1), kind), Write(9, O(2), B)>>,
         <<c1, Contract(2, O(1), Plain), Write(9, O(2), B)>>,
         <<Loop(5, 2, <<init>>, <<i1, Contract(2, O(1), kind)>>, <<O(2)>>), wl>>,
         <<c1, Loop(5, 2, <<O(1)>>, <<Contract(2, Iter(5, 1), kind)>>, <<O(2)>>), wl>>,
         <<l1, Contract(2, Res(5, 1), kind), Write(9, O(2), B)>>,
         <<l1, Loop(6, 2, <<Res(5, 1)>>, <<Contract(2, Iter(6, 1), kind)>>, <<O(2)>>),
           Write(9, Res(6, 1), B)>>}
      shared ==
        {<<c1, w1, Write(8, O(1), C)>>, <<c1, Use(7, O(1)), w1>>, <<c1, w1, Use(7, O(1))>>,
         <<l1, wl, Write(8, Res(5, 1), C)>>, <<l1, Use(7, Res(5, 1)), wl>>,
         <<c1, w1, Contract(2, O(1), kind), Write(8, O(2), C)>>,
         <<Loop(5, 2, <<init>>, <<i1, Use(7, O(1))>>, <<O(1)>>), wl>>,
         <<Loop(5, 2, <<init>>, <<Use(7, Iter(5, 1)), i1>>, <<O(1)>>), wl>>}
      carried ==
        {<<Loop(5, 2, <<init, FuncArg>>, <<i1, Other(3)>>, <<O(1), O(3)>>), wl>>,
         <<Loop(5, 2, <<FuncArg, init>>, <<Contract(1, Iter(5, 2), kind)>>, <<FuncArg, O(1)>>),
           Write(9, Res(5, 2), B), Use(7, Res(5, 1))>>,
         <<Loop(5, 2, <<init, init>>, <<Contract(1, Iter(5, 2), kind)>>, <<FuncArg, O(1)>>),
           Write(9, Res(5, 2), B)>>,
         <<Loop(5, 2, <<init, FuncArg>>, <<i1, Use(7, Iter(5, 2)), Other(3), Use(6, O(3))>>,
                <<O(1), FuncArg>>), wl, Use(8, Res(5, 2))>>,
         <<Loop(5, 2, <<init, init>>, <<i1, Contract(2, Iter(5, 2), kind)>>, <<O(1), O(2)>>),
           wl, Write(8, Res(5, 2), C)>>}
      outside ==
        {<<Other(1), w1>>, <<[w1 EXCEPT !.val = init]>>,
         <<c1, [w1 EXCEPT !.tile = FALSE]>>,
         <<[c1 EXCEPT !.maps = TransposedMaps], w1>>,
         <<Loop(5, 2, <<init>>, <<[i1 EXCEPT !.maps = TransposedMaps]>>, <<O(1)>>), wl>>,
         <<[c1 EXCEPT !.kind = "maxnumf"], w1>>,
         <<Loop(5, 2, <<init>>, <<[i1 EXCEPT !.kind = "maxnumf"]>>, <<O(1)>>), wl>>,
         <<c1, [w1 EXCEPT !.rows = {0}]>>, <<l1, [wl EXCEPT !.permuted = TRUE]>>,
         <<[c1 EXCEPT !.sizes["k"] = 2], w1>>,
         <<[c1 EXCEPT !.sizes["n"] = 1], w1>>,
         <<[c1 EXCEPT !.maps = << <<"m", "n">>, <<"k", "n">>, <<"m", "n">> >>], w1>>,
         <<Loop(5, 2, <<init>>, <<i1>>, <<FuncArg>>), wl>>,
         <<Loop(5, 2, <<init, init>>, <<>>, <<Iter(5, 2), Iter(5, 1)>>), wl>>,
         <<Loop(4, 2, <<init>>, <<Contract(3, Iter(4, 1), kind)>>, <<O(3)>>),
           Loop(5, 2, <<init>>, <<>>, <<Res(4, 1)>>), wl>>}
      inLoops ==
        {<<Loop(30, 2, <<>>, Straight(0, init, kind, r), <<>>)>> : r \in {A, TA, TC}} \cup
        {<<Loop(30, 2, <<>>, InLoop(0, 2, init, kind, r), <<>>)>> : r \in {A, TA, TC}} \cup
        {<<c1, Loop(30, 2, <<>>, <<w1>>, <<>>)>>,
         <<Loop(5, 2, <<init>>, <<i1, w1>>, <<O(1)>>)>>,
         <<Loop(5, 2, <<init>>, <<i1, Loop(30, 2, <<>>, <<Other(3), Use(7, O(3))>>, <<>>)>>,
                <<O(1)>>), wl>>,
         <<Loop(5, 2, <<init>>,
                <<i1, Contract(2, ZeroValue, kind), Write(8, O(2), C)>>, <<O(1)>>), wl>>,
         <<Loop(30, 2, <<init>>,
                <<Loop(5, 2, <<Iter(30, 1)>>, <<i1>>, <<O(1)>>)>>, <<Res(5, 1)>>),
           Write(9, Res(30, 1), B)>>,
         <<Loop(30, 2, <<FuncArg>>,
                <<Loop(5, 2, <<init, FuncArg>>, <<i1>>, <<O(1), Iter(30, 1)>>), wl,
                  Use(7, Res(5, 2))>>, <<FuncArg>>)>>}
  IN  one \cup several \cup shared \cup carried \cup outside \cup inLoops

Inits == {O(50), ZeroValue, ConstValue, FuncArg}

Singles ==
  {<<Read(50, A)>> \o s : s \in UNION {Shapes(i, k) : i \in Inits, k \in Kinds}}
    \cup {<<r>> \o s : r \in {[Read(50, A) EXCEPT !.permuted = TRUE],
                             [Read(50, A) EXCEPT !.rows = {1}]},
                       s \in Shapes(O(50), Plain)}
    \cup {<<Read(50, A), Write(51, FuncArg, r)>> \o s :
            r \in {A, C}, s \in Shapes(O(50), Plain)}

\* The usual form of a matmul: tile loops around the accumulating one, the tile
\* read and written in each iteration, with and without a write between.
Tiled ==
  {<<Loop(30, 2, <<>>, <<Read(50, TA)>> \o mid \o chain, <<>>)>> :
     mid \in {<<>>, <<Write(51, FuncArg, TA)>>, <<Write(51, FuncArg, TC)>>},
     chain \in {InLoop(0, 2, O(50), Plain, r) : r \in {TA, TC}}
                 \cup {Straight(0, O(50), Plain, r) : r \in {TA, TC}}}

\* Two chains that write and may read the same rows, each read directly before
\* its chain or all reads first.
Chain(o, form, init, kind, ref) ==
  IF form = "straight" THEN Straight(o, init, kind, ref) ELSE InLoop(o, 2, init, kind, ref)
PlainKinds == {Plain, Both("bf16", "plain"), Both("i8", "plain")}

Pairs ==
  {IF first THEN <<Read(50, A), Read(60, A)>> \o x \o y
            ELSE <<Read(50, A)>> \o x \o <<Read(60, A)>> \o y :
     first \in BOOLEAN,
     x \in {Chain(10, f, i, k, r) : f \in {"straight", "loop"}, i \in {O(50), ZeroValue},
                                    k \in PlainKinds, r \in {A, C}},
     y \in {Chain(20, f, i, k, B) : f \in {"straight", "loop"},
                                    i \in {O(60), ZeroValue, ConstValue}, k \in PlainKinds}}

Triples ==
  {Straight(10, i, Plain, A) \o Straight(20, j, Plain, B)
     \o Straight(30, ZeroValue, Plain, C) : i, j \in {ZeroValue, ConstValue}}

MCFunctions ==
  {[zvt |-> TRUE, code |-> c] : c \in Singles \cup Tiled \cup Pairs \cup Triples}
    \cup {[zvt |-> FALSE, code |-> c] : c \in Triples}

\* A reduction of two steps without a loop.
MCUnrolled ==
  {[zvt |-> TRUE,
    code |-> <<Read(50, A), Contract(1, O(50), Plain), Contract(2, O(1), Plain),
               Write(9, O(2), A)>>]}
=============================================================================
