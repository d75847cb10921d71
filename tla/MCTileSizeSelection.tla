------------------------ MODULE MCTileSizeSelection ------------------------
(* Root operations of every class the passes distinguish, with ranges that *)
(* are and are not multiples of the alignments.                            *)
EXTENDS TileSizeSelection

\* An index that is one loop, and one that strides or slides over two.
Dim(n, d, size) ==
  [coef |-> [l \in 1 .. n |-> IF l = d THEN 1 ELSE 0], full |-> size, bounded |-> TRUE]
Window(n, d, stride, f, dilation, size) ==
  [coef |-> [l \in 1 .. n |-> IF l = d THEN stride ELSE IF l = f THEN dilation ELSE 0],
   full |-> size, bounded |-> TRUE]

Tensor(bits, m) == [bits |-> bits, shape |-> [k \in DOMAIN m |-> m[k].full], map |-> m]
Plain(bits, shape) == [bits |-> bits, shape |-> shape, map |-> <<>>]

Op(kind, bits, iter, ranges, inputs, operands) ==
  [kind |-> kind, contraction |-> FALSE, reverse |-> FALSE, elemBits |-> bits,
   iter |-> iter, ranges |-> ranges, inputs |-> inputs, operands |-> operands,
   perm |-> <<>>, innerPos |-> <<>>, innerTiles |-> <<>>]

P == "parallel"
R == "reduction"

Matmul(m, n, k, bits) ==
  [Op("linalg", bits, <<P, P, R>>, <<m, n, k>>, 2,
      << Tensor(bits, <<Dim(3, 1, m), Dim(3, 3, k)>>),
         Tensor(bits, <<Dim(3, 3, k), Dim(3, 2, n)>>),
         Tensor(bits, <<Dim(3, 1, m), Dim(3, 2, n)>>) >>) EXCEPT !.contraction = TRUE]

BatchMatmul(b, m, n, k) ==
  [Op("linalg", 32, <<P, P, P, R>>, <<b, m, n, k>>, 2,
      << Tensor(32, <<Dim(4, 1, b), Dim(4, 2, m), Dim(4, 4, k)>>),
         Tensor(32, <<Dim(4, 1, b), Dim(4, 4, k), Dim(4, 3, n)>>),
         Tensor(32, <<Dim(4, 1, b), Dim(4, 2, m), Dim(4, 3, n)>>) >>)
   EXCEPT !.contraction = TRUE]

\* A convolution over one spatial dimension: loops ow, oc, kw, ic.
Conv(ow, oc, kw, ic, stride, dilation) ==
  Op("linalg", 32, <<P, P, R, R>>, <<ow, oc, kw, ic>>, 2,
     << Tensor(32, <<Window(4, 1, stride, 3, dilation, stride * (ow - 1) + dilation * (kw - 1) + 1),
                     Dim(4, 4, ic)>>),
        Tensor(32, <<Dim(4, 3, kw), Dim(4, 4, ic), Dim(4, 2, oc)>>),
        Tensor(32, <<Dim(4, 1, ow), Dim(4, 2, oc)>>) >>)

\* A depthwise convolution: loops oh, ow, c, kh, kw.
Depthwise(oh, ow, c, kh, kw) ==
  Op("linalg", 8, <<P, P, P, R, R>>, <<oh, ow, c, kh, kw>>, 2,
     << Tensor(8, <<Window(5, 1, 1, 4, 1, oh + kh - 1), Window(5, 2, 1, 5, 1, ow + kw - 1),
                    Dim(5, 3, c)>>),
        Tensor(8, <<Dim(5, 4, kh), Dim(5, 5, kw), Dim(5, 3, c)>>),
        Tensor(8, <<Dim(5, 1, oh), Dim(5, 2, ow), Dim(5, 3, c)>>) >>)

\* An elementwise op with one tensor input whose second index has no bound.
Elementwise(m, n, bits) ==
  Op("linalg", bits, <<P, P>>, <<m, n>>, 1,
     << Tensor(bits, <<Dim(2, 1, m), [Dim(2, 2, n) EXCEPT !.bounded = FALSE]>>),
        Tensor(bits, <<Dim(2, 1, m), Dim(2, 2, n)>>) >>)

Pack ==
  [Op("pack", 32, <<P, P>>, <<5, 3>>, 1,
      <<Plain(32, <<20, 38>>), Plain(32, <<5, 3, 8, 8>>), Plain(0, <<>>)>>)
   EXCEPT !.perm = <<2, 1>>, !.innerPos = <<1, 2>>, !.innerTiles = <<8, 8>>]

Unpack ==
  [Op("unpack", 32, <<P, P>>, <<20, 38>>, 1,
      <<Plain(32, <<3, 5, 8, 8>>), Plain(32, <<20, 38>>)>>)
   EXCEPT !.innerPos = <<1, 2>>, !.innerTiles = <<8, 8>>]

\* A sort: one operand of the loops' rank; a scatter: operands of other ranks.
Sort == Op("other", 32, <<P, P>>, <<40, 12>>, 0, <<Plain(32, <<40, 12>>), Plain(32, <<40, Dynamic>>)>>)
Scatter == Op("other", 32, <<P, P>>, <<6, 5>>, 1, <<Plain(32, <<400>>), Plain(32, <<6, 5>>)>>)

MCRoots ==
  { Matmul(24, 20, 40, 32), Matmul(5, 64, 7, 8), Matmul(100, 70, 30, 32), Matmul(3, 2, 200, 16),
    BatchMatmul(6, 9, 33, 12), BatchMatmul(2, 40, 7, 5),
    Conv(14, 20, 3, 5, 2, 1), Conv(30, 6, 3, 9, 1, 3), Depthwise(6, 10, 33, 3, 3),
    Elementwise(50, 48, 8), [Elementwise(9, 33, 8) EXCEPT !.reverse = TRUE],
    Elementwise(4, 230, 32),
    Pack, Unpack, Sort, Scatter,
    [Sort EXCEPT !.kind = "none"], [Sort EXCEPT !.kind = "untilable"],
    [Sort EXCEPT !.elemBits = 4], [Sort EXCEPT !.ranges = <<Dynamic, 12>>] }

MCTargets ==
  { [coralnpu |-> TRUE, vlen |-> 128, zvtbase |-> FALSE],
    [coralnpu |-> TRUE, vlen |-> 256, zvtbase |-> TRUE],
    [coralnpu |-> FALSE, vlen |-> 128, zvtbase |-> FALSE] }

Defaults == [numVectorRegisters |-> 32, vectorAlignment |-> 0, unrollAlignment |-> 0,
             reductionAlignment |-> 1, parallelAlignment |-> 0]

MCOptionSets ==
  { Defaults,
    [Defaults EXCEPT !.vectorAlignment = 3, !.unrollAlignment = 5, !.reductionAlignment = 4],
    [Defaults EXCEPT !.numVectorRegisters = 8, !.reductionAlignment = 0, !.parallelAlignment = 8] }

MCPipelines ==
  { <<"register", "dtcm", "workgroup">>, <<"register", "dtcm", "dtcm", "workgroup">>,
    <<"dtcm">>, <<"workgroup">>, <<"register", "workgroup">> }

=============================================================================
