--------------------------- MODULE MCGomlxLowering ---------------------------
(* Functions with the parameters each family of operations needs.  The        *)
(* elements are all different, so that a misplaced one is seen, and multiples *)
(* of 12 where they are pooled, so that the average of up to four is exact.   *)
EXTENDS GomlxLowering

Param(dtype, shape, F(_)) ==
  [dtype |-> dtype, tensor |-> [shape |-> shape, data |-> [n \in 1 .. Size(shape) |-> F(n)]]]
Values(shape, from) == Param("f32", shape, LAMBDA n : 12 * (from + n * n))
Indices(shape, data) == Param("i32", shape, LAMBDA n : data[n])
Flags(shape) == Param("bool", shape, LAMBDA n : n % 2)

Matrices == <<Values(<<2, 3>>, 0), Values(<<3, 2>>, 7), Values(<<3>>, 20)>>
Batches  == <<Values(<<2, 3, 2>>, 0), Values(<<3, 2, 2>>, 9)>>
Selections  == <<Flags(<<2>>), Values(<<2>>, 3), Values(<<>>, 40)>>
Lookup   == <<Values(<<2, 3, 2>>, 0), Indices(<<2, 1>>, <<1, 0>>)>>
Pairs    == <<Values(<<2, 2, 3>>, 0), Indices(<<2, 3>>, <<1, 0, 1, 0, 1, 1>>)>>
Patch    == <<Values(<<3, 4>>, 0), Values(<<2, 2>>, 50),
              Indices(<<>>, <<1>>), Indices(<<1>>, <<2>>), Indices(<<1>>, <<-1>>)>>
Image    == <<Param("f32", <<1, 2, 3, 2>>, LAMBDA n : 12 * n * n),
              Param("f32", <<2, 1, 2, 1>>, LAMBDA n : 84 * n),
              Param("f32", <<2, 2, 1, 2>>, LAMBDA n : 12 * (n + 3))>>
MCParameterLists == {Matrices, Batches, Selections, Lookup, Pairs, Patch, Image}
MCLayouts == {<<0, 1, 2, 3>>, <<0, 3, 1, 2>>, <<3, 2, 0, 1>>, <<2, 0, 3, 1>>, <<0, 1, 2>>}

=============================================================================
