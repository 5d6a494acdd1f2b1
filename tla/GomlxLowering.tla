--------------------------- MODULE GomlxLowering ---------------------------
(***************************************************************************)
(* How gomlx.Function lowers the GoMLX operations that are not a single    *)
(* MIL operation of the same name: src/gomlx/function.go from ReduceSum to *)
(* ReduceWindow, over the operations of src/model/ops.go they call.        *)
(*                                                                         *)
(* Three parties must agree on every node.  GoMLX says what the operation  *)
(* means and infers the shape the node carries (field ref: the meaning,    *)
(* shape included).  ops.go declares a shape for each value it emits       *)
(* (mil.shape); later calls and the model's interface rely on it.  Core ML *)
(* computes what the emitted program says (mil.real).  A lowering is right *)
(* when the three coincide.                                                *)
(*                                                                         *)
(* Tensors and what the operations mean on them are in module Tensors.     *)
(***************************************************************************)
EXTENDS Tensors

CONSTANTS
  ParameterLists,  \* the parameters a function may have: sequences of tensors with a dtype
  Layouts,         \* axis orders of images and kernels: permutations of 0..3
  MaxOps           \* bound on the operations of one function

VARIABLES
  nodes,  \* the nodes of the function, parameters first
  last    \* how the last call ended: "none", "ok", "refused" (an error) or "panicked"

vars == <<nodes, last>>

----------------------------------------------------------------------------
(* The MIL builder: the shape ops.go declares, next to what Core ML        *)
(* computes from the emitted operation.                                    *)

MIL(shape, dtype, real) == [shape |-> shape, dtype |-> dtype, real |-> real]
Const(value, dtype) == MIL(<<>>, dtype, Tensor(<<>>, LAMBDA j : value))

broadcastShape(a, b) ==
  LET n == Max({Len(a), Len(b)})
      dim(s, k) == IF k > n - Len(s) THEN s[k - (n - Len(s))] ELSE 1
  IN  [k \in 1 .. n |-> IF dim(a, k) = 1 THEN dim(b, k)
                        ELSE IF dim(b, k) = 1 THEN dim(a, k)
                        ELSE Max({dim(a, k), dim(b, k)})]
computeReduceShape(shape, axes) ==   \* keepDims is FALSE in every call of function.go
  Dims(shape, Rest(Len(shape), axes))

MILBinary(x, y, F(_, _)) ==
  MIL(broadcastShape(x.shape, y.shape), x.dtype, Combined(x.real, y.real, F))
MILSub(x, y) == MILBinary(x, y, LAMBDA a, b : a - b)
MILMul(x, y) == MILBinary(x, y, LAMBDA a, b : a * b)
MILAdd(x, y) == MILBinary(x, y, LAMBDA a, b : a + b)

MatMulTranspose(x, y) ==   \* transposeX and transposeY are FALSE in every call of function.go
  LET r == Len(x.shape) IN
  MIL([x.shape EXCEPT ![r] = y.shape[Len(y.shape)]], x.dtype,
      Tensor([x.real.shape EXCEPT ![r] = y.real.shape[r]], LAMBDA j :
        MapThenSumSet(LAMBDA k : Elem(x.real, [j EXCEPT ![r] = k])
                                   * Elem(y.real, [j EXCEPT ![r - 1] = k]),
                      0 .. x.real.shape[r] - 1)))

MILReshape(x, shape) == MIL(shape, x.dtype, Reshaped(x.real, shape))
MILTranspose(x, perm) ==
  MIL([k \in DOMAIN perm |-> x.shape[perm[k] + 1]], x.dtype, Transposed(x.real, perm))
MILReduce(kind, x, axes) ==
  MIL(computeReduceShape(x.shape, axes), x.dtype, Reduced(kind, x.real, axes))
ArgMin(x, axis) ==
  MIL(computeReduceShape(x.shape, <<axis>>), "i32", ArgReduced(TRUE, x.real, axis))
ArgMax(x, axis) ==
  MIL(computeReduceShape(x.shape, <<axis>>), "i32", ArgReduced(FALSE, x.real, axis))

Select(cond, a, b) ==
  MIL(broadcastShape(a.shape, b.shape), a.dtype, Chosen(cond.real, a.real, b.real))

Squeeze(x, axes) ==
  LET left(shape) == IF axes = <<>> THEN SelectSeq(shape, LAMBDA d : d # 1)
                     ELSE Dims(shape, Rest(Len(shape), axes))
  IN  MIL(left(x.shape), x.dtype, Reshaped(x.real, left(x.real.shape)))
ExpandDims(x, axis) ==
  MIL(SubSeq(x.shape, 1, axis) \o <<1>> \o SubSeq(x.shape, axis + 1, Len(x.shape)), x.dtype,
      Reshaped(x.real, InsertAt(x.real.shape, axis + 1, 1)))

\* Mutant of SliceByIndex: the declared size is rounded down.
SliceByIndexFloor(x, begin, end, strides) ==
  MIL([k \in DOMAIN x.shape |-> (end[k] - begin[k]) \div strides[k]], x.dtype,
      Sliced(x.real, begin, end, strides))
SliceByIndex(x, begin, end, strides) ==
  MIL([k \in DOMAIN x.shape |-> (end[k] - begin[k] + strides[k] - 1) \div strides[k]], x.dtype,
      Sliced(x.real, begin, end, strides))

MILGather(x, indices, axis) ==
  LET split(xs, is) == SubSeq(xs, 1, axis) \o is \o SubSeq(xs, axis + 2, Len(xs))
      r == Len(indices.real.shape)
  IN  MIL(split(x.shape, indices.shape), x.dtype,
          Tensor(split(x.real.shape, indices.real.shape), LAMBDA j :
            Elem(x.real, SubSeq(j, 1, axis)
                           \o <<Elem(indices.real, SubSeq(j, axis + 1, axis + r))>>
                           \o SubSeq(j, axis + r + 1, Len(j)))))

GatherND(x, indices) ==
  LET r == Len(indices.shape)
      depth == indices.shape[r]
      at(j) == [k \in 1 .. depth |-> Elem(indices.real, Append(SubSeq(j, 1, r - 1), k - 1))]
  IN  MIL(Front(indices.shape) \o SubSeq(x.shape, depth + 1, Len(x.shape)), x.dtype,
          Tensor(Front(indices.real.shape)
                   \o SubSeq(x.real.shape, depth + 1, Len(x.real.shape)),
                 LAMBDA j : Elem(x.real, at(j) \o SubSeq(j, r, Len(j)))))

\* Every row of indices is a cell of data, which takes the update of the same row; Core ML
\* defines no result for a row outside data (validate_indices is FALSE).
ScatterND(data, indices, updates) ==
  LET t == data.real
      cell(n) == [k \in DOMAIN t.shape |-> Elem(indices.real, <<n, k - 1>>)]
      rows == 0 .. updates.real.shape[1] - 1
  IN  MIL(data.shape, data.dtype,
          IF \A n \in rows : cell(n) \in Box(t.shape)
          THEN Tensor(t.shape, LAMBDA j :
                 IF \E n \in rows : cell(n) = j
                 THEN Elem(updates.real, <<CHOOSE n \in rows : cell(n) = j>>)
                 ELSE Elem(t, j))
          ELSE Broken)

Range1D(end) ==   \* from 0 by 1: Int32 constants, as every call of function.go gives them
  MIL(<<IF end > 0 THEN end ELSE -1>>, "i32", Tensor(<<end>>, LAMBDA j : j[1]))
Tile(x, reps) ==
  LET times(shape) == [k \in DOMAIN shape |-> shape[k] * reps[k]] IN
  MIL(times(x.shape), x.dtype,
      Tensor(times(x.real.shape), LAMBDA j :
        Elem(x.real, [k \in DOMAIN j |-> j[k] % x.real.shape[k]])))
MILPad(x, before, after, value) ==
  MIL([k \in DOMAIN x.shape |-> x.shape[k] + before[k] + after[k]], x.dtype,
      Padded(x.real, before, after, value))
MILReverse(x, axes) == MIL(x.shape, x.dtype, Reversed(x.real, axes))
Cast(x, dtype) == MIL(x.shape, dtype, x.real)

MILConcat(values, axis) ==
  MIL([values[1].shape EXCEPT ![axis + 1] =
         MapThenSumSet(LAMBDA m : Dim(values[m].shape, axis), DOMAIN values)],
      values[1].dtype,
      Joined([m \in DOMAIN values |-> values[m].real], axis))

\* Mutant of MILPool: the average counts the padding.
MILPoolCounting(kind, x, kernel, strides, before, after) ==
  LET sum == Pooled("sum", x.real, Ones(2) \o kernel, Ones(2) \o strides,
                    Zeros(2) \o before, Zeros(2) \o after)
      max == Pooled("max", x.real, Ones(2) \o kernel, Ones(2) \o strides,
                    Zeros(2) \o before, Zeros(2) \o after)
  IN  MIL(sum.shape, x.dtype,
          IF kind = "max" THEN max
          ELSE [sum EXCEPT !.data = [n \in DOMAIN @ |-> @[n] \div Size(kernel)]])

\* MaxPool and AvgPool (exclude_padding_from_average): kernel, strides and pads of the
\* spatial axes only.
MILPool(kind, x, kernel, strides, before, after) ==
  MIL([k \in DOMAIN x.shape |->
         IF k <= 2 THEN x.shape[k]
         ELSE (x.shape[k] + before[k - 2] + after[k - 2] - kernel[k - 2])
                \div strides[k - 2] + 1],
      x.dtype,
      Pooled(kind, x.real, Ones(2) \o kernel, Ones(2) \o strides,
             Zeros(2) \o before, Zeros(2) \o after))

\* Mutant of Conv: the declared size takes no account of the dilation.
ConvUndilated(x, weight, strides, dilations, before, after, groups) ==
  LET out(k) == (x.shape[k + 2] + before[k] + after[k] - weight.shape[k + 2]) \div strides[k] + 1
  IN  MIL(<<x.shape[1], weight.shape[1], out(1), out(2)>>, x.dtype,
          Convolved(x.real, weight.real, Identity(4), Identity(4), Identity(4),
                    strides, dilations, before, after, groups))
Conv(x, weight, strides, dilations, before, after, groups) ==
  LET out(k) == (x.shape[k + 2] + before[k] + after[k]
                   - dilations[k] * (weight.shape[k + 2] - 1) - 1) \div strides[k] + 1
  IN  MIL(<<x.shape[1], weight.shape[1], out(1), out(2)>>, x.dtype,
          Convolved(x.real, weight.real, Identity(4), Identity(4), Identity(4),
                    strides, dilations, before, after, groups))

----------------------------------------------------------------------------
(* The handlers of function.go.  A node whose arguments are among the      *)
(* known disagreements (excused) is not used as an operand.           *)

Node(op, dtype, ref, mil, excused) ==
  [op |-> op, dtype |-> dtype, ref |-> ref, mil |-> mil, excused |-> excused]

Parameter(p) == Node("Parameter", p.dtype, p.tensor, MIL(p.tensor.shape, p.dtype, p.tensor), FALSE)

Open == last # "panicked" /\ Cardinality({k \in DOMAIN nodes : nodes[k].op # "Parameter"}) < MaxOps
\* What a further call may use, none once the function is closed.
Inputs == IF Open THEN {n \in ToSet(nodes) : ~n.excused} ELSE {}
Rank(n) == Len(n.ref.shape)

Emit(op, dtype, ref, mil, excused) ==
  /\ nodes' = Append(nodes, Node(op, dtype, ref, mil, excused))
  /\ last' = "ok"
Refuse == last' = "refused" /\ UNCHANGED nodes
Panic == last' = "panicked" /\ UNCHANGED nodes

\* Lists of different axes of a tensor of the given rank.
AxisLists(rank) ==
  UNION {{s \in [1 .. n -> 0 .. rank - 1] : IsInjective(s)} : n \in 0 .. rank}
Sorted(S) == SetToSortSeq(S, LAMBDA a, b : a < b)

\* addBinaryOp on operands GoMLX accepts: a scalar, or ranks alike and sizes alike or 1.
Binary(x, y) ==
  /\ x.dtype = y.dtype
  /\ \/ Rank(x) = 0 \/ Rank(y) = 0
     \/ /\ Rank(x) = Rank(y)
        /\ \A k \in DOMAIN x.ref.shape :
             x.ref.shape[k] = y.ref.shape[k] \/ 1 \in {x.ref.shape[k], y.ref.shape[k]}
  /\ LET minus(a, b) == a - b IN
     Emit("Sub", x.dtype, Combined(x.ref, y.ref, minus), MILSub(x.mil, y.mil), FALSE)

\* Select's declared shape leaves the condition out.
Where(cond, a, b) ==
  /\ cond.dtype = "bool" /\ a.dtype = b.dtype
  /\ Rank(a) = 0 \/ Rank(b) = 0 \/ a.ref.shape = b.ref.shape
  /\ Rank(cond) = 0 \/ \A n \in {a, b} : Rank(n) = 0 \/ n.ref.shape = cond.ref.shape
  /\ Emit("Where", a.dtype, Chosen(cond.ref, a.ref, b.ref), Select(cond.mil, a.mil, b.mil),
          Rank(a) = 0 /\ Rank(b) = 0 /\ Rank(cond) > 0)

addReduceOp(kind, x, axes) ==
  LET over == IF axes = <<>> THEN Identity(Rank(x)) ELSE axes IN
  Emit("Reduce", x.dtype, Reduced(kind, x.ref, over), MILReduce(kind, x.mil, over), FALSE)

\* The node has the element type the client asks for, the MIL value is always Int32.
ArgMinMax(x, axis, outputDType, isMin) ==
  Emit("ArgMinMax", outputDType, ArgReduced(isMin, x.ref, axis),
       IF isMin THEN ArgMin(x.mil, axis) ELSE ArgMax(x.mil, axis), outputDType # "i32")

Slice(x, starts, limits, strides) ==
  Emit("Slice", x.dtype, Sliced(x.ref, starts, limits, strides),
       SliceByIndex(x.mil, starts, limits, strides), FALSE)

\* MatMulTranspose indexes the last two axes of both operands: a vector has only one.
Dot(x, y) ==
  /\ x.dtype = y.dtype
  /\ {Rank(x), Rank(y)} \subseteq {1, 2}
  /\ Dim(x.ref.shape, Rank(x) - 1) = y.ref.shape[1]
  /\ IF 1 \in {Rank(x), Rank(y)} THEN Panic
     ELSE Emit("Dot", x.dtype,
               Tensor(<<x.ref.shape[1], y.ref.shape[2]>>, LAMBDA j :
                 MapThenSumSet(LAMBDA k : Elem(x.ref, <<j[1], k>>) * Elem(y.ref, <<k, j[2]>>),
                               0 .. x.ref.shape[2] - 1)),
               MatMulTranspose(x.mil, y.mil), FALSE)

Reshape(x, dimensions) ==
  /\ Size(dimensions) = Size(x.ref.shape)
  /\ Emit("Reshape", x.dtype, Reshaped(x.ref, dimensions), MILReshape(x.mil, dimensions), FALSE)

Transpose(x, permutation) ==
  /\ Len(permutation) = Rank(x)
  /\ Emit("Transpose", x.dtype, Transposed(x.ref, permutation),
          MILTranspose(x.mil, permutation), FALSE)

ConvertDType(x, dtype) == Emit("ConvertDType", dtype, x.ref, Cast(x.mil, dtype), FALSE)

\* One operand is returned as it is.
Concatenate(axis, operands) ==
  IF Len(operands) = 1 THEN last' = "ok" /\ UNCHANGED nodes
  ELSE /\ \A n \in ToSet(operands) :
            /\ n.dtype = operands[1].dtype
            /\ Rank(n) = Rank(operands[1])
            /\ \A k \in DOMAIN n.ref.shape \ {axis + 1} :
                 n.ref.shape[k] = operands[1].ref.shape[k]
       /\ Emit("Concatenate", operands[1].dtype,
               Joined([m \in DOMAIN operands |-> operands[m].ref], axis),
               MILConcat([m \in DOMAIN operands |-> operands[m].mil], axis), FALSE)

----------------------------------------------------------------------------
(* DotGeneral: both operands to three axes, one product, and back.         *)

Normalised(axes, rank) == [k \in DOMAIN axes |-> IF axes[k] < 0 THEN axes[k] + rank ELSE axes[k]]

\* What it means: batch axes, then the cross axes of both, summed over the contracted ones.
Contracted(x, lc, lb, y, rc, rb) ==
  LET lx == Rest(Len(x.shape), lb \o lc)
      rx == Rest(Len(y.shape), rb \o rc)
      b == Len(lb)
      l == Len(lx)
  IN  Tensor(Dims(x.shape, lb) \o Dims(x.shape, lx) \o Dims(y.shape, rx), LAMBDA j :
        MapThenSumSet(
          LAMBDA c : Elem(x, Placed(lb \o lx \o lc, SubSeq(j, 1, b + l) \o c))
                     * Elem(y, Placed(rb \o rx \o rc,
                                      SubSeq(j, 1, b) \o SubSeq(j, b + l + 1, Len(j)) \o c)),
          Box(Dims(x.shape, lc))))

Permuted(v, perm) == IF perm = Identity(Len(perm)) THEN v ELSE MILTranspose(v, perm)

\* Mutant of DotOperands: the right operand in the order of the left one.
DotOperandsAlike(x, lc, lb, y, rc, rb) ==
  LET lx == Rest(Rank(x), lc \o lb)
      rx == Rest(Rank(y), rc \o rb)
      batchSize == Size(Dims(x.ref.shape, lb))
      contractingSize == Size(Dims(x.ref.shape, lc))
  IN  <<MILReshape(Permuted(x.mil, lb \o lx \o lc),
                   <<batchSize, Size(Dims(x.ref.shape, lx)), contractingSize>>),
        MILReshape(Permuted(y.mil, rb \o rx \o rc),
                   <<batchSize, contractingSize, Size(Dims(y.ref.shape, rx))>>)>>

\* Batch, cross and contracting axes on the left, batch, contracting and cross on the right.
DotOperands(x, lc, lb, y, rc, rb) ==
  LET lx == Rest(Rank(x), lc \o lb)
      rx == Rest(Rank(y), rc \o rb)
      batchSize == Size(Dims(x.ref.shape, lb))
      contractingSize == Size(Dims(x.ref.shape, lc))
  IN  <<MILReshape(Permuted(x.mil, lb \o lx \o lc),
                   <<batchSize, Size(Dims(x.ref.shape, lx)), contractingSize>>),
        MILReshape(Permuted(y.mil, rb \o rc \o rx),
                   <<batchSize, contractingSize, Size(Dims(y.ref.shape, rx))>>)>>

DotGeneral(x, lhsContractingAxes, lhsBatchAxes, y, rhsContractingAxes, rhsBatchAxes) ==
  LET lc == Normalised(lhsContractingAxes, Rank(x))
      lb == Normalised(lhsBatchAxes, Rank(x))
      rc == Normalised(rhsContractingAxes, Rank(y))
      rb == Normalised(rhsBatchAxes, Rank(y))
      outputDims == Dims(x.ref.shape, lb) \o Dims(x.ref.shape, Rest(Rank(x), lc \o lb))
                      \o Dims(y.ref.shape, Rest(Rank(y), rc \o rb))
      operands == DotOperands(x, lc, lb, y, rc, rb)
      product == MatMulTranspose(operands[1], operands[2])
  IN  IF /\ x.dtype = y.dtype
         /\ Dims(x.ref.shape, lc) = Dims(y.ref.shape, rc)
         /\ Dims(x.ref.shape, lb) = Dims(y.ref.shape, rb)
      THEN Emit("DotGeneral", x.dtype, Contracted(x.ref, lc, lb, y.ref, rc, rb),
                IF outputDims # <<>> THEN MILReshape(product, outputDims)
                                     ELSE Squeeze(product, <<>>), FALSE)
      ELSE Refuse

----------------------------------------------------------------------------
(* Gather: three patterns of XLA's general operation.                      *)

\* What it means.  The batch axes of the output are the axes of the indices but iv, the
\* offset axes are those of the slice that are not collapsed.
Gathered(x, s, iv, offset, collapsed, map, sizes) ==
  LET kept == Rest(Len(x.shape), collapsed)
      batchDims == IF iv = Len(s.shape) THEN s.shape ELSE RemoveAt(s.shape, iv + 1)
      batch == Rest(Len(batchDims) + Len(offset), offset)
      index(k, b) == Elem(s, IF iv = Len(s.shape) THEN b ELSE InsertAt(b, iv + 1, k - 1))
      where(list, a) == CHOOSE k \in DOMAIN list : list[k] = a
  IN  Tensor(Placed(batch \o offset, batchDims \o Dims(sizes, kept)), LAMBDA j :
        Elem(x, [k \in DOMAIN x.shape |->
          (IF k - 1 \in ToSet(map) THEN index(where(map, k - 1), Dims(j, batch)) ELSE 0)
          + (IF k - 1 \in ToSet(kept) THEN Dim(j, offset[where(kept, k - 1)]) ELSE 0)]))

\* The patterns the code takes leave offsetOutputAxes and the sizes of the other slices out:
\* Core ML keeps the whole of every other axis, the axes before the gathered one first.
GatherExcused(x, batchRank, offset, collapsed, map, sizes) ==
  LET g == map[1]
      kept == Rest(Rank(x), collapsed)
      after(a) == IF a < g THEN a ELSE a - 1 + batchRank
      settles(a) == IF Len(map) > 1 THEN a - Len(map) + batchRank
                    ELSE IF collapsed = <<>> /\ after(a) >= offset[g + 1] THEN after(a) + 1
                    ELSE after(a)
  IN  \/ Len(map) > 1 /\ ToSet(collapsed) # ToSet(map)
      \/ \E k \in DOMAIN kept :
           /\ kept[k] \notin ToSet(map)
           /\ offset[k] # settles(kept[k]) \/ Dim(sizes, kept[k]) # Dim(x.ref.shape, kept[k])

Gather(x, s, iv, offset, collapsed, map, sizes) ==
  LET r == Rank(s)
      g == map[1]
      indices == IF iv < r /\ Dim(s.ref.shape, iv) = 1 THEN Squeeze(s.mil, <<iv>>) ELSE s.mil
      emitted(v) ==
        Emit("Gather", x.dtype, Gathered(x.ref, s.ref, iv, offset, collapsed, map, sizes), v,
             GatherExcused(x, IF iv = r THEN r ELSE r - 1, offset, collapsed, map, sizes))
  IN  CASE Len(map) = 1 /\ collapsed = <<g>> /\ Dim(sizes, g) = 1 ->
             emitted(MILGather(x.mil, indices, g))
        [] /\ Len(map) > 1 /\ Len(collapsed) = Len(map)
           /\ map = Identity(Len(map))
           /\ \A a \in ToSet(collapsed) : Dim(sizes, a) = 1 ->
             emitted(GatherND(x.mil, Permuted(s.mil, Append(Rest(r, <<iv>>), iv))))
        [] Len(map) = 1 /\ collapsed = <<>> /\ Dim(sizes, g) = 1 ->
             emitted(ExpandDims(MILGather(x.mil, indices, g), offset[g + 1]))
        [] OTHER -> Refuse

----------------------------------------------------------------------------
(* Padding, reversal, counting and updating in place.                      *)

\* Missing configurations are no padding; the fill value is always 0.0.
Pad(x, fillValue, axesConfig) ==
  LET side(f) == [k \in 1 .. Rank(x) |-> IF k <= Len(axesConfig) THEN axesConfig[k][f] ELSE 0]
      before == side("start")
      after == side("end")
      fill == fillValue.ref.data[1]
  IN  IF Rank(fillValue) # 0 \/ \E k \in DOMAIN axesConfig : axesConfig[k].interior # 0
      THEN Refuse
      ELSE Emit("Pad", x.dtype, Padded(x.ref, before, after, fill),
                MILPad(x.mil, before, after, 0),
                fill # 0 /\ \E k \in DOMAIN before : before[k] + after[k] > 0)

ReverseOp(x, axes) ==
  LET over == IF axes = <<>> THEN Identity(Rank(x)) ELSE axes IN
  IF ToSet(over) \subseteq Axes(x.ref)
  THEN Emit("Reverse", x.dtype, Reversed(x.ref, over), MILReverse(x.mil, over), FALSE)
  ELSE Refuse

\* 0, 1, ... along one axis, the same along every other.
Along(shape, axis) == [k \in DOMAIN shape |-> IF k = axis + 1 THEN shape[k] ELSE 1]
Across(shape, axis) == [k \in DOMAIN shape |-> IF k = axis + 1 THEN 1 ELSE shape[k]]
Counting(v, shape, axis) == Tile(MILReshape(v, Along(shape, axis)), Across(shape, axis))

Iota(shape, dtype, iotaAxis) ==
  LET range == Range1D(Dim(shape, iotaAxis))
      value == IF dtype = "i32" THEN range ELSE Cast(range, dtype)
  IN  IF iotaAxis \in 0 .. Len(shape) - 1
      THEN Emit("Iota", dtype, Tensor(shape, LAMBDA j : Dim(j, iotaAxis)),
                Counting(value, shape, iotaAxis), FALSE)
      ELSE Refuse

\* What it means: the update pasted at the start indices, moved so that it fits.
Updated(t, u, starts) ==
  LET at == [k \in DOMAIN starts |-> Max({0, Min({starts[k], t.shape[k] - u.shape[k]})})] IN
  Tensor(t.shape, LAMBDA j :
    LET i == [k \in DOMAIN j |-> j[k] - at[k]] IN
    IF i \in Box(u.shape) THEN Elem(u, i) ELSE Elem(t, j))

\* The column of the scatter indices for one axis: one row per element of the update.
AxisIndices(shape, axis, start) ==
  LET scalar == IF Rank(start) = 1 THEN Squeeze(start.mil, <<0>>) ELSE start.mil
      index == IF start.dtype = "i32" THEN scalar ELSE Cast(scalar, "i32")
      offset == MILAdd(Counting(Range1D(Dim(shape, axis)), shape, axis), index)
  IN  ExpandDims(MILReshape(offset, <<Size(shape)>>), 1)

DynamicUpdateSlice(x, update, startIndices) ==
  LET shape == update.ref.shape
      columns == [k \in DOMAIN startIndices |-> AxisIndices(shape, k - 1, startIndices[k])]
      indices == IF Rank(x) = 1 THEN columns[1] ELSE MILConcat(columns, 1)
      starts == [k \in DOMAIN startIndices |-> startIndices[k].ref.data[1]]
  IN  IF \/ Len(startIndices) # Rank(x) \/ Rank(update) # Rank(x)
         \/ \E n \in ToSet(startIndices) : Rank(n) > 1 \/ Len(n.ref.data) # 1
      THEN Refuse
      ELSE Emit("DynamicUpdateSlice", x.dtype, Updated(x.ref, update.ref, starts),
                ScatterND(x.mil, indices, MILReshape(update.mil, <<Size(shape)>>)),
                \E k \in DOMAIN starts : starts[k] \notin 0 .. x.ref.shape[k] - shape[k])

----------------------------------------------------------------------------
(* Convolution and pooling.                                                *)

OrOne(list, rank) ==
  [k \in 1 .. rank |-> IF k <= Len(list) THEN IF list[k] > 0 THEN list[k] ELSE 1 ELSE 1]
PadSide(paddings, side, rank) ==
  [k \in 1 .. rank |-> IF k <= Len(paddings) THEN paddings[k][side] ELSE 0]

buildInverseNCHWPermutation(fwd) ==
  [a \in DOMAIN fwd |-> (CHOOSE k \in DOMAIN fwd : fwd[k] = a - 1) - 1]

\* in, ker and out list the axes as ConvolveAxesConfig names them: batch (output channels),
\* channels (input channels), spatial axes.  Conv reads two spatial axes whatever the rank.
ConvGeneral(x, kernel, axes, strides, paddings, inputDil, kernelDil, channelGroups, batchGroups) ==
  LET rank == Rank(x) - 2
      in == axes.input
      ker == axes.kernel
      out == axes.output
      step == OrOne(strides, rank)
      spread == OrOne(kernelDil, rank)
      before == PadSide(paddings, 1, rank)
      after == PadSide(paddings, 2, rank)
      value == Conv(Permuted(x.mil, in), Permuted(kernel.mil, ker), step, spread,
                    before, after, channelGroups)
  IN  CASE batchGroups > 1 \/ \E d \in ToSet(inputDil) : d > 1 -> Refuse
        [] rank < 2 -> Panic
        [] OTHER ->
             Emit("ConvGeneral", x.dtype,
                  Convolved(x.ref, kernel.ref, in, ker, out, step, spread, before, after,
                            channelGroups),
                  IF out = Identity(Len(out)) THEN value
                  ELSE MILTranspose(value, buildInverseNCHWPermutation(out)), FALSE)

\* The sum is the average of the cells inside the tensor times the size of the window.
PoolValue(reductionType, v, kernel, strides, before, after) ==
  LET pool(kind, u) == MILPool(kind, u, kernel, strides, before, after)
      negOne == Const(-1, v.dtype)
  IN  CASE reductionType = "max" -> pool("max", v)
        [] reductionType = "sum" -> MILMul(pool("avg", v), Const(Size(kernel), v.dtype))
        [] reductionType = "min" -> MILMul(pool("max", MILMul(v, negOne)), negOne)

\* Strides and paddings of the batch and channel axes are not looked at.
ReduceWindow(x, reductionType, window, strides, baseDilations, windowDilations, paddings) ==
  LET rank == Rank(x) - 2
      spatial(list) == SubSeq(list, 3, Len(list))
      kernel == spatial(window)
      step == IF strides = <<>> THEN kernel ELSE spatial(strides)
      before == PadSide(spatial(paddings), 1, rank)
      after == PadSide(spatial(paddings), 2, rank)
      fullStep == IF strides = <<>> THEN window ELSE strides
      ref == Pooled(reductionType, x.ref, window, fullStep,
                    PadSide(paddings, 1, Rank(x)), PadSide(paddings, 2, Rank(x)))
  IN  IF \/ Rank(x) < 3
         \/ \E d \in ToSet(baseDilations) \union ToSet(windowDilations) : d > 1
         \/ window[1] # 1 \/ window[2] # 1
         \/ reductionType = "prod"
      THEN Refuse
      ELSE Emit("ReduceWindow", x.dtype, ref,
                PoolValue(reductionType, x.mil, kernel, step, before, after),
                \/ \E k \in 1 .. 2 : ref.shape[k] # x.ref.shape[k]
                \/ /\ reductionType = "sum"
                   /\ \E j \in Box(ref.shape) :
                        Cardinality(DOMAIN Window(x.ref, window, fullStep,
                          PadSide(paddings, 1, Rank(x)), j)) # Size(window))

----------------------------------------------------------------------------
(* The client.  Rank 4 is kept for images and kernels.                     *)

Small == {n \in Inputs : Rank(n) <= 3}
Lists(S, lengths) == UNION {[1 .. n -> S] : n \in lengths}

InRange(x, s, map, sizes) ==   \* start indices GoMLX does not clamp
  \A i \in ToSet(s.ref.data) : \A a \in ToSet(map) :
    i \in 0 .. Dim(x.ref.shape, a) - Dim(sizes, a)

Elementwise ==
  \/ \E x, y \in Small : Binary(x, y) \/ Dot(x, y)
  \/ \E c, a, b \in Small : Where(c, a, b)
  \/ \E x \in Small, dtype \in {"f32", "i32"} : ConvertDType(x, dtype)

Reducing ==
  \E x \in Small :
    \/ \E kind \in {"sum", "max", "min", "prod"}, axes \in AxisLists(Rank(x)) :
         addReduceOp(kind, x, axes)
    \/ \E axis \in Axes(x.ref), outputDType \in {"i32", "i64"}, isMin \in BOOLEAN :
         ArgMinMax(x, axis, outputDType, isMin)

Rearranging ==
  \E x \in Small :
    \/ \E starts, ends \in Box(x.ref.shape), strides \in [DOMAIN x.ref.shape -> 1 .. 2] :
         /\ \A k \in DOMAIN starts : starts[k] <= ends[k]
         /\ Slice(x, starts, [k \in DOMAIN ends |-> ends[k] + 1], strides)
    \/ \E dimensions \in Lists(1 .. Size(x.ref.shape), 0 .. 2) : Reshape(x, dimensions)
    \/ \E axes \in AxisLists(Rank(x)) : Transpose(x, axes) \/ ReverseOp(x, axes)
    \/ \E y, z \in Small, axis \in Axes(x.ref) :
         Concatenate(axis, <<x>>) \/ Concatenate(axis, <<x, y>>) \/ Concatenate(axis, <<x, y, z>>)
    \/ \E fill \in Small,
          config \in Lists([start : 0 .. 1, end : 0 .. 2, interior : {0}]
                             \union {[start |-> 0, end |-> 0, interior |-> 1]}, 0 .. Rank(x)) :
         x.dtype = "f32" /\ fill.dtype = "f32" /\ Pad(x, fill, config)
    \/ \E shape \in {n.ref.shape : n \in Small}, axis \in 0 .. 2, dtype \in {"f32", "i32"} :
         shape # <<>> /\ Iota(shape, dtype, axis)

Contracting ==
  \E x, y \in Small :
    \E lc, lb \in AxisLists(Rank(x)), rc, rb \in AxisLists(Rank(y)), sign \in 0 .. 1 :
      /\ IsInjective(lc \o lb) /\ IsInjective(rc \o rb)
      /\ Len(lc) = Len(rc) /\ Len(lb) = Len(rb)
      /\ DotGeneral(x, [k \in DOMAIN lc |-> lc[k] - sign * Rank(x)], lb, y, rc, rb)

Indexing ==
  \E x, s \in Small :
    \/ /\ x.dtype = "f32" /\ s.dtype = "i32" /\ Rank(x) > 0
       /\ \E iv \in 0 .. Rank(s), map, collapsed \in AxisLists(Rank(x)),
             sizes \in [DOMAIN x.ref.shape -> 1 .. 3],
             offset \in SUBSET (0 .. Rank(x) + Rank(s) - 1) :
            LET depth == IF iv = Rank(s) THEN 1 ELSE Dim(s.ref.shape, iv)
                batchRank == IF iv = Rank(s) THEN Rank(s) ELSE Rank(s) - 1
                kept == Rank(x) - Len(collapsed)
            IN  /\ Len(map) = depth /\ collapsed = Sorted(ToSet(collapsed))
                /\ \A k \in DOMAIN sizes : sizes[k] \in {1, x.ref.shape[k]}
                /\ \A a \in ToSet(collapsed) : Dim(sizes, a) = 1
                /\ Cardinality(offset) = kept /\ \A a \in offset : a < kept + batchRank
                /\ InRange(x, s, map, sizes)
                /\ Gather(x, s, iv, Sorted(offset), collapsed, map, sizes)
    \/ /\ s.dtype = x.dtype /\ Rank(x) > 0
       /\ Rank(s) = Rank(x) => \A k \in DOMAIN s.ref.shape : s.ref.shape[k] <= x.ref.shape[k]
       /\ \E starts \in Lists({n \in Small : n.dtype = "i32"}, {1, Rank(x)}) :
            DynamicUpdateSlice(x, s, starts)

Images ==
  \/ \E x, kernel \in Inputs :
       /\ Rank(x) = Rank(kernel) /\ Rank(x) >= 3
       /\ \E in, ker, out \in {l \in Layouts : Len(l) = Rank(x)},
             strides \in {<<>>, <<2, 1>>}, paddings \in {<<>>, <<<<1, 0>>, <<0, 2>>>>},
             inputDilations \in {<<>>, <<2, 1>>}, kernelDilations \in {<<>>, <<1, 2>>},
             channelGroupCount, batchGroupCount \in 1 .. 2 :
            /\ Dim(x.ref.shape, in[2]) = channelGroupCount * Dim(kernel.ref.shape, ker[2])
            /\ Dim(kernel.ref.shape, ker[1]) % channelGroupCount = 0
            /\ \A k \in 1 .. Rank(x) - 2 :
                 OrOne(kernelDilations, 2)[k] * (Dim(kernel.ref.shape, ker[k + 2]) - 1)
                   < Dim(x.ref.shape, in[k + 2])
            /\ ConvGeneral(x, kernel, [input |-> in, kernel |-> ker, output |-> out], strides,
                           paddings, inputDilations, kernelDilations, channelGroupCount,
                           batchGroupCount)
  \/ \E x \in Inputs, reductionType \in {"sum", "max", "min", "prod"} :
       /\ x.dtype = "f32" /\ Rank(x) >= 2
       /\ \E window, strides \in [1 .. Rank(x) -> 1 .. 2], dilation \in 1 .. 2,
             pads \in {0, 1} \X {0, 1} \X {0, 1} :
            /\ \A k \in DOMAIN window : window[k] <= x.ref.shape[k]
            /\ \/ pads[2] + pads[3] = 0
               \/ \A k \in DOMAIN window : k > 2 => window[k] = 2
            /\ \E given \in {<<>>, strides} :
                 ReduceWindow(x, reductionType, window, given, <<>>, <<dilation>>,
                   [k \in 1 .. pads[1] * Rank(x) |->
                      IF k <= 2 THEN <<0, 0>> ELSE <<pads[2], pads[3]>>])

Init ==
  /\ \E list \in ParameterLists : nodes = [k \in DOMAIN list |-> Parameter(list[k])]
  /\ last = "none"

Next ==
  \/ Elementwise
  \/ Reducing
  \/ Rearranging
  \/ Contracting
  \/ Indexing
  \/ Images

Spec == Init /\ [][Next]_vars

----------------------------------------------------------------------------
(* Properties.                                                             *)

Agree(n) == n.dtype = n.mil.dtype /\ n.mil.shape = n.ref.shape /\ n.mil.real = n.ref

\* Every node has what newNode was given: a shape inferred by GoMLX whose size is that of its
\* elements, and a MIL value with known dimensions.
TypeOK ==
  /\ last \in {"none", "ok", "refused", "panicked"}
  /\ \A n \in ToSet(nodes) :
       /\ n.dtype \in {"f32", "i32", "i64", "bool"} /\ n.excused \in BOOLEAN
       /\ Len(n.ref.data) = Size(n.ref.shape)
       /\ \A k \in DOMAIN n.mil.shape : n.mil.shape[k] > 0

\* What ops.go declares, what GoMLX inferred and what Core ML computes is one shape and one
\* element type: a buffer made for the node's shape fits the output, and a later call that
\* reads the declared shape is not misled.
ShapesAgree ==
  \A n \in ToSet(nodes) : ~n.excused =>
    n.mil.shape = n.ref.shape /\ n.mil.real.shape = n.ref.shape /\ n.mil.dtype = n.dtype

\* The emitted operations compute, element by element, what the GoMLX operation means: no
\* axis order, offset or index of a lowering is off for any accepted call outside the
\* known disagreements.
LoweringMeansTheSame ==
  \A n \in ToSet(nodes) : ~n.excused => n.mil.real.data = n.ref.data

\* The known disagreements are real, every one: the code does not make up for an offset
\* axis, a partial slice, a fill value, a start index or a padded average it leaves out.
DisagreementsAreReal ==
  \A n \in ToSet(nodes) : n.excused => ~Agree(n)

=============================================================================
