------------------------------ MODULE Tensors ------------------------------
(***************************************************************************)
(* Tensors of integers, and what the operations on them mean to GoMLX and  *)
(* to Core ML alike.  Nothing here is code of the repository: the meanings *)
(* are those of backends.Function and of the MIL operations, of which the  *)
(* code of module GomlxLowering makes the one out of the other.            *)
(*                                                                         *)
(* A tensor is its shape and its elements in row-major order.  Axes are    *)
(* numbered from 0, as in the code: axis a of a shape s is s[a + 1].       *)
(***************************************************************************)
EXTENDS Integers, Sequences, FiniteSets, SequencesExt

----------------------------------------------------------------------------
(* Shapes and tensors.                                                     *)

Size(shape) == FoldLeft(LAMBDA n, d : n * d, 1, shape)
Stride(shape, k) == Size(SubSeq(shape, k + 1, Len(shape)))
Offset(shape, i) == MapThenSumSet(LAMBDA k : i[k] * Stride(shape, k), DOMAIN shape)
Position(shape, n) == [k \in DOMAIN shape |-> (n \div Stride(shape, k)) % shape[k]]
Box(shape) == {Position(shape, n) : n \in 0 .. Size(shape) - 1}

Tensor(shape, At(_)) ==
  [shape |-> shape,
   data  |-> [n \in 1 .. Size(shape) |-> At(Position(shape, n - 1))]]
Elem(t, i) == t.data[Offset(t.shape, i) + 1]
Broken == [shape |-> <<-1>>, data |-> <<>>]   \* what Core ML refuses or leaves undefined

Axes(t) == 0 .. Len(t.shape) - 1
Dim(shape, axis) == shape[axis + 1]
Dims(shape, axes) == [k \in DOMAIN axes |-> Dim(shape, axes[k])]
Rest(rank, axes) == SetToSortSeq((0 .. rank - 1) \ ToSet(axes), LAMBDA a, b : a < b)
Identity(rank) == [k \in 1 .. rank |-> k - 1]
Ones(rank) == [k \in 1 .. rank |-> 1]
Zeros(rank) == [k \in 1 .. rank |-> 0]

\* The coordinates that put coords[k] on axis perm[k].
Placed(perm, coords) ==
  [k \in DOMAIN perm |-> coords[CHOOSE m \in DOMAIN perm : perm[m] = k - 1]]

----------------------------------------------------------------------------
(* What the operations mean: the definitions GoMLX and Core ML share.      *)

Transposed(t, perm) ==
  Tensor(Dims(t.shape, perm), LAMBDA j : Elem(t, Placed(perm, j)))

Reshaped(t, shape) ==
  IF Size(shape) = Len(t.data) THEN [shape |-> shape, data |-> t.data] ELSE Broken

\* values: a function from cells to integers; products are kept small by a prime modulus.
Combine(kind, values) ==
  LET cells == DOMAIN values IN
  CASE kind = "sum"  -> MapThenSumSet(LAMBDA c : values[c], cells)
    [] kind = "avg"  -> MapThenSumSet(LAMBDA c : values[c], cells) \div Cardinality(cells)
    [] kind = "max"  -> Max({values[c] : c \in cells})
    [] kind = "min"  -> Min({values[c] : c \in cells})
    [] kind = "prod" -> FoldSet(LAMBDA c, p : (values[c] * p) % 99991, 1, cells)

Reduced(kind, t, axes) ==
  LET kept == Rest(Len(t.shape), axes)
      gone == Rest(Len(t.shape), kept)
  IN  Tensor(Dims(t.shape, kept), LAMBDA j :
        Combine(kind, [c \in Box(Dims(t.shape, gone)) |->
                         Elem(t, Placed(kept \o gone, j \o c))]))

\* The first coordinate along axis of the largest (smallest) element.
ArgReduced(isMin, t, axis) ==
  LET kept == Rest(Len(t.shape), <<axis>>) IN
  Tensor(Dims(t.shape, kept), LAMBDA j :
    LET at == [c \in 0 .. Dim(t.shape, axis) - 1 |->
                 Elem(t, Placed(Append(kept, axis), Append(j, c)))]
        best == Combine(IF isMin THEN "min" ELSE "max", at)
    IN  Min({c \in DOMAIN at : at[c] = best}))

Sliced(t, starts, limits, strides) ==
  Tensor([k \in DOMAIN t.shape |-> Cardinality({i \in starts[k] .. limits[k] - 1 :
                                                  (i - starts[k]) % strides[k] = 0})],
         LAMBDA j : Elem(t, [k \in DOMAIN j |-> starts[k] + j[k] * strides[k]]))

Joined(ts, axis) ==
  LET before(m) == MapThenSumSet(LAMBDA n : Dim(ts[n].shape, axis), 1 .. m - 1)
      width == before(Len(ts) + 1)
  IN  Tensor([ts[1].shape EXCEPT ![axis + 1] = width], LAMBDA j :
        LET m == CHOOSE m \in DOMAIN ts : before(m) <= Dim(j, axis)
                                            /\ Dim(j, axis) < before(m + 1)
        IN  Elem(ts[m], [j EXCEPT ![axis + 1] = @ - before(m)]))

Padded(t, before, after, fill) ==
  Tensor([k \in DOMAIN t.shape |-> before[k] + t.shape[k] + after[k]], LAMBDA j :
    LET i == [k \in DOMAIN j |-> j[k] - before[k]] IN
    IF \A k \in DOMAIN i : i[k] \in 0 .. t.shape[k] - 1 THEN Elem(t, i) ELSE fill)

Reversed(t, axes) ==
  Tensor(t.shape, LAMBDA j :
    Elem(t, [k \in DOMAIN j |-> IF k - 1 \in ToSet(axes) THEN t.shape[k] - 1 - j[k]
                                                         ELSE j[k]]))

\* Broadcasting aligns the trailing axes; a missing axis or one of size 1 is repeated.
Stretched(t, shape) ==
  LET skip == Len(shape) - Len(t.shape) IN
  Tensor(shape, LAMBDA j :
    Elem(t, [k \in DOMAIN t.shape |-> IF t.shape[k] = 1 THEN 0 ELSE j[skip + k]]))

Broadcast(s, r) ==
  LET size(u, k, n) == IF k > n - Len(u) THEN u[k - (n - Len(u))] ELSE 1
      n == IF Len(s) < Len(r) THEN Len(r) ELSE Len(s)
  IN  [k \in 1 .. n |-> Max({size(s, k, n), size(r, k, n)})]

Combined(x, y, F(_, _)) ==
  LET shape == Broadcast(x.shape, y.shape)
      a == Stretched(x, shape)
      b == Stretched(y, shape)
  IN  [shape |-> shape, data |-> [n \in DOMAIN a.data |-> F(a.data[n], b.data[n])]]

Chosen(cond, a, b) ==
  LET shape == Broadcast(cond.shape, Broadcast(a.shape, b.shape))
      c == Stretched(cond, shape)
      u == Stretched(a, shape)
      v == Stretched(b, shape)
  IN  [shape |-> shape,
       data  |-> [n \in DOMAIN c.data |-> IF c.data[n] = 1 THEN u.data[n] ELSE v.data[n]]]

\* The cells of the window at position j that lie inside the tensor, with their elements.
Window(t, window, strides, before, j) ==
  LET at(c) == [k \in DOMAIN c |-> j[k] * strides[k] + c[k] - before[k]]
      cells == {c \in Box(window) : \A k \in DOMAIN c : at(c)[k] \in 0 .. t.shape[k] - 1}
  IN  [c \in cells |-> Elem(t, at(c))]

WindowShape(shape, window, strides, before, after) ==
  [k \in DOMAIN shape |->
     (shape[k] + before[k] + after[k] - window[k]) \div strides[k] + 1]

Pooled(kind, t, window, strides, before, after) ==
  Tensor(WindowShape(t.shape, window, strides, before, after),
         LAMBDA j : Combine(kind, Window(t, window, strides, before, j)))

\* Convolution of an image and a kernel whose axes are laid out as in and ker say (batch,
\* channels, spatial axes; output channels, input channels, spatial axes), the result laid
\* out as out says.
Convolved(x, w, in, ker, out, strides, dilations, before, after, groups) ==
  LET xs == Dims(x.shape, in)
      ws == Dims(w.shape, ker)
      shape == <<xs[1], ws[1]>> \o [k \in 1 .. Len(in) - 2 |->
                 (xs[k + 2] + before[k] + after[k] - dilations[k] * (ws[k + 2] - 1) - 1)
                   \div strides[k] + 1]
      at(p, c) == [k \in DOMAIN p |->   \* the image cell that kernel cell c meets at p
        CASE k = 1 -> p[1]
          [] k = 2 -> (p[2] \div (ws[1] \div groups)) * ws[2] + c[1]
          [] OTHER -> p[k] * strides[k - 2] + c[k - 1] * dilations[k - 2] - before[k - 2]]
      inside(i) == \A k \in DOMAIN i : i[k] \in 0 .. xs[k] - 1
  IN  Tensor(Placed(out, shape), LAMBDA j :
        LET p == Dims(j, out) IN
        MapThenSumSet(
          LAMBDA c : Elem(w, Placed(ker, <<p[2]>> \o c)) * Elem(x, Placed(in, at(p, c))),
          {c \in Box(Tail(ws)) : inside(at(p, c))}))

=============================================================================
