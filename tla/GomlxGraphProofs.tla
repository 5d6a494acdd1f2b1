--------------------------- MODULE GomlxGraphProofs ---------------------------
(***************************************************************************)
(* Proofs about GomlxGraph, for any outlines.                               *)
(***************************************************************************)
EXTENDS GomlxGraph, TLAPS, WellFoundedInduction, SequenceTheorems

-----------------------------------------------------------------------------
(* Sequences whose elements have no type of their own: terms nest in terms.   *)
IsSeq(s) == s \in Seq(ToSet(s))

LEMMA SeqFacts ==
  ASSUME NEW s, IsSeq(s)
  PROVE  /\ Len(s) \in Nat /\ DOMAIN s = 1..Len(s)
         /\ s = [i \in DOMAIN s |-> s[i]]
         /\ \A i \in DOMAIN s : s[i] \in ToSet(s)
         /\ \A x \in ToSet(s) : \E i \in DOMAIN s : s[i] = x
  BY DEF IsSeq, ToSet

LEMMA SeqOfSet ==
  ASSUME NEW S, NEW s \in Seq(S)
  PROVE  IsSeq(s) /\ ToSet(s) \subseteq S
<1>1. s \in [1..Len(s) -> ToSet(s)] /\ Len(s) \in Nat /\ DOMAIN s = 1..Len(s)
      BY DEF ToSet
<1>2. IsSeq(s)
      BY <1>1 DEF IsSeq
<1>3. ToSet(s) \subseteq S
      BY DEF ToSet
<1> QED BY <1>2, <1>3

LEMMA SeqWider ==
  ASSUME NEW S, NEW T, S \subseteq T, NEW s \in Seq(S)
  PROVE  s \in Seq(T)
<1>1. s \in [1..Len(s) -> S] /\ Len(s) \in Nat
      OBVIOUS
<1>2. s \in [1..Len(s) -> T]
      BY <1>1
<1> QED BY <1>1, <1>2

LEMMA FunctionIsSeq ==
  ASSUME NEW n \in Nat, NEW S, NEW f \in [1..n -> S]
  PROVE  IsSeq(f) /\ Len(f) = n /\ DOMAIN f = 1..n /\ f \in Seq(S)
<1>1. f \in Seq(S)
      OBVIOUS
<1>2. Len(f) = n /\ DOMAIN f = 1..n
      BY <1>1
<1> QED BY <1>1, <1>2, SeqOfSet

LEMMA MadeIsSeq ==
  ASSUME NEW n \in Nat, NEW f, f = [i \in 1..n |-> f[i]]
  PROVE  IsSeq(f) /\ Len(f) = n /\ DOMAIN f = 1..n
<1>1. f \in [1..n -> {f[i] : i \in 1..n}]
      OBVIOUS
<1> QED BY <1>1, FunctionIsSeq

LEMMA AppendFacts ==
  ASSUME NEW s, IsSeq(s), NEW e
  PROVE  /\ IsSeq(Append(s, e)) /\ Len(Append(s, e)) = Len(s) + 1
         /\ DOMAIN Append(s, e) = 1..Len(s) + 1
         /\ DOMAIN Append(s, e) = DOMAIN s \union {Len(s) + 1}
         /\ Len(s) + 1 \notin DOMAIN s
         /\ \A i \in DOMAIN s : Append(s, e)[i] = s[i]
         /\ Append(s, e)[Len(s) + 1] = e
         /\ ToSet(Append(s, e)) = ToSet(s) \union {e}
<1> DEFINE S == ToSet(s) \union {e}
           t == Append(s, e)
<1>1. s \in Seq(S) /\ e \in S
      BY DEF IsSeq
<1>2. Len(s) \in Nat /\ DOMAIN s = 1..Len(s)
      BY SeqFacts
<1>3. t \in Seq(S) /\ Len(t) = Len(s) + 1
      BY <1>1
<1>4. DOMAIN t = 1..Len(s) + 1
      BY <1>3
<1>5. \A i \in DOMAIN s : t[i] = s[i]
      BY <1>1, <1>2
<1>6. t[Len(s) + 1] = e
      BY <1>1
<1>7. DOMAIN t = DOMAIN s \union {Len(s) + 1} /\ Len(s) + 1 \notin DOMAIN s
      BY <1>4, <1>2
<1>8. ToSet(t) = ToSet(s) \union {e}
      BY <1>7, <1>5, <1>6 DEF ToSet
<1> QED BY <1>3, <1>4, <1>5, <1>6, <1>7, <1>8, SeqOfSet

(* Sequence u is s and then t.                                                *)
Joined(u, s, t) ==
  /\ IsSeq(u) /\ Len(u) = Len(s) + Len(t) /\ DOMAIN u = 1..Len(s) + Len(t)
  /\ \A i \in DOMAIN s : i \in DOMAIN u /\ u[i] = s[i]
  /\ \A i \in DOMAIN t : Len(s) + i \in DOMAIN u /\ u[Len(s) + i] = t[i]
  /\ \A k \in DOMAIN u : \/ k \in DOMAIN s /\ u[k] = s[k]
                         \/ \E i \in DOMAIN t : k = Len(s) + i /\ u[k] = t[i]
  /\ ToSet(u) = ToSet(s) \union ToSet(t)

LEMMA ConcatFacts ==
  ASSUME NEW s, IsSeq(s), NEW t, IsSeq(t)
  PROVE  Joined(s \o t, s, t)
<1> DEFINE S == ToSet(s) \union ToSet(t)
           u == s \o t
<1>1. s \in Seq(S) /\ t \in Seq(S)
      BY DEF IsSeq
<1>2. /\ Len(s) \in Nat /\ DOMAIN s = 1..Len(s)
      /\ Len(t) \in Nat /\ DOMAIN t = 1..Len(t)
      BY SeqFacts
<1>3. u \in Seq(S) /\ Len(u) = Len(s) + Len(t)
      BY <1>1
<1>4. DOMAIN u = 1..Len(s) + Len(t)
      BY <1>3
<1>5. \A i \in DOMAIN s : i \in DOMAIN u /\ u[i] = s[i]
      BY <1>1, <1>2, <1>4
<1>6. ASSUME NEW i \in DOMAIN t
      PROVE  Len(s) + i \in DOMAIN u /\ u[Len(s) + i] = t[i]
  <2>1. Len(s) + i \in 1..Len(s) + Len(t) /\ Len(s) + i > Len(s)
        BY <1>2
  <2>2. u[Len(s) + i] = t[Len(s) + i - Len(s)]
        BY <1>1, <1>2, <2>1
  <2>3. Len(s) + i - Len(s) = i
        BY <1>2
  <2> QED BY <2>1, <2>2, <2>3, <1>4
<1>7. ASSUME NEW k \in DOMAIN u
      PROVE  \/ k \in DOMAIN s /\ u[k] = s[k]
             \/ \E i \in DOMAIN t : k = Len(s) + i /\ u[k] = t[i]
  <2>1. CASE k <= Len(s)
        BY <2>1, <1>2, <1>4, <1>5
  <2>2. CASE k > Len(s)
    <3>1. k - Len(s) \in DOMAIN t /\ k = Len(s) + (k - Len(s))
          BY <2>2, <1>2, <1>4
    <3> QED BY <3>1, <1>6
  <2> QED BY <2>1, <2>2, <1>2, <1>4
<1>8. ToSet(u) = ToSet(s) \union ToSet(t)
  <2>1. ToSet(u) \subseteq ToSet(s) \union ToSet(t)
        BY <1>7 DEF ToSet
  <2>2. ASSUME NEW x \in ToSet(s) PROVE x \in ToSet(u)
    <3>1. PICK i \in DOMAIN s : s[i] = x
          BY DEF ToSet
    <3>2. i \in DOMAIN u /\ u[i] = x
          BY <3>1, <1>5
    <3> QED BY <3>2 DEF ToSet
  <2>3. ASSUME NEW x \in ToSet(t) PROVE x \in ToSet(u)
    <3>1. PICK i \in DOMAIN t : t[i] = x
          BY DEF ToSet
    <3>2. Len(s) + i \in DOMAIN u /\ u[Len(s) + i] = x
          BY <3>1, <1>6
    <3> QED BY <3>2 DEF ToSet
  <2> QED BY <2>1, <2>2, <2>3
<1>9. IsSeq(u)
      BY <1>3, SeqOfSet
<1> HIDE DEF u
<1>10. Joined(u, s, t)
       BY <1>3, <1>4, <1>5, <1>6, <1>7, <1>8, <1>9 DEF Joined
<1> QED BY <1>10 DEF u

-----------------------------------------------------------------------------
(* Values.                                                                    *)
Sound(v, term) == v.whole \in BOOLEAN /\ (v.whole => v.means = term)
Booleans(vs) == \A i \in DOMAIN vs : vs[i].whole \in BOOLEAN
Homes(vs) == {vs[i].home : i \in DOMAIN vs}

LEMMA ValueFacts ==
  ASSUME NEW home, NEW term
  PROVE  /\ Value(home, term).home = home /\ Value(home, term).whole = TRUE
         /\ Value(home, term).means = term
  BY DEF Value

LEMMA PlaceholderFacts ==
  /\ PlaceholderValue.home = Nowhere /\ PlaceholderValue.whole = FALSE
  /\ Main # Nowhere
  BY DEF PlaceholderValue, Main, Nowhere

LEMMA ResultFacts ==
  ASSUME NEW home, NEW term, NEW vs
  PROVE  /\ Result(home, term, vs).home = home
         /\ Result(home, term, vs).whole \in BOOLEAN
         /\ Result(home, term, vs).whole <=> Whole(vs)
         /\ Whole(vs) => Result(home, term, vs).means = term
  BY DEF Result, Value, PlaceholderValue

LEMMA ComputedFacts ==
  ASSUME NEW home, NEW op, NEW args
  PROVE  /\ Computed(home, op, args).home = home
         /\ Computed(home, op, args).whole \in BOOLEAN
         /\ Computed(home, op, args).whole <=> Whole(args)
         /\ Whole(args) => Computed(home, op, args).means = Term(op, Means(args))
  BY ResultFacts DEF Computed

(* What an operation emits: every one of its operations uses the operands or  *)
(* what was computed before, and the last one computes what is promised.      *)
EmissionIs(e, op, vs) ==
  /\ IsSeq(e.ops)
  /\ \A k \in DOMAIN e.ops :
       e.ops[k].blocks = <<>> /\ Homes(e.ops[k].args) \subseteq {Main} \union Homes(vs)
  /\ e.val.home = Main /\ e.val.whole \in BOOLEAN /\ (e.val.whole <=> Whole(vs))
  /\ Whole(vs) => e.val.means = Promise(op, Means(vs))

LEMMA MilOpFacts ==
  ASSUME NEW op, NEW args
  PROVE  MilOp(op, args).blocks = <<>> /\ MilOp(op, args).args = args
  BY DEF MilOp

LEMMA EmptyFacts ==
  ASSUME NEW s \in Seq({})
  PROVE  /\ IsSeq(s) /\ Len(s) = 0 /\ DOMAIN s = {} /\ ToSet(s) = {}
         /\ Homes(s) = {} /\ Whole(s)
<1>1. Len(s) = 0 /\ DOMAIN s = {}
      OBVIOUS
<1>2. IsSeq(s)
      BY SeqOfSet
<1>3. ToSet(s) = {}
      BY <1>1 DEF ToSet
<1>4. Homes(s) = {}
      BY <1>1 DEF Homes
<1>5. Whole(s)
      BY <1>1 DEF Whole
<1> QED BY <1>1, <1>2, <1>3, <1>4, <1>5

LEMMA OneTuple ==
  ASSUME NEW x
  PROVE  IsSeq(<<x>>) /\ Len(<<x>>) = 1 /\ DOMAIN <<x>> = {1} /\ <<x>>[1] = x /\ ToSet(<<x>>) = {x}
<1> DEFINE s == <<x>>
<1>1. s \in Seq({x}) /\ Len(s) = 1 /\ DOMAIN s = {1} /\ s[1] = x
      OBVIOUS
<1> HIDE DEF s
<1>2. ToSet(s) = {x}
      BY <1>1 DEF ToSet
<1>3. IsSeq(s)
      BY <1>1, SeqOfSet
<1> QED BY <1>1, <1>2, <1>3 DEF s

LEMMA TwoTuple ==
  ASSUME NEW x, NEW y
  PROVE  /\ IsSeq(<<x, y>>) /\ Len(<<x, y>>) = 2 /\ DOMAIN <<x, y>> = {1, 2}
         /\ <<x, y>>[1] = x /\ <<x, y>>[2] = y
<1> DEFINE s == <<x, y>>
<1>1. s \in Seq({x, y}) /\ Len(s) = 2 /\ DOMAIN s = {1, 2} /\ s[1] = x /\ s[2] = y
      OBVIOUS
<1> HIDE DEF s
<1>2. IsSeq(s)
      BY <1>1, SeqOfSet
<1> QED BY <1>1, <1>2 DEF s

LEMMA LiteralFacts ==
  ASSUME NEW x
  PROVE  Literal(x).home = Main /\ Literal(x).whole = TRUE /\ Literal(x).means = Leaf("literal", x)
  BY DEF Literal, Value

LEMMA OneOperand ==
  ASSUME NEW vs, IsSeq(vs), Len(vs) = 1, NEW x
  PROVE  /\ Whole(<<vs[1], Literal(x)>>) <=> Whole(vs)
         /\ Means(<<vs[1], Literal(x)>>) = <<Means(vs)[1], Leaf("literal", x)>>
         /\ Homes(<<vs[1], Literal(x)>>) \subseteq {Main} \union Homes(vs)
<1> DEFINE us == <<vs[1], Literal(x)>>
<1>1. DOMAIN vs = {1}
      BY SeqFacts
<1>2. DOMAIN us = {1, 2} /\ us[1] = vs[1] /\ us[2] = Literal(x)
      BY TwoTuple
<1> HIDE DEF us
<1>3. Whole(us) <=> Whole(vs)
      BY <1>1, <1>2, LiteralFacts DEF Whole
<1>4. Means(vs)[1] = vs[1].means
      BY <1>1 DEF Means
<1>5. Means(us) = <<vs[1].means, Leaf("literal", x)>>
  <2>1. Means(us) = [i \in {1, 2} |-> us[i].means]
        BY <1>2 DEF Means
  <2>2. us[1].means = vs[1].means /\ us[2].means = Leaf("literal", x)
        BY <1>2, LiteralFacts
  <2>3. <<vs[1].means, Leaf("literal", x)>> = [i \in {1, 2} |-> us[i].means]
        BY <2>2
  <2> QED BY <2>1, <2>3
<1>6. Homes(us) \subseteq {Main} \union Homes(vs)
  <2>1. us[1].home \in Homes(vs) /\ us[2].home = Main
        BY <1>1, <1>2, LiteralFacts DEF Homes
  <2>2. Homes(us) = {us[1].home, us[2].home}
        BY <1>2 DEF Homes
  <2> QED BY <2>1, <2>2
<1> QED BY <1>3, <1>4, <1>5, <1>6 DEF us

(* One operation after those before it, whose operands live at homes.         *)
LEMMA EmittedIs ==
  ASSUME NEW before, IsSeq(before), NEW op, NEW args, NEW vs, NEW e, NEW asked,
         e = Emitted(before, op, args),
         \A k \in DOMAIN before :
           before[k].blocks = <<>> /\ Homes(before[k].args) \subseteq {Main} \union Homes(vs),
         Homes(args) \subseteq {Main} \union Homes(vs),
         Whole(args) <=> Whole(vs),
         Whole(vs) => Term(op, Means(args)) = Promise(asked, Means(vs))
  PROVE  EmissionIs(e, asked, vs)
<1> DEFINE homes == {Main} \union Homes(vs)
           v == Computed(Main, op, args)
<1>1. /\ v.home = Main /\ v.whole \in BOOLEAN
      /\ v.whole <=> Whole(args)
      /\ Whole(args) => v.means = Term(op, Means(args))
      BY ComputedFacts
<1>2. /\ IsSeq(e.ops)
      /\ \A k \in DOMAIN e.ops :
           e.ops[k].blocks = <<>> /\ Homes(e.ops[k].args) \subseteq homes
      /\ e.val = v
  <2> DEFINE new == MilOp(op, args)
             all == Append(before, new)
  <2>1. /\ IsSeq(all) /\ DOMAIN all = DOMAIN before \union {Len(before) + 1}
        /\ \A i \in DOMAIN before : all[i] = before[i]
        /\ all[Len(before) + 1] = new
        BY AppendFacts
  <2>2. new.blocks = <<>> /\ new.args = args
        BY MilOpFacts
  <2>3. e.ops = all /\ e.val = v
        BY DEF Emitted
  <2> HIDE DEF all, new
  <2>4. \A k \in DOMAIN all : all[k].blocks = <<>> /\ Homes(all[k].args) \subseteq homes
        BY <2>1, <2>2
  <2> QED BY <2>1, <2>3, <2>4
<1> HIDE DEF v
<1>3. e.val.home = Main /\ e.val.whole \in BOOLEAN /\ (e.val.whole <=> Whole(vs))
      BY <1>1, <1>2
<1>4. Whole(vs) => e.val.means = Promise(asked, Means(vs))
      BY <1>1, <1>2
<1> QED BY <1>2, <1>3, <1>4 DEF EmissionIs

LEMMA EmissionFacts ==
  ASSUME NEW op, NEW vs, IsSeq(vs), Len(vs) \in Nat \ {0},
         op \in {"Neg", "Expm1", "Log1p"} => Len(vs) = 1
  PROVE  EmissionIs(Emission(op, vs), op, vs)
<1> DEFINE none == <<>>
<1>0. IsSeq(none) /\ DOMAIN none = {}
  <2>1. none \in Seq({})
        OBVIOUS
  <2> HIDE DEF none
  <2> QED BY <2>1, EmptyFacts
<1>1. CASE op = "Neg"
  <2> DEFINE args == <<vs[1], Literal(-1)>>
  <2>1. Emission(op, vs) = Emitted(none, "Mul", args)
        BY <1>1 DEF Emission
  <2>2. Promise(op, Means(vs)) = Term("Mul", <<Means(vs)[1], Leaf("literal", -1)>>)
        BY <1>1 DEF Promise
  <2>3. /\ (Whole(args) <=> Whole(vs)) /\ Homes(args) \subseteq {Main} \union Homes(vs)
        /\ Means(args) = <<Means(vs)[1], Leaf("literal", -1)>>
        BY <1>1, OneOperand
  <2>4. Term("Mul", Means(args)) = Promise(op, Means(vs))
        BY <2>2, <2>3
  <2> HIDE DEF args, none
  <2> QED BY <1>0, <2>1, <2>3, <2>4, EmittedIs
<1>2. CASE op = "Expm1"
  <2> DEFINE first == Computed(Main, "Exp", vs)
             args == <<first, Literal(1)>>
             before == <<MilOp("Exp", vs)>>
  <2>1. Emission(op, vs) = Emitted(before, "Sub", args)
        BY <1>2 DEF Emission
  <2>2. Promise(op, Means(vs)) = Term("Sub", <<Term("Exp", Means(vs)), Leaf("literal", 1)>>)
        BY <1>2 DEF Promise
  <2>3. /\ first.home = Main /\ first.whole \in BOOLEAN /\ (first.whole <=> Whole(vs))
        /\ Whole(vs) => first.means = Term("Exp", Means(vs))
        BY ComputedFacts
  <2> HIDE DEF first
  <2>4. DOMAIN args = {1, 2} /\ args[1] = first /\ args[2] = Literal(1)
        BY TwoTuple
  <2>5. DOMAIN before = {1} /\ before[1] = MilOp("Exp", vs) /\ IsSeq(before)
        BY OneTuple
  <2>6. Means(args) = <<first.means, Leaf("literal", 1)>>
    <3>1. Means(args) = [i \in {1, 2} |-> args[i].means]
          BY <2>4 DEF Means
    <3>2. args[1].means = first.means /\ args[2].means = Leaf("literal", 1)
          BY <2>4, LiteralFacts
    <3>3. <<first.means, Leaf("literal", 1)>> = [i \in {1, 2} |-> args[i].means]
          BY <3>2
    <3> QED BY <3>1, <3>3
  <2>7. Whole(vs) => Term("Sub", Means(args)) = Promise(op, Means(vs))
        BY <2>2, <2>3, <2>6
  <2> HIDE DEF args, before
  <2>8. Whole(args) <=> args[1].whole
    <3>1. Whole(args) <=> args[1].whole /\ args[2].whole
          BY <2>4 DEF Whole
    <3>2. args[2].whole = TRUE
          BY <2>4, LiteralFacts
    <3> QED BY <3>1, <3>2
  <2>9. Whole(args) <=> Whole(vs)
        BY <2>3, <2>4, <2>8
  <2>10. Homes(args) = {args[1].home, args[2].home}
         BY <2>4 DEF Homes
  <2>11. Homes(args) \subseteq {Main} \union Homes(vs)
    <3>1. args[1].home = Main /\ args[2].home = Main
          BY <2>3, <2>4, LiteralFacts
    <3> QED BY <2>10, <3>1
  <2>12. before[1].blocks = <<>> /\ before[1].args = vs
         BY <2>5, MilOpFacts
  <2>13. \A k \in DOMAIN before :
           before[k].blocks = <<>> /\ Homes(before[k].args) \subseteq {Main} \union Homes(vs)
         BY <2>5, <2>12
  <2> QED BY <2>1, <2>5, <2>7, <2>9, <2>11, <2>13, EmittedIs
<1>3. CASE op = "Log1p"
  <2> DEFINE plusOne == <<vs[1], Literal(1)>>
             first == Computed(Main, "Add", plusOne)
             args == <<first>>
             before == <<MilOp("Add", plusOne)>>
  <2>1. Emission(op, vs) = Emitted(before, "Log", args)
        BY <1>3 DEF Emission
  <2>2. Promise(op, Means(vs)) =
          Term("Log", <<Term("Add", <<Means(vs)[1], Leaf("literal", 1)>>)>>)
        BY <1>3 DEF Promise
  <2>3. /\ (Whole(plusOne) <=> Whole(vs)) /\ Homes(plusOne) \subseteq {Main} \union Homes(vs)
        /\ Means(plusOne) = <<Means(vs)[1], Leaf("literal", 1)>>
        BY <1>3, OneOperand
  <2> HIDE DEF plusOne
  <2>4. /\ first.home = Main /\ first.whole \in BOOLEAN /\ (first.whole <=> Whole(plusOne))
        /\ Whole(plusOne) => first.means = Term("Add", Means(plusOne))
        BY ComputedFacts
  <2> HIDE DEF first
  <2>5. DOMAIN args = {1} /\ args[1] = first
        BY OneTuple
  <2>6. DOMAIN before = {1} /\ before[1] = MilOp("Add", plusOne) /\ IsSeq(before)
        BY OneTuple
  <2>7. Means(args) = <<first.means>>
    <3>1. Means(args) = [i \in {1} |-> args[i].means]
          BY <2>5 DEF Means
    <3>2. <<first.means>> = [i \in {1} |-> args[i].means]
          BY <2>5
    <3> QED BY <3>1, <3>2
  <2>8. Whole(vs) => Term("Log", Means(args)) = Promise(op, Means(vs))
        BY <2>2, <2>3, <2>4, <2>7
  <2> HIDE DEF args, before
  <2>9. Whole(args) <=> args[1].whole
        BY <2>5 DEF Whole
  <2>10. Whole(args) <=> Whole(vs)
         BY <2>3, <2>4, <2>5, <2>9
  <2>11. Homes(args) = {args[1].home}
         BY <2>5 DEF Homes
  <2>12. Homes(args) \subseteq {Main} \union Homes(vs)
         BY <2>4, <2>5, <2>11
  <2>13. before[1].blocks = <<>> /\ before[1].args = plusOne
         BY <2>6, MilOpFacts
  <2>14. \A k \in DOMAIN before :
           before[k].blocks = <<>> /\ Homes(before[k].args) \subseteq {Main} \union Homes(vs)
         BY <2>3, <2>6, <2>13
  <2> QED BY <2>1, <2>6, <2>8, <2>10, <2>12, <2>14, EmittedIs
<1>4. CASE op \notin {"Neg", "Expm1", "Log1p"}
  <2>1. Emission(op, vs) = Emitted(none, op, vs) /\ Promise(op, Means(vs)) = Term(op, Means(vs))
        BY <1>4 DEF Emission, Promise
  <2> HIDE DEF none
  <2> QED BY <1>0, <2>1, EmittedIs
<1> QED BY <1>1, <1>2, <1>3, <1>4

(* Operand types and what is promised of the operations a replay knows.       *)
LEMMA SignatureFacts ==
  ASSUME NEW op \in AllOps, NEW types \in Signatures(op)
  PROVE  /\ types \in Seq(Types) /\ Len(types) \in Nat \ {0} /\ DOMAIN types = 1..Len(types)
         /\ op \in {"Neg", "Expm1", "Log1p"} => Len(types) = 1
<1>1. types \in {<<"Float32">>, <<"Float32", "Float32">>} \union {<<"Bool", t, t>> : t \in Types}
      BY DEF Signatures, AllOps, UnaryOps, BinaryOps, ComparisonOps, EagerOps, Types
<1>2. op \in {"Neg", "Expm1", "Log1p"} => types = <<"Float32">>
      BY DEF Signatures, AllOps, UnaryOps, BinaryOps, ComparisonOps
<1>3. types \in Seq(Types) /\ Len(types) \in Nat \ {0}
  <2>1. CASE types = <<"Float32">>
        BY <2>1 DEF Types
  <2>2. CASE types = <<"Float32", "Float32">>
        BY <2>2 DEF Types
  <2>3. ASSUME NEW t \in Types, types = <<"Bool", t, t>> PROVE types \in Seq(Types) /\ Len(types) \in Nat \ {0}
        BY <2>3 DEF Types
  <2> QED BY <1>1, <2>1, <2>2, <2>3
<1> QED BY <1>1, <1>2, <1>3

LEMMA ReplayablePromise ==
  ASSUME NEW op \in Replayable, NEW ts
  PROVE  Promise(op, ts) = Term(op, ts)
  BY DEF Promise, Replayable


-----------------------------------------------------------------------------
(* Induction over the numbers up to a bound: a set of them has a least one.   *)
LEMMA LeastNumber ==
  ASSUME NEW T \in SUBSET Nat, T # {}
  PROVE  \E n \in T : \A m \in T : n <= m
<1> DEFINE R == OpToRel(<, Nat)
<1>1. IsWellFoundedOn(R, Nat)
      BY NatLessThanWellFounded
<1>2. \A x, y \in T : y < x => <<y, x>> \in R
      BY DEF OpToRel
<1> HIDE DEF R
<1>3. PICK x \in T : \A y \in T : ~ (<<y, x>> \in R)
      BY <1>1, WFMin
<1>4. ASSUME NEW y \in T PROVE x <= y
  <2>1. ~(y < x)
        BY <1>2, <1>3
  <2> QED BY <2>1
<1> QED BY <1>4

(* The recursion of Replayed: there is a function with the equation that      *)
(* defines upTo, so the one chosen has it.                                     *)
LEMMA ReplayedEquation ==
  ASSUME NEW c, NEW home, NEW blockInputs, IsSeq(functions[c].sorted)
  PROVE  /\ Replayed(c, home, blockInputs)[0]
              = [map |-> BoundParameters(c, blockInputs), ops |-> <<>>]
         /\ \A k \in 1..Len(functions[c].sorted) :
              Replayed(c, home, blockInputs)[k]
                = ReplayStep(functions[c].sorted[k], c, home, Replayed(c, home, blockInputs)[k - 1])
<1> DEFINE sorted == functions[c].sorted
           base == [map |-> BoundParameters(c, blockInputs), ops |-> <<>>]
           step(k, acc) == ReplayStep(sorted[k], c, home, acc)
           is(g, m) == g = [k \in 0..m |-> IF k = 0 THEN base ELSE step(k, g[k - 1])]
           N == Len(sorted)
<1>1. N \in Nat
      BY SeqFacts
<1>2. Replayed(c, home, blockInputs) = CHOOSE g : is(g, N)
      BY Zenon DEF Replayed
<1> HIDE DEF base, step, N
<1>3. \A m \in 0..N : \E g : is(g, m)
  <2> DEFINE T == {m \in 0..N : ~ \E g : is(g, m)}
  <2>1. SUFFICES ASSUME T # {} PROVE FALSE
        OBVIOUS
  <2>2. PICK m \in T : \A k \in T : m <= k
    <3>1. T \in SUBSET Nat
          BY <1>1
    <3> HIDE DEF T
    <3> QED BY <2>1, <3>1, LeastNumber
  <2>3. m \in 0..N /\ ~ \E g : is(g, m)
        OBVIOUS
  <2>4. CASE m = 0
    <3> DEFINE g == [k \in 0..0 |-> base]
    <3>1. is(g, 0)
          OBVIOUS
    <3> QED BY <2>3, <2>4, <3>1
  <2>5. CASE m # 0
    <3>1. m - 1 \in 0..N /\ m - 1 \notin T
      <4>1. m - 1 \in 0..N /\ ~ (m <= m - 1)
            BY <2>3, <2>5, <1>1
      <4> HIDE DEF T
      <4> QED BY <2>2, <4>1
    <3>2. PICK g : is(g, m - 1)
          BY <3>1
    <3> DEFINE h == [k \in 0..m |-> IF k = m THEN step(m, g[m - 1]) ELSE g[k]]
    <3>3. ASSUME NEW k \in 0..m PROVE h[k] = IF k = 0 THEN base ELSE step(k, h[k - 1])
      <4>1. CASE k = m
        <5>1. h[k] = step(m, g[m - 1])
              BY <4>1
        <5>2. m - 1 \in 0..m /\ m - 1 # m
              BY <2>3, <2>5, <1>1
        <5>3. h[k - 1] = g[m - 1]
              BY <4>1, <5>2
        <5> QED BY <5>1, <5>3, <4>1, <2>5
      <4>2. CASE k # m
        <5>1. k \in 0..m - 1 /\ h[k] = g[k]
              BY <4>2, <2>3
        <5>2. g[k] = IF k = 0 THEN base ELSE step(k, g[k - 1])
              BY <5>1, <3>2
        <5>3. k # 0 => h[k - 1] = g[k - 1]
          <6>1. k # 0 => k - 1 \in 0..m /\ k - 1 # m
                BY <5>1, <2>3
          <6> QED BY <6>1
        <5> QED BY <5>1, <5>2, <5>3
      <4> QED BY <4>1, <4>2
    <3>4. h = [k \in 0..m |-> h[k]]
          OBVIOUS
    <3> HIDE DEF h
    <3>5. is(h, m)
          BY <3>3, <3>4
    <3> QED BY <2>3, <3>5
  <2> QED BY <2>4, <2>5
<1>4. \E g : is(g, N)
      BY <1>1, <1>3
<1>5. is(Replayed(c, home, blockInputs), N)
      BY <1>2, <1>4
<1> DEFINE all == Replayed(c, home, blockInputs)
<1> HIDE DEF all
<1>6. all[0] = base /\ \A k \in 1..N : all[k] = step(k, all[k - 1])
  <2>1. all = [k \in 0..N |-> IF k = 0 THEN base ELSE step(k, all[k - 1])]
        BY <1>5 DEF all
  <2>2. 0 \in 0..N
        BY <1>1
  <2>3. all[0] = base
        BY <2>1, <2>2
  <2>4. ASSUME NEW k \in 1..N PROVE all[k] = step(k, all[k - 1])
    <3>1. k \in 0..N /\ k # 0
          BY <1>1
    <3> QED BY <2>1, <3>1
  <2> QED BY <2>3, <2>4
<1> QED BY <1>6 DEF all, base, step, N

(* The nodes that a closure replays, in the order of their creation.          *)
Increasing(s) == \A k, l \in DOMAIN s : k < l => s[k] < s[l]

LEMMA SortedFacts ==
  ASSUME NEW outs, IsSeq(nodes)
  PROVE  /\ IsSeq(Sorted(outs)) /\ Increasing(Sorted(outs))
         /\ ToSet(Sorted(outs)) = Needed(outs) \cap Ns
<1> DEFINE needed == Needed(outs)
           none == <<>>
           step(n, s) == IF n \in needed THEN Append(s, n) ELSE s
           is(g, m) == g = [n \in 0..m |-> IF n = 0 THEN none ELSE step(n, g[n - 1])]
           N == Len(nodes)
           all == CHOOSE g : is(g, N)
<1>1. N \in Nat /\ Ns = 1..N
      BY SeqFacts DEF Ns
<1>2. Sorted(outs) = all[N]
      BY Zenon DEF Sorted
<1>0. IsSeq(none) /\ DOMAIN none = {} /\ ToSet(none) = {}
  <2>1. none \in Seq({})
        OBVIOUS
  <2> HIDE DEF none
  <2> QED BY <2>1, EmptyFacts
<1> HIDE DEF none, needed, N
<1>3. \A m \in 0..N : \E g : is(g, m)
  <2> HIDE DEF step
  <2> DEFINE T == {m \in 0..N : ~ \E g : is(g, m)}
  <2>1. SUFFICES ASSUME T # {} PROVE FALSE
        OBVIOUS
  <2>2. PICK m \in T : \A n \in T : m <= n
    <3>1. T \in SUBSET Nat
          BY <1>1
    <3> HIDE DEF T
    <3> QED BY <2>1, <3>1, LeastNumber
  <2>3. m \in 0..N /\ ~ \E g : is(g, m)
        OBVIOUS
  <2>4. CASE m = 0
    <3> DEFINE g == [n \in 0..0 |-> none]
    <3>1. is(g, 0)
          OBVIOUS
    <3> QED BY <2>3, <2>4, <3>1
  <2>5. CASE m # 0
    <3>1. m - 1 \in 0..N /\ m - 1 \notin T
      <4>1. m - 1 \in 0..N /\ ~ (m <= m - 1)
            BY <2>3, <2>5, <1>1
      <4> HIDE DEF T
      <4> QED BY <2>2, <4>1
    <3>2. PICK g : is(g, m - 1)
          BY <3>1
    <3> DEFINE h == [n \in 0..m |-> IF n = m THEN step(m, g[m - 1]) ELSE g[n]]
    <3>3. ASSUME NEW n \in 0..m PROVE h[n] = IF n = 0 THEN none ELSE step(n, h[n - 1])
      <4>1. CASE n = m
        <5>1. h[n] = step(m, g[m - 1])
              BY <4>1
        <5>2. m - 1 \in 0..m /\ m - 1 # m
              BY <2>3, <2>5, <1>1
        <5>3. h[n - 1] = g[m - 1]
              BY <4>1, <5>2
        <5> QED BY <5>1, <5>3, <4>1, <2>5
      <4>2. CASE n # m
        <5>1. n \in 0..m - 1 /\ h[n] = g[n]
              BY <4>2, <2>3
        <5>2. g[n] = IF n = 0 THEN none ELSE step(n, g[n - 1])
              BY <5>1, <3>2
        <5>3. n # 0 => h[n - 1] = g[n - 1]
          <6>1. n # 0 => n - 1 \in 0..m /\ n - 1 # m
                BY <5>1, <2>3
          <6> QED BY <6>1
        <5> QED BY <5>1, <5>2, <5>3
      <4> QED BY <4>1, <4>2
    <3>4. h = [n \in 0..m |-> h[n]]
          OBVIOUS
    <3> HIDE DEF h
    <3>5. is(h, m)
          BY <3>3, <3>4
    <3> QED BY <2>3, <3>5
  <2> QED BY <2>4, <2>5
<1>4. is(all, N)
  <2> HIDE DEF step
  <2>1. \E g : is(g, N)
        BY <1>1, <1>3
  <2> QED BY <2>1
<1> HIDE DEF all
<1>5. all[0] = none /\ \A n \in 1..N : all[n] = step(n, all[n - 1])
  <2> HIDE DEF step
  <2>1. 0 \in 0..N
        BY <1>1
  <2>2. all[0] = none
        BY <1>4, <2>1
  <2>3. ASSUME NEW n \in 1..N PROVE all[n] = step(n, all[n - 1])
    <3>1. n \in 0..N /\ n # 0
          BY <1>1
    <3> QED BY <1>4, <3>1
  <2> QED BY <2>2, <2>3
<1> DEFINE good(m) == IsSeq(all[m]) /\ ToSet(all[m]) = needed \cap 1..m /\ Increasing(all[m])
<1>6. good(0)
  <2>1. 1..0 = {}
        OBVIOUS
  <2> QED BY <1>5, <1>0, <2>1 DEF Increasing
<1>7. ASSUME NEW m \in 1..N, good(m - 1) PROVE good(m)
  <2> DEFINE s == all[m - 1]
  <2>1. m \in Nat /\ m \in 1..m /\ 1..m = 1..m - 1 \union {m}
        BY <1>1
  <2>2. CASE m \in needed
    <3>1. all[m] = Append(s, m)
          BY <1>5, <2>2
    <3>2. IsSeq(s) /\ ToSet(s) = needed \cap 1..m - 1 /\ Increasing(s)
          BY <1>7
    <3> HIDE DEF s
    <3> DEFINE t == Append(s, m)
    <3>3. /\ IsSeq(t) /\ DOMAIN t = DOMAIN s \union {Len(s) + 1}
          /\ ToSet(t) = ToSet(s) \union {m} /\ Len(s) + 1 \notin DOMAIN s
          /\ \A i \in DOMAIN s : t[i] = s[i]
          /\ t[Len(s) + 1] = m
          BY <3>2, AppendFacts
    <3> HIDE DEF t
    <3>4. /\ Len(s) \in Nat /\ DOMAIN s = 1..Len(s)
          /\ \A i \in DOMAIN s : s[i] \in ToSet(s)
          BY <3>2, SeqFacts
    <3>5. \A i \in DOMAIN s : s[i] \in 1..m - 1
          BY <3>2, <3>4
    <3>6. ASSUME NEW k \in DOMAIN t, NEW l \in DOMAIN t, k < l PROVE t[k] < t[l]
      <4>1. k \in DOMAIN s
            BY <3>3, <3>4, <3>6
      <4>2. CASE l \in DOMAIN s
            BY <4>1, <4>2, <3>2, <3>3, <3>6 DEF Increasing
      <4>3. CASE l = Len(s) + 1
        <5>1. t[k] = s[k] /\ s[k] \in 1..m - 1 /\ t[l] = m
              BY <4>1, <4>3, <3>3, <3>5
        <5> QED BY <5>1, <2>1
      <4> QED BY <4>2, <4>3, <3>3
    <3>7. Increasing(t)
          BY <3>6 DEF Increasing
    <3>8. ToSet(t) = needed \cap 1..m
          BY <3>2, <3>3, <2>1, <2>2
    <3> QED BY <3>1, <3>3, <3>7, <3>8 DEF t
  <2>3. CASE m \notin needed
    <3>1. all[m] = s
          BY <1>5, <2>3
    <3> QED BY <3>1, <1>7, <2>1, <2>3
  <2> QED BY <2>2, <2>3
<1>8. good(N)
  <2> HIDE DEF good
  <2> DEFINE T == {m \in 0..N : ~ good(m)}
  <2>1. SUFFICES ASSUME T # {} PROVE FALSE
        BY <1>1
  <2>2. PICK m \in T : \A n \in T : m <= n
    <3>1. T \in SUBSET Nat
          BY <1>1
    <3> HIDE DEF T
    <3> QED BY <2>1, <3>1, LeastNumber
  <2>3. m \in 1..N
        BY <1>1, <1>6
  <2>4. m - 1 \in 0..N /\ ~ (m <= m - 1)
        BY <2>3, <1>1
  <2>5. good(m - 1)
        BY <2>2, <2>4
  <2> QED BY <2>3, <2>5, <1>7
<1> QED BY <1>1, <1>2, <1>8 DEF needed, N

-----------------------------------------------------------------------------
(* The inductive invariant.                                                   *)
FnRecord ==
  [parent : Nat, returned : BOOLEAN, outputs : Seq(Nat), parameters : Seq(Nat),
   sorted : Seq(Nat)]
Typed ==
  /\ functions \in Seq(FnRecord) /\ IsSeq(nodes) /\ IsSeq(inputs) /\ IsSeq(program)
  /\ mainFn \in 0..Len(functions) /\ ToSet(inputs) \subseteq Ns /\ outline \in Outlines
FunctionsOK ==
  \A f \in Fns :
    /\ functions[f].parent \in 0..f - 1
    /\ functions[f].returned <=> functions[f].outputs # <<>>
    /\ ToSet(functions[f].outputs) \subseteq Ns /\ Parameters(f) \subseteq Ns
    /\ ToSet(functions[f].sorted) \subseteq Ns
(* A node is typed and holds what its client was promised of it, or nothing.  *)
NodeTyped(x, n) ==
  /\ x.op \in AllOps \union Leaves \union {"While", "If"}
  /\ x.type \in Types /\ x.owner \in Fns
  /\ IsSeq(x.inputs) /\ ToSet(x.inputs) \subseteq 1..n - 1
  /\ IsSeq(x.over) /\ ToSet(x.over) \subseteq 1..n - 1
NodeSound(x) ==
  /\ Sound(x.val, x.asked) /\ x.val.home \in {Main, Nowhere}
  /\ x.val.whole => x.val.home = Main
  /\ x.op \in AllOps => x.asked = Promise(x.op, Asked(x.inputs))
NodesOK == \A n \in Ns : NodeTyped(nodes[n], n) /\ NodeSound(nodes[n])
(* Values that live in one block or in the main one.                          *)
Within(vs, home) == Homes(vs) \subseteq {home, Main, Nowhere}
Apart(x, i) ==
  /\ Within(x.args, Main)
  /\ \A b \in DOMAIN x.blocks :
       /\ Within(x.blocks[b].outs, <<i, b>>)
       /\ \A k \in DOMAIN x.blocks[b].ops : Within(x.blocks[b].ops[k].args, <<i, b>>)
ProgramOK == \A i \in DOMAIN program : Apart(program[i], i)

GraphInv == Typed /\ FunctionsOK /\ NodesOK /\ ProgramOK

LEMMA FunctionFacts ==
  ASSUME Typed, NEW f \in Fns
  PROVE  /\ functions[f] \in FnRecord /\ f \in Nat
         /\ functions[f].parent \in Nat /\ functions[f].returned \in BOOLEAN
         /\ functions[f].outputs \in Seq(Nat) /\ IsSeq(functions[f].outputs)
         /\ functions[f].parameters \in Seq(Nat) /\ IsSeq(functions[f].parameters)
         /\ functions[f].sorted \in Seq(Nat) /\ IsSeq(functions[f].sorted)
<1>1. functions[f] \in FnRecord /\ f \in Nat
      BY DEF Typed, Fns
<1>2. /\ functions[f].parent \in Nat /\ functions[f].returned \in BOOLEAN
      /\ functions[f].outputs \in Seq(Nat) /\ functions[f].parameters \in Seq(Nat)
      /\ functions[f].sorted \in Seq(Nat)
      BY <1>1 DEF FnRecord
<1> QED BY <1>1, <1>2, SeqOfSet

LEMMA TypeOKOf == GraphInv => TypeOK
<1> SUFFICES ASSUME GraphInv PROVE TypeOK
    OBVIOUS
<1>1. Typed /\ FunctionsOK /\ NodesOK
      BY DEF GraphInv
<1>2. ASSUME NEW f \in Fns
      PROVE  /\ functions[f].parent \in 0..f - 1 /\ functions[f].returned \in BOOLEAN
             /\ functions[f].returned <=> functions[f].outputs # <<>>
             /\ ToSet(functions[f].outputs) \union Parameters(f)
                  \union ToSet(functions[f].sorted) \subseteq Ns
  <2>1. functions[f].returned \in BOOLEAN
        BY <1>1, FunctionFacts
  <2>2. functions[f].returned <=> functions[f].outputs # <<>>
        BY <1>1 DEF FunctionsOK
  <2>3. /\ functions[f].parent \in 0..f - 1
        /\ ToSet(functions[f].outputs) \subseteq Ns /\ Parameters(f) \subseteq Ns
        /\ ToSet(functions[f].sorted) \subseteq Ns
        BY <1>1 DEF FunctionsOK
  <2> QED BY <2>1, <2>2, <2>3
<1>3. ASSUME NEW n \in Ns
      PROVE  /\ nodes[n].op \in AllOps \union Leaves \union {"While", "If"}
             /\ nodes[n].type \in Types /\ nodes[n].owner \in Fns
             /\ ToSet(nodes[n].inputs) \union ToSet(nodes[n].over) \subseteq 1..n - 1
             /\ nodes[n].val.whole => nodes[n].val.home # Nowhere
  <2>1. NodeTyped(nodes[n], n) /\ NodeSound(nodes[n])
        BY <1>1 DEF NodesOK
  <2>2. nodes[n].val.whole => nodes[n].val.home # Nowhere
        BY <2>1, PlaceholderFacts DEF NodeSound
  <2> QED BY <2>1, <2>2 DEF NodeTyped
<1>4. mainFn \in 0..Len(functions) /\ ToSet(inputs) \subseteq Ns
      BY <1>1 DEF Typed
<1> QED BY <1>2, <1>3, <1>4 DEF TypeOK

LEMMA SoundOf == GraphInv => NeverSilentlyWrong
  BY DEF GraphInv, NodesOK, NodeSound, Sound, NeverSilentlyWrong

LEMMA ApartOf == GraphInv => BlocksApart
<1> SUFFICES ASSUME GraphInv PROVE BlocksApart
    OBVIOUS
<1> DEFINE within(vs, homes) == \A k \in DOMAIN vs : vs[k].home \in homes \union {Main, Nowhere}
<1>1. ASSUME NEW vs, NEW home, Within(vs, home) PROVE within(vs, {home})
      BY <1>1 DEF Within, Homes
<1>2. ASSUME NEW vs, Within(vs, Main) PROVE within(vs, {})
      BY <1>2 DEF Within, Homes
<1>3. ASSUME NEW i \in DOMAIN program
      PROVE  /\ within(program[i].args, {})
             /\ \A b \in DOMAIN program[i].blocks :
                  /\ within(program[i].blocks[b].outs, {<<i, b>>})
                  /\ \A k \in DOMAIN program[i].blocks[b].ops :
                       within(program[i].blocks[b].ops[k].args, {<<i, b>>})
  <2>1. Apart(program[i], i)
        BY DEF GraphInv, ProgramOK
  <2> HIDE DEF within
  <2> QED BY <1>1, <1>2, <2>1 DEF Apart
<1> QED BY <1>3 DEF BlocksApart

-----------------------------------------------------------------------------
(* Values that answer for nodes: each, if whole, means what was asked.        *)
Answers(vs, ns) ==
  /\ IsSeq(vs) /\ IsSeq(ns) /\ Len(vs) = Len(ns) /\ DOMAIN vs = DOMAIN ns
  /\ \A i \in DOMAIN vs : Sound(vs[i], nodes[ns[i]].asked)

LEMMA AnswersMean ==
  ASSUME NEW vs, NEW ns, Answers(vs, ns), Whole(vs)
  PROVE  Means(vs) = Asked(ns)
<1>1. DOMAIN vs = DOMAIN ns
      BY DEF Answers
<1>2. \A i \in DOMAIN vs : vs[i].means = nodes[ns[i]].asked
      BY DEF Answers, Sound, Whole
<1> QED BY <1>1, <1>2 DEF Means, Asked

LEMMA AnswersConcat ==
  ASSUME NEW s, NEW a, NEW t, NEW b, Answers(s, a), Answers(t, b)
  PROVE  Answers(s \o t, a \o b)
<1> DEFINE u == s \o t
           c == a \o b
<1>1. /\ IsSeq(s) /\ IsSeq(a) /\ Len(s) = Len(a) /\ DOMAIN s = DOMAIN a
      /\ IsSeq(t) /\ IsSeq(b) /\ Len(t) = Len(b) /\ DOMAIN t = DOMAIN b
      BY DEF Answers
<1>2. /\ IsSeq(u) /\ Len(u) = Len(s) + Len(t) /\ DOMAIN u = 1..Len(s) + Len(t)
      /\ \A k \in DOMAIN u : \/ k \in DOMAIN s /\ u[k] = s[k]
                             \/ \E i \in DOMAIN t : k = Len(s) + i /\ u[k] = t[i]
  <2>1. Joined(u, s, t)
        BY <1>1, ConcatFacts
  <2> HIDE DEF u
  <2> QED BY <2>1 DEF Joined
<1>3. /\ IsSeq(c) /\ Len(c) = Len(a) + Len(b) /\ DOMAIN c = 1..Len(a) + Len(b)
      /\ \A i \in DOMAIN a : c[i] = a[i]
      /\ \A i \in DOMAIN b : c[Len(a) + i] = b[i]
  <2>1. Joined(c, a, b)
        BY <1>1, ConcatFacts
  <2> HIDE DEF c
  <2> QED BY <2>1 DEF Joined
<1> HIDE DEF u, c
<1>4. ASSUME NEW k \in DOMAIN u PROVE Sound(u[k], nodes[c[k]].asked)
  <2>1. CASE k \in DOMAIN s /\ u[k] = s[k]
    <3>1. c[k] = a[k]
          BY <2>1, <1>1, <1>3
    <3> QED BY <2>1, <3>1 DEF Answers
  <2>2. CASE \E i \in DOMAIN t : k = Len(s) + i /\ u[k] = t[i]
    <3>1. PICK i \in DOMAIN t : k = Len(s) + i /\ u[k] = t[i]
          BY <2>2
    <3>2. c[k] = b[i]
          BY <3>1, <1>1, <1>3
    <3> QED BY <3>1, <3>2 DEF Answers
  <2> QED BY <2>1, <2>2, <1>2
<1> QED BY <1>1, <1>2, <1>3, <1>4 DEF Answers, u, c

LEMMA WithinConcat ==
  ASSUME NEW s, IsSeq(s), NEW t, IsSeq(t), NEW home, Within(s, home), Within(t, home)
  PROVE  Within(s \o t, home)
<1> DEFINE u == s \o t
<1>1. \A k \in DOMAIN u : \/ k \in DOMAIN s /\ u[k] = s[k]
                          \/ \E i \in DOMAIN t : k = Len(s) + i /\ u[k] = t[i]
  <2>1. Joined(u, s, t)
        BY ConcatFacts
  <2> HIDE DEF u
  <2> QED BY <2>1 DEF Joined
<1> HIDE DEF u
<1>2. Within(u, home)
      BY <1>1 DEF Within, Homes
<1> QED BY <1>2 DEF u

LEMMA AskedIsSeq ==
  ASSUME NEW a, IsSeq(a)
  PROVE  IsSeq(Asked(a)) /\ Len(Asked(a)) = Len(a) /\ DOMAIN Asked(a) = DOMAIN a
<1>1. Len(a) \in Nat /\ DOMAIN a = 1..Len(a)
      BY SeqFacts
<1>2. Asked(a) = [i \in 1..Len(a) |-> Asked(a)[i]] /\ DOMAIN Asked(a) = DOMAIN a
      BY <1>1 DEF Asked
<1> QED BY <1>1, <1>2, MadeIsSeq

LEMMA AskedConcat ==
  ASSUME NEW a, IsSeq(a), NEW b, IsSeq(b)
  PROVE  Asked(a \o b) = Asked(a) \o Asked(b)
<1> DEFINE c == a \o b
           d == Asked(a) \o Asked(b)
<1>1. /\ Len(a) \in Nat /\ DOMAIN a = 1..Len(a)
      /\ Len(b) \in Nat /\ DOMAIN b = 1..Len(b)
      BY SeqFacts
<1>2. /\ DOMAIN c = 1..Len(a) + Len(b)
      /\ \A i \in DOMAIN a : c[i] = a[i]
      /\ \A i \in DOMAIN b : c[Len(a) + i] = b[i]
      /\ \A k \in DOMAIN c : \/ k \in DOMAIN a /\ c[k] = a[k]
                             \/ \E i \in DOMAIN b : k = Len(a) + i /\ c[k] = b[i]
  <2>1. Joined(c, a, b)
        BY ConcatFacts
  <2> HIDE DEF c
  <2> QED BY <2>1 DEF Joined
<1>3. /\ IsSeq(Asked(a)) /\ Len(Asked(a)) = Len(a) /\ DOMAIN Asked(a) = DOMAIN a
      /\ IsSeq(Asked(b)) /\ Len(Asked(b)) = Len(b) /\ DOMAIN Asked(b) = DOMAIN b
      BY AskedIsSeq
<1>4. /\ IsSeq(d) /\ DOMAIN d = 1..Len(a) + Len(b)
      /\ \A i \in DOMAIN a : d[i] = Asked(a)[i]
      /\ \A i \in DOMAIN b : d[Len(a) + i] = Asked(b)[i]
  <2>1. Joined(d, Asked(a), Asked(b))
        BY <1>3, ConcatFacts
  <2> HIDE DEF d
  <2> QED BY <2>1, <1>3 DEF Joined
<1> HIDE DEF c, d
<1>5. ASSUME NEW k \in DOMAIN c PROVE d[k] = nodes[c[k]].asked
  <2>1. CASE k \in DOMAIN a
        BY <2>1, <1>2, <1>4 DEF Asked
  <2>2. ASSUME NEW i \in DOMAIN b, k = Len(a) + i PROVE d[k] = nodes[c[k]].asked
        BY <2>2, <1>2, <1>4 DEF Asked
  <2> QED BY <2>1, <2>2, <1>2
<1>6. d = [k \in DOMAIN d |-> d[k]] /\ DOMAIN d = DOMAIN c
      BY <1>2, <1>4, SeqFacts
<1>7. Asked(c) = d
      BY <1>5, <1>6 DEF Asked
<1> QED BY <1>7 DEF c, d

Regroups(a, b, c, d) == a \o (b \o c \o d) = a \o b \o c \o d

LEMMA ConcatTwice ==
  ASSUME NEW a, IsSeq(a), NEW b, IsSeq(b), NEW c, IsSeq(c), NEW d, IsSeq(d)
  PROVE  Regroups(a, b, c, d)
<1> DEFINE S == ToSet(a) \union ToSet(b) \union ToSet(c) \union ToSet(d)
           cat(x, y) == x \o y
<1>1. a \in Seq(S) /\ b \in Seq(S) /\ c \in Seq(S) /\ d \in Seq(S)
      BY DEF IsSeq
<1> HIDE DEF S
<1>2. \A x, y \in Seq(S) : cat(x, y) \in Seq(S)
      OBVIOUS
<1>3. ASSUME NEW x \in Seq(S), NEW y \in Seq(S), NEW z \in Seq(S)
      PROVE  cat(cat(x, y), z) = cat(x, cat(y, z))
      BY ConcatAssociative
<1> HIDE DEF cat
<1>4. cat(a, cat(cat(b, c), d)) = cat(cat(cat(a, b), c), d)
      BY <1>1, <1>2, <1>3
<1> QED BY <1>4, Zenon DEF cat, Regroups

-----------------------------------------------------------------------------
(* Replay: the values it maps nodes to answer for them and live in the block  *)
(* or in the main one.                                                         *)
Lives(v, home) == v.home \in {home, Main, Nowhere}
MapOK(map, home) ==
  \A m \in DOMAIN map : Sound(map[m], nodes[m].asked) /\ Lives(map[m], home)
OpsOK(ops, home) == IsSeq(ops) /\ \A k \in DOMAIN ops : Within(ops[k].args, home)
(* What a replay leaves in the block at home for the outputs of closure c.    *)
ReplayOK(r, c, home) ==
  Answers(r.outs, functions[c].outputs) /\ Within(r.outs, home) /\ OpsOK(r.ops, home)

LEMMA NodeValue ==
  ASSUME NodesOK, NEW n \in Ns, NEW home
  PROVE  Sound(nodes[n].val, nodes[n].asked) /\ Lives(nodes[n].val, home)
<1>1. NodeSound(nodes[n])
      BY DEF NodesOK
<1> QED BY <1>1 DEF NodeSound, Lives

LEMMA MappedFacts ==
  ASSUME NodesOK, NEW n \in Ns, NEW home, NEW map, MapOK(map, home)
  PROVE  Sound(Mapped(n, map), nodes[n].asked) /\ Lives(Mapped(n, map), home)
<1>1. CASE n \in DOMAIN map
      BY <1>1 DEF MapOK, Mapped
<1>2. CASE n \notin DOMAIN map
      BY <1>2, NodeValue DEF Mapped
<1> QED BY <1>1, <1>2

LEMMA AnswersOf ==
  ASSUME NEW ns, IsSeq(ns), NEW vs, NEW home, vs = [i \in DOMAIN ns |-> vs[i]],
         \A i \in DOMAIN ns : Sound(vs[i], nodes[ns[i]].asked) /\ Lives(vs[i], home)
  PROVE  Answers(vs, ns) /\ Within(vs, home)
<1>1. Len(ns) \in Nat /\ DOMAIN ns = 1..Len(ns)
      BY SeqFacts
<1>2. DOMAIN vs = DOMAIN ns
      OBVIOUS
<1>3. IsSeq(vs) /\ Len(vs) = Len(ns)
  <2>1. vs = [i \in 1..Len(ns) |-> vs[i]]
        BY <1>1
  <2> QED BY <1>1, <2>1, MadeIsSeq
<1>4. Within(vs, home)
      BY <1>2 DEF Within, Homes, Lives
<1> QED BY <1>2, <1>3, <1>4 DEF Answers

LEMMA MappedAllFacts ==
  ASSUME NodesOK, NEW ns, IsSeq(ns), ToSet(ns) \subseteq Ns,
         NEW home, NEW map, MapOK(map, home)
  PROVE  Answers(MappedAll(ns, map), ns) /\ Within(MappedAll(ns, map), home)
<1> DEFINE vs == MappedAll(ns, map)
<1>1. vs = [i \in DOMAIN ns |-> vs[i]] /\ \A i \in DOMAIN ns : vs[i] = Mapped(ns[i], map)
      BY DEF MappedAll
<1>2. \A i \in DOMAIN ns : ns[i] \in Ns
      BY SeqFacts
<1> HIDE DEF vs
<1>3. \A i \in DOMAIN ns : Sound(vs[i], nodes[ns[i]].asked) /\ Lives(vs[i], home)
      BY <1>1, <1>2, MappedFacts
<1>4. Answers(vs, ns) /\ Within(vs, home)
      BY <1>1, <1>3, AnswersOf
<1> QED BY <1>4 DEF vs

LEMMA ValsFacts ==
  ASSUME NodesOK, NEW ns, IsSeq(ns), ToSet(ns) \subseteq Ns
  PROVE  Answers(Vals(ns), ns) /\ Within(Vals(ns), Main)
<1> DEFINE vs == Vals(ns)
<1>1. vs = [i \in DOMAIN ns |-> vs[i]] /\ \A i \in DOMAIN ns : vs[i] = nodes[ns[i]].val
      BY DEF Vals
<1>2. \A i \in DOMAIN ns : ns[i] \in Ns
      BY SeqFacts
<1> HIDE DEF vs
<1>3. \A i \in DOMAIN ns : Sound(vs[i], nodes[ns[i]].asked) /\ Lives(vs[i], Main)
      BY <1>1, <1>2, NodeValue
<1>4. Answers(vs, ns) /\ Within(vs, Main)
      BY <1>1, <1>3, AnswersOf
<1> QED BY <1>4 DEF vs

LEMMA NodeInputs ==
  ASSUME NodesOK, IsSeq(nodes), NEW n \in Ns
  PROVE  IsSeq(nodes[n].inputs) /\ ToSet(nodes[n].inputs) \subseteq Ns
<1>1. NodeTyped(nodes[n], n)
      BY DEF NodesOK
<1>2. Ns = 1..Len(nodes) /\ Len(nodes) \in Nat
      BY SeqFacts DEF Ns
<1>3. 1..n - 1 \subseteq Ns
      BY <1>2
<1> QED BY <1>1, <1>3 DEF NodeTyped

LEMMA ReplayNodeFacts ==
  ASSUME NodesOK, IsSeq(nodes), NEW n \in Ns, NEW home, NEW map, MapOK(map, home)
  PROVE  /\ Sound(ReplayNode(n, home, map).val, nodes[n].asked)
         /\ Lives(ReplayNode(n, home, map).val, home)
         /\ OpsOK(ReplayNode(n, home, map).ops, home)
<1> DEFINE x == nodes[n]
           r == ReplayNode(n, home, map)
           args == MappedAll(x.inputs, map)
<1>1. CASE x.op \in Replayable
  <2>1. r.val = Computed(home, x.op, args) /\ r.ops = <<MilOp(x.op, args)>>
        BY <1>1 DEF ReplayNode
  <2>2. Answers(args, x.inputs) /\ Within(args, home)
        BY NodeInputs, MappedAllFacts
  <2>3. x.asked = Term(x.op, Asked(x.inputs))
    <3>1. NodeSound(x)
          BY DEF NodesOK
    <3>2. x.op \in AllOps
          BY <1>1 DEF Replayable, AllOps, BinaryOps, ComparisonOps, EagerOps
    <3> QED BY <1>1, <3>1, <3>2, ReplayablePromise DEF NodeSound
  <2> HIDE DEF args
  <2>4. /\ Computed(home, x.op, args).home = home
        /\ Computed(home, x.op, args).whole \in BOOLEAN
        /\ Computed(home, x.op, args).whole <=> Whole(args)
        /\ Whole(args) => Computed(home, x.op, args).means = Term(x.op, Means(args))
        BY ComputedFacts
  <2>5. Whole(args) => Means(args) = Asked(x.inputs)
        BY <2>2, AnswersMean
  <2>6. Sound(r.val, x.asked) /\ Lives(r.val, home)
    <3> DEFINE v == Computed(home, x.op, args)
    <3>1. v.home = home /\ v.whole \in BOOLEAN /\ (v.whole => v.means = x.asked)
          BY <2>3, <2>4, <2>5
    <3> QED BY <2>1, <3>1 DEF Sound, Lives
  <2>7. OpsOK(r.ops, home)
    <3> DEFINE o == MilOp(x.op, args)
               ops == <<o>>
    <3>1. o.args = args
          BY MilOpFacts
    <3> HIDE DEF o
    <3>2. IsSeq(ops) /\ DOMAIN ops = {1} /\ ops[1] = o
          BY OneTuple
    <3> HIDE DEF ops
    <3>3. OpsOK(ops, home)
          BY <2>2, <3>1, <3>2 DEF OpsOK
    <3> QED BY <2>1, <3>3 DEF ops, o
  <2> QED BY <2>6, <2>7
<1>2. CASE x.op \notin Replayable
  <2> DEFINE none == <<>>
  <2>1. r.val = x.val /\ r.ops = none
        BY <1>2 DEF ReplayNode
  <2>2. OpsOK(none, home)
    <3>1. none \in Seq({})
          OBVIOUS
    <3> HIDE DEF none
    <3> QED BY <3>1, EmptyFacts DEF OpsOK
  <2> QED BY <2>1, <2>2, NodeValue
<1> QED BY <1>1, <1>2

AccOK(acc, home) == MapOK(acc.map, home) /\ OpsOK(acc.ops, home)

LEMMA OpsConcat ==
  ASSUME NEW s, NEW t, NEW home, OpsOK(s, home), OpsOK(t, home)
  PROVE  OpsOK(s \o t, home)
<1> DEFINE u == s \o t
<1>1. Joined(u, s, t)
      BY ConcatFacts DEF OpsOK
<1> HIDE DEF u
<1>2. OpsOK(u, home)
      BY <1>1 DEF OpsOK, Joined
<1> QED BY <1>2 DEF u

LEMMA ReplayStepFacts ==
  ASSUME NodesOK, IsSeq(nodes), NEW n \in Ns, NEW c, NEW home, NEW acc, AccOK(acc, home)
  PROVE  AccOK(ReplayStep(n, c, home, acc), home)
<1> DEFINE none == <<>>
           r == IF Outside(n, c) THEN [val |-> nodes[n].val, ops |-> none]
                ELSE ReplayNode(n, home, acc.map)
           map == [m \in DOMAIN acc.map \union {n} |-> IF m = n THEN r.val ELSE acc.map[m]]
           new == [map |-> map, ops |-> acc.ops \o r.ops]
<1>1. CASE n \in DOMAIN acc.map \/ nodes[n].op = "Parameter"
      BY <1>1 DEF ReplayStep
<1>2. CASE ~ (n \in DOMAIN acc.map \/ nodes[n].op = "Parameter")
  <2>1. ReplayStep(n, c, home, acc) = new
        BY <1>2 DEF ReplayStep
  <2>2. Sound(r.val, nodes[n].asked) /\ Lives(r.val, home) /\ OpsOK(r.ops, home)
    <3>1. CASE Outside(n, c)
      <4>1. r.val = nodes[n].val /\ r.ops = none
            BY <3>1
      <4>2. OpsOK(none, home)
        <5>1. none \in Seq({})
              OBVIOUS
        <5> HIDE DEF none
        <5> QED BY <5>1, EmptyFacts DEF OpsOK
      <4> QED BY <4>1, <4>2, NodeValue
    <3>2. CASE ~Outside(n, c)
      <4>1. r = ReplayNode(n, home, acc.map)
            BY <3>2
      <4> QED BY <4>1, ReplayNodeFacts DEF AccOK
    <3> QED BY <3>1, <3>2
  <2> HIDE DEF r
  <2>3. MapOK(map, home)
        BY <2>2 DEF MapOK, AccOK
  <2>4. OpsOK(acc.ops \o r.ops, home)
        BY <2>2, OpsConcat DEF AccOK
  <2> HIDE DEF map
  <2> QED BY <2>1, <2>3, <2>4 DEF AccOK
<1> QED BY <1>1, <1>2

(* The inputs of a block answer for the closure's parameters, as far as there *)
(* are any, and live in the block.                                            *)
InputsOK(c, home, blockInputs) ==
  \A i \in DOMAIN functions[c].parameters \cap DOMAIN blockInputs :
    /\ Sound(blockInputs[i], nodes[functions[c].parameters[i]].asked)
    /\ Lives(blockInputs[i], home)

LEMMA BoundFacts ==
  ASSUME NEW c, NEW home, NEW blockInputs, InputsOK(c, home, blockInputs)
  PROVE  MapOK(BoundParameters(c, blockInputs), home)
<1> DEFINE ps == functions[c].parameters
           bound == DOMAIN ps \cap DOMAIN blockInputs
           map == BoundParameters(c, blockInputs)
<1>1. map = [n \in {ps[i] : i \in bound} |-> blockInputs[CHOOSE i \in bound : ps[i] = n]]
      BY DEF BoundParameters
<1>2. \A i \in bound : Sound(blockInputs[i], nodes[ps[i]].asked) /\ Lives(blockInputs[i], home)
      BY DEF InputsOK
<1> HIDE DEF ps, bound, map
<1>3. ASSUME NEW n \in DOMAIN map PROVE Sound(map[n], nodes[n].asked) /\ Lives(map[n], home)
  <2>1. PICK i \in bound : ps[i] = n
        BY <1>1
  <2> DEFINE k == CHOOSE j \in bound : ps[j] = n
  <2>2. k \in bound /\ ps[k] = n
        BY <2>1
  <2>3. map[n] = blockInputs[k]
        BY <1>1
  <2> HIDE DEF k
  <2> QED BY <1>2, <2>2, <2>3
<1> QED BY <1>3 DEF MapOK, map

LEMMA ReplayFacts ==
  ASSUME Typed, FunctionsOK, NodesOK, NEW c \in Fns, NEW home, NEW blockInputs,
         InputsOK(c, home, blockInputs)
  PROVE  ReplayOK(Replay(c, home, blockInputs), c, home)
<1> DEFINE sorted == functions[c].sorted
           all == Replayed(c, home, blockInputs)
           N == Len(sorted)
           base == [map |-> BoundParameters(c, blockInputs), ops |-> <<>>]
<1>1. /\ IsSeq(sorted) /\ N \in Nat /\ DOMAIN sorted = 1..N
      /\ \A k \in 1..N : sorted[k] \in Ns
  <2>1. IsSeq(sorted)
        BY FunctionFacts
  <2>2. ToSet(sorted) \subseteq Ns
        BY DEF FunctionsOK
  <2> QED BY <2>1, <2>2, SeqFacts
<1>2. all[0] = base /\ \A k \in 1..N : all[k] = ReplayStep(sorted[k], c, home, all[k - 1])
      BY <1>1, ReplayedEquation
<1>3. AccOK(base, home)
  <2> DEFINE none == <<>>
  <2>1. OpsOK(none, home)
    <3>1. none \in Seq({})
          OBVIOUS
    <3> HIDE DEF none
    <3> QED BY <3>1, EmptyFacts DEF OpsOK
  <2>2. base.map = BoundParameters(c, blockInputs) /\ base.ops = none
        OBVIOUS
  <2> HIDE DEF base, none
  <2> QED BY <2>1, <2>2, BoundFacts DEF AccOK
<1>4. IsSeq(nodes)
      BY DEF Typed
<1>5. Replay(c, home, blockInputs).ops = all[N].ops
      BY DEF Replay
<1>6. Replay(c, home, blockInputs).outs = MappedAll(functions[c].outputs, all[N].map)
      BY DEF Replay
<1> HIDE DEF sorted, all, N, base
<1>7. \A k \in 0..N : AccOK(all[k], home)
  <2> DEFINE T == {k \in 0..N : ~ AccOK(all[k], home)}
  <2>1. SUFFICES ASSUME T # {} PROVE FALSE
        OBVIOUS
  <2>2. PICK k \in T : \A m \in T : k <= m
    <3>1. T \in SUBSET Nat
          BY <1>1
    <3> HIDE DEF T
    <3> QED BY <2>1, <3>1, LeastNumber
  <2>3. k \in 1..N
        BY <1>1, <1>2, <1>3
  <2>4. k - 1 \in 0..N /\ ~ (k <= k - 1)
        BY <2>3, <1>1
  <2>5. AccOK(all[k - 1], home)
        BY <2>2, <2>4
  <2>6. AccOK(ReplayStep(sorted[k], c, home, all[k - 1]), home)
        BY <1>1, <1>4, <2>3, <2>5, ReplayStepFacts
  <2> QED BY <1>2, <2>3, <2>6
<1>8. AccOK(all[N], home)
      BY <1>1, <1>7
<1>9. IsSeq(functions[c].outputs) /\ ToSet(functions[c].outputs) \subseteq Ns
      BY FunctionFacts DEF FunctionsOK
<1>10. LET outs == MappedAll(functions[c].outputs, all[N].map)
       IN  Answers(outs, functions[c].outputs) /\ Within(outs, home)
       BY <1>8, <1>9, MappedAllFacts DEF AccOK
<1> QED BY <1>5, <1>6, <1>8, <1>10 DEF AccOK, ReplayOK

-----------------------------------------------------------------------------
(* Steps.                                                                     *)
LEMMA AppendJoined ==
  ASSUME NEW s, IsSeq(s), NEW x
  PROVE  Joined(Append(s, x), s, <<x>>)
<1> DEFINE u == Append(s, x)
           t == <<x>>
<1>1. IsSeq(t) /\ Len(t) = 1 /\ DOMAIN t = {1} /\ t[1] = x /\ ToSet(t) = {x}
      BY OneTuple
<1>2. /\ IsSeq(u) /\ Len(u) = Len(s) + 1 /\ DOMAIN u = 1..Len(s) + 1
      /\ DOMAIN u = DOMAIN s \union {Len(s) + 1}
      /\ \A i \in DOMAIN s : u[i] = s[i]
      /\ u[Len(s) + 1] = x
      /\ ToSet(u) = ToSet(s) \union {x}
      BY AppendFacts
<1> HIDE DEF u, t
<1>3. Joined(u, s, t)
      BY <1>1, <1>2 DEF Joined
<1> QED BY <1>3 DEF u, t

(* A new node refers to the nodes there are.                                  *)
Fresh(x) ==
  /\ x.op \in AllOps \union Leaves \union {"While", "If"}
  /\ x.type \in Types /\ x.owner \in Fns
  /\ IsSeq(x.inputs) /\ ToSet(x.inputs) \subseteq Ns
  /\ IsSeq(x.over) /\ ToSet(x.over) \subseteq Ns
  /\ NodeSound(x)

LEMMA NodesGrow ==
  ASSUME Typed, NodesOK, NEW more, Joined(nodes', nodes, more), Fns \subseteq Fns',
         \A i \in DOMAIN more : Fresh(more[i])
  PROVE  NodesOK' /\ IsSeq(nodes)' /\ Ns \subseteq Ns'
<1>1. /\ IsSeq(nodes') /\ DOMAIN nodes' = 1..Len(nodes) + Len(more)
      /\ \A i \in DOMAIN nodes : i \in DOMAIN nodes' /\ nodes'[i] = nodes[i]
      /\ \A k \in DOMAIN nodes' : \/ k \in DOMAIN nodes /\ nodes'[k] = nodes[k]
                                  \/ \E i \in DOMAIN more :
                                       k = Len(nodes) + i /\ nodes'[k] = more[i]
      /\ Joined(nodes', nodes, more)
      BY DEF Joined
<1>2. IsSeq(nodes) /\ Len(nodes) \in Nat /\ Ns = 1..Len(nodes)
      BY SeqFacts DEF Typed, Ns
<1>3. Ns \subseteq Ns'
      BY <1>1 DEF Ns
<1>4. ASSUME NEW ns, IsSeq(ns), ToSet(ns) \subseteq Ns PROVE Asked(ns)' = Asked(ns)
  <2>1. \A i \in DOMAIN ns : ns[i] \in Ns
        BY <1>4, SeqFacts
  <2>2. \A i \in DOMAIN ns : nodes'[ns[i]] = nodes[ns[i]]
        BY <2>1, <1>1 DEF Ns
  <2>3. [i \in DOMAIN ns |-> nodes'[ns[i]].asked] = [i \in DOMAIN ns |-> nodes[ns[i]].asked]
        BY <2>2
  <2> QED BY <2>3 DEF Asked
<1>5. ASSUME NEW x, NodeSound(x), IsSeq(x.inputs), ToSet(x.inputs) \subseteq Ns
      PROVE  /\ Sound(x.val, x.asked) /\ x.val.home \in {Main, Nowhere}
             /\ x.val.whole => x.val.home = Main
             /\ x.op \in AllOps => x.asked = Promise(x.op, Asked(x.inputs)')
      BY <1>4, <1>5 DEF NodeSound
<1>6. ASSUME NEW n \in Ns' PROVE NodeTyped(nodes[n], n)' /\ NodeSound(nodes[n])'
  <2>1. CASE n \in Ns /\ nodes'[n] = nodes[n]
    <3>1. NodeTyped(nodes[n], n) /\ NodeSound(nodes[n])
          BY <2>1 DEF NodesOK
    <3>2. NodeTyped(nodes[n], n)'
          BY <2>1, <3>1 DEF NodeTyped
    <3>3. IsSeq(nodes[n].inputs) /\ ToSet(nodes[n].inputs) \subseteq Ns
          BY <1>2, <2>1, NodeInputs
    <3>4. NodeSound(nodes[n])'
          BY <1>5, <2>1, <3>1, <3>3 DEF NodeSound
    <3> QED BY <3>2, <3>4
  <2>2. ASSUME NEW i \in DOMAIN more, n = Len(nodes) + i, nodes'[n] = more[i]
        PROVE  NodeTyped(nodes[n], n)' /\ NodeSound(nodes[n])'
    <3>1. Fresh(more[i])
          OBVIOUS
    <3>2. Ns \subseteq 1..n - 1
      <4>1. n \in DOMAIN nodes'
            BY <2>2, <1>1 DEF Joined
      <4>2. n \in Int
            BY <4>1, <1>1
      <4>3. n \notin Ns
        <5>1. CASE n \in DOMAIN nodes
          <6>1. i \in 1..Len(more)
                BY <1>1, <2>2, <5>1
          <6> QED BY <6>1, <5>1, <2>2, <1>2 DEF Ns
        <5> QED BY <5>1 DEF Ns
      <4>4. n \in 1..Len(nodes) + Len(more)
            BY <4>1, <1>1
      <4> QED BY <4>2, <4>3, <4>4, <1>2
    <3>3. NodeTyped(nodes[n], n)'
          BY <2>2, <3>1, <3>2 DEF Fresh, NodeTyped
    <3>4. NodeSound(nodes[n])'
          BY <1>5, <2>2, <3>1 DEF Fresh, NodeSound
    <3> QED BY <3>3, <3>4
  <2> QED BY <1>1, <2>1, <2>2 DEF Ns
<1> QED BY <1>1, <1>3, <1>6 DEF NodesOK

LEMMA FunctionStep ==
  ASSUME Typed, FunctionsOK, NEW f \in Fns, NEW x \in FnRecord,
         functions' = [functions EXCEPT ![f] = x], Ns \subseteq Ns',
         x.parent = functions[f].parent, x.returned <=> x.outputs # <<>>,
         ToSet(x.outputs) \subseteq Ns', ToSet(x.parameters) \subseteq Ns',
         ToSet(x.sorted) \subseteq Ns'
  PROVE  /\ FunctionsOK' /\ functions' \in Seq(FnRecord)
         /\ Fns' = Fns /\ Len(functions') = Len(functions)
<1>1. functions \in Seq(FnRecord)
      BY DEF Typed
<1>2. functions' \in Seq(FnRecord) /\ Len(functions') = Len(functions)
      BY <1>1 DEF Fns
<1>3. Fns' = Fns /\ functions'[f] = x /\ \A g \in Fns \ {f} : functions'[g] = functions[g]
      BY <1>1 DEF Fns
<1>4. ASSUME NEW g \in Fns'
      PROVE  /\ functions'[g].parent \in 0..g - 1
             /\ functions'[g].returned <=> functions'[g].outputs # <<>>
             /\ ToSet(functions'[g].outputs) \subseteq Ns'
             /\ ToSet(functions'[g].parameters) \subseteq Ns'
             /\ ToSet(functions'[g].sorted) \subseteq Ns'
  <2>1. CASE g = f
        BY <2>1, <1>3 DEF FunctionsOK
  <2>2. CASE g # f
        BY <2>2, <1>3 DEF FunctionsOK, Parameters
  <2> QED BY <2>1, <2>2
<1>5. FunctionsOK'
      BY <1>4 DEF FunctionsOK, Parameters
<1> QED BY <1>2, <1>3, <1>5

LEMMA FunctionsStay ==
  ASSUME FunctionsOK, UNCHANGED functions, Ns \subseteq Ns'
  PROVE  FunctionsOK' /\ Fns' = Fns
  BY DEF FunctionsOK, Parameters, Fns

LEMMA NewFnStep ==
  ASSUME GraphInv, NEW p \in 0..Len(functions), functions' = Append(functions, NewFn(p)),
         mainFn' \in 0..Len(functions) + 1, UNCHANGED <<nodes, inputs, program, outline>>
  PROVE  GraphInv'
<1> USE DEF GraphInv
<1> DEFINE none == <<>>
           new == NewFn(p)
<1>1. functions \in Seq(FnRecord) /\ Len(functions) \in Nat /\ Fns = 1..Len(functions)
      BY DEF Typed, Fns
<1>2. /\ new.parent = p /\ new.returned = FALSE /\ new.outputs = none
      /\ new.parameters = none /\ new.sorted = none
      BY DEF NewFn
<1>3. new \in FnRecord
      BY <1>1 DEF FnRecord, NewFn
<1>4. ToSet(none) = {}
  <2>1. none \in Seq({})
        OBVIOUS
  <2> HIDE DEF none
  <2> QED BY <2>1, EmptyFacts
<1> HIDE DEF new
<1>5. /\ functions' \in Seq(FnRecord) /\ Len(functions') = Len(functions) + 1
      /\ Fns' = Fns \union {Len(functions) + 1}
      /\ \A g \in Fns : functions'[g] = functions[g]
      /\ functions'[Len(functions) + 1] = new
      BY <1>1, <1>3 DEF Fns, new
<1>6. Ns' = Ns
      BY DEF Ns
<1>7. ASSUME NEW g \in Fns'
      PROVE  /\ functions'[g].parent \in 0..g - 1
             /\ functions'[g].returned <=> functions'[g].outputs # <<>>
             /\ ToSet(functions'[g].outputs) \subseteq Ns'
             /\ ToSet(functions'[g].parameters) \subseteq Ns'
             /\ ToSet(functions'[g].sorted) \subseteq Ns'
  <2>1. CASE g \in Fns
        BY <2>1, <1>5, <1>6 DEF FunctionsOK, Parameters
  <2>2. CASE g = Len(functions) + 1
    <3>1. functions'[g] = new
          BY <2>2, <1>5
    <3>2. new.parent \in 0..g - 1
          BY <2>2, <1>1, <1>2
    <3>3. new.returned <=> new.outputs # <<>>
          BY <1>2
    <3> HIDE DEF none
    <3> QED BY <3>1, <3>2, <3>3, <1>2, <1>4
  <2> QED BY <2>1, <2>2, <1>5
<1>8. FunctionsOK'
      BY <1>7 DEF FunctionsOK, Parameters
<1>9. Typed'
      BY <1>1, <1>5, <1>6 DEF Typed, IsSeq
<1>10. NodesOK'
  <2>2. ASSUME NEW n \in Ns PROVE NodeTyped(nodes[n], n)' /\ NodeSound(nodes[n])'
    <3>1. NodeTyped(nodes[n], n) /\ NodeSound(nodes[n])
          BY DEF NodesOK
    <3>2. NodeTyped(nodes[n], n)'
          BY <3>1, <1>5 DEF NodeTyped
    <3>3. NodeSound(nodes[n])'
          BY <3>1 DEF NodeSound, Asked
    <3> QED BY <3>2, <3>3
  <2> QED BY <2>2, <1>6 DEF NodesOK
<1>11. ProgramOK'
       BY DEF ProgramOK
<1> QED BY <1>8, <1>9, <1>10, <1>11

(* Operands: sequences of the values a function sees.                         *)
LEMMA VisibleFacts ==
  ASSUME NEW f
  PROVE  Visible(f) \subseteq Ns
  BY DEF Visible, Ns

LEMMA ChoiceFacts ==
  ASSUME NEW S, NEW n \in Nat, NEW s \in SeqsUpTo(S, n)
  PROVE  IsSeq(s) /\ s \in Seq(S) /\ ToSet(s) \subseteq S
<1>1. PICK k \in 1..n : s \in [1..k -> S]
      BY DEF SeqsUpTo
<1>2. k \in Nat
      OBVIOUS
<1>3. s \in Seq(S)
      BY <1>1, <1>2, FunctionIsSeq
<1> QED BY <1>3, SeqOfSet

LEMMA OutsBound ==
  ASSUME Typed
  PROVE  outline.outs \in Nat
  BY BoundsAssumption DEF Typed

(* What a new node keeps besides its value and meaning.                       *)
LEMMA NodeFields ==
  ASSUME NEW op, NEW ins, NEW type, NEW v, NEW asked, NEW owner
  PROVE  LET x == Node(op, ins, type, v, asked, owner)
         IN  /\ x.op = op /\ x.inputs = ins /\ x.type = type /\ x.val = v
             /\ x.asked = asked /\ x.owner = owner /\ x.over = <<>>
  BY DEF Node

LEMMA FreshNode ==
  ASSUME NEW op \in AllOps \union Leaves, NEW ins, IsSeq(ins), ToSet(ins) \subseteq Ns,
         NEW type \in Types, NEW v, NEW asked, NEW owner \in Fns,
         Sound(v, asked), v.home \in {Main, Nowhere}, v.whole => v.home = Main,
         op \in AllOps => asked = Promise(op, Asked(ins))
  PROVE  Fresh(Node(op, ins, type, v, asked, owner))
<1> DEFINE x == Node(op, ins, type, v, asked, owner)
           none == <<>>
<1>1. /\ x.op = op /\ x.inputs = ins /\ x.type = type /\ x.val = v
      /\ x.asked = asked /\ x.owner = owner /\ x.over = none
      BY NodeFields
<1>2. IsSeq(none) /\ ToSet(none) = {}
  <2>1. none \in Seq({})
        OBVIOUS
  <2> HIDE DEF none
  <2> QED BY <2>1, EmptyFacts
<1> HIDE DEF x, none
<1>3. NodeSound(x)
      BY <1>1 DEF NodeSound
<1>4. Fresh(x)
      BY <1>1, <1>2, <1>3 DEF Fresh
<1> QED BY <1>4 DEF x

LEMMA AppendNode ==
  ASSUME Typed, NodesOK, NEW x, Fresh(x), nodes' = Append(nodes, x), Fns \subseteq Fns'
  PROVE  /\ NodesOK' /\ IsSeq(nodes)' /\ Ns \subseteq Ns'
         /\ Len(nodes) + 1 \in Nat /\ Len(nodes) + 1 \in Ns'
<1> DEFINE more == <<x>>
<1>1. Joined(nodes', nodes, more) /\ DOMAIN nodes' = DOMAIN nodes \union {Len(nodes) + 1}
      BY AppendJoined, AppendFacts DEF Typed
<1>2. DOMAIN more = {1} /\ more[1] = x
      BY OneTuple
<1> HIDE DEF more
<1>3. \A i \in DOMAIN more : Fresh(more[i])
      BY <1>2
<1>4. NodesOK' /\ IsSeq(nodes)' /\ Ns \subseteq Ns'
      BY <1>1, <1>3, NodesGrow
<1>5. Len(nodes) \in Nat
      BY SeqFacts DEF Typed
<1> QED BY <1>1, <1>4, <1>5 DEF Ns

LEMMA ParameterKeeps ==
  ASSUME GraphInv, NEW f \in Fns, NEW type \in Types, Parameter(f, type)
  PROVE  GraphInv'
<1> USE DEF GraphInv
<1> DEFINE n == Len(nodes) + 1
           v == IF IsClosure(f) THEN PlaceholderValue ELSE Value(Main, Leaf("param", n))
           none == <<>>
           x == Node("Parameter", none, type, v, Leaf("param", n), f)
           g == [functions[f] EXCEPT !.parameters = Append(functions[f].parameters, n)]
<1>1. /\ nodes' = Append(nodes, x)
      /\ functions' = [functions EXCEPT ![f] = g]
      /\ inputs' = IF IsClosure(f) THEN inputs ELSE Append(inputs, n)
      /\ UNCHANGED <<mainFn, program, outline>>
  <2>1. functions' = [functions EXCEPT ![f].parameters = Append(@, n)]
        BY DEF Parameter
  <2>2. functions' = [functions EXCEPT ![f] = g]
        BY <2>1
  <2> QED BY <2>2 DEF Parameter
<1>2. Sound(v, Leaf("param", n)) /\ v.home \in {Main, Nowhere} /\ (v.whole => v.home = Main)
  <2>1. CASE IsClosure(f)
    <3>1. v = PlaceholderValue
          BY <2>1
    <3> HIDE DEF v
    <3> QED BY <3>1, PlaceholderFacts DEF Sound
  <2>2. CASE ~IsClosure(f)
    <3>1. v = Value(Main, Leaf("param", n))
          BY <2>2
    <3> HIDE DEF v
    <3> QED BY <3>1, ValueFacts DEF Sound
  <2> QED BY <2>1, <2>2
<1>3. IsSeq(none) /\ ToSet(none) = {}
  <2>1. none \in Seq({})
        OBVIOUS
  <2> HIDE DEF none
  <2> QED BY <2>1, EmptyFacts
<1> HIDE DEF v, none
<1>4. Fresh(x)
  <2>1. "Parameter" \in AllOps \union Leaves /\ "Parameter" \notin AllOps
        BY DEF Leaves, AllOps, UnaryOps, BinaryOps, ComparisonOps, EagerOps
  <2> QED BY <1>2, <1>3, <2>1, FreshNode
<1> HIDE DEF x
<1>5. Len(nodes) \in Nat /\ n \in Nat
      BY SeqFacts DEF Typed
<1>6. Fns \subseteq Fns'
      BY <1>1 DEF Fns
<1>7. NodesOK' /\ IsSeq(nodes)' /\ Ns \subseteq Ns' /\ n \in Ns'
      BY <1>1, <1>4, <1>6, AppendNode
<1> HIDE DEF n
<1>8. g \in FnRecord /\ g.parent = functions[f].parent /\ g.returned = functions[f].returned
      /\ g.outputs = functions[f].outputs /\ g.sorted = functions[f].sorted
      /\ g.parameters = Append(functions[f].parameters, n)
  <2>1. functions[f] \in FnRecord
        BY FunctionFacts
  <2> DEFINE ps == Append(functions[f].parameters, n)
  <2>2. ps \in Seq(Nat)
        BY <1>5, FunctionFacts
  <2> HIDE DEF ps
  <2> QED BY <2>1, <2>2 DEF FnRecord, ps
<1>9. ToSet(g.parameters) \subseteq Ns'
  <2>1. ToSet(g.parameters) = ToSet(functions[f].parameters) \union {n}
        BY <1>8, AppendFacts, FunctionFacts
  <2>2. ToSet(functions[f].parameters) \subseteq Ns
        BY DEF FunctionsOK, Parameters
  <2> QED BY <2>1, <2>2, <1>7
<1> HIDE DEF g
<1>10. /\ FunctionsOK' /\ functions' \in Seq(FnRecord)
       /\ Fns' = Fns /\ Len(functions') = Len(functions)
  <2>1. g.returned <=> g.outputs # <<>>
        BY <1>8 DEF FunctionsOK
  <2>2. ToSet(g.outputs) \subseteq Ns' /\ ToSet(g.sorted) \subseteq Ns'
        BY <1>7, <1>8 DEF FunctionsOK
  <2> QED BY <1>1, <1>7, <1>8, <1>9, <2>1, <2>2, FunctionStep
<1>11. IsSeq(inputs)' /\ ToSet(inputs)' \subseteq Ns'
  <2>1. IsSeq(inputs) /\ ToSet(inputs) \subseteq Ns
        BY DEF Typed
  <2>2. /\ IsSeq(Append(inputs, n))
        /\ ToSet(Append(inputs, n)) = ToSet(inputs) \union {n}
        BY <2>1, AppendFacts
  <2>3. CASE inputs' = inputs
        BY <2>1, <2>3, <1>7
  <2>4. CASE inputs' = Append(inputs, n)
        BY <2>1, <2>2, <2>4, <1>7
  <2> QED BY <1>1, <2>3, <2>4
<1>12. IsSeq(program)' /\ mainFn' \in 0..Len(functions') /\ outline' \in Outlines
       BY <1>1, <1>10 DEF Typed, IsSeq
<1>13. Typed'
       BY <1>7, <1>10, <1>11, <1>12 DEF Typed
<1>14. ProgramOK'
       BY <1>1 DEF ProgramOK
<1> QED BY <1>7, <1>10, <1>13, <1>14

LEMMA ConstantKeeps ==
  ASSUME GraphInv, NEW f \in Fns, NEW type \in Types, Constant(f, type)
  PROVE  GraphInv'
<1> USE DEF GraphInv
<1> DEFINE n == Len(nodes) + 1
           v == Value(Main, Leaf("const", n))
           none == <<>>
           x == Node("Constant", none, type, v, Leaf("const", n), f)
<1>1. nodes' = Append(nodes, x) /\ UNCHANGED <<functions, mainFn, inputs, program, outline>>
      BY DEF Constant
<1>2. Sound(v, Leaf("const", n)) /\ v.home \in {Main, Nowhere} /\ (v.whole => v.home = Main)
      BY DEF Sound, Value
<1>3. IsSeq(none) /\ ToSet(none) = {}
  <2>1. none \in Seq({})
        OBVIOUS
  <2> HIDE DEF none
  <2> QED BY <2>1, EmptyFacts
<1> HIDE DEF v, none
<1>4. Fresh(x)
  <2>1. "Constant" \in AllOps \union Leaves /\ "Constant" \notin AllOps
        BY DEF Leaves, AllOps, UnaryOps, BinaryOps, ComparisonOps, EagerOps
  <2> QED BY <1>2, <1>3, <2>1, FreshNode
<1> HIDE DEF x
<1>5. NodesOK' /\ IsSeq(nodes)' /\ Ns \subseteq Ns'
      BY <1>1, <1>4, AppendNode DEF Fns
<1>6. FunctionsOK'
      BY <1>1, <1>5, FunctionsStay
<1>7. Typed'
      BY <1>1, <1>5 DEF Typed, IsSeq
<1>8. ProgramOK'
      BY <1>1 DEF ProgramOK
<1> QED BY <1>5, <1>6, <1>7, <1>8

LEMMA ReturnKeeps ==
  ASSUME GraphInv, NEW f \in Fns, NEW outs \in Outs(f), Return(f, outs)
  PROVE  GraphInv'
<1> USE DEF GraphInv
<1> DEFINE s == IF IsClosure(f) THEN Sorted(outs) ELSE <<>>
           g == [functions[f] EXCEPT !.returned = TRUE, !.outputs = outs, !.sorted = s]
<1>1. /\ outs # <<>> /\ functions' = [functions EXCEPT ![f] = g]
      /\ UNCHANGED <<mainFn, nodes, inputs, program, outline>>
  <2>1. functions' = [functions EXCEPT ![f].returned = TRUE, ![f].outputs = outs, ![f].sorted = s]
        BY DEF Return
  <2> HIDE DEF s
  <2>2. functions' = [functions EXCEPT ![f] = g]
        BY <2>1
  <2> QED BY <2>2 DEF Return
<1>2. Ns = 1..Len(nodes) /\ Len(nodes) \in Nat
      BY SeqFacts DEF Typed, Ns
<1>3. outs \in Seq(Ns)
  <2>1. CASE IsClosure(f)
    <3>1. outs \in SeqsUpTo(Visible(f), outline.outs)
          BY <1>1, <2>1 DEF Outs
    <3>2. outs \in Seq(Visible(f))
          BY <3>1, OutsBound, ChoiceFacts
    <3> QED BY <3>2, VisibleFacts
  <2>2. CASE ~IsClosure(f)
    <3>1. outs \in {<<m>> : m \in Ns \cap {Len(nodes)}}
          BY <2>2 DEF Outs
    <3>2. PICK m \in Ns : outs = <<m>>
          BY <3>1
    <3> QED BY <3>2
  <2> QED BY <2>1, <2>2
<1>4. outs \in Seq(Nat) /\ ToSet(outs) \subseteq Ns
  <2>1. Ns \subseteq Nat
        BY <1>2
  <2>2. outs \in Seq(Nat)
        BY <1>3, <2>1, SeqWider
  <2> QED BY <1>3, <2>2, SeqOfSet
<1>5. s \in Seq(Nat) /\ ToSet(s) \subseteq Ns
  <2>1. CASE IsClosure(f)
    <3>1. s = Sorted(outs) /\ IsSeq(s) /\ ToSet(s) \subseteq Ns
          BY <2>1, SortedFacts DEF Typed
    <3> HIDE DEF s
    <3>2. s \in Seq(Ns)
          BY <3>1 DEF IsSeq
    <3> QED BY <3>1, <3>2, <1>2
  <2>2. CASE ~IsClosure(f)
    <3>1. s = <<>>
          BY <2>2
    <3> HIDE DEF s
    <3>2. s \in Seq({})
          BY <3>1
    <3>3. s \in Seq(Nat)
          BY <3>1
    <3> QED BY <3>2, <3>3, EmptyFacts
  <2> QED BY <2>1, <2>2
<1> HIDE DEF s
<1>6. /\ g \in FnRecord /\ g.parent = functions[f].parent /\ g.returned = TRUE
      /\ g.outputs = outs /\ g.sorted = s /\ g.parameters = functions[f].parameters
  <2>1. functions[f] \in FnRecord
        BY FunctionFacts
  <2> QED BY <1>4, <1>5, <2>1 DEF FnRecord
<1> HIDE DEF g
<1>7. Ns' = Ns
      BY <1>1 DEF Ns
<1>8. /\ FunctionsOK' /\ functions' \in Seq(FnRecord)
      /\ Fns' = Fns /\ Len(functions') = Len(functions)
  <2>1. g.returned <=> g.outputs # <<>>
        BY <1>1, <1>6
  <2>2. ToSet(g.parameters) \subseteq Ns
        BY <1>6 DEF FunctionsOK, Parameters
  <2> QED BY <1>1, <1>4, <1>5, <1>6, <1>7, <2>1, <2>2, FunctionStep
<1>9. Typed'
      BY <1>1, <1>7, <1>8 DEF Typed, IsSeq
<1>10. NodesOK'
  <2>1. ASSUME NEW n \in Ns PROVE NodeTyped(nodes[n], n)' /\ NodeSound(nodes[n])'
    <3>1. NodeTyped(nodes[n], n) /\ NodeSound(nodes[n])
          BY DEF NodesOK
    <3>2. NodeTyped(nodes[n], n)'
          BY <1>1, <3>1, <1>8 DEF NodeTyped
    <3>3. NodeSound(nodes[n])'
          BY <1>1, <3>1 DEF NodeSound, Asked
    <3> QED BY <3>2, <3>3
  <2> QED BY <2>1, <1>7 DEF NodesOK
<1>11. ProgramOK'
       BY <1>1 DEF ProgramOK
<1> QED BY <1>8, <1>9, <1>10, <1>11

LEMMA OperandFacts ==
  ASSUME Typed, NodesOK, NEW f, NEW op \in AllOps, NEW types \in Signatures(op),
         NEW xs \in [DOMAIN types -> Visible(f)], TypesOf(xs) \in Signatures(op)
  PROVE  /\ IsSeq(xs) /\ ToSet(xs) \subseteq Ns /\ Len(xs) \in Nat \ {0}
         /\ op \in {"Neg", "Expm1", "Log1p"} => Len(xs) = 1
         /\ ResultType(op, TypesOf(xs)) \in Types
<1>1. /\ types \in Seq(Types) /\ Len(types) \in Nat \ {0} /\ DOMAIN types = 1..Len(types)
      /\ op \in {"Neg", "Expm1", "Log1p"} => Len(types) = 1
      BY SignatureFacts
<1>2. IsSeq(xs) /\ Len(xs) = Len(types) /\ xs \in Seq(Visible(f))
  <2>1. xs \in [1..Len(types) -> Visible(f)] /\ Len(types) \in Nat
        BY <1>1
  <2> QED BY <2>1, FunctionIsSeq
<1>3. ToSet(xs) \subseteq Ns
      BY <1>2, SeqOfSet, VisibleFacts
<1>4. ResultType(op, TypesOf(xs)) \in Types
  <2> DEFINE ts == TypesOf(xs)
  <2>1. ts \in Seq(Types) /\ Len(ts) \in Nat \ {0} /\ DOMAIN ts = 1..Len(ts)
        BY SignatureFacts
  <2>2. ResultType(op, ts) = "Bool" \/ ResultType(op, ts) = ts[Len(ts)]
        BY DEF ResultType
  <2> HIDE DEF ts
  <2>3. ts[Len(ts)] \in Types
        BY <2>1
  <2>4. "Bool" \in Types
        BY DEF Types
  <2> QED BY <2>2, <2>3, <2>4 DEF ts
<1> QED BY <1>1, <1>2, <1>3, <1>4

LEMMA ProgramGrows ==
  ASSUME IsSeq(program), ProgramOK, NEW more, Joined(program', program, more),
         \A k \in DOMAIN more : Apart(more[k], Len(program) + k)
  PROVE  ProgramOK' /\ IsSeq(program)'
<1>1. /\ IsSeq(program')
      /\ \A k \in DOMAIN program' :
            \/ k \in DOMAIN program /\ program'[k] = program[k]
            \/ \E i \in DOMAIN more : k = Len(program) + i /\ program'[k] = more[i]
      BY DEF Joined
<1>2. ASSUME NEW k \in DOMAIN program' PROVE Apart(program'[k], k)
  <2>1. CASE k \in DOMAIN program /\ program'[k] = program[k]
        BY <2>1 DEF ProgramOK
  <2>2. ASSUME NEW i \in DOMAIN more, k = Len(program) + i, program'[k] = more[i]
        PROVE  Apart(program'[k], k)
        BY <2>2
  <2> QED BY <1>1, <2>1, <2>2
<1>3. \A k \in DOMAIN program' : Apart(program[k], k)'
      BY <1>2 DEF Apart
<1> QED BY <1>1, <1>3 DEF ProgramOK

LEMMA OperationKeeps ==
  ASSUME GraphInv, NEW f \in Fns, NEW op \in AllOps, NEW types \in Signatures(op),
         NEW xs \in [DOMAIN types -> Visible(f)], Operation(f, op, xs)
  PROVE  GraphInv'
<1> USE DEF GraphInv
<1> DEFINE vs == Vals(xs)
           e == Emission(op, vs)
           type == ResultType(op, TypesOf(xs))
           asked == Promise(op, Asked(xs))
           lazy == IsClosure(f) /\ op \notin EagerOps
           v == IF lazy THEN PlaceholderValue ELSE e.val
           x == Node(op, xs, type, v, asked, f)
<1>1. /\ TypesOf(xs) \in Signatures(op) /\ nodes' = Append(nodes, x)
      /\ program' = IF lazy THEN program ELSE program \o e.ops
      /\ UNCHANGED <<functions, mainFn, inputs, outline>>
  <2>1. CASE lazy
        BY <2>1 DEF Operation
  <2>2. CASE ~lazy
        BY <2>2 DEF Operation
  <2> QED BY <2>1, <2>2
<1>2. /\ IsSeq(xs) /\ ToSet(xs) \subseteq Ns /\ Len(xs) \in Nat \ {0}
      /\ op \in {"Neg", "Expm1", "Log1p"} => Len(xs) = 1
      /\ type \in Types
      BY <1>1, OperandFacts
<1>3. Answers(vs, xs) /\ Within(vs, Main)
      BY <1>2, ValsFacts
<1> HIDE DEF vs
<1>4. EmissionIs(e, op, vs)
  <2>1. IsSeq(vs) /\ Len(vs) = Len(xs)
        BY <1>3 DEF Answers
  <2> QED BY <1>2, <2>1, EmissionFacts
<1> HIDE DEF e, type
<1>5. Sound(v, asked) /\ v.home \in {Main, Nowhere} /\ (v.whole => v.home = Main)
  <2>1. CASE lazy
    <3>1. v = PlaceholderValue
          BY <2>1
    <3> HIDE DEF v
    <3> QED BY <3>1, PlaceholderFacts DEF Sound
  <2>2. CASE ~lazy
    <3>1. v = e.val
          BY <2>2
    <3> HIDE DEF v
    <3>2. /\ e.val.home = Main /\ e.val.whole \in BOOLEAN /\ (e.val.whole <=> Whole(vs))
          /\ Whole(vs) => e.val.means = Promise(op, Means(vs))
          BY <1>4 DEF EmissionIs
    <3>3. Whole(vs) => Means(vs) = Asked(xs)
          BY <1>3, AnswersMean
    <3> QED BY <3>1, <3>2, <3>3 DEF Sound
  <2> QED BY <2>1, <2>2
<1> HIDE DEF v
<1>6. Fresh(x)
      BY <1>2, <1>5, FreshNode
<1> HIDE DEF x
<1>7. NodesOK' /\ IsSeq(nodes)' /\ Ns \subseteq Ns'
      BY <1>1, <1>6, AppendNode DEF Fns
<1>8. FunctionsOK'
      BY <1>1, <1>7, FunctionsStay
<1>9. ProgramOK' /\ IsSeq(program)'
  <2>1. CASE lazy
        BY <1>1, <2>1 DEF ProgramOK, Typed, IsSeq
  <2>2. CASE ~lazy
    <3>1. Joined(program', program, e.ops)
          BY <1>1, <1>4, <2>2, ConcatFacts DEF EmissionIs, Typed
    <3>2. ASSUME NEW k \in DOMAIN e.ops PROVE Apart(e.ops[k], Len(program) + k)
      <4> DEFINE none == <<>>
      <4>1. e.ops[k].blocks = none /\ Homes(e.ops[k].args) \subseteq {Main} \union Homes(vs)
            BY <1>4 DEF EmissionIs
      <4>2. DOMAIN none = {}
            OBVIOUS
      <4> HIDE DEF none
      <4>3. Within(e.ops[k].args, Main)
            BY <1>3, <4>1 DEF Within
      <4> QED BY <4>1, <4>2, <4>3 DEF Apart
    <3> QED BY <3>1, <3>2, ProgramGrows DEF Typed
  <2> QED BY <2>1, <2>2
<1>10. Typed'
       BY <1>1, <1>7, <1>9 DEF Typed, IsSeq
<1> QED BY <1>7, <1>8, <1>9, <1>10

(* A loop or a branch: the operation, its two blocks and a node per result.   *)
ResultOK(v, op, k, over, a, b) ==
  /\ Sound(v, Term(op, <<Leaf("result", k)>> \o Asked(over) \o Asked(a) \o Asked(b)))
  /\ v.home = Main

LEMMA ResultsFacts ==
  ASSUME NEW op, NEW args, NEW over, Answers(args, over),
         NEW blocks, NEW a, NEW b, Answers(blocks[1].outs, a), Answers(blocks[2].outs, b),
         NEW count \in Nat, NEW k \in 1..count
  PROVE  ResultOK(Results(op, args, blocks, count)[k], op, k, over, a, b)
<1> DEFINE vs == args \o blocks[1].outs \o blocks[2].outs
           ns == over \o a \o b
           leaf == <<Leaf("result", k)>>
           v == Results(op, args, blocks, count)[k]
<1>1. Answers(vs, ns)
      BY AnswersConcat
<1>2. v = Result(Main, Term(op, leaf \o Means(vs)), vs)
      BY DEF Results
<1>3. IsSeq(over) /\ IsSeq(a) /\ IsSeq(b)
      BY DEF Answers
<1>4. Asked(ns) = Asked(over) \o Asked(a) \o Asked(b)
  <2> DEFINE front == over \o a
  <2>1. IsSeq(front)
        BY <1>3, ConcatFacts DEF Joined
  <2>2. Asked(front) = Asked(over) \o Asked(a)
        BY <1>3, AskedConcat
  <2> HIDE DEF front
  <2>3. Asked(front \o b) = Asked(front) \o Asked(b)
        BY <1>3, <2>1, AskedConcat
  <2> QED BY <2>2, <2>3, Zenon DEF front
<1>5. leaf \o Asked(ns) = leaf \o Asked(over) \o Asked(a) \o Asked(b)
  <2>1. IsSeq(leaf)
        BY OneTuple
  <2> DEFINE A == Asked(over)
             B == Asked(a)
             C == Asked(b)
  <2>2. IsSeq(A) /\ IsSeq(B) /\ IsSeq(C)
        BY <1>3, AskedIsSeq
  <2> HIDE DEF leaf, ns, A, B, C
  <2>3. Regroups(leaf, A, B, C)
        BY <2>1, <2>2, ConcatTwice
  <2>4. leaf \o (A \o B \o C) = leaf \o A \o B \o C
        BY <2>3, Zenon DEF Regroups
  <2> QED BY <1>4, <2>4, Zenon DEF A, B, C
<1>6. Whole(vs) => Means(vs) = Asked(ns)
      BY <1>1, AnswersMean
<1> HIDE DEF vs, ns, leaf
<1> DEFINE term == Term(op, leaf \o Means(vs))
           asked == Term(op, leaf \o Asked(over) \o Asked(a) \o Asked(b))
<1>7. Whole(vs) => term = asked
      BY <1>5, <1>6
<1>8. v = Result(Main, term, vs)
      BY <1>2
<1> HIDE DEF term, asked, v
<1>9. /\ v.home = Main /\ v.whole \in BOOLEAN /\ (v.whole <=> Whole(vs))
      /\ Whole(vs) => v.means = term
      BY <1>8, ResultFacts
<1>10. Sound(v, asked) /\ v.home = Main
       BY <1>7, <1>9 DEF Sound
<1> QED BY <1>10 DEF v, asked, leaf, ResultOK

LEMMA ControlKeeps ==
  ASSUME GraphInv, NEW f \in Fns, NEW op \in {"While", "If"},
         NEW over, IsSeq(over), ToSet(over) \subseteq Ns,
         NEW args, Answers(args, over), Within(args, Main),
         NEW c \in Fns, NEW d \in Fns, NEW first, NEW second,
         ReplayOK(first, c, Block(1)), ReplayOK(second, d, Block(2)),
         NEW count \in Nat, NEW types, \A k \in 1..count : types[k] \in Types,
         program' = Append(program, [MilOp(op, args) EXCEPT !.blocks = <<first, second>>]),
         AddResults(f, op, over, <<c, d>>,
                    Results(op, args, <<first, second>>, count), types),
         UNCHANGED <<functions, mainFn, inputs, outline>>
  PROVE  GraphInv'
<1> USE DEF GraphInv
<1> DEFINE blocks == <<first, second>>
           pair == <<c, d>>
           none == <<>>
           vs == Results(op, args, blocks, count)
           a == functions[c].outputs
           b == functions[d].outputs
           asked(k) == Term(op, <<Leaf("result", k)>> \o Asked(over) \o Asked(a) \o Asked(b))
           plain(k) == Node(op, none, types[k], vs[k], asked(k), f)
           new(k) == [plain(k) EXCEPT !.over = over, !.closures = pair]
           more == [k \in 1..count |-> new(k)]
           o == [MilOp(op, args) EXCEPT !.blocks = blocks]
<1>1. /\ DOMAIN blocks = {1, 2} /\ blocks[1] = first /\ blocks[2] = second
      /\ pair[1] = c /\ pair[2] = d
      BY TwoTuple
<1>2. Answers(first.outs, a) /\ Answers(second.outs, b)
      BY DEF ReplayOK
<1>3. vs = [k \in 1..count |-> vs[k]] /\ Len(vs) = count
  <2>1. vs = [k \in 1..count |-> vs[k]]
        BY DEF Results
  <2> HIDE DEF vs
  <2> QED BY <2>1, MadeIsSeq
<1>4. IsSeq(none) /\ ToSet(none) = {}
  <2>1. none \in Seq({})
        OBVIOUS
  <2> HIDE DEF none
  <2> QED BY <2>1, EmptyFacts
<1>5. nodes' = nodes \o more
  <2> HIDE DEF vs, blocks
  <2>1. nodes' = nodes \o [k \in 1..Len(vs) |->
          [Node(op, <<>>, types[k], vs[k],
                Term(op, <<Leaf("result", k)>> \o Asked(over) \o Asked(functions[pair[1]].outputs)
                           \o Asked(functions[pair[2]].outputs)), f)
            EXCEPT !.over = over, !.closures = pair]]
        BY Zenon DEF AddResults, vs, blocks
  <2> HIDE DEF pair
  <2> QED BY <1>1, <1>3, <2>1
<1> HIDE DEF blocks, pair, none
<1>6. ASSUME NEW k \in 1..count PROVE Sound(vs[k], asked(k)) /\ vs[k].home = Main
  <2>1. Answers(blocks[1].outs, a) /\ Answers(blocks[2].outs, b)
        BY <1>1, <1>2
  <2> HIDE DEF a, b
  <2>2. ResultOK(vs[k], op, k, over, a, b)
        BY <2>1, ResultsFacts
  <2> QED BY <2>2 DEF ResultOK
<1> HIDE DEF vs, asked
<1>7. ASSUME NEW k \in 1..count PROVE Fresh(new(k))
  <2> DEFINE x == new(k)
  <2>1. /\ x.op = op /\ x.inputs = none /\ x.type = types[k] /\ x.val = vs[k]
        /\ x.asked = asked(k) /\ x.owner = f /\ x.over = over
        BY DEF Node
  <2>2. op \notin AllOps /\ op \in {"While", "If"}
        BY DEF AllOps, UnaryOps, BinaryOps, ComparisonOps, EagerOps
  <2> HIDE DEF x
  <2>3. NodeSound(x)
        BY <1>6, <2>1, <2>2 DEF NodeSound
  <2>4. Fresh(x)
        BY <1>4, <2>1, <2>2, <2>3 DEF Fresh
  <2> QED BY <2>4 DEF x
<1>8. Joined(nodes', nodes, more) /\ \A i \in DOMAIN more : Fresh(more[i])
  <2> HIDE DEF new
  <2>1. \A i \in DOMAIN more : Fresh(more[i])
        BY <1>7
  <2>2. IsSeq(more)
    <3>1. more = [k \in 1..count |-> more[k]]
          OBVIOUS
    <3> HIDE DEF more
    <3> QED BY <3>1, MadeIsSeq
  <2> HIDE DEF more
  <2> QED BY <1>5, <2>1, <2>2, ConcatFacts DEF Typed
<1>9. NodesOK' /\ IsSeq(nodes)' /\ Ns \subseteq Ns'
  <2> HIDE DEF more
  <2> QED BY <1>8, NodesGrow DEF Fns
<1>10. FunctionsOK'
       BY <1>9, FunctionsStay
<1>11. Apart(o, Len(program) + 1)
  <2>1. o.args = args /\ o.blocks = blocks
        BY DEF MilOp
  <2> HIDE DEF o
  <2>2. ASSUME NEW i \in {1, 2}
        PROVE  /\ Within(blocks[i].outs, <<Len(program) + 1, i>>)
               /\ \A k \in DOMAIN blocks[i].ops :
                    Within(blocks[i].ops[k].args, <<Len(program) + 1, i>>)
        BY <1>1 DEF ReplayOK, OpsOK, Block
  <2> QED BY <1>1, <2>1, <2>2 DEF Apart
<1>12. ProgramOK' /\ IsSeq(program)'
  <2> DEFINE ops == <<o>>
  <2>1. program' = Append(program, o)
        BY DEF blocks
  <2> HIDE DEF o
  <2>2. Joined(program', program, ops)
        BY <2>1, AppendJoined DEF Typed
  <2>3. DOMAIN ops = {1} /\ ops[1] = o
        BY OneTuple
  <2> HIDE DEF ops
  <2>4. \A k \in DOMAIN ops : Apart(ops[k], Len(program) + k)
        BY <1>11, <2>3
  <2> QED BY <2>2, <2>4, ProgramGrows DEF Typed
<1>13. Typed'
       BY <1>9, <1>12 DEF Typed, IsSeq
<1> QED BY <1>9, <1>10, <1>12, <1>13

(* The blocks of a loop take values that stand for its closure's parameters.  *)
LEMMA LoopInputs ==
  ASSUME NEW c, NEW b, NEW count
  PROVE  InputsOK(c, Block(b), BlockInputs(c, b, count))
<1> DEFINE vs == BlockInputs(c, b, count)
<1>1. ASSUME NEW i \in DOMAIN vs
      PROVE  vs[i] = Value(Block(b), nodes[functions[c].parameters[i]].asked)
      BY DEF BlockInputs
<1> HIDE DEF vs
<1>2. ASSUME NEW i \in DOMAIN vs
      PROVE  /\ Sound(vs[i], nodes[functions[c].parameters[i]].asked)
             /\ Lives(vs[i], Block(b))
  <2> DEFINE asked == nodes[functions[c].parameters[i]].asked
  <2>1. vs[i] = Value(Block(b), asked)
        BY <1>1
  <2>2. vs[i].home = Block(b) /\ vs[i].whole = TRUE /\ vs[i].means = asked
        BY <2>1 DEF Value
  <2> HIDE DEF asked
  <2>3. Sound(vs[i], asked) /\ Lives(vs[i], Block(b))
        BY <2>2 DEF Sound, Lives
  <2> QED BY <2>3 DEF asked
<1>3. InputsOK(c, Block(b), vs)
      BY <1>2 DEF InputsOK
<1> QED BY <1>3 DEF vs

LEMMA NoInputs ==
  ASSUME NEW c, NEW home
  PROVE  InputsOK(c, home, <<>>)
<1> DEFINE none == <<>>
<1>1. DOMAIN none = {}
      OBVIOUS
<1> HIDE DEF none
<1>2. InputsOK(c, home, none)
      BY <1>1 DEF InputsOK
<1> QED BY <1>2 DEF none

(* A condition block keeps its first output, and has no other.                *)
LEMMA FirstOutput ==
  ASSUME NEW r, NEW c, NEW home, ReplayOK(r, c, home), Len(functions[c].outputs) = 1,
         NEW q, q.outs = <<r.outs[1]>>, q.ops = r.ops
  PROVE  ReplayOK(q, c, home)
<1> DEFINE outs == r.outs
           one == <<outs[1]>>
<1>1. Answers(outs, functions[c].outputs) /\ Within(outs, home) /\ OpsOK(r.ops, home)
      BY DEF ReplayOK
<1>2. IsSeq(outs) /\ Len(outs) = 1
      BY <1>1 DEF Answers
<1>3. DOMAIN outs = {1} /\ outs = [i \in {1} |-> outs[i]]
  <2>1. DOMAIN outs = 1..1 /\ outs = [i \in DOMAIN outs |-> outs[i]]
        BY <1>2, SeqFacts
  <2>2. 1..1 = {1}
        OBVIOUS
  <2> QED BY <2>1, <2>2
<1>4. one = [i \in {1} |-> outs[i]]
      OBVIOUS
<1> HIDE DEF outs, one
<1>5. one = outs
      BY <1>3, <1>4
<1> QED BY <1>1, <1>5 DEF ReplayOK, outs, one

(* A condition has one output.                                                *)
LEMMA OneOutput ==
  ASSUME Typed, NEW c \in Fns, TypesOf(functions[c].outputs) = <<"Bool">>
  PROVE  Len(functions[c].outputs) = 1
<1> DEFINE outs == functions[c].outputs
           bool == <<"Bool">>
<1>1. DOMAIN TypesOf(outs) = DOMAIN outs
      BY DEF TypesOf
<1>2. DOMAIN bool = {1}
      OBVIOUS
<1>3. Len(outs) \in Nat /\ DOMAIN outs = 1..Len(outs)
      BY FunctionFacts, SeqFacts
<1> HIDE DEF outs, bool
<1>4. 1..Len(outs) = {1}
      BY <1>1, <1>2, <1>3 DEF outs, bool
<1> DEFINE len == Len(outs)
<1>5. len \in Nat /\ 1..len = {1}
      BY <1>3, <1>4
<1> HIDE DEF len
<1>6. 1 \in 1..len /\ (len > 1 => 2 \in 1..len)
      BY <1>5
<1>7. len = 1
      BY <1>5, <1>6
<1> QED BY <1>7 DEF len, outs

LEMMA WhileKeeps ==
  ASSUME GraphInv, NEW f \in Fns, NEW cond \in Fns, NEW body \in Fns,
         NEW initial \in SeqsUpTo(Visible(f), outline.outs), While(f, cond, body, initial)
  PROVE  GraphInv'
<1> USE DEF GraphInv
<1> DEFINE count == Len(initial)
           condBlock == Replay(cond, Block(1), BlockInputs(cond, 1, count))
           bodyBlock == Replay(body, Block(2), BlockInputs(body, 2, count))
           first == [condBlock EXCEPT !.outs = <<@[1]>>]
           args == Vals(initial)
           types == TypesOf(initial)
<1>1. /\ TypesOf(functions[cond].outputs) = <<"Bool">>
      /\ program' = Append(program, [MilOp("While", args) EXCEPT !.blocks = <<first, bodyBlock>>])
      /\ AddResults(f, "While", initial, <<cond, body>>,
                    Results("While", args, <<first, bodyBlock>>, count), types)
      /\ UNCHANGED <<functions, mainFn, inputs, outline>>
      BY Zenon DEF While
<1>2. IsSeq(initial) /\ ToSet(initial) \subseteq Ns
      BY OutsBound, ChoiceFacts, VisibleFacts
<1>3. count \in Nat /\ DOMAIN initial = 1..count /\ \A i \in 1..count : initial[i] \in Ns
      BY <1>2, SeqFacts
<1>4. Answers(args, initial) /\ Within(args, Main)
      BY <1>2, ValsFacts
<1>5. ReplayOK(condBlock, cond, Block(1)) /\ ReplayOK(bodyBlock, body, Block(2))
      BY LoopInputs, ReplayFacts
<1>6. first.outs = <<condBlock.outs[1]>> /\ first.ops = condBlock.ops
      BY DEF Replay
<1>7. Len(functions[cond].outputs) = 1
      BY <1>1, OneOutput
<1>8. \A k \in 1..count : types[k] \in Types
  <2>1. \A k \in 1..count : types[k] = nodes[initial[k]].type
        BY <1>3 DEF TypesOf
  <2>2. \A n \in Ns : nodes[n].type \in Types
        BY DEF NodesOK, NodeTyped
  <2> QED BY <1>3, <2>1, <2>2
<1> HIDE DEF condBlock, bodyBlock, args, types
<1>9. ReplayOK(first, cond, Block(1))
  <2> HIDE DEF first
  <2> QED BY <1>5, <1>6, <1>7, FirstOutput
<1> HIDE DEF first, count
<1> QED BY <1>1, <1>2, <1>3, <1>4, <1>5, <1>8, <1>9, ControlKeeps

LEMMA IfKeeps ==
  ASSUME GraphInv, NEW f \in Fns, NEW yes \in Fns, NEW no \in Fns,
         NEW pred \in Visible(f), If(f, pred, yes, no)
  PROVE  GraphInv'
<1> USE DEF GraphInv
<1> DEFINE none == <<>>
           first == Replay(yes, Block(1), none)
           second == Replay(no, Block(2), none)
           outs == functions[yes].outputs
           types == TypesOf(outs)
           count == Len(types)
           args == <<Predicate(pred)>>
           over == <<pred>>
<1>1. /\ program' = Append(program, [MilOp("If", args) EXCEPT !.blocks = <<first, second>>])
      /\ AddResults(f, "If", over, <<yes, no>>,
                    Results("If", args, <<first, second>>, count), types)
      /\ UNCHANGED <<functions, mainFn, inputs, outline>>
      BY Zenon DEF If
<1>2. ReplayOK(first, yes, Block(1)) /\ ReplayOK(second, no, Block(2))
      BY NoInputs, ReplayFacts
<1>3. pred \in Ns
      BY VisibleFacts
<1>4. IsSeq(over) /\ Len(over) = 1 /\ DOMAIN over = {1} /\ over[1] = pred /\ ToSet(over) = {pred}
      BY OneTuple
<1>5. IsSeq(args) /\ Len(args) = 1 /\ DOMAIN args = {1} /\ args[1] = Predicate(pred)
      BY OneTuple
<1>6. Sound(Predicate(pred), nodes[pred].asked) /\ Lives(Predicate(pred), Main)
  <2>1. CASE nodes[pred].op = "Constant"
    <3>1. Predicate(pred) = PlaceholderValue
          BY <2>1 DEF Predicate
    <3> QED BY <3>1, PlaceholderFacts DEF Sound, Lives
  <2>2. CASE nodes[pred].op # "Constant"
    <3>1. Predicate(pred) = nodes[pred].val
          BY <2>2 DEF Predicate
    <3> QED BY <3>1, <1>3, NodeValue
  <2> QED BY <2>1, <2>2
<1>7. IsSeq(outs) /\ ToSet(outs) \subseteq Ns
      BY FunctionFacts DEF FunctionsOK
<1>8. count \in Nat /\ \A k \in 1..count : types[k] \in Types
  <2> HIDE DEF outs
  <2>1. Len(outs) \in Nat /\ DOMAIN outs = 1..Len(outs) /\ \A k \in DOMAIN outs : outs[k] \in Ns
        BY <1>7, SeqFacts
  <2>2. types = [k \in 1..Len(outs) |-> types[k]] /\ \A k \in DOMAIN outs : types[k] = nodes[outs[k]].type
        BY <2>1 DEF TypesOf
  <2>3. count = Len(outs)
    <3> HIDE DEF types
    <3> QED BY <2>1, <2>2, MadeIsSeq
  <2>4. \A n \in Ns : nodes[n].type \in Types
        BY DEF NodesOK, NodeTyped
  <2> HIDE DEF types, count
  <2> QED BY <2>1, <2>2, <2>3, <2>4
<1> HIDE DEF first, second, types, count, over, args
<1>9. Answers(args, over) /\ Within(args, Main)
      BY <1>4, <1>5, <1>6 DEF Answers, Within, Homes, Lives
<1>10. ToSet(over) \subseteq Ns
       BY <1>3, <1>4
<1> QED BY <1>1, <1>2, <1>4, <1>8, <1>9, <1>10, ControlKeeps

-----------------------------------------------------------------------------
LEMMA InitKeeps == Init => GraphInv
<1> SUFFICES ASSUME Init PROVE GraphInv
    OBVIOUS
<1> DEFINE none == <<>>
<1>1. /\ functions = none /\ nodes = none /\ inputs = none /\ program = none
      /\ mainFn = 0 /\ outline \in Outlines
      BY DEF Init
<1>2. none \in Seq({}) /\ none \in Seq(FnRecord)
      OBVIOUS
<1> HIDE DEF none
<1>3. IsSeq(none) /\ Len(none) = 0 /\ DOMAIN none = {} /\ ToSet(none) = {}
      BY <1>2, EmptyFacts
<1>4. Typed
      BY <1>1, <1>2, <1>3 DEF Typed
<1>5. FunctionsOK /\ NodesOK /\ ProgramOK
      BY <1>1, <1>3 DEF FunctionsOK, NodesOK, ProgramOK, Fns, Ns
<1> QED BY <1>4, <1>5 DEF GraphInv

LEMMA NextKeeps == GraphInv /\ [Next]_vars => GraphInv'
<1> SUFFICES ASSUME GraphInv, [Next]_vars PROVE GraphInv'
    OBVIOUS
<1>1. Len(functions) \in Nat /\ Fns = 1..Len(functions) /\ mainFn \in 0..Len(functions)
      BY DEF GraphInv, Typed, Fns
<1>2. CASE MainFunction
  <2>1. functions' = Append(functions, NewFn(0)) /\ mainFn' = Len(functions) + 1
        /\ UNCHANGED <<nodes, inputs, program, outline>>
        BY <1>2 DEF MainFunction
  <2>2. 0 \in 0..Len(functions) /\ mainFn' \in 0..Len(functions) + 1
        BY <1>1, <2>1
  <2> QED BY <2>1, <2>2, NewFnStep
<1>3. CASE NewFunction
  <2>1. functions' = Append(functions, NewFn(0)) /\ mainFn' = mainFn
        /\ UNCHANGED <<nodes, inputs, program, outline>>
        BY <1>3 DEF NewFunction
  <2>2. 0 \in 0..Len(functions) /\ mainFn' \in 0..Len(functions) + 1
        BY <1>1, <2>1
  <2> QED BY <2>1, <2>2, NewFnStep
<1>4. ASSUME NEW f \in Fns, Closure(f) PROVE GraphInv'
  <2>1. functions' = Append(functions, NewFn(f)) /\ mainFn' = mainFn
        /\ UNCHANGED <<nodes, inputs, program, outline>>
        BY <1>4 DEF Closure
  <2>2. f \in 0..Len(functions) /\ mainFn' \in 0..Len(functions) + 1
        BY <1>1, <2>1
  <2> QED BY <2>1, <2>2, NewFnStep
<1>5. Writable \subseteq Fns
      BY DEF Writable
<1>6. ASSUME NEW f \in Fns, NEW t \in Types, Parameter(f, t) PROVE GraphInv'
      BY <1>6, ParameterKeeps
<1>7. ASSUME NEW f \in Writable, NEW t \in Types, Constant(f, t) PROVE GraphInv'
      BY <1>5, <1>7, ConstantKeeps
<1>8. ASSUME NEW f \in Writable, NEW op \in AllOps \cap Uses, NEW types \in Signatures(op),
             NEW xs \in [DOMAIN types -> Visible(f)], Operation(f, op, xs)
      PROVE  GraphInv'
      BY <1>5, <1>8, OperationKeeps
<1>9. ASSUME NEW f \in Writable, NEW outs \in Outs(f), Return(f, outs) PROVE GraphInv'
      BY <1>5, <1>9, ReturnKeeps
<1>10. ASSUME NEW f \in Writable, NEW cond \in Fns, NEW body \in Fns,
              NEW initial \in SeqsUpTo(Visible(f), outline.outs), While(f, cond, body, initial)
       PROVE  GraphInv'
       BY <1>5, <1>10, WhileKeeps
<1>11. ASSUME NEW f \in Writable, NEW yes \in Fns, NEW no \in Fns, NEW pred \in Visible(f),
              If(f, pred, yes, no)
       PROVE  GraphInv'
       BY <1>5, <1>11, IfKeeps
<1>12. CASE UNCHANGED vars
  <2>1. /\ functions' = functions /\ mainFn' = mainFn /\ nodes' = nodes /\ inputs' = inputs
        /\ program' = program /\ outline' = outline
        BY <1>12 DEF vars
  <2>2. Typed'
        BY <2>1 DEF GraphInv, Typed, Ns, IsSeq
  <2>3. FunctionsOK'
        BY <2>1 DEF GraphInv, FunctionsOK, Fns, Ns, Parameters
  <2>4. NodesOK'
    <3>1. ASSUME NEW n \in Ns PROVE NodeTyped(nodes[n], n)' /\ NodeSound(nodes[n])'
      <4>1. NodeTyped(nodes[n], n) /\ NodeSound(nodes[n])
            BY DEF GraphInv, NodesOK
      <4>2. NodeTyped(nodes[n], n)'
            BY <2>1, <4>1 DEF NodeTyped, Fns
      <4>3. NodeSound(nodes[n])'
            BY <2>1, <4>1 DEF NodeSound, Asked
      <4> QED BY <4>2, <4>3
    <3> QED BY <2>1, <3>1 DEF NodesOK, Ns
  <2>5. ProgramOK'
        BY <2>1 DEF GraphInv, ProgramOK
  <2> QED BY <2>2, <2>3, <2>4, <2>5 DEF GraphInv
<1> QED BY <1>2, <1>3, <1>4, <1>6, <1>7, <1>8, <1>9, <1>10, <1>11, <1>12 DEF Next

(* The invariant holds of every client's calls.                               *)
THEOREM Invariant == Spec => []GraphInv
  BY InitKeeps, NextKeeps, PTL DEF Spec

(* Nodes refer to earlier nodes only, closures and outputs are those of nodes *)
(* that exist, and a value that is computed has a place in the program.       *)
THEOREM TypeCorrect == Spec => []TypeOK
  BY Invariant, TypeOKOf, PTL

(* Whatever closures capture, share or replay, a node's value, when all its   *)
(* names are defined, means what the client asked for: loops and branches are *)
(* never silently wrong (replayClosureInBlock, function.go).                  *)
THEOREM NeverWrong == Spec => []NeverSilentlyWrong
  BY Invariant, SoundOf, PTL

(* No operation of a block uses a value of another block: a replay leaks no   *)
(* value out of the block it fills.                                           *)
THEOREM BlocksStayApart == Spec => []BlocksApart
  BY Invariant, ApartOf, PTL

=============================================================================
