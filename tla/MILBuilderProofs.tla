--------------------------- MODULE MILBuilderProofs ---------------------------
(***************************************************************************)
(* Proofs about MILBuilder, for any clients, names and nesting depth.       *)
(*                                                                          *)
(* The types (BuilderTypes) need no assumption.  Everything about names      *)
(* rests on PlainNames: the client's names are none that genName, Cond or    *)
(* WhileLoop make up.  Then a main name is new when it is defined, since     *)
(* generated names carry numbers below nextID and the client takes fresh     *)
(* names, and the names of nested blocks are of another kind altogether.     *)
(*                                                                          *)
(* Any value may be passed anywhere, so an argument is related to what the   *)
(* client held when the operation was added (ScopeBefore), not to a scope.   *)
(* A value that no main operation defines has a name that none ever will     *)
(* (IsHandle), and one of a block being filled has a name of that block      *)
(* (OwnInv): those two facts say which names can meet.                       *)
(***************************************************************************)
EXTENDS MILBuilder, TLAPS, FiniteSetTheorems, SequenceTheorems

TensorTypes == {t \in [dtype : ElementTypes, shape : Seq(Nat \ {0})] : Len(t.shape) <= MaxRank}
Shapes == {s \in Seq(Nat \ {0}) : Len(s) <= MaxRank}
Values == [name : NameRecords, dtype : ElementTypes, shape : Shapes, isConst : BOOLEAN,
           home : Int]
Pairs(S) == {s \in Seq(S) : Len(s) <= 2}
ArgRecords == [byName : BOOLEAN, name : NameRecords, home : Int]
OutRecords == [name : NameRecords, type : TensorTypes]
BlockOps == [type : OpTypes, args : Seq(ArgRecords), outs : Seq(OutRecords), blocks : {<<>>}]
Blocks == [id : Nat \ {0}, inputs : Pairs(Values), outputs : Seq(NameRecords),
           operations : Seq(BlockOps), nextID : Nat]
MainOps == [type : OpTypes, args : Seq(ArgRecords), outs : Seq(OutRecords),
            blocks : Seq(Blocks)]
FrameRecords == [kind : {"cond", "while"}, operands : Pairs(Values), block : Blocks,
                 built : Seq(Blocks), results : Pairs(Values)]
Frames == {f \in FrameRecords : f.kind = "cond" => f.operands # <<>>}

BuilderTypes ==
  /\ inputs \in Seq(Values) /\ operations \in Seq(MainOps) /\ outputs \in Seq(NameRecords)
  /\ DOMAIN values \subseteq NameRecords /\ nextID \in Nat /\ blocksMade \in Nat
  /\ err \in {"none", "concat", "cond", "while"}
  /\ frames \in Seq(Frames) /\ Len(frames) <= MaxDepth
  /\ handles \subseteq Values
  /\ client \in ClientRecords

(***************************************************************************)
(* Operators of the model.                                                  *)
(***************************************************************************)

LEMMA FunctionIsSequence ==
  ASSUME NEW S, NEW n \in Nat, NEW s \in [1..n -> S]
  PROVE  s \in Seq(S) /\ Len(s) = n /\ \A i \in 1..n : s[i] \in S
  OBVIOUS

LEMMA SequenceIsFunction ==
  ASSUME NEW S, NEW s \in Seq(S)
  PROVE  s \in [1..Len(s) -> S]
  OBVIOUS

LEMMA TuplesAreSequences ==
  ASSUME NEW S, NEW n \in Nat, NEW s \in Tuples(S, n)
  PROVE  s \in Seq(S) /\ Len(s) \in 0..n /\ \A i \in 1..Len(s) : s[i] \in S
<1>1. PICK k \in 0..n : s \in [1..k -> S]
      BY DEF Tuples
<1>2. k \in Nat
      OBVIOUS
<1>3. s \in Seq(S) /\ Len(s) = k
      BY <1>1, <1>2
<1> QED BY <1>1, <1>3

NameBases ==
  GeneratedBases \union OutputBases \union InputBases \union {"block_const"}
    \union {UserNames[i].base : i \in 1..Len(UserNames)}

LEMMA NameFields ==
  ASSUME NEW base \in NameBases, NEW blk \in BOOLEAN, NEW id \in Int
  PROVE  /\ Name(base, blk, id) \in NameRecords /\ Name(base, blk, id).base = base
         /\ Name(base, blk, id).blk = blk /\ Name(base, blk, id).id = id
  BY DEF Name, NameRecords, NameBases

LEMMA TypesAre ==
  ASSUME NEW t
  PROVE  IsType(t) <=> t \in TensorTypes
  BY DEF IsType, TensorTypes

LEMMA UserTypesAre == UserTypes \subseteq TensorTypes
  BY BoundsAssumption, TypesAre

LEMMA TypeFields ==
  ASSUME NEW d \in ElementTypes, NEW s \in Shapes
  PROVE  [dtype |-> d, shape |-> s] \in TensorTypes
  BY DEF TensorTypes, Shapes

LEMMA ValueFields ==
  ASSUME NEW n \in NameRecords, NEW t \in TensorTypes, NEW h \in Int
  PROVE  /\ Value(n, t, FALSE, h) \in Values /\ TypeOf(Value(n, t, FALSE, h)) = t
         /\ Value(n, t, FALSE, h).name = n /\ ~Value(n, t, FALSE, h).isConst
         /\ Value(n, t, FALSE, h).home = h
<1>1. t = [dtype |-> t.dtype, shape |-> t.shape] /\ t.dtype \in ElementTypes /\ t.shape \in Shapes
      BY DEF TensorTypes, Shapes
<1> QED BY <1>1 DEF Value, Values, TypeOf

LEMMA ConstFields ==
  ASSUME NEW n \in NameRecords, NEW t \in TensorTypes, NEW h \in Int
  PROVE  /\ Value(n, t, TRUE, h) \in Values /\ TypeOf(Value(n, t, TRUE, h)) = t
         /\ Value(n, t, TRUE, h).name = n /\ Value(n, t, TRUE, h).isConst
         /\ Value(n, t, TRUE, h).home = h
<1>1. t = [dtype |-> t.dtype, shape |-> t.shape] /\ t.dtype \in ElementTypes /\ t.shape \in Shapes
      BY DEF TensorTypes, Shapes
<1> QED BY <1>1 DEF Value, Values, TypeOf

LEMMA TypeOfIs ==
  ASSUME NEW v \in Values
  PROVE  /\ TypeOf(v) \in TensorTypes /\ TypeOf(v).dtype = v.dtype
         /\ TypeOf(v).shape = v.shape /\ v.dtype \in ElementTypes /\ v.shape \in Shapes
         /\ v.name \in NameRecords
  BY DEF TypeOf, Values, TensorTypes, Shapes

LEMMA BindFields ==
  ASSUME NEW v \in Values
  PROVE  /\ Bind(v) \in ArgRecords /\ Bind(v).name = v.name /\ Bind(v).home = v.home
         /\ Bind(v).byName = ~v.isConst
         /\ BindByName(v) \in ArgRecords /\ BindByName(v).name = v.name
         /\ BindByName(v).home = v.home
  BY DEF Bind, BindByName, ArgRecords, Values

LEMMA OutFields ==
  ASSUME NEW n \in NameRecords, NEW t \in TensorTypes
  PROVE  Out(n, t) \in OutRecords /\ Out(n, t).name = n /\ Out(n, t).type = t
  BY DEF Out, OutRecords

LEMMA BroadcastIsShape ==
  ASSUME NEW a \in Shapes, NEW b \in Shapes
  PROVE  BroadcastShape(a, b) \in Shapes
<1> DEFINE n == IF Len(a) >= Len(b) THEN Len(a) ELSE Len(b)
           At(s, i) == IF i > n - Len(s) THEN s[i - (n - Len(s))] ELSE 1
           max == [i \in 1..n |-> IF At(a, i) >= At(b, i) THEN At(a, i) ELSE At(b, i)]
<1>1. Len(a) \in Nat /\ Len(b) \in Nat /\ n \in Nat /\ n <= MaxRank /\ Len(a) <= n /\ Len(b) <= n
      BY DEF Shapes
<1> HIDE DEF n
<1>2. ASSUME NEW s \in Seq(Nat \ {0}), Len(s) <= n, NEW i \in 1..n
      PROVE  At(s, i) \in Nat \ {0}
  <2>1. CASE i > n - Len(s)
    <3>1. i - (n - Len(s)) \in 1..Len(s)
          BY <1>1, <1>2, <2>1
    <3> QED BY <2>1, <3>1
  <2>2. CASE ~(i > n - Len(s))
        BY <2>2
  <2> QED BY <2>1, <2>2
<1>3. a \in Seq(Nat \ {0}) /\ b \in Seq(Nat \ {0})
      BY DEF Shapes
<1>4. \A i \in 1..n : At(a, i) \in Nat \ {0} /\ At(b, i) \in Nat \ {0}
      BY <1>1, <1>2, <1>3
<1> HIDE DEF At
<1>5. max \in [1..n -> Nat \ {0}]
      BY <1>1, <1>4
<1>6. max \in Seq(Nat \ {0}) /\ Len(max) = n
      BY <1>1, <1>5
<1>7. BroadcastShape(a, b) = max
      BY DEF BroadcastShape, At, n
<1> QED BY <1>1, <1>6, <1>7 DEF Shapes

LEMMA UnaryIsType ==
  ASSUME NEW op \in DOMAIN Attributes, NEW x \in Values
  PROVE  op \in AllOps /\ Attributes[op] \in Nat /\ UnaryType(op, x) \in TensorTypes
<1>1. <<>> \in Shapes
      BY DEF Shapes, MaxRank
<1>2. (op = "relu" \/ op = "reduce_sum") /\ Attributes[op] \in Nat
      BY DEF Attributes
<1>3. UnaryType(op, x) \in TensorTypes
  <2>1. CASE op = "reduce_sum"
        BY <1>1, <2>1, TypeOfIs, TypeFields DEF UnaryType
  <2>2. CASE op # "reduce_sum"
        BY <2>2, TypeOfIs DEF UnaryType
  <2> QED BY <2>1, <2>2
<1>4. op \in AllOps
      BY <1>2 DEF AllOps
<1> QED BY <1>2, <1>3, <1>4

LEMMA BinaryIsType ==
  ASSUME NEW op, NEW x \in Values, NEW y \in Values
  PROVE  BinaryType(op, x, y) \in TensorTypes
<1>1. BroadcastShape(x.shape, y.shape) \in Shapes
      BY TypeOfIs, BroadcastIsShape
<1>2. (IF op = "less" THEN "Bool" ELSE x.dtype) \in ElementTypes
      BY TypeOfIs DEF ElementTypes
<1> QED BY <1>1, <1>2, TypeFields DEF BinaryType

LEMMA FreshAreNames ==
  ASSUME NEW n \in FreshNames
  PROVE  /\ n \in NameRecords /\ n \notin DOMAIN values
         /\ \E i \in 1..Len(UserNames) : n = UserNames[i]
<1>1. PICK i \in 1..Len(UserNames) : n = UserNames[i] /\ n \notin DOMAIN values
      BY DEF FreshNames
<1>2. n \in ClientNames
      BY <1>1, BoundsAssumption
<1> QED BY <1>1, <1>2 DEF ClientNames, NameRecords

LEMMA RegisterKeeps ==
  ASSUME NEW vs, Register(vs)
  PROVE  /\ DOMAIN values' = DOMAIN values \union {v.name : v \in vs}
         /\ \A n \in DOMAIN values \ {v.name : v \in vs} : values'[n] = values[n]
         /\ \A v \in vs : (\A w \in vs : w.name = v.name => w = v) => values'[v.name] = v
  BY DEF Register

LEMMA AscendingIs ==
  ASSUME NEW S \in SUBSET (1..2)
  PROVE  /\ Cardinality(S) \in 0..2 /\ Ascending(S) \in [1..Cardinality(S) -> S]
         /\ \A i, j \in DOMAIN Ascending(S) : i < j => Ascending(S)[i] < Ascending(S)[j]
<1> DEFINE Good(s) == \A i, j \in DOMAIN s : i < j => s[i] < s[j]
<1>1. S = {} \/ S = {1} \/ S = {2} \/ S = {1, 2}
  <2>1. \A k \in S : k = 1 \/ k = 2
        OBVIOUS
  <2>2. CASE 1 \in S
        BY <2>1, <2>2
  <2>3. CASE 1 \notin S
        BY <2>1, <2>3
  <2> QED BY <2>2, <2>3
<1>2. /\ Cardinality({}) = 0 /\ Cardinality({1}) = 1 /\ Cardinality({2}) = 1
      /\ Cardinality({1, 2}) = 2
  <2>1. Cardinality({}) = 0 /\ Cardinality({1}) = 1 /\ Cardinality({2}) = 1
        BY FS_EmptySet, FS_Singleton
  <2>2. IsFiniteSet({1}) /\ 2 \notin {1} /\ {1, 2} = {1} \union {2}
        BY FS_Singleton
  <2>3. Cardinality({1, 2}) = Cardinality({1}) + 1
        BY <2>2, FS_AddElement
  <2> QED BY <2>1, <2>3
<1>3. \E s \in [1..Cardinality(S) -> S] : Good(s)
  <2>1. CASE S = {}
    <3>1. <<>> \in [1..0 -> S] /\ Good(<<>>)
          OBVIOUS
    <3> QED BY <1>2, <2>1, <3>1
  <2>2. CASE S = {1} \/ S = {2}
    <3>1. PICK k \in S : TRUE
          BY <2>2
    <3>2. [i \in 1..1 |-> k] \in [1..1 -> S] /\ Good([i \in 1..1 |-> k])
          BY <3>1
    <3> QED BY <1>2, <2>2, <3>2
  <2>3. CASE S = {1, 2}
    <3>1. [i \in 1..2 |-> i] \in [1..2 -> S] /\ Good([i \in 1..2 |-> i])
          BY <2>3
    <3> QED BY ZenonT(40), <1>2, <2>3, <3>1
  <2> QED BY <1>1, <2>1, <2>2, <2>3
<1>4. Ascending(S) \in [1..Cardinality(S) -> S] /\ Good(Ascending(S))
      BY <1>3 DEF Ascending
<1>5. Cardinality(S) \in {0, 1, 2}
      BY <1>1, <1>2, Zenon
<1> QED BY <1>4, <1>5

LEMMA NumberedAre ==
  ASSUME NEW base \in NameBases
  PROVE  /\ Numbered(base) \in Seq(NameRecords) /\ Len(Numbered(base)) = 2
         /\ \A i \in 1..2 : Numbered(base)[i] = Name(base, FALSE, i - 1)
<1>1. \A i \in 1..2 : i - 1 \in Int
      OBVIOUS
<1>2. \A i \in 1..2 : Name(base, FALSE, i - 1) \in NameRecords
      BY <1>1, NameFields
<1>3. Numbered(base) \in [1..2 -> NameRecords]
      BY <1>2 DEF Numbered
<1>4. Numbered(base) \in Seq(NameRecords) /\ Len(Numbered(base)) = 2
      BY <1>3, FunctionIsSequence, 2 \in Nat
<1>5. \A i \in 1..2 : Numbered(base)[i] = Name(base, FALSE, i - 1)
      BY DEF Numbered
<1> QED BY <1>4, <1>5

LEMMA ConcatSequences ==
  ASSUME NEW S, NEW s \in Seq(S), NEW t \in Seq(S)
  PROVE  /\ s \o t \in Seq(S) /\ Len(s \o t) = Len(s) + Len(t)
         /\ \A i \in 1..Len(s) : (s \o t)[i] = s[i]
         /\ \A i \in 1..Len(t) : (s \o t)[Len(s) + i] = t[i]
         /\ \A i \in 1..Len(s \o t) :
              i \in 1..Len(s) \/ \E j \in 1..Len(t) : i = Len(s) + j
<1>1. Len(s) \in Nat /\ Len(t) \in Nat /\ Len(s \o t) = Len(s) + Len(t) /\ s \o t \in Seq(S)
      OBVIOUS
<1>2. ASSUME NEW i \in 1..Len(s) + Len(t), i \notin 1..Len(s)
      PROVE  \E j \in 1..Len(t) : i = Len(s) + j
  <2>1. i - Len(s) \in 1..Len(t) /\ i = Len(s) + (i - Len(s))
        BY <1>1, <1>2
  <2> QED BY <2>1
<1>3. \A i \in 1..Len(s) : (s \o t)[i] = s[i]
      BY <1>1
<1>4. \A i \in 1..Len(t) : (s \o t)[Len(s) + i] = t[i]
      BY <1>1
<1> QED BY <1>1, <1>2, <1>3, <1>4

LEMMA AppendSequence ==
  ASSUME NEW S, NEW s \in Seq(S), NEW e \in S
  PROVE  /\ Append(s, e) \in Seq(S) /\ Len(Append(s, e)) = Len(s) + 1
         /\ \A i \in 1..Len(s) : Append(s, e)[i] = s[i]
         /\ Append(s, e)[Len(s) + 1] = e /\ Append(s, e) = s \o <<e>> /\ <<e>> \in Seq(S)
  OBVIOUS

LEMMA PairsAre ==
  ASSUME NEW S, NEW s \in Pairs(S)
  PROVE  s \in Seq(S) /\ Len(s) \in 0..2 /\ \A i \in 1..Len(s) : s[i] \in S /\ i \in 1..2
<1>1. s \in Seq(S) /\ Len(s) <= 2 /\ Len(s) \in Nat
      BY DEF Pairs
<1>2. Len(s) \in 0..2
  <2> DEFINE n == Len(s)
  <2>1. n \in Nat /\ n <= 2
        BY <1>1
  <2> HIDE DEF n
  <2>2. n \in 0..2
        BY <2>1
  <2> QED BY <2>2 DEF n
<1>3. ASSUME NEW i \in 1..Len(s)
      PROVE  s[i] \in S /\ i \in 1..2
      BY <1>1, <1>2
<1> QED BY <1>1, <1>2, <1>3

LEMMA BlockInputsAre ==
  ASSUME NEW base \in NameBases, NEW vs \in Pairs(Values), NEW id \in Nat \ {0}
  PROVE  LET ins == BlockInputs(Numbered(base), vs, id) IN
         /\ ins \in Pairs(Values) /\ Len(ins) = Len(vs)
         /\ \A i \in 1..Len(vs) :
              /\ ins[i].name = Name(base, FALSE, i - 1) /\ TypeOf(ins[i]) = TypeOf(vs[i])
              /\ ins[i].home = id /\ ~ins[i].isConst
<1> DEFINE ins == BlockInputs(Numbered(base), vs, id)
           entry(i) == Value(Name(base, FALSE, i - 1), TypeOf(vs[i]), FALSE, id)
<1>1. Len(vs) \in 0..2 /\ \A i \in 1..Len(vs) : vs[i] \in Values /\ i \in 1..2
      BY PairsAre
<1>2. \A i \in 1..Len(vs) : Numbered(base)[i] = Name(base, FALSE, i - 1)
      BY <1>1, NumberedAre
<1>3. ASSUME NEW i \in 1..Len(vs)
      PROVE  /\ entry(i) \in Values /\ entry(i).name = Name(base, FALSE, i - 1)
             /\ TypeOf(entry(i)) = TypeOf(vs[i])
             /\ entry(i).home = id /\ ~entry(i).isConst
  <2>1. Name(base, FALSE, i - 1) \in NameRecords
    <3>1. i - 1 \in Int /\ FALSE \in BOOLEAN
          BY <1>1
    <3> QED BY <3>1, NameFields
  <2>2. TypeOf(vs[i]) \in TensorTypes
        BY <1>1, TypeOfIs
  <2>3. id \in Int
        OBVIOUS
  <2> DEFINE n == Name(base, FALSE, i - 1)
             t == TypeOf(vs[i])
  <2>4. n \in NameRecords /\ t \in TensorTypes
        BY <2>1, <2>2
  <2> HIDE DEF n, t
  <2>6. /\ Value(n, t, FALSE, id) \in Values /\ Value(n, t, FALSE, id).name = n
        /\ TypeOf(Value(n, t, FALSE, id)) = t /\ Value(n, t, FALSE, id).home = id
        /\ ~Value(n, t, FALSE, id).isConst
        BY ZenonT(40), <2>3, <2>4, ValueFields
  <2> QED BY <2>6 DEF n, t
<1>4. ins = [i \in 1..Len(vs) |-> entry(i)]
      BY <1>2 DEF BlockInputs
<1> HIDE DEF entry, ins
<1>5. ins \in [1..Len(vs) -> Values]
      BY <1>3, <1>4
<1>6. ins \in Seq(Values) /\ Len(ins) = Len(vs)
      BY <1>1, <1>5
<1>7. ins \in Pairs(Values)
      BY <1>1, <1>6 DEF Pairs
<1>8. \A i \in 1..Len(vs) : ins[i] = entry(i)
      BY <1>4
<1> QED BY <1>3, <1>6, <1>7, <1>8 DEF ins

LEMMA NewBlockIs ==
  ASSUME NEW id \in Nat \ {0}, NEW ins \in Pairs(Values)
  PROVE  /\ NewBlock(id, ins) \in Blocks /\ NewBlock(id, ins).id = id
         /\ NewBlock(id, ins).inputs = ins /\ NewBlock(id, ins).outputs = <<>>
         /\ NewBlock(id, ins).operations = <<>> /\ NewBlock(id, ins).nextID = 0
  BY DEF NewBlock, Blocks

LEMMA NoInputs == <<>> \in Pairs(Values) /\ Len(<<>>) = 0
  BY DEF Pairs

LEMMA BlockAddOpIs ==
  ASSUME NEW bb \in Blocks, NEW op \in BlockOps
  PROVE  LET b1 == BlockAddOp(bb, op)
             b2 == [b1 EXCEPT !.nextID = @ + 1]
         IN
         /\ b2 \in Blocks /\ b2.id = bb.id /\ b2.inputs = bb.inputs
         /\ b2.outputs = bb.outputs /\ b2.operations = Append(bb.operations, op)
         /\ b2.nextID = bb.nextID + 1
<1> DEFINE b1 == BlockAddOp(bb, op)
           b2 == [b1 EXCEPT !.nextID = @ + 1]
<1>1. Append(bb.operations, op) \in Seq(BlockOps) /\ bb.nextID + 1 \in Nat
      BY DEF Blocks
<1>2. /\ b1 \in Blocks /\ b1.id = bb.id /\ b1.inputs = bb.inputs
      /\ b1.outputs = bb.outputs /\ b1.operations = Append(bb.operations, op)
      /\ b1.nextID = bb.nextID
      BY <1>1 DEF BlockAddOp, Blocks
<1> HIDE DEF b1
<1>3. /\ b2 \in Blocks /\ b2.id = b1.id /\ b2.inputs = b1.inputs
      /\ b2.outputs = b1.outputs /\ b2.operations = b1.operations
      /\ b2.nextID = b1.nextID + 1
      BY <1>1, <1>2 DEF Blocks
<1> QED BY <1>2, <1>3 DEF b1

IdentityOp(v, n) == Operation("identity", <<Bind(v)>>, <<Out(n, TypeOf(v))>>, <<>>)

LEMMA SingletonSequence ==
  ASSUME NEW S, NEW e \in S
  PROVE  <<e>> \in Seq(S) /\ Len(<<e>>) = 1 /\ <<e>>[1] = e /\ \A i \in 1..1 : i = 1
  OBVIOUS

LEMMA PairSequence ==
  ASSUME NEW S, NEW a \in S, NEW b \in S
  PROVE  /\ <<a, b>> \in Seq(S) /\ Len(<<a, b>>) = 2 /\ <<a, b>>[1] = a /\ <<a, b>>[2] = b
  OBVIOUS

LEMMA IdentityIs ==
  ASSUME NEW v \in Values, NEW n \in NameRecords
  PROVE  /\ IdentityOp(v, n) \in BlockOps /\ IdentityOp(v, n) \in MainOps
         /\ IdentityOp(v, n).args = <<Bind(v)>>
         /\ IdentityOp(v, n).outs = <<Out(n, TypeOf(v))>> /\ IdentityOp(v, n).blocks = <<>>
<1>1. Bind(v) \in ArgRecords /\ Out(n, TypeOf(v)) \in OutRecords
      BY BindFields, OutFields, TypeOfIs
<1>2. <<Bind(v)>> \in Seq(ArgRecords) /\ <<Out(n, TypeOf(v))>> \in Seq(OutRecords)
      BY <1>1, SingletonSequence
<1>3. "identity" \in OpTypes /\ <<>> \in Seq(Blocks)
      BY DEF OpTypes
<1> QED BY <1>2, <1>3 DEF IdentityOp, Operation, BlockOps, MainOps

LEMMA BlockOutputsAre ==
  ASSUME NEW bb \in Blocks, NEW vs \in Pairs(Values), NEW names,
         \A i \in 1..Len(vs) : names[i] \in NameRecords
  PROVE  LET b == BlockOutputs(bb, names, vs) IN
         /\ b \in Blocks /\ b.id = bb.id /\ b.inputs = bb.inputs
         /\ b.outputs = bb.outputs \o [i \in 1..Len(vs) |-> names[i]]
         /\ (\A i \in 1..Len(vs) : vs[i].name # names[i]) =>
              b.operations = bb.operations \o [i \in 1..Len(vs) |-> IdentityOp(vs[i], names[i])]
<1> DEFINE n == Len(vs)
           S == {i \in 1..n : vs[i].name # names[i]}
           asc == Ascending(S)
           outs == [i \in 1..n |-> names[i]]
           ops == [k \in 1..Len(asc) |-> IdentityOp(vs[asc[k]], names[asc[k]])]
           b == BlockOutputs(bb, names, vs)
<1>1. n \in 0..2 /\ \A i \in 1..n : vs[i] \in Values /\ i \in 1..2
      BY PairsAre
<1>2. S \subseteq 1..2
      BY <1>1
<1>3. /\ Cardinality(S) \in 0..2 /\ asc \in [1..Cardinality(S) -> S]
      /\ \A i, j \in DOMAIN asc : i < j => asc[i] < asc[j]
      BY <1>2, AscendingIs
<1>4. b = [bb EXCEPT !.outputs = @ \o outs, !.operations = @ \o ops]
      BY DEF BlockOutputs, IdentityOp
<1> HIDE DEF asc, b, n, S
<1>5. asc \in Seq(S) /\ Len(asc) = Cardinality(S) /\ \A k \in 1..Len(asc) : asc[k] \in S
  <2>1. Cardinality(S) \in Nat
        BY <1>3
  <2> QED BY <1>3, <2>1, FunctionIsSequence
<1>6. S \subseteq 1..n
      BY DEF S
<1>7. outs \in Seq(NameRecords)
      BY <1>1, FunctionIsSequence DEF n
<1>8. \A k \in 1..Len(asc) : IdentityOp(vs[asc[k]], names[asc[k]]) \in BlockOps
      BY <1>1, <1>5, <1>6, IdentityIs DEF n
<1>9. ops \in Seq(BlockOps)
      BY <1>3, <1>5, <1>8, FunctionIsSequence
<1> HIDE DEF outs, ops
<1>11. bb.outputs \o outs \in Seq(NameRecords) /\ bb.operations \o ops \in Seq(BlockOps)
      BY <1>7, <1>9, ConcatSequences DEF Blocks
<1>12. /\ b \in Blocks /\ b.id = bb.id /\ b.inputs = bb.inputs
       /\ b.outputs = bb.outputs \o outs /\ b.operations = bb.operations \o ops
      BY <1>4, <1>11 DEF Blocks
<1>13. ASSUME \A i \in 1..n : vs[i].name # names[i]
       PROVE  ops = [i \in 1..n |-> IdentityOp(vs[i], names[i])]
  <2>1. S = 1..n
        BY <1>13 DEF S
  <2>2. Cardinality(S) = n
        BY <1>1, <2>1, FS_Interval, 0 <= n
  <2>3. \A k \in 1..n : asc[k] = k
    <3>1. asc \in [1..n -> 1..n] /\ \A i, j \in 1..n : i < j => asc[i] < asc[j]
          BY <1>3, <2>1, <2>2
    <3>2. n = 0 \/ n = 1 \/ n = 2
          BY <1>1
    <3>3. CASE n = 0
          BY <3>3
    <3>4. CASE n = 1
          BY <3>1, <3>4
    <3>5. CASE n = 2
      <4>1. asc[1] \in 1..2 /\ asc[2] \in 1..2 /\ asc[1] < asc[2]
            BY <3>1, <3>5
      <4>2. asc[1] = 1 /\ asc[2] = 2
            BY <4>1
      <4>3. \A k \in 1..2 : k = 1 \/ k = 2
            OBVIOUS
      <4> QED BY <3>5, <4>2, <4>3
    <3> QED BY <3>2, <3>3, <3>4, <3>5
  <2> QED BY <1>5, <2>2, <2>3 DEF ops
<1> QED BY <1>12, <1>13 DEF b, n, outs

(***************************************************************************)
(* Operations of the main block, and the values that hold their results.     *)
(***************************************************************************)

LEMMA BasesAre ==
  /\ AllOps \subseteq NameBases /\ AllOps \subseteq OpTypes
  /\ {"identity", "cond", "while_loop"} \subseteq OpTypes
  /\ \A i \in 1..2 : CondOut[i] \in NameBases /\ WhileOut[i] \in NameBases
  /\ OutputBases \subseteq NameBases /\ InputBases \subseteq NameBases
  /\ {"topk_indices", "block_const"} \subseteq NameBases
<1>1. \A i \in 1..2 : i = 1 \/ i = 2
      OBVIOUS
<1>2. \A i \in 1..2 : CondOut[i] \in GeneratedBases /\ WhileOut[i] \in GeneratedBases
      BY <1>1 DEF CondOut, WhileOut, GeneratedBases
<1>3. AllOps \subseteq GeneratedBases /\ "topk_indices" \in GeneratedBases
      BY DEF GeneratedBases
<1> QED BY <1>2, <1>3 DEF NameBases, OpTypes

(* Operation op gives each of the values of vs, under its name and its type.  *)
Defines(op, vs) ==
  /\ \A v \in vs : \E k \in 1..Len(op.outs) :
       op.outs[k].name = v.name /\ op.outs[k].type = TypeOf(v)
  /\ \A k \in 1..Len(op.outs) : \E v \in vs :
       op.outs[k].name = v.name /\ op.outs[k].type = TypeOf(v)
  /\ \A v, w \in vs : v.name = w.name => v = w
  /\ \A v \in vs : v.home = Main /\ ~v.isConst

LEMMA HomesAre ==
  /\ Main \in Int /\ Embedded \in Int /\ Placeholder \in Int /\ Phantom \in Int
  /\ FALSE \in BOOLEAN
  BY DEF Main, Embedded, Placeholder, Phantom

LEMMA OperationIs ==
  ASSUME NEW type \in OpTypes, NEW args \in Seq(ArgRecords), NEW outs \in Seq(OutRecords)
  PROVE  /\ Operation(type, args, outs, <<>>) \in BlockOps
         /\ Operation(type, args, outs, <<>>).args = args
         /\ Operation(type, args, outs, <<>>).outs = outs
  BY DEF Operation, BlockOps

LEMMA OneResult ==
  ASSUME NEW type \in OpTypes, NEW args \in Seq(ArgRecords), NEW n \in NameRecords,
         NEW t \in TensorTypes
  PROVE  LET op == Operation(type, args, <<Out(n, t)>>, <<>>)
             v == Value(n, t, FALSE, Main)
         IN  /\ op \in MainOps /\ op \in BlockOps /\ v \in Values /\ Defines(op, {v})
             /\ op.type = type /\ op.args = args /\ op.outs = <<Out(n, t)>>
             /\ op.blocks = <<>>
<1> DEFINE op == Operation(type, args, <<Out(n, t)>>, <<>>)
           v == Value(n, t, FALSE, Main)
           o == Out(n, t)
<1>1. /\ v \in Values /\ v.name = n /\ TypeOf(v) = t /\ v.home = Main /\ ~v.isConst
      BY ZenonT(40), HomesAre, ValueFields
<1>2. o \in OutRecords /\ o.name = n /\ o.type = t
      BY OutFields
<1> HIDE DEF v, o
<1>3. <<o>> \in Seq(OutRecords) /\ Len(<<o>>) = 1 /\ <<o>>[1] = o
      BY <1>2, SingletonSequence
<1>4. /\ op \in MainOps /\ op \in BlockOps /\ op.type = type /\ op.args = args
      /\ op.outs = <<o>> /\ op.blocks = <<>>
      BY <1>3 DEF Operation, MainOps, BlockOps, o
<1> HIDE DEF op
<1>5. Defines(op, {v})
  <2>1. 1 \in 1..Len(op.outs) /\ op.outs[1] = o /\ \A k \in 1..Len(op.outs) : k = 1
        BY <1>3, <1>4
  <2> QED BY <1>1, <1>2, <2>1 DEF Defines
<1> QED BY <1>1, <1>4, <1>5 DEF op, v, o

ControlNames(bases, types) ==
  [i \in 1..Len(types) |-> Name(bases[i], FALSE, nextID + i - 1)]
ControlOp(type, args, bases, types, built) ==
  Operation(type, args,
            [i \in 1..Len(types) |-> Out(ControlNames(bases, types)[i], types[i])], built)
ControlValues(bases, types) ==
  {Value(ControlNames(bases, types)[i], types[i], FALSE, Main) : i \in 1..Len(types)}

IsControlFlow(op, vs, type, args, bases, types, built) ==
  /\ op \in MainOps /\ vs \subseteq Values /\ Defines(op, vs)
  /\ op.type = type /\ op.args = args /\ op.blocks = built
  /\ Len(op.outs) = Len(types)
  /\ \A i \in 1..Len(types) : op.outs[i].type = types[i]
  /\ \A v \in vs : \E i \in 1..Len(types) :
       i \in 1..2 /\ v.name = Name(bases[i], FALSE, nextID + i - 1)

LEMMA ControlFlowResults ==
  ASSUME BuilderTypes, NEW type \in {"cond", "while_loop"}, NEW args \in Seq(ArgRecords),
         NEW bases \in {CondOut, WhileOut}, NEW types \in Pairs(TensorTypes),
         NEW built \in Seq(Blocks)
  PROVE  IsControlFlow(ControlOp(type, args, bases, types, built), ControlValues(bases, types),
                       type, args, bases, types, built)
<1> DEFINE n == Len(types)
           label(i) == Name(bases[i], FALSE, nextID + i - 1)
           outs == [i \in 1..n |-> Out(label(i), types[i])]
           result(i) == Value(label(i), types[i], FALSE, Main)
           op == ControlOp(type, args, bases, types, built)
           vs == ControlValues(bases, types)
<1>1. n \in 0..2 /\ \A i \in 1..n : types[i] \in TensorTypes /\ i \in 1..2
      BY PairsAre
<1>2. ASSUME NEW i \in 1..n
      PROVE  /\ label(i) \in NameRecords /\ label(i).id = nextID + i - 1
  <2>1. nextID + i - 1 \in Int /\ bases[i] \in NameBases
        BY <1>1, BasesAre DEF BuilderTypes
  <2> QED BY <2>1, NameFields
<1>3. op = Operation(type, args, outs, built) /\ vs = {result(i) : i \in 1..n}
      BY DEF ControlOp, ControlValues, ControlNames
<1> HIDE DEF n, label, op, vs
<1>4. \A i \in 1..n : /\ result(i) \in Values /\ result(i).name = label(i)
                      /\ TypeOf(result(i)) = types[i] /\ result(i).home = Main
                      /\ ~result(i).isConst
  <2> SUFFICES ASSUME NEW i \in 1..n
               PROVE  /\ result(i) \in Values /\ result(i).name = label(i)
                      /\ TypeOf(result(i)) = types[i] /\ result(i).home = Main
                      /\ ~result(i).isConst
      OBVIOUS
  <2> DEFINE t == types[i]
             v == Value(label(i), t, FALSE, Main)
  <2>1. label(i) \in NameRecords /\ t \in TensorTypes /\ Main \in Int
        BY <1>1, <1>2, HomesAre
  <2>2. result(i) = v
        OBVIOUS
  <2> HIDE DEF t
  <2>3. /\ v \in Values /\ v.name = label(i) /\ TypeOf(v) = t /\ v.home = Main /\ ~v.isConst
        BY <2>1, ValueFields
  <2> QED BY <2>2, <2>3 DEF t
<1>5. \A i \in 1..n : /\ Out(label(i), types[i]) \in OutRecords
                      /\ Out(label(i), types[i]).name = label(i)
                      /\ Out(label(i), types[i]).type = types[i]
      BY <1>1, <1>2, OutFields
<1> HIDE DEF result
<1>6. outs \in Seq(OutRecords) /\ Len(outs) = n
  <2>1. n \in Nat
        BY <1>1
  <2> QED BY <1>5, <2>1, FunctionIsSequence
<1>7. \A i \in 1..n : outs[i].name = label(i) /\ outs[i].type = types[i]
      BY <1>5
<1> HIDE DEF outs
<1>8. /\ op \in MainOps /\ op.type = type /\ op.args = args /\ op.outs = outs
      /\ op.blocks = built
  <2>1. type \in OpTypes
        BY BasesAre
  <2> QED BY <1>3, <1>6, <2>1 DEF Operation, MainOps
<1>9. \A i, j \in 1..n : label(i) = label(j) => i = j
  <2> SUFFICES ASSUME NEW i \in 1..n, NEW j \in 1..n, label(i) = label(j)
               PROVE  i = j
      OBVIOUS
  <2>1. nextID + i - 1 = nextID + j - 1
        BY <1>2
  <2>2. nextID \in Int /\ i \in Int /\ j \in Int
        BY <1>1 DEF BuilderTypes
  <2> QED BY <2>1, <2>2
<1>10. Defines(op, vs)
  <2>1. \A v \in vs : \E k \in 1..Len(op.outs) :
          op.outs[k].name = v.name /\ op.outs[k].type = TypeOf(v)
        BY <1>3, <1>4, <1>6, <1>7, <1>8
  <2>2. \A k \in 1..Len(op.outs) : \E v \in vs :
          op.outs[k].name = v.name /\ op.outs[k].type = TypeOf(v)
        BY <1>3, <1>4, <1>6, <1>7, <1>8
  <2>3. \A v, w \in vs : v.name = w.name => v = w
        BY <1>3, <1>4, <1>9
  <2> QED BY <1>3, <1>4, <2>1, <2>2, <2>3 DEF Defines
<1>11. \A v \in vs : \E i \in 1..n : i \in 1..2 /\ v.name = label(i)
       BY <1>1, <1>3, <1>4
<1>12. \A i \in 1..n : op.outs[i].type = types[i]
       BY <1>7, <1>8
<1>13. IsControlFlow(op, vs, type, args, bases, types, built)
       BY <1>3, <1>4, <1>6, <1>8, <1>10, <1>11, <1>12 DEF IsControlFlow, n, label
<1> QED BY <1>13 DEF op, vs

LEMMA MainNames ==
  ASSUME BuilderTypes, NEW base \in NameBases, NEW k \in Nat
  PROVE  /\ Name(base, FALSE, nextID + k) \in NameRecords
         /\ Name(base, FALSE, nextID + k).base = base /\ ~Name(base, FALSE, nextID + k).blk
         /\ Name(base, FALSE, nextID + k).id = nextID + k
<1>1. nextID + k \in Int /\ FALSE \in BOOLEAN
      BY DEF BuilderTypes
<1> QED BY <1>1, NameFields

LEMMA GrowsTypes ==
  ASSUME BuilderTypes, NEW op \in MainOps, NEW vs \in SUBSET Values,
         operations' = Append(operations, op), Register(vs)
  PROVE  operations' \in Seq(MainOps) /\ DOMAIN values' \subseteq NameRecords
<1>1. \A v \in vs : v.name \in NameRecords
      BY DEF Values
<1>2. operations' \in Seq(MainOps)
      BY DEF BuilderTypes
<1>3. DOMAIN values' \subseteq NameRecords
  <2>1. DOMAIN values' = DOMAIN values \union {v.name : v \in vs}
        BY RegisterKeeps
  <2> QED BY <1>1, <2>1 DEF BuilderTypes
<1> QED BY <1>2, <1>3

(***************************************************************************)
(* The stack of active Cond and WhileLoop calls.                            *)
(***************************************************************************)

LEMMA FrameIs ==
  ASSUME NEW kind \in {"cond", "while"}, NEW operands \in Pairs(Values), NEW bb \in Blocks,
         kind = "cond" => operands # <<>>
  PROVE  /\ Frame(kind, operands, bb) \in Frames /\ Frame(kind, operands, bb).kind = kind
         /\ Frame(kind, operands, bb).operands = operands
         /\ Frame(kind, operands, bb).block = bb /\ Frame(kind, operands, bb).built = <<>>
<1>1. <<>> \in Seq(Blocks) /\ <<>> \in Pairs(Values)
      BY NoInputs
<1> QED BY <1>1 DEF Frame, Frames, FrameRecords

LEMMA FrameAt ==
  ASSUME BuilderTypes, NEW k \in 1..Len(frames)
  PROVE  /\ frames[k] \in Frames /\ frames[k].block \in Blocks
         /\ frames[k].operands \in Pairs(Values) /\ frames[k].results \in Pairs(Values)
         /\ frames[k].built \in Seq(Blocks)
<1>1. frames[k] \in Frames
      BY DEF BuilderTypes
<1> QED BY <1>1 DEF Frames, FrameRecords

LEMMA TopIs ==
  ASSUME BuilderTypes, InCallback
  PROVE  /\ Len(frames) \in Nat \ {0} /\ Len(frames) \in 1..Len(frames)
         /\ TopFrame \in Frames /\ TopFrame.block \in Blocks
         /\ TopFrame.operands \in Pairs(Values) /\ TopFrame.results \in Pairs(Values)
         /\ TopFrame.built \in Seq(Blocks)
<1>1. Len(frames) \in Nat \ {0} /\ Len(frames) \in 1..Len(frames)
      BY DEF BuilderTypes, InCallback
<1> QED BY <1>1, FrameAt DEF TopFrame

LEMMA SetFrameIs ==
  ASSUME BuilderTypes, NEW k \in 1..Len(frames), NEW f \in Frames, SetFrame(k, f)
  PROVE  /\ frames' \in Seq(Frames) /\ Len(frames') = Len(frames)
         /\ \A l \in 1..Len(frames) : frames'[l] = IF l = k THEN f ELSE frames[l]
<1>1. Len(frames) \in Nat /\ frames \in Seq(Frames)
      BY DEF BuilderTypes
<1>2. frames' = [frames EXCEPT ![k] = f]
      BY DEF SetFrame
<1> QED BY <1>1, <1>2

LEMMA SetTopIs ==
  ASSUME BuilderTypes, InCallback, NEW f \in Frames, SetTop(f)
  PROVE  /\ frames' \in Seq(Frames) /\ Len(frames') = Len(frames)
         /\ \A l \in 1..Len(frames) : frames'[l] = IF l = Len(frames) THEN f ELSE frames[l]
  BY TopIs, SetFrameIs DEF SetTop

LEMMA PrefixIs ==
  ASSUME NEW S, NEW s \in Seq(S), NEW n \in Nat, n <= Len(s)
  PROVE  /\ SubSeq(s, 1, n) \in Seq(S) /\ Len(SubSeq(s, 1, n)) = n
         /\ \A k \in 1..n : SubSeq(s, 1, n)[k] = s[k]
<1>1. \A k \in 1..n : s[k] \in S
      OBVIOUS
<1>2. /\ SubSeq(s, 1, n) \in Seq(S)
      /\ Len(SubSeq(s, 1, n)) = IF 1 <= n THEN n - 1 + 1 ELSE 0
      /\ \A k \in 1..n - 1 + 1 : SubSeq(s, 1, n)[k] = s[1 + k - 1]
      BY <1>1, SubSeqProperties
<1>3. (IF 1 <= n THEN n - 1 + 1 ELSE 0) = n /\ n - 1 + 1 = n /\ \A k \in 1..n : 1 + k - 1 = k
      OBVIOUS
<1> QED BY <1>2, <1>3

LEMMA PopFrameIs ==
  ASSUME BuilderTypes, InCallback, PopFrame
  PROVE  /\ frames' \in Seq(Frames) /\ Len(frames') = Len(frames) - 1
         /\ \A k \in 1..Len(frames') : k \in 1..Len(frames) /\ frames'[k] = frames[k]
<1>1. Len(frames) \in Nat \ {0} /\ frames \in Seq(Frames)
      BY DEF BuilderTypes, InCallback
<1>2. frames' = SubSeq(frames, 1, Len(frames) - 1)
      BY DEF PopFrame
<1> DEFINE n == Len(frames) - 1
<1>3. n \in Nat /\ n <= Len(frames)
      BY <1>1
<1>4. frames' \in Seq(Frames) /\ Len(frames') = n
      BY <1>1, <1>2, <1>3, PrefixIs
<1>5. \A k \in 1..n : k \in 1..Len(frames) /\ frames'[k] = frames[k]
      BY <1>1, <1>2, <1>3
<1> QED BY <1>4, <1>5

LEMMA PushIs ==
  ASSUME BuilderTypes, NEW f \in Frames, frames' = Append(frames, f)
  PROVE  /\ frames' \in Seq(Frames) /\ Len(frames') = Len(frames) + 1
         /\ \A k \in 1..Len(frames) : frames'[k] = frames[k]
         /\ frames'[Len(frames) + 1] = f
  BY DEF BuilderTypes

LEMMA CallIs ==
  ASSUME BuilderTypes, Call \/ UNCHANGED client
  PROVE  client' \in ClientRecords
<1>1. client \in ClientRecords
      BY DEF BuilderTypes
<1>2. CASE Call
  <2>1. client.calls \in Nat /\ client.calls > 0
        BY <1>1, <1>2 DEF Call, ClientRecords
  <2>2. client.calls - 1 \in Nat
        BY <2>1
  <2> QED BY <1>1, <1>2, <2>2 DEF Call, ClientRecords
<1> QED BY <1>1, <1>2

LEMMA SetErrIs ==
  ASSUME BuilderTypes, NEW e \in {"concat", "cond", "while"}, SetErr(e)
  PROVE  err' \in {"none", "concat", "cond", "while"}
  BY DEF BuilderTypes, SetErr

LEMMA TuplesArePairs ==
  ASSUME NEW S \in SUBSET Values, NEW n \in 0..2, NEW s \in Tuples(S, n)
  PROVE  s \in Pairs(Values) /\ \A i \in 1..Len(s) : s[i] \in S
<1>1. n \in Nat
      OBVIOUS
<1>2. s \in Seq(S) /\ Len(s) \in 0..n /\ \A i \in 1..Len(s) : s[i] \in S
      BY <1>1, TuplesAreSequences
<1>3. s \in Seq(Values) /\ Len(s) <= 2
      BY <1>2
<1> QED BY <1>2, <1>3 DEF Pairs

LEMMA HandleTuples ==
  ASSUME BuilderTypes
  PROVE  /\ \A vs \in Tuples(handles, client.outs) \union Tuples(handles, 1) :
              vs \in Pairs(Values) /\ \A i \in 1..Len(vs) : vs[i] \in handles
         /\ client.outs \in 0..2
<1>1. client.outs \in 0..2 /\ handles \in SUBSET Values /\ 1 \in 0..2
      BY DEF BuilderTypes, ClientRecords
<1> QED BY <1>1, TuplesArePairs

LEMMA TypesOfPair ==
  ASSUME NEW vs \in Pairs(Values)
  PROVE  LET types == [i \in 1..Len(vs) |-> TypeOf(vs[i])] IN
         types \in Pairs(TensorTypes) /\ Len(types) = Len(vs)
<1>1. Len(vs) \in Nat /\ Len(vs) <= 2 /\ \A i \in 1..Len(vs) : vs[i] \in Values
      BY PairsAre
<1>2. \A i \in 1..Len(vs) : TypeOf(vs[i]) \in TensorTypes
      BY <1>1, TypeOfIs
<1> DEFINE types == [i \in 1..Len(vs) |-> TypeOf(vs[i])]
<1>3. types \in [1..Len(vs) -> TensorTypes]
      BY <1>2
<1> HIDE DEF types
<1>4. types \in Seq(TensorTypes) /\ Len(types) = Len(vs)
      BY <1>1, <1>3, FunctionIsSequence
<1> QED BY <1>1, <1>4 DEF Pairs, types

LEMMA BindsOfPair ==
  ASSUME NEW vs \in Pairs(Values)
  PROVE  LET args == [i \in 1..Len(vs) |-> Bind(vs[i])] IN
         args \in Seq(ArgRecords) /\ Len(args) = Len(vs)
<1>1. Len(vs) \in Nat /\ \A i \in 1..Len(vs) : vs[i] \in Values
      BY PairsAre
<1>2. \A i \in 1..Len(vs) : Bind(vs[i]) \in ArgRecords
      BY <1>1, BindFields
<1> DEFINE args == [i \in 1..Len(vs) |-> Bind(vs[i])]
<1>3. args \in [1..Len(vs) -> ArgRecords]
      BY <1>2
<1> HIDE DEF args
<1>4. args \in Seq(ArgRecords) /\ Len(args) = Len(vs)
      BY <1>1, <1>3, FunctionIsSequence
<1> QED BY <1>4 DEF args

LEMMA ConcatIsShape ==
  ASSUME NEW vs \in Pairs(Values), vs # <<>>, \A i \in 1..Len(vs) : vs[i].shape # <<>>
  PROVE  [vs[1].shape EXCEPT ![1] = IF Len(vs) = 1 THEN @ ELSE @ + vs[2].shape[1]] \in Shapes
<1>1. Len(vs) \in 1..2 /\ \A i \in 1..Len(vs) : vs[i] \in Values
  <2>1. vs \in Seq(Values) /\ Len(vs) \in 0..2 /\ \A i \in 1..Len(vs) : vs[i] \in Values
        BY PairsAre
  <2>2. Len(vs) # 0
        BY <2>1
  <2> QED BY <2>1, <2>2
<1>2. ASSUME NEW i \in 1..Len(vs)
      PROVE  vs[i].shape \in Seq(Nat \ {0}) /\ Len(vs[i].shape) = 1 /\ vs[i].shape[1] \in Nat \ {0}
  <2>1. vs[i].shape \in Seq(Nat \ {0}) /\ Len(vs[i].shape) <= 1 /\ vs[i].shape # <<>>
        BY <1>1 DEF Values, Shapes, MaxRank
  <2> DEFINE n == Len(vs[i].shape)
  <2>2. n \in Nat /\ n # 0 /\ n <= 1
        BY <2>1
  <2> HIDE DEF n
  <2>3. n = 1
        BY <2>2
  <2> QED BY <2>1, <2>3 DEF n
<1> DEFINE size == IF Len(vs) = 1 THEN vs[1].shape[1] ELSE vs[1].shape[1] + vs[2].shape[1]
           a == vs[1].shape
<1>3. size \in Nat \ {0} /\ a \in Seq(Nat \ {0}) /\ Len(a) = 1
  <2>1. CASE Len(vs) = 1
        BY <1>2, <2>1
  <2>2. CASE Len(vs) = 2
    <3>1. 1 \in 1..Len(vs) /\ 2 \in 1..Len(vs)
          BY <2>2
    <3>2. /\ vs[1].shape[1] \in Nat \ {0} /\ vs[2].shape[1] \in Nat \ {0}
          /\ a \in Seq(Nat \ {0}) /\ Len(a) = 1
          BY <1>2, <3>1
    <3> QED BY <2>2, <3>2
  <2> QED BY <1>1, <2>1, <2>2
<1>4. [a EXCEPT ![1] = IF Len(vs) = 1 THEN @ ELSE @ + vs[2].shape[1]] = [a EXCEPT ![1] = size]
      OBVIOUS
<1> HIDE DEF size, a
<1>5. [a EXCEPT ![1] = size] \in Seq(Nat \ {0}) /\ Len([a EXCEPT ![1] = size]) = 1
  <2> DEFINE b == [a EXCEPT ![1] = size]
  <2>1. a \in [1..1 -> Nat \ {0}]
    <3>1. a \in Seq(Nat \ {0}) /\ Len(a) = 1
          BY <1>3
    <3>2. a \in [1..Len(a) -> Nat \ {0}]
          BY <3>1, SequenceIsFunction
    <3> QED BY <3>1, <3>2
  <2>2. b \in [1..1 -> Nat \ {0}]
        BY <1>3, <2>1
  <2> HIDE DEF b
  <2>3. b \in Seq(Nat \ {0}) /\ Len(b) = 1
        BY <2>2, FunctionIsSequence, 1 \in Nat
  <2> QED BY <2>3 DEF b
<1> DEFINE s == [a EXCEPT ![1] = size]
<1>6. s \in Shapes
  <2> HIDE DEF s
  <2>1. s \in Seq(Nat \ {0}) /\ Len(s) = 1
        BY <1>5 DEF s
  <2>2. Len(s) <= 1
        BY <2>1
  <2> QED BY <2>1, <2>2 DEF Shapes, MaxRank
<1> QED BY <1>4, <1>6 DEF a

(***************************************************************************)
(* Types.                                                                   *)
(***************************************************************************)

MainTypes ==
  /\ inputs \in Seq(Values) /\ operations \in Seq(MainOps) /\ outputs \in Seq(NameRecords)
  /\ DOMAIN values \subseteq NameRecords /\ nextID \in Nat
  /\ err \in {"none", "concat", "cond", "while"} /\ handles \subseteq Values
StackTypes == frames \in Seq(Frames) /\ Len(frames) <= MaxDepth /\ blocksMade \in Nat

LEMMA TypeParts ==
  BuilderTypes <=>
    MainTypes /\ StackTypes /\ client \in ClientRecords
  BY DEF BuilderTypes, MainTypes, StackTypes

LEMMA MainOnly ==
  ASSUME BuilderTypes, Call \/ UNCHANGED client, UNCHANGED <<frames, blocksMade>>, MainTypes'
  PROVE  BuilderTypes'
<1>1. client' \in ClientRecords
      BY CallIs
<1>2. StackTypes'
      BY DEF BuilderTypes, StackTypes
<1> QED BY <1>1, <1>2 DEF BuilderTypes, MainTypes, StackTypes

LEMMA StackOnly ==
  ASSUME BuilderTypes, Call \/ UNCHANGED client, StackTypes', handles' \subseteq Values,
         UNCHANGED <<inputs, operations, outputs, values, nextID, err>>
  PROVE  BuilderTypes'
<1>1. client' \in ClientRecords
      BY CallIs
<1> QED BY <1>1 DEF BuilderTypes, StackTypes

LEMMA GrowsMainTypes ==
  ASSUME BuilderTypes, NEW op \in MainOps, NEW vs \in SUBSET Values, NEW held \in SUBSET Values,
         operations' = Append(operations, op), Register(vs), handles' = handles \union held,
         outputs' \in Seq(NameRecords), nextID' \in Nat, UNCHANGED <<inputs, err>>
  PROVE  MainTypes'
<1>1. operations' \in Seq(MainOps) /\ DOMAIN values' \subseteq NameRecords
      BY GrowsTypes
<1> QED BY <1>1 DEF BuilderTypes, MainTypes

LEMMA AddOpTypes ==
  ASSUME BuilderTypes, NEW type \in OpTypes, NEW args \in Seq(ArgRecords),
         NEW n \in NameRecords, NEW t \in TensorTypes, AddOp(type, args, n, t),
         outputs' \in Seq(NameRecords), nextID' \in Nat, UNCHANGED <<inputs, err>>
  PROVE  MainTypes'
<1> DEFINE op == Operation(type, args, <<Out(n, t)>>, <<>>)
           v == Value(n, t, FALSE, Main)
<1>1. op \in MainOps /\ v \in Values
      BY OneResult
<1>2. operations' = Append(operations, op) /\ Register({v}) /\ handles' = handles \union {v}
      BY DEF AddOp
<1> HIDE DEF op, v
<1>3. {v} \in SUBSET Values
      BY <1>1
<1> QED BY <1>1, <1>2, <1>3, GrowsMainTypes

LEMMA RegisterTypes ==
  ASSUME BuilderTypes, NEW v \in Values, Register({v}), handles' = handles \union {v},
         inputs' = inputs \/ inputs' = Append(inputs, v),
         UNCHANGED <<operations, outputs, nextID, err>>
  PROVE  MainTypes'
<1>1. DOMAIN values' = DOMAIN values \union {w.name : w \in {v}}
      BY RegisterKeeps
<1>2. DOMAIN values' \subseteq NameRecords
      BY <1>1 DEF BuilderTypes, Values
<1>3. inputs' \in Seq(Values)
  <2>1. inputs \in Seq(Values)
        BY DEF BuilderTypes
  <2>2. CASE inputs' = inputs
        BY <2>1, <2>2
  <2>3. CASE inputs' = Append(inputs, v)
        BY <2>1, <2>3, AppendSequence
  <2> QED BY <2>2, <2>3
<1> QED BY <1>2, <1>3 DEF BuilderTypes, MainTypes

LEMMA FailTypes ==
  ASSUME BuilderTypes, NEW e \in {"cond", "while"}, Fail(e)
  PROVE  MainTypes'
<1>1. err' \in {"none", "concat", "cond", "while"}
      BY SetErrIs DEF Fail
<1> QED BY <1>1 DEF BuilderTypes, MainTypes, Fail

LEMMA AddControlFlowTypes ==
  ASSUME BuilderTypes, NEW type \in {"cond", "while_loop"}, NEW args \in Seq(ArgRecords),
         NEW bases \in {CondOut, WhileOut}, NEW types \in Pairs(TensorTypes),
         NEW built \in Seq(Blocks), AddControlFlow(type, args, bases, types, built)
  PROVE  MainTypes'
<1> DEFINE op == ControlOp(type, args, bases, types, built)
           vs == ControlValues(bases, types)
<1>1. op \in MainOps /\ vs \subseteq Values
      BY ControlFlowResults DEF IsControlFlow
<1>2. /\ operations' = Append(operations, op) /\ Register(vs) /\ handles' = handles \union vs
      /\ nextID' = nextID + Len(types) /\ UNCHANGED <<inputs, outputs, err>>
      BY DEF AddControlFlow, ControlOp, ControlValues, ControlNames
<1> HIDE DEF op, vs
<1>3. nextID' \in Nat /\ outputs' \in Seq(NameRecords)
      BY <1>2, PairsAre DEF BuilderTypes
<1> QED BY <1>1, <1>2, <1>3, GrowsMainTypes

LEMMA InitTypes ==
  ASSUME Init
  PROVE  BuilderTypes
<1>1. Len(frames) <= MaxDepth
      BY BoundsAssumption DEF Init
<1>2. DOMAIN values = {}
      BY DEF Init
<1>3. client \in ClientRecords
      BY BoundsAssumption DEF Init
<1> QED BY <1>1, <1>2, <1>3 DEF Init, BuilderTypes

(* The main builder's own operations.                                        *)
LEMMA MainTypesStep ==
  ASSUME BuilderTypes,
         \/ \E n \in FreshNames, t \in UserTypes :
              Input(n, t) \/ PlaceholderValue(n, t) \/ Const(n, t)
         \/ \E op \in DOMAIN Attributes, x \in handles : Unary(op, x)
         \/ \E op \in BinaryOps, x, y \in handles : Binary(op, x, y)
         \/ \E vs \in Tuples(handles, client.outs) : Concat(vs)
         \/ \E x \in handles : TopK(x)
         \/ \E x \in handles, n \in FreshNames : Identity(n, x)
         \/ \E x \in handles : \E n \in FreshNames \union {x.name} : Output(n, x)
  PROVE  BuilderTypes'
<1>1. handles \subseteq Values /\ nextID \in Nat /\ outputs \in Seq(NameRecords)
      BY DEF BuilderTypes
<1>2. \A v \in handles : /\ Bind(v) \in ArgRecords /\ <<Bind(v)>> \in Seq(ArgRecords)
                         /\ TypeOf(v) \in TensorTypes /\ v.name \in NameRecords
      BY <1>1, BindFields, TypeOfIs, SingletonSequence
<1>3. \A n \in FreshNames : n \in NameRecords
      BY FreshAreNames
<1>4. ASSUME NEW n \in FreshNames, NEW t \in UserTypes,
             Input(n, t) \/ PlaceholderValue(n, t) \/ Const(n, t)
      PROVE  BuilderTypes'
  <2>1. t \in TensorTypes
        BY UserTypesAre
  <2>2. MainTypes'
    <3>1. CASE Input(n, t)
      <4>1. Value(n, t, FALSE, Main) \in Values
            BY <1>3, <2>1, HomesAre, ValueFields
      <4> QED BY <3>1, <4>1, RegisterTypes DEF Input
    <3>2. CASE PlaceholderValue(n, t)
      <4>1. Value(n, t, FALSE, Placeholder) \in Values
            BY <1>3, <2>1, HomesAre, ValueFields
      <4> QED BY <3>2, <4>1, RegisterTypes DEF PlaceholderValue
    <3>3. CASE Const(n, t)
      <4>1. Value(n, t, TRUE, Embedded) \in Values
            BY <1>3, <2>1, HomesAre, ConstFields
      <4> QED BY <3>3, <4>1, RegisterTypes DEF Const
    <3> QED BY <1>4, <3>1, <3>2, <3>3
  <2> QED BY <1>4, <2>2, MainOnly DEF Input, PlaceholderValue, Const
<1>5. ASSUME NEW op \in DOMAIN Attributes, NEW x \in handles, Unary(op, x)
      PROVE  BuilderTypes'
  <2>1. /\ op \in OpTypes /\ op \in NameBases /\ Attributes[op] \in Nat
        /\ UnaryType(op, x) \in TensorTypes
        BY <1>1, UnaryIsType, BasesAre
  <2>2. Name(op, FALSE, nextID + Attributes[op]) \in NameRecords
        BY <2>1, MainNames
  <2>3. nextID' \in Nat /\ outputs' \in Seq(NameRecords) /\ UNCHANGED <<inputs, err>>
        BY <1>1, <1>5, <2>1 DEF Unary
  <2>4. AddOp(op, <<Bind(x)>>, Name(op, FALSE, nextID + Attributes[op]), UnaryType(op, x))
        BY <1>5 DEF Unary
  <2>5. MainTypes'
        BY <1>2, <2>1, <2>2, <2>3, <2>4, AddOpTypes
  <2> QED BY <1>5, <2>5, MainOnly DEF Unary
<1>6. ASSUME NEW op \in BinaryOps, NEW x \in handles, NEW y \in handles, Binary(op, x, y)
      PROVE  BuilderTypes'
  <2>1. op \in OpTypes /\ op \in NameBases /\ BinaryType(op, x, y) \in TensorTypes
        BY <1>1, BinaryIsType, BasesAre DEF BinaryOps, AllOps
  <2>2. Name(op, FALSE, nextID) \in NameRecords /\ <<Bind(x), Bind(y)>> \in Seq(ArgRecords)
    <3>1. nextID \in Int /\ FALSE \in BOOLEAN
          BY <1>1
    <3>2. Name(op, FALSE, nextID) \in NameRecords
          BY <2>1, <3>1, NameFields
    <3>3. <<Bind(x), Bind(y)>> \in Seq(ArgRecords)
          BY <1>2, PairSequence
    <3> QED BY <3>2, <3>3
  <2>3. nextID' \in Nat /\ outputs' \in Seq(NameRecords) /\ UNCHANGED <<inputs, err>>
        BY <1>1, <1>6 DEF Binary
  <2>4. AddOp(op, <<Bind(x), Bind(y)>>, Name(op, FALSE, nextID), BinaryType(op, x, y))
        BY <1>6 DEF Binary
  <2>5. MainTypes'
        BY <2>1, <2>2, <2>3, <2>4, AddOpTypes
  <2> QED BY <1>6, <2>5, MainOnly DEF Binary
<1>7. ASSUME NEW vs \in Tuples(handles, client.outs), Concat(vs)
      PROVE  BuilderTypes'
  <2>1. vs \in Pairs(Values)
        BY HandleTuples
  <2>2. CASE vs = <<>>
    <3>1. SetErr("concat") /\ UNCHANGED <<inputs, outputs, operations, values, nextID, handles>>
          BY <1>7, <2>2 DEF Concat
    <3>2. MainTypes'
          BY <3>1, SetErrIs DEF BuilderTypes, MainTypes
    <3> QED BY <1>7, <3>2, MainOnly DEF Concat
  <2>3. CASE vs # <<>>
    <3> DEFINE t == [dtype |-> vs[1].dtype,
                     shape |-> [vs[1].shape EXCEPT ![1] =
                                  IF Len(vs) = 1 THEN @ ELSE @ + vs[2].shape[1]]]
               args == [i \in 1..Len(vs) |-> Bind(vs[i])]
               n == Name("concat", FALSE, nextID + 2)
    <3>1. /\ \A i \in 1..Len(vs) : vs[i].shape # <<>>
          /\ AddOp("concat", args, n, t) /\ nextID' = nextID + 3
          /\ UNCHANGED <<inputs, outputs, err>>
          BY <1>7, <2>3 DEF Concat
    <3>2. t \in TensorTypes
      <4>1. [vs[1].shape EXCEPT ![1] = IF Len(vs) = 1 THEN @ ELSE @ + vs[2].shape[1]] \in Shapes
            BY <2>1, <2>3, <3>1, ConcatIsShape
      <4>2. vs[1].dtype \in ElementTypes
        <5>1. 1 \in 1..Len(vs)
              BY <2>1, <2>3, PairsAre
        <5> QED BY <2>1, <5>1, PairsAre, TypeOfIs
      <4> QED BY <4>1, <4>2, TypeFields
    <3>3. args \in Seq(ArgRecords)
          BY <2>1, BindsOfPair
    <3>4. n \in NameRecords /\ "concat" \in OpTypes
      <4>1. "concat" \in AllOps
            BY DEF AllOps
      <4> QED BY <4>1, BasesAre, MainNames, 2 \in Nat
    <3>5. nextID' \in Nat /\ outputs' \in Seq(NameRecords)
          BY <1>1, <3>1
    <3> HIDE DEF t, args, n
    <3>6. MainTypes'
          BY <3>1, <3>2, <3>3, <3>4, <3>5, AddOpTypes
    <3> QED BY <1>7, <3>6, MainOnly DEF Concat
  <2> QED BY <2>2, <2>3
<1>8. ASSUME NEW x \in handles, TopK(x)
      PROVE  BuilderTypes'
  <2> DEFINE t == [dtype |-> x.dtype, shape |-> <<1>>]
             n == Name("topk", FALSE, nextID + 3)
             m == Name("topk_indices", FALSE, nextID + 4)
             v == Value(n, t, FALSE, Main)
             indices == Value(m, [dtype |-> "Int32", shape |-> <<1>>], FALSE, Phantom)
             op == Operation("topk", <<Bind(x)>>, <<Out(v.name, t)>>, <<>>)
  <2>1. <<1>> \in Shapes
        BY SingletonSequence DEF Shapes, MaxRank
  <2>2. t \in TensorTypes /\ [dtype |-> "Int32", shape |-> <<1>>] \in TensorTypes
    <3>1. x.dtype \in ElementTypes /\ "Int32" \in ElementTypes
          BY <1>1, TypeOfIs DEF ElementTypes
    <3> QED BY <2>1, <3>1, TypeFields
  <2>3. n \in NameRecords /\ m \in NameRecords /\ "topk" \in OpTypes
    <3>1. "topk" \in AllOps
          BY DEF AllOps
    <3>2. "topk" \in NameBases /\ "topk_indices" \in NameBases /\ "topk" \in OpTypes
          BY <3>1, BasesAre
    <3> QED BY <3>2, MainNames, 3 \in Nat, 4 \in Nat
  <2> HIDE DEF t, n, m
  <2>4. v \in Values /\ v.name = n /\ indices \in Values
        BY ZenonT(40), <2>2, <2>3, HomesAre, ValueFields
  <2>5. op \in MainOps
        BY ZenonT(40), <1>2, <2>2, <2>3, <2>4, OneResult
  <2>6. /\ operations' = Append(operations, op) /\ Register({v})
        /\ handles' = handles \union {v, indices}
        /\ nextID' = nextID + 5 /\ UNCHANGED <<inputs, outputs, err>>
        BY <1>8 DEF TopK, t, n, m
  <2> HIDE DEF op, v, indices
  <2>7. {v} \in SUBSET Values /\ {v, indices} \in SUBSET Values
        BY <2>4
  <2>8. nextID' \in Nat /\ outputs' \in Seq(NameRecords)
        BY <1>1, <2>6
  <2>9. MainTypes'
        BY <2>5, <2>6, <2>7, <2>8, GrowsMainTypes
  <2> QED BY <1>8, <2>9, MainOnly DEF TopK
<1>9. ASSUME NEW x \in handles, NEW n \in FreshNames, Identity(n, x)
      PROVE  BuilderTypes'
  <2>1. AddOp("identity", <<Bind(x)>>, n, TypeOf(x)) /\ UNCHANGED <<inputs, outputs, nextID, err>>
        BY <1>9 DEF Identity
  <2>2. nextID' \in Nat /\ outputs' \in Seq(NameRecords) /\ "identity" \in OpTypes
        BY <1>1, <2>1, BasesAre
  <2>3. MainTypes'
        BY <1>2, <1>3, <2>1, <2>2, AddOpTypes
  <2> QED BY <1>9, <2>3, MainOnly DEF Identity
<1>10. ASSUME NEW x \in handles, NEW n \in FreshNames \union {x.name}, Output(n, x)
       PROVE  BuilderTypes'
  <2>1. outputs' = Append(outputs, n) /\ UNCHANGED <<inputs, nextID, err>>
        BY <1>10 DEF Output
  <2>2. n \in NameRecords
        BY <1>2, <1>3
  <2>3. nextID' \in Nat /\ outputs' \in Seq(NameRecords) /\ "identity" \in OpTypes
        BY <1>1, <2>1, <2>2, AppendSequence, BasesAre
  <2>4. MainTypes'
    <3>1. CASE n = x.name
          BY <1>10, <2>1, <2>3, <3>1 DEF Output, BuilderTypes, MainTypes
    <3>2. CASE n # x.name
      <4>1. AddOp("identity", <<Bind(x)>>, n, TypeOf(x))
            BY <1>10, <3>2 DEF Output
      <4> QED BY <1>2, <2>1, <2>2, <2>3, <4>1, AddOpTypes
    <3> QED BY <3>1, <3>2
  <2> QED BY <1>10, <2>4, MainOnly DEF Output
<1> QED BY <1>4, <1>5, <1>6, <1>7, <1>8, <1>9, <1>10

(* What a callback does to the block it fills.                               *)

(* The binary operation o, with result v, makes frame f of frame k.           *)
BinaryAdded(k, f, b2, o, v, n, t, x, y) ==
  LET bb == frames[k].block IN
  /\ SetFrame(k, f) /\ f.block = b2 /\ f.kind = frames[k].kind
  /\ f.operands = frames[k].operands /\ f.built = frames[k].built
  /\ f.results = frames[k].results
  /\ b2.id = bb.id /\ b2.inputs = bb.inputs
  /\ b2.outputs = bb.outputs /\ b2.operations = Append(bb.operations, o)
  /\ b2.nextID = bb.nextID + 1 /\ handles' = handles \union {v}
  /\ o.args = <<Bind(x), Bind(y)>> /\ o.outs = <<Out(n, t)>>
  /\ n.blk /\ n.id = bb.nextID /\ v.name = n /\ v.home = bb.id

LEMMA BlockBinaryIs ==
  ASSUME BuilderTypes, NEW k \in 1..Len(frames), NEW op \in BinaryOps, NEW x \in handles,
         NEW y \in handles, BlockBinary(k, op, x, y)
  PROVE  \E f \in Frames, b2 \in Blocks, o \in BlockOps :
           \E v \in Values, n \in NameRecords, t \in TensorTypes :
             BinaryAdded(k, f, b2, o, v, n, t, x, y)
<1> DEFINE bb == frames[k].block
           n == Name(op, TRUE, bb.nextID)
           t == BinaryType(op, x, y)
           o == Operation(op, <<Bind(x), Bind(y)>>, <<Out(n, t)>>, <<>>)
           v == Value(n, t, FALSE, bb.id)
           b2 == [BlockAddOp(bb, o) EXCEPT !.nextID = @ + 1]
           f == [frames[k] EXCEPT !.block = b2]
<1>1. frames[k] \in Frames /\ bb \in Blocks /\ x \in Values /\ y \in Values
      BY FrameAt DEF BuilderTypes
<1>2. bb.nextID \in Int /\ bb.id \in Int /\ TRUE \in BOOLEAN
      BY <1>1 DEF Blocks
<1>3. op \in NameBases /\ op \in OpTypes
      BY BasesAre DEF BinaryOps, AllOps
<1>4. SetFrame(k, f) /\ handles' = handles \union {v}
      BY DEF BlockBinary
<1> HIDE DEF bb
<1>5. n \in NameRecords /\ n.blk /\ n.id = bb.nextID
  <2> DEFINE id == bb.nextID
  <2>1. id \in Int
        BY <1>2
  <2> HIDE DEF id
  <2>2. Name(op, TRUE, id) \in NameRecords /\ Name(op, TRUE, id).blk /\ Name(op, TRUE, id).id = id
        BY ZenonT(40), <1>2, <1>3, <2>1, NameFields
  <2> QED BY <2>2 DEF id
<1>6. t \in TensorTypes
      BY <1>1, BinaryIsType
<1>7. <<Bind(x), Bind(y)>> \in Seq(ArgRecords)
      BY <1>1, BindFields, PairSequence
<1> HIDE DEF n, t
<1>8. v \in Values /\ v.name = n /\ v.home = bb.id
  <2>1. v \in Values
        BY <1>2, <1>5, <1>6, ValueFields
  <2>2. v.name = n /\ v.home = bb.id
        BY DEF Value
  <2> QED BY <2>1, <2>2
<1>9. o \in BlockOps /\ o.args = <<Bind(x), Bind(y)>> /\ o.outs = <<Out(n, t)>>
  <2> DEFINE args == <<Bind(x), Bind(y)>>
             outs == <<Out(n, t)>>
  <2>1. args \in Seq(ArgRecords) /\ outs \in Seq(OutRecords)
        BY <1>5, <1>6, <1>7, OutFields, SingletonSequence
  <2>2. o = Operation(op, args, outs, <<>>)
        OBVIOUS
  <2> HIDE DEF args, outs, o
  <2>3. o \in BlockOps /\ o.args = args /\ o.outs = outs
        BY <1>3, <2>1, <2>2, OperationIs
  <2> QED BY <2>3 DEF args, outs
<1> HIDE DEF o, v
<1>10. /\ b2 \in Blocks /\ b2.id = bb.id /\ b2.inputs = bb.inputs
       /\ b2.outputs = bb.outputs /\ b2.operations = Append(bb.operations, o)
       /\ b2.nextID = bb.nextID + 1
       BY <1>1, <1>9, BlockAddOpIs
<1> HIDE DEF b2
<1>11. /\ f \in Frames /\ f.block = b2 /\ f.kind = frames[k].kind
       /\ f.operands = frames[k].operands /\ f.built = frames[k].built
       /\ f.results = frames[k].results
       BY <1>1, <1>10 DEF Frames, FrameRecords
<1> HIDE DEF f
<1>12. BinaryAdded(k, f, b2, o, v, n, t, x, y)
       BY <1>4, <1>5, <1>8, <1>9, <1>10, <1>11 DEF BinaryAdded, bb
<1>13. f \in Frames /\ b2 \in Blocks /\ o \in BlockOps /\ n \in NameRecords /\ t \in TensorTypes
       BY <1>5, <1>6, <1>9, <1>10, <1>11
<1>14. \E w \in Values, m \in NameRecords, u \in TensorTypes :
         BinaryAdded(k, f, b2, o, w, m, u, x, y)
       BY <1>8, <1>12, <1>13, Zenon
<1> QED BY <1>13, <1>14, Zenon

LEMMA BlockConstIs ==
  ASSUME NEW t \in UserTypes, BlockConst(t)
  PROVE  \E v \in Values :
           /\ handles' = handles \union {v} /\ v.home = Embedded
           /\ v.name.base = "block_const" /\ ~v.name.blk
<1> DEFINE n == Name("block_const", FALSE, NoId)
           v == Value(n, t, TRUE, Embedded)
<1>1. t \in TensorTypes
      BY UserTypesAre
<1>2. n \in NameRecords /\ n.base = "block_const" /\ ~n.blk
  <2>1. "block_const" \in NameBases /\ NoId \in Int /\ FALSE \in BOOLEAN
        BY BasesAre DEF NoId
  <2> QED BY <2>1, NameFields
<1>3. handles' = handles \union {v}
      BY DEF BlockConst
<1> HIDE DEF n
<1>4. v \in Values /\ v.name = n /\ v.home = Embedded
      BY ZenonT(40), <1>1, <1>2, HomesAre, ConstFields
<1> HIDE DEF v
<1> QED BY <1>2, <1>3, <1>4

(* What a call of Cond or WhileLoop pushes, and what the stack is when a      *)
(* callback returns.                                                         *)

LEMMA OutputNamesAre ==
  ASSUME NEW base \in OutputBases, NEW n \in 0..2
  PROVE  \A i \in 1..n :
           /\ Numbered(base)[i] \in NameRecords /\ Numbered(base)[i] = Name(base, FALSE, i - 1)
           /\ Numbered(base)[i].base = base /\ ~Numbered(base)[i].blk
           /\ Numbered(base)[i].id = i - 1
<1> SUFFICES ASSUME NEW i \in 1..n
             PROVE  /\ Numbered(base)[i] \in NameRecords
                    /\ Numbered(base)[i] = Name(base, FALSE, i - 1)
                    /\ Numbered(base)[i].base = base /\ ~Numbered(base)[i].blk
                    /\ Numbered(base)[i].id = i - 1
    OBVIOUS
<1>1. i \in 1..2 /\ i - 1 \in Int /\ FALSE \in BOOLEAN /\ base \in NameBases
      BY BasesAre
<1>2. Numbered(base)[i] = Name(base, FALSE, i - 1)
      BY <1>1, NumberedAre
<1>3. /\ Name(base, FALSE, i - 1) \in NameRecords /\ Name(base, FALSE, i - 1).base = base
      /\ ~Name(base, FALSE, i - 1).blk /\ Name(base, FALSE, i - 1).id = i - 1
      BY <1>1, NameFields
<1> QED BY <1>2, <1>3

LEMMA NewIds == ASSUME BuilderTypes PROVE blocksMade + 1 \in Nat \ {0}
  BY DEF BuilderTypes

BranchDone(f, b, rs, bb) == [f EXCEPT !.built = <<b>>, !.results = rs, !.block = bb]
CondBlockDone(f, b, bb) == [f EXCEPT !.built = <<b>>, !.block = bb]

LEMMA SetBlockIs ==
  ASSUME NEW f \in Frames, NEW b \in Blocks, NEW bb \in Blocks
  PROVE  /\ \A rs \in Pairs(Values) :
              /\ BranchDone(f, b, rs, bb) \in Frames
              /\ BranchDone(f, b, rs, bb).kind = f.kind
              /\ BranchDone(f, b, rs, bb).operands = f.operands
              /\ BranchDone(f, b, rs, bb).built = <<b>>
              /\ BranchDone(f, b, rs, bb).results = rs
              /\ BranchDone(f, b, rs, bb).block = bb
         /\ CondBlockDone(f, b, bb) \in Frames /\ CondBlockDone(f, b, bb).kind = f.kind
         /\ CondBlockDone(f, b, bb).operands = f.operands
         /\ CondBlockDone(f, b, bb).built = <<b>> /\ CondBlockDone(f, b, bb).block = bb
<1>1. <<b>> \in Seq(Blocks)
      BY SingletonSequence
<1> QED BY <1>1 DEF Frames, FrameRecords, BranchDone, CondBlockDone

UnchangedMain == UNCHANGED <<inputs, operations, outputs, values, nextID, err>>
GivesInputs(f) ==
  blocksMade' = blocksMade + 1 /\ handles' = handles \union Elements(f.block.inputs)
Begins(f) ==
  Len(frames) < MaxDepth /\ frames' = Append(frames, f) /\ GivesInputs(f) /\ UnchangedMain
Continues(f) == SetTop(f) /\ GivesInputs(f) /\ UnchangedMain
Fails(e) == Fail(e) /\ UNCHANGED blocksMade

LEMMA NewInputs ==
  ASSUME NEW id \in Nat \ {0}, NEW ins \in Pairs(Values)
  PROVE  /\ Elements(NewBlock(id, ins).inputs) = {ins[i] : i \in 1..Len(ins)}
         /\ Elements(NewBlock(id, <<>>).inputs) = {}
<1>1. NewBlock(id, ins).inputs = ins /\ NewBlock(id, <<>>).inputs = <<>> /\ Len(<<>>) = 0
      BY NoInputs, NewBlockIs
<1> QED BY <1>1 DEF Elements

LEMMA DepthIs ==
  ASSUME BuilderTypes, Len(frames) < client.depth
  PROVE  Len(frames) < MaxDepth
<1>1. client.depth \in 0..MaxDepth /\ MaxDepth \in Nat /\ Len(frames) \in Nat
      BY BoundsAssumption DEF BuilderTypes, ClientRecords
<1> QED BY <1>1

LEMMA CondIs ==
  ASSUME BuilderTypes, NEW x \in handles, Cond(x)
  PROVE  \/ Fails("cond") /\ UNCHANGED frames
         \/ \E f \in Frames :
              /\ Begins(f) /\ BoolScalar(x) /\ f.kind = "cond" /\ f.operands = <<x>>
              /\ f.built = <<>> /\ f.block = NewBlock(blocksMade + 1, <<>>)
<1> DEFINE bb == NewBlock(blocksMade + 1, <<>>)
           f == Frame("cond", <<x>>, bb)
<1>1. bb \in Blocks
      BY NewIds, NoInputs, NewBlockIs
<1>2. <<x>> \in Pairs(Values) /\ <<x>> # <<>>
  <2>1. x \in Values
        BY DEF BuilderTypes
  <2> QED BY <2>1, SingletonSequence DEF Pairs
<1>3. \/ Fails("cond") /\ UNCHANGED frames
      \/ /\ BoolScalar(x) /\ Len(frames) < client.depth /\ frames' = Append(frames, f)
         /\ blocksMade' = blocksMade + 1 /\ handles' = handles /\ UnchangedMain
      BY DEF Cond, Fails, UnchangedMain
<1>4. Elements(bb.inputs) = {}
      BY NewIds, NoInputs, NewInputs
<1> HIDE DEF bb
<1>5. f \in Frames /\ f.kind = "cond" /\ f.operands = <<x>> /\ f.built = <<>> /\ f.block = bb
      BY <1>1, <1>2, FrameIs
<1> HIDE DEF f
<1>6. ASSUME BoolScalar(x), Len(frames) < client.depth, frames' = Append(frames, f),
             blocksMade' = blocksMade + 1, handles' = handles, UnchangedMain
      PROVE  Begins(f)
      BY <1>4, <1>5, <1>6, DepthIs DEF Begins, GivesInputs
<1> QED BY <1>3, <1>5, <1>6 DEF bb

LEMMA WhileLoopIs ==
  ASSUME BuilderTypes, NEW vs \in Tuples(handles, client.outs), WhileLoop(vs)
  PROVE  \/ Fails("while") /\ UNCHANGED frames
         \/ /\ vs \in Pairs(Values) /\ vs # <<>> /\ \A i \in 1..Len(vs) : vs[i] \in handles
            /\ \E f \in Frames :
                 /\ Begins(f) /\ f.kind = "while" /\ f.operands = vs /\ f.built = <<>>
                 /\ f.block = NewBlock(blocksMade + 1,
                                BlockInputs(Numbered("cond_var"), vs, blocksMade + 1))
<1> DEFINE bb == NewBlock(blocksMade + 1,
                          BlockInputs(Numbered("cond_var"), vs, blocksMade + 1))
           f == Frame("while", vs, bb)
<1> DEFINE ins == BlockInputs(Numbered("cond_var"), vs, blocksMade + 1)
<1>1. vs \in Pairs(Values) /\ \A i \in 1..Len(vs) : vs[i] \in handles
      BY HandleTuples
<1>2. ins \in Pairs(Values) /\ bb \in Blocks
  <2>1. "cond_var" \in NameBases
        BY BasesAre DEF InputBases
  <2> QED BY <1>1, <2>1, NewIds, BlockInputsAre, NewBlockIs
<1>3. \/ Fails("while") /\ UNCHANGED frames
      \/ /\ vs # <<>> /\ Len(frames) < client.depth /\ frames' = Append(frames, f)
         /\ blocksMade' = blocksMade + 1 /\ UnchangedMain
         /\ handles' = handles \union {ins[i] : i \in 1..Len(ins)}
      BY DEF WhileLoop, Fails, HandOut, UnchangedMain
<1>4. Elements(bb.inputs) = {ins[i] : i \in 1..Len(ins)}
  <2> HIDE DEF ins
  <2> QED BY <1>2, NewIds, NewInputs DEF ins
<1> HIDE DEF bb, ins
<1>5. f \in Frames /\ f.kind = "while" /\ f.operands = vs /\ f.built = <<>> /\ f.block = bb
      BY <1>1, <1>2, FrameIs
<1> HIDE DEF f
<1>6. ASSUME Len(frames) < client.depth, frames' = Append(frames, f),
             blocksMade' = blocksMade + 1, UnchangedMain,
             handles' = handles \union {ins[i] : i \in 1..Len(ins)}
      PROVE  Begins(f)
      BY <1>4, <1>5, <1>6, DepthIs DEF Begins, GivesInputs
<1> QED BY <1>1, <1>3, <1>5, <1>6 DEF bb

LEMMA TrueBranchIs ==
  ASSUME BuilderTypes, InCallback, NEW outs \in Tuples(handles, client.outs),
         TrueBranchReturns(outs)
  PROVE  LET b == BlockOutputs(TopFrame.block, Numbered("cond_true_out"), outs) IN
         /\ TopFrame.kind = "cond" /\ TopFrame.built = <<>>
         /\ outs \in Pairs(Values) /\ \A i \in 1..Len(outs) : outs[i] \in handles
         /\ \E f \in Frames :
              /\ Continues(f) /\ f.kind = "cond" /\ f.operands = TopFrame.operands
              /\ f.built = <<b>> /\ f.results = outs
              /\ f.block = NewBlock(blocksMade + 1, <<>>) /\ b \in Blocks
<1> DEFINE b == BlockOutputs(TopFrame.block, Numbered("cond_true_out"), outs)
           bb == NewBlock(blocksMade + 1, <<>>)
           f == BranchDone(TopFrame, b, outs, bb)
<1>1. outs \in Pairs(Values) /\ \A i \in 1..Len(outs) : outs[i] \in handles
      BY HandleTuples
<1>2. Len(outs) \in 0..2
      BY <1>1, PairsAre
<1>3. bb \in Blocks
      BY NewIds, NoInputs, NewBlockIs
<1>4. b \in Blocks
  <2>1. \A i \in 1..Len(outs) : Numbered("cond_true_out")[i] \in NameRecords
        BY <1>2, OutputNamesAre, "cond_true_out" \in OutputBases DEF OutputBases
  <2> QED BY <1>1, <2>1, TopIs, BlockOutputsAre
<1>5. /\ TopFrame.kind = "cond" /\ TopFrame.built = <<>>
      /\ SetTop(f) /\ blocksMade' = blocksMade + 1 /\ handles' = handles /\ UnchangedMain
      BY DEF TrueBranchReturns, UnchangedMain, BranchDone
<1>7. Elements(bb.inputs) = {}
      BY NewIds, NoInputs, NewInputs
<1> HIDE DEF b, bb
<1>6. /\ f \in Frames /\ f.kind = "cond" /\ f.operands = TopFrame.operands
      /\ f.built = <<b>> /\ f.results = outs /\ f.block = bb
  <2>1. TopFrame \in Frames
        BY TopIs
  <2>2. /\ f \in Frames /\ f.kind = TopFrame.kind /\ f.operands = TopFrame.operands
        /\ f.built = <<b>> /\ f.results = outs /\ f.block = bb
        BY <1>1, <1>3, <1>4, <2>1, SetBlockIs
  <2> QED BY <1>5, <2>2
<1> HIDE DEF f
<1>8. Continues(f)
      BY <1>5, <1>6, <1>7 DEF Continues, GivesInputs
<1> QED BY <1>1, <1>4, <1>5, <1>6, <1>8 DEF b, bb

LEMMA LoopCondIs ==
  ASSUME BuilderTypes, InCallback, NEW res \in Tuples(handles, 1), LoopCondReturns(res)
  PROVE  LET names == <<Name("cond_result", FALSE, NoId)>>
             b == BlockOutputs(TopFrame.block, names, res)
         IN
         /\ TopFrame.kind = "while" /\ TopFrame.built = <<>>
         /\ res \in Pairs(Values) /\ \A i \in 1..Len(res) : res[i] \in handles
         /\ names[1] \in NameRecords /\ names[1].base = "cond_result" /\ ~names[1].blk
         /\ \/ PopFrame /\ Fails("while")
            \/ \E f \in Frames :
                 /\ Continues(f) /\ f.kind = "while" /\ f.operands = TopFrame.operands
                 /\ f.built = <<b>> /\ b \in Blocks /\ Len(res) = 1 /\ BoolScalar(res[1])
                 /\ f.block = NewBlock(blocksMade + 1,
                        BlockInputs(Numbered("body_var"), TopFrame.operands, blocksMade + 1))
<1> DEFINE names == <<Name("cond_result", FALSE, NoId)>>
           b == BlockOutputs(TopFrame.block, names, res)
           bb == NewBlock(blocksMade + 1,
                          BlockInputs(Numbered("body_var"), TopFrame.operands, blocksMade + 1))
           f == CondBlockDone(TopFrame, b, bb)
<1>1. res \in Pairs(Values) /\ \A i \in 1..Len(res) : res[i] \in handles
      BY HandleTuples
<1>2. Len(res) \in 0..1
      BY TuplesAreSequences, 1 \in Nat
<1>3. names[1] \in NameRecords /\ names[1].base = "cond_result" /\ ~names[1].blk
  <2>1. "cond_result" \in NameBases /\ NoId \in Int /\ FALSE \in BOOLEAN
        BY BasesAre DEF NoId, OutputBases
  <2>2. names[1] = Name("cond_result", FALSE, NoId)
        OBVIOUS
  <2> QED BY <2>1, <2>2, NameFields
<1> HIDE DEF names
<1>4. b \in Blocks
  <2>1. \A i \in 1..Len(res) : names[i] \in NameRecords
    <3> DEFINE n == Len(res)
    <3>1. n \in 0..1
          BY <1>2
    <3> HIDE DEF n
    <3>2. \A i \in 1..n : i = 1
          BY <3>1
    <3> QED BY <1>3, <3>2 DEF n
  <2> QED BY <1>1, <2>1, TopIs, BlockOutputsAre
<1> DEFINE ins == BlockInputs(Numbered("body_var"), TopFrame.operands, blocksMade + 1)
<1>5. ins \in Pairs(Values) /\ bb \in Blocks
  <2>1. "body_var" \in NameBases
        BY BasesAre DEF InputBases
  <2> QED BY <2>1, TopIs, NewIds, BlockInputsAre, NewBlockIs
<1>6. /\ TopFrame.kind = "while" /\ TopFrame.built = <<>>
      /\ \/ PopFrame /\ Fails("while")
         \/ /\ res # <<>> /\ BoolScalar(res[1]) /\ SetTop(f) /\ UnchangedMain
            /\ blocksMade' = blocksMade + 1
            /\ handles' = handles \union {ins[i] : i \in 1..Len(ins)}
      BY DEF LoopCondReturns, UnchangedMain, Fails, CondBlockDone, HandOut, names
<1>9. Elements(bb.inputs) = {ins[i] : i \in 1..Len(ins)}
  <2> HIDE DEF ins
  <2> QED BY <1>5, NewIds, NewInputs DEF ins
<1> HIDE DEF b, bb, ins
<1>7. /\ f \in Frames /\ f.kind = TopFrame.kind /\ f.operands = TopFrame.operands
      /\ f.built = <<b>> /\ f.block = bb
  <2>1. TopFrame \in Frames
        BY TopIs
  <2> QED BY <1>4, <1>5, <2>1, SetBlockIs
<1>8. res # <<>> => Len(res) = 1
  <2>1. res \in Seq(Values)
        BY <1>1, PairsAre
  <2> QED BY <1>2, <2>1
<1> HIDE DEF f
<1>10. ASSUME SetTop(f), UnchangedMain, blocksMade' = blocksMade + 1,
              handles' = handles \union {ins[i] : i \in 1..Len(ins)}
       PROVE  Continues(f)
       BY <1>7, <1>9, <1>10 DEF Continues, GivesInputs
<1> QED BY <1>1, <1>3, <1>4, <1>6, <1>7, <1>8, <1>10 DEF b, bb, names

LEMMA FalseBranchIs ==
  ASSUME BuilderTypes, InCallback, NEW outs \in Tuples(handles, client.outs),
         FalseBranchReturns(outs)
  PROVE  LET b == BlockOutputs(TopFrame.block, Numbered("cond_false_out"), outs)
             types == [i \in 1..Len(outs) |-> TypeOf(outs[i])]
         IN
         /\ TopFrame.kind = "cond" /\ TopFrame.built # <<>> /\ PopFrame
         /\ outs \in Pairs(Values) /\ \A i \in 1..Len(outs) : outs[i] \in handles
         /\ \/ Fails("cond")
            \/ /\ UNCHANGED blocksMade /\ b \in Blocks /\ SameTypes(TopFrame.results, outs)
               /\ TopFrame.operands[1] \in Values /\ 1 \in 1..Len(TopFrame.operands)
               /\ AddControlFlow("cond", <<BindByName(TopFrame.operands[1])>>, CondOut, types,
                                 Append(TopFrame.built, b))
<1> DEFINE b == BlockOutputs(TopFrame.block, Numbered("cond_false_out"), outs)
           types == [i \in 1..Len(outs) |-> TypeOf(outs[i])]
           given == [i \in 1..Len(outs) |-> TypeOf(TopFrame.results[i])]
<1>1. outs \in Pairs(Values) /\ \A i \in 1..Len(outs) : outs[i] \in handles
      BY HandleTuples
<1>2. Len(outs) \in 0..2
      BY <1>1, PairsAre
<1>3. b \in Blocks
  <2>1. \A i \in 1..Len(outs) : Numbered("cond_false_out")[i] \in NameRecords
        BY <1>2, OutputNamesAre, "cond_false_out" \in OutputBases DEF OutputBases
  <2> QED BY <1>1, <2>1, TopIs, BlockOutputsAre
<1>4. /\ TopFrame.kind = "cond" /\ TopFrame.built # <<>> /\ PopFrame
      /\ \/ Fails("cond")
         \/ /\ UNCHANGED blocksMade /\ SameTypes(TopFrame.results, outs)
            /\ AddControlFlow("cond", <<BindByName(TopFrame.operands[1])>>, CondOut, given,
                              Append(TopFrame.built, b))
      BY DEF FalseBranchReturns, Fails
<1>5. SameTypes(TopFrame.results, outs) => given = types
      BY DEF SameTypes
<1>6. TopFrame.operands[1] \in Values /\ 1 \in 1..Len(TopFrame.operands)
  <2>1. TopFrame.operands \in Seq(Values) /\ TopFrame.operands # <<>>
        BY <1>4, TopIs, PairsAre DEF Frames
  <2> QED BY <2>1
<1> HIDE DEF b, types, given
<1> QED BY <1>1, <1>3, <1>4, <1>5, <1>6 DEF b, types

LEMMA LoopBodyIs ==
  ASSUME BuilderTypes, InCallback, NEW outs \in Tuples(handles, client.outs),
         LoopBodyReturns(outs)
  PROVE  LET b == BlockOutputs(TopFrame.block, Numbered("body_out"), outs)
             types == [i \in 1..Len(outs) |-> TypeOf(outs[i])]
             args == [i \in 1..Len(TopFrame.operands) |-> Bind(TopFrame.operands[i])]
         IN
         /\ TopFrame.kind = "while" /\ TopFrame.built # <<>> /\ PopFrame
         /\ outs \in Pairs(Values) /\ \A i \in 1..Len(outs) : outs[i] \in handles
         /\ \/ Fails("while")
            \/ /\ UNCHANGED blocksMade /\ b \in Blocks /\ SameTypes(TopFrame.operands, outs)
               /\ AddControlFlow("while_loop", args, WhileOut, types, Append(TopFrame.built, b))
<1> DEFINE b == BlockOutputs(TopFrame.block, Numbered("body_out"), outs)
           types == [i \in 1..Len(outs) |-> TypeOf(outs[i])]
           given == [i \in 1..Len(outs) |-> TypeOf(TopFrame.operands[i])]
           args == [i \in 1..Len(TopFrame.operands) |-> Bind(TopFrame.operands[i])]
<1>1. outs \in Pairs(Values) /\ \A i \in 1..Len(outs) : outs[i] \in handles
      BY HandleTuples
<1>2. Len(outs) \in 0..2
      BY <1>1, PairsAre
<1>3. b \in Blocks
  <2>1. \A i \in 1..Len(outs) : Numbered("body_out")[i] \in NameRecords
        BY <1>2, OutputNamesAre, "body_out" \in OutputBases DEF OutputBases
  <2> QED BY <1>1, <2>1, TopIs, BlockOutputsAre
<1>4. /\ TopFrame.kind = "while" /\ TopFrame.built # <<>> /\ PopFrame
      /\ \/ Fails("while")
         \/ /\ UNCHANGED blocksMade /\ SameTypes(TopFrame.operands, outs)
            /\ AddControlFlow("while_loop", args, WhileOut, given, Append(TopFrame.built, b))
      BY DEF LoopBodyReturns, Fails
<1>5. SameTypes(TopFrame.operands, outs) => given = types
      BY DEF SameTypes
<1> HIDE DEF b, types, given, args
<1> QED BY <1>1, <1>3, <1>4, <1>5 DEF b, types, args

(* Types of the stack after the steps above.                                 *)

LEMMA StackSteps ==
  ASSUME BuilderTypes
  PROVE  /\ \A f \in Frames : Begins(f) => StackTypes' /\ handles' \subseteq Values
         /\ \A f \in Frames : InCallback /\ Continues(f) =>
                               StackTypes' /\ handles' \subseteq Values
         /\ \A f \in Frames, k \in 1..Len(frames) :
              SetFrame(k, f) /\ UNCHANGED blocksMade => StackTypes'
         /\ InCallback /\ PopFrame /\ UNCHANGED blocksMade => StackTypes'
         /\ UNCHANGED <<frames, blocksMade>> => StackTypes'
<1>1. frames \in Seq(Frames) /\ Len(frames) <= MaxDepth /\ blocksMade \in Nat
      /\ Len(frames) \in Nat /\ MaxDepth \in Nat /\ blocksMade + 1 \in Nat
      BY BoundsAssumption DEF BuilderTypes
<1>2. ASSUME NEW f \in Frames, Begins(f)
      PROVE  StackTypes'
  <2>1. frames' \in Seq(Frames) /\ Len(frames') = Len(frames) + 1
        BY <1>2, PushIs DEF Begins
  <2> QED BY <1>1, <1>2, <2>1 DEF Begins, GivesInputs, StackTypes
<1>3. ASSUME NEW f \in Frames, NEW k \in 1..Len(frames), SetFrame(k, f)
      PROVE  frames' \in Seq(Frames) /\ Len(frames') <= MaxDepth
  <2>1. frames' \in Seq(Frames) /\ Len(frames') = Len(frames)
        BY <1>3, SetFrameIs
  <2> QED BY <1>1, <2>1
<1>5. ASSUME NEW f \in Frames, GivesInputs(f)
      PROVE  handles' \subseteq Values
  <2>1. f.block.inputs \in Pairs(Values)
        BY DEF Frames, FrameRecords, Blocks
  <2>2. Elements(f.block.inputs) \subseteq Values
        BY <2>1, PairsAre DEF Elements
  <2> QED BY <1>5, <2>2 DEF GivesInputs, BuilderTypes
<1>6. ASSUME NEW f \in Frames, InCallback, Continues(f)
      PROVE  StackTypes' /\ handles' \subseteq Values
  <2>1. SetFrame(Len(frames), f) /\ Len(frames) \in 1..Len(frames) /\ GivesInputs(f)
        BY <1>6, TopIs DEF Continues, SetTop
  <2>2. frames' \in Seq(Frames) /\ Len(frames') <= MaxDepth
        BY <1>3, <2>1
  <2> QED BY <1>1, <1>5, <2>1, <2>2 DEF StackTypes, GivesInputs
<1>4. ASSUME InCallback, PopFrame
      PROVE  frames' \in Seq(Frames) /\ Len(frames') <= MaxDepth
  <2>1. frames' \in Seq(Frames) /\ Len(frames') = Len(frames) - 1
        BY <1>4, PopFrameIs
  <2> QED BY <1>1, <2>1
<1>7. ASSUME NEW f \in Frames, Begins(f)
      PROVE  handles' \subseteq Values
      BY <1>5, <1>7 DEF Begins
<1> QED BY <1>1, <1>2, <1>3, <1>4, <1>6, <1>7 DEF StackTypes

LEMMA PartsTypes ==
  ASSUME BuilderTypes, MainTypes', StackTypes', Call \/ UNCHANGED client
  PROVE  BuilderTypes'
<1>1. client' \in ClientRecords
      BY CallIs
<1> QED BY <1>1 DEF BuilderTypes, MainTypes, StackTypes

LEMMA CallbackTypesStep ==
  ASSUME BuilderTypes,
         \/ \E k \in 1..Len(frames), op \in BinaryOps, x, y \in handles : BlockBinary(k, op, x, y)
         \/ InCallback /\ \E t \in UserTypes : BlockConst(t)
         \/ \E x \in handles : Cond(x)
         \/ InCallback /\ \E outs \in Tuples(handles, client.outs) : TrueBranchReturns(outs)
         \/ InCallback /\ \E outs \in Tuples(handles, client.outs) : FalseBranchReturns(outs)
         \/ \E vs \in Tuples(handles, client.outs) : WhileLoop(vs)
         \/ InCallback /\ \E res \in Tuples(handles, 1) : LoopCondReturns(res)
         \/ InCallback /\ \E outs \in Tuples(handles, client.outs) : LoopBodyReturns(outs)
  PROVE  BuilderTypes'
<1>1. ASSUME NEW k \in 1..Len(frames), NEW op \in BinaryOps, NEW x \in handles,
             NEW y \in handles, BlockBinary(k, op, x, y)
      PROVE  BuilderTypes'
  <2>1. PICK f \in Frames, v \in Values : SetFrame(k, f) /\ handles' = handles \union {v}
        BY <1>1, BlockBinaryIs DEF BinaryAdded
  <2>2. StackTypes'
        BY <1>1, <2>1, StackSteps DEF BlockBinary
  <2>3. handles' \subseteq Values
        BY <2>1 DEF BuilderTypes
  <2> QED BY <1>1, <2>2, <2>3, StackOnly DEF BlockBinary
<1>2. ASSUME InCallback, NEW t \in UserTypes, BlockConst(t)
      PROVE  BuilderTypes'
  <2>1. handles' \subseteq Values
        BY <1>2, BlockConstIs DEF BuilderTypes
  <2>2. StackTypes'
        BY <1>2, StackSteps DEF BlockConst
  <2> QED BY <1>2, <2>1, <2>2, StackOnly DEF BlockConst
<1>3. ASSUME NEW x \in handles, Cond(x)
      PROVE  BuilderTypes'
  <2>1. CASE Fails("cond") /\ UNCHANGED frames
        BY <1>3, <2>1, FailTypes, StackSteps, PartsTypes DEF Fails, Cond
  <2>2. CASE \E f \in Frames : Begins(f)
        BY <1>3, <2>2, StackSteps, StackOnly DEF Begins, UnchangedMain, Cond
  <2> QED BY <1>3, <2>1, <2>2, CondIs
<1>4. ASSUME InCallback, NEW outs \in Tuples(handles, client.outs), TrueBranchReturns(outs)
      PROVE  BuilderTypes'
  <2>1. PICK f \in Frames : Continues(f)
        BY <1>4, TrueBranchIs
  <2> QED BY <1>4, <2>1, StackSteps, StackOnly DEF Continues, UnchangedMain, TrueBranchReturns
<1>5. ASSUME InCallback, NEW outs \in Tuples(handles, client.outs), FalseBranchReturns(outs)
      PROVE  BuilderTypes'
  <2> DEFINE b == BlockOutputs(TopFrame.block, Numbered("cond_false_out"), outs)
             types == [i \in 1..Len(outs) |-> TypeOf(outs[i])]
             args == <<BindByName(TopFrame.operands[1])>>
             built == Append(TopFrame.built, b)
  <2>1. PopFrame /\ outs \in Pairs(Values)
        BY <1>5, FalseBranchIs
  <2>2. CASE Fails("cond")
        BY <1>5, <2>1, <2>2, FailTypes, StackSteps, PartsTypes DEF Fails, FalseBranchReturns
  <2>3. CASE /\ UNCHANGED blocksMade /\ b \in Blocks /\ TopFrame.operands[1] \in Values
             /\ AddControlFlow("cond", args, CondOut, types, built)
    <3>1. args \in Seq(ArgRecords)
          BY <2>3, BindFields, SingletonSequence
    <3>2. built \in Seq(Blocks)
          BY <1>5, <2>3, TopIs, AppendSequence
    <3>3. types \in Pairs(TensorTypes)
          BY <2>1, TypesOfPair
    <3> HIDE DEF args, built, types
    <3>4. MainTypes'
          BY <2>3, <3>1, <3>2, <3>3, AddControlFlowTypes
    <3> QED BY <1>5, <2>1, <2>3, <3>4, StackSteps, PartsTypes DEF FalseBranchReturns
  <2> QED BY <1>5, <2>2, <2>3, FalseBranchIs
<1>6. ASSUME NEW vs \in Tuples(handles, client.outs), WhileLoop(vs)
      PROVE  BuilderTypes'
  <2>1. CASE Fails("while") /\ UNCHANGED frames
        BY <1>6, <2>1, FailTypes, StackSteps, PartsTypes DEF Fails, WhileLoop
  <2>2. CASE \E f \in Frames : Begins(f)
        BY <1>6, <2>2, StackSteps, StackOnly DEF Begins, UnchangedMain, WhileLoop
  <2> QED BY <1>6, <2>1, <2>2, WhileLoopIs
<1>7. ASSUME InCallback, NEW res \in Tuples(handles, 1), LoopCondReturns(res)
      PROVE  BuilderTypes'
  <2>1. CASE PopFrame /\ Fails("while")
        BY <1>7, <2>1, FailTypes, StackSteps, PartsTypes DEF Fails, LoopCondReturns
  <2>2. CASE \E f \in Frames : Continues(f)
        BY <1>7, <2>2, StackSteps, StackOnly DEF Continues, UnchangedMain, LoopCondReturns
  <2> QED BY <1>7, <2>1, <2>2, LoopCondIs
<1>8. ASSUME InCallback, NEW outs \in Tuples(handles, client.outs), LoopBodyReturns(outs)
      PROVE  BuilderTypes'
  <2> DEFINE b == BlockOutputs(TopFrame.block, Numbered("body_out"), outs)
             types == [i \in 1..Len(outs) |-> TypeOf(outs[i])]
             args == [i \in 1..Len(TopFrame.operands) |-> Bind(TopFrame.operands[i])]
             built == Append(TopFrame.built, b)
  <2>1. PopFrame /\ outs \in Pairs(Values)
        BY <1>8, LoopBodyIs
  <2>2. CASE Fails("while")
        BY <1>8, <2>1, <2>2, FailTypes, StackSteps, PartsTypes DEF Fails, LoopBodyReturns
  <2>3. CASE /\ UNCHANGED blocksMade /\ b \in Blocks
             /\ AddControlFlow("while_loop", args, WhileOut, types, built)
    <3>1. args \in Seq(ArgRecords)
          BY <1>8, TopIs, BindsOfPair
    <3>2. built \in Seq(Blocks)
          BY <1>8, <2>3, TopIs, AppendSequence
    <3>3. types \in Pairs(TensorTypes)
          BY <2>1, TypesOfPair
    <3> HIDE DEF args, built, types
    <3>4. MainTypes'
          BY <2>3, <3>1, <3>2, <3>3, AddControlFlowTypes
    <3> QED BY <1>8, <2>1, <2>3, <3>4, StackSteps, PartsTypes DEF LoopBodyReturns
  <2> QED BY <1>8, <2>2, <2>3, LoopBodyIs
<1> QED BY <1>1, <1>2, <1>3, <1>4, <1>5, <1>6, <1>7, <1>8

LEMMA TypesInvariant == Spec => []BuilderTypes
<1>1. Init => BuilderTypes
      BY InitTypes
<1>2. BuilderTypes /\ [Next]_vars => BuilderTypes'
  <2>1. ASSUME BuilderTypes, Next
        PROVE  BuilderTypes'
        BY <2>1, MainTypesStep, CallbackTypesStep DEF Next
  <2>2. ASSUME BuilderTypes, UNCHANGED vars
        PROVE  BuilderTypes'
        BY <2>2 DEF vars, BuilderTypes
  <2> QED BY <2>1, <2>2
<1> QED BY <1>1, <1>2, PTL DEF Spec

(* builder.go, ops_control_flow.go: whatever the client calls, every value    *)
(* and every result keeps a known element type and no more axes than declared, *)
(* and names keep the bases the code gives them (TypeOK).                      *)
THEOREM TypeCorrect == Spec => []TypeOK
<1>1. BuilderTypes => TypeOK
  <2> SUFFICES ASSUME BuilderTypes
               PROVE  TypeOK
      OBVIOUS
  <2>1. \A v \in Elements(inputs) \union handles : v \in Values
        BY DEF BuilderTypes, Elements
  <2>2. \A v \in Elements(inputs) \union handles :
          v.name \in NameRecords /\ IsType(TypeOf(v))
        BY <2>1, TypeOfIs, TypesAre
  <2>3. \A op \in Elements(operations) : op \in MainOps
        BY DEF BuilderTypes, Elements
  <2>4. \A op \in Elements(operations) : \A o \in Elements(op.outs) : o \in OutRecords
        BY <2>3 DEF MainOps, Elements
  <2>5. \A op \in Elements(operations) : \A o \in Elements(op.outs) :
          o.name \in NameRecords /\ IsType(o.type)
        BY <2>4, TypesAre DEF OutRecords
  <2>6. Elements(outputs) \subseteq NameRecords
        BY DEF BuilderTypes, Elements
  <2>7. Len(frames) \in 0..MaxDepth
        BY BoundsAssumption DEF BuilderTypes
  <2> QED BY <2>2, <2>5, <2>6, <2>7 DEF BuilderTypes, ClientRecords, TypeOK
<1> QED BY <1>1, TypesInvariant, PTL

(***************************************************************************)
(* A call that fails leaves no trace.                                       *)
(***************************************************************************)

Quiet == UNCHANGED err \/
  \E e : SetErr(e) /\ UNCHANGED <<inputs, operations, outputs, values, nextID, handles>>

(* errors.go setErr: the first error stays, and a failed call changes nothing *)
(* else of the program (FailureLeavesNoTrace).                                *)
THEOREM FailuresLeaveNoTrace == Spec => FailureLeavesNoTrace
<1>1. ASSUME Next
      PROVE  Quiet
  <2>1. ASSUME \E n, t : Input(n, t) \/ PlaceholderValue(n, t) \/ Const(n, t)
        PROVE  Quiet
        BY <2>1 DEF Input, PlaceholderValue, Const, Quiet
  <2>2. ASSUME \E op, x : Unary(op, x)
        PROVE  Quiet
        BY <2>2 DEF Unary, Quiet
  <2>3. ASSUME \E op, x, y : Binary(op, x, y) \/ \E k : BlockBinary(k, op, x, y)
        PROVE  Quiet
        BY <2>3 DEF Binary, BlockBinary, Quiet
  <2>4. ASSUME NEW vs, Concat(vs)
        PROVE  Quiet
    <3>1. CASE vs = <<>>
          BY <2>4, <3>1 DEF Concat, Quiet
    <3>2. CASE vs # <<>>
          BY <2>4, <3>2 DEF Concat, Quiet
    <3> QED BY <3>1, <3>2
  <2>5. ASSUME \E x : TopK(x)
        PROVE  Quiet
        BY <2>5 DEF TopK, Quiet
  <2>6. ASSUME \E x, n : Identity(n, x) \/ Output(n, x)
        PROVE  Quiet
        BY <2>6 DEF Identity, Output, Quiet
  <2>7. ASSUME \E t : BlockConst(t)
        PROVE  Quiet
        BY <2>7 DEF BlockConst, Quiet
  <2>8. ASSUME NEW x, Cond(x) \/ WhileLoop(x)
        PROVE  Quiet
        BY <2>8 DEF Cond, WhileLoop, Fail, Quiet
  <2>9. ASSUME NEW outs, TrueBranchReturns(outs)
        PROVE  Quiet
        BY <2>9 DEF TrueBranchReturns, Quiet
  <2>10. ASSUME NEW outs, FalseBranchReturns(outs)
         PROVE  Quiet
         BY <2>10 DEF FalseBranchReturns, Fail, AddControlFlow, Quiet
  <2>11. ASSUME NEW res, LoopCondReturns(res)
         PROVE  Quiet
         BY <2>11 DEF LoopCondReturns, Fail, Quiet
  <2>12. ASSUME NEW outs, LoopBodyReturns(outs)
         PROVE  Quiet
         BY <2>12 DEF LoopBodyReturns, Fail, AddControlFlow, Quiet
  <2> QED BY <1>1, <2>1, <2>2, <2>3, <2>4, <2>5, <2>6, <2>7, <2>8, <2>9, <2>10, <2>11, <2>12
          DEF Next
<1>2. Quiet => /\ err # "none" => err' = err
               /\ err' # err => UNCHANGED <<inputs, operations, outputs, values, nextID, handles>>
      BY DEF Quiet, SetErr
<1>3. [Next]_vars =>
        [/\ err # "none" => err' = err
         /\ err' # err => UNCHANGED <<inputs, operations, outputs, values, nextID, handles>>]_vars
      BY <1>1, <1>2
<1> QED BY <1>3, PTL DEF Spec, FailureLeavesNoTrace

(***************************************************************************)
(* Names.                                                                   *)
(***************************************************************************)

Generated(n) == ~n.blk /\ n.base \in GeneratedBases
IsBlockOutput(n) == ~n.blk /\ n.base \in OutputBases
IsInner(n) == n.blk \/ n.base \in InputBases
IsLocal(n) == IsInner(n) \/ IsBlockOutput(n)

IsBlockConst(n) == ~n.blk /\ n.base = "block_const"

(* What the code leaves to the client: none of its names is one the code      *)
(* makes up, like "add_0" or "cond_var_1", and it keeps the names of block     *)
(* constants apart.  A name is written here in one way only, its number apart  *)
(* from its base.                                                              *)
PlainNames ==
  \A i \in 1..Len(UserNames) :
    ~Generated(UserNames[i]) /\ ~IsLocal(UserNames[i]) /\ ~IsBlockConst(UserNames[i])

(* A name the main builder may have used so far, and those its program        *)
(* defines.                                                                  *)
IsMain(n, next) == ~IsLocal(n) /\ ~IsBlockConst(n) /\ (Generated(n) => n.id < next)
MainDefs == InputNames(inputs) \union OpDefs(operations, Len(operations))

(* A name that no later definition of the main block can have.                *)
Barred(n, known, next) ==
  IsLocal(n) \/ IsBlockConst(n) \/ n \in known \/ (Generated(n) /\ n.id < next)

(* What the client can hold: a main value, defined; or a value that the main  *)
(* block does not define and never will, from a block or defined by nothing.  *)
IsHandle(v, defs, known, next) ==
  /\ v.home = Main => v.name \in defs
  /\ v.home # Main => v.name \notin defs /\ Barred(v.name, known, next)
  /\ v.home <= Main => ~IsLocal(v.name)
  /\ v.home > Main => IsInner(v.name)

(* The values an operation could be given when it was added: those the client *)
(* holds, main values as far as they were defined.                            *)
ScopeBefore(i) == {v \in handles : v.home = Main => v.name \in DefsBefore(i)}

(* A nested block: what it defines, what its operations may refer to.         *)
LocalDefs(bb, j) == InputNames(bb.inputs) \union OpDefs(bb.operations, j - 1)
AllLocals(bb) == InputNames(bb.inputs) \union OpDefs(bb.operations, Len(bb.operations))
Known(a, scope) == a.byName => \E v \in scope : v.name = a.name /\ v.home = a.home
Refers(a, local, id, scope) ==
  Known(a, scope) /\ (a.byName /\ a.home = id => a.name \in local)

(* Inputs and operations of a block define every name once.                   *)
Distinct(ins, ops) ==
  /\ \A i, j \in 1..Len(ins) : i # j => ins[i].name # ins[j].name
  /\ OpsDistinct(ops) /\ InputNames(ins) \cap OpDefs(ops, Len(ops)) = {}

IsBlock(bb, scope) ==
  /\ \A n \in AllLocals(bb) : IsLocal(n)
  /\ \A j \in 1..Len(bb.operations) : \A a \in Elements(bb.operations[j].args) :
       Refers(a, LocalDefs(bb, j), bb.id, scope)
  /\ Distinct(bb.inputs, bb.operations)

(* A block whose callback runs: no output yet, and names that are still free. *)
Filling(bb, scope) ==
  /\ IsBlock(bb, scope) /\ bb.outputs = <<>>
  /\ \A n \in AllLocals(bb) : IsInner(n) /\ (n.blk => n.id < bb.nextID)

(* A block that is done: it yields values of these types.                     *)
Yields(bb, types) ==
  /\ Len(bb.outputs) = Len(types)
  /\ \A k \in 1..Len(types) :
       DefinedAs(bb.inputs, bb.operations, bb.outputs[k], types[k])
Done(bb, types, scope) ==
  IsBlock(bb, scope) /\ Elements(bb.outputs) \subseteq AllLocals(bb) /\ Yields(bb, types)

TypesOf(vs) == [k \in 1..Len(vs) |-> TypeOf(vs[k])]
OneBool == <<[dtype |-> "Bool", shape |-> <<>>]>>

ActiveFrame(f, scope) ==
  /\ \A k \in 1..Len(f.operands) : f.operands[k] \in scope
  /\ Filling(f.block, scope)
  /\ f.kind = "cond" /\ f.built # <<>> =>
       Len(f.built) = 1 /\ Done(f.built[1], TypesOf(f.results), scope)
  /\ f.kind = "while" =>
       /\ TypesOf(f.block.inputs) = TypesOf(f.operands)
       /\ f.built # <<>> =>
            /\ Len(f.built) = 1 /\ Done(f.built[1], OneBool, scope)
            /\ TypesOf(f.built[1].inputs) = TypesOf(f.operands)

(* An operation of the main block that could be given the values of scope.     *)
FlowAgrees(op) ==
  op.blocks # <<>> =>
    LET results == [k \in 1..Len(op.outs) |-> op.outs[k].type]
    IN  /\ Len(op.blocks) = 2 /\ Yields(op.blocks[2], results)
        /\ op.type = "cond" => Yields(op.blocks[1], results)
        /\ op.type = "while_loop" =>
             /\ Yields(op.blocks[1], OneBool)
             /\ TypesOf(op.blocks[1].inputs) = results /\ TypesOf(op.blocks[2].inputs) = results
             /\ Len(op.args) = Len(op.outs)
Sound(op, scope) ==
  /\ \A a \in Elements(op.args) : Known(a, scope)
  /\ \A bb \in Elements(op.blocks) :
       IsBlock(bb, scope) /\ Elements(bb.outputs) \subseteq AllLocals(bb)
  /\ FlowAgrees(op)

MainInv ==
  /\ Distinct(inputs, operations)
  /\ \A n \in DOMAIN values : IsMain(n, nextID)
  /\ \A n \in MainDefs :
       n \in DOMAIN values /\ DefinedAs(inputs, operations, n, TypeOf(values[n]))
  /\ \A i \in 1..Len(operations) : Sound(operations[i], ScopeBefore(i))
HeldInv ==
  /\ \A v \in handles : IsHandle(v, MainDefs, DOMAIN values, nextID)
  /\ \A n \in Elements(outputs) :
       n \in MainDefs \/ \E v \in handles : v.name = n /\ v.home # Main
FramesInv == \A k \in 1..Len(frames) : ActiveFrame(frames[k], handles)

(* The blocks being filled are different ones, and a value of one of them has  *)
(* a name that block defines.                                                 *)
OwnInv ==
  /\ \A v \in handles : v.home <= blocksMade
  /\ \A k \in 1..Len(frames) : frames[k].block.id <= blocksMade
  /\ \A k, l \in 1..Len(frames) : frames[k].block.id = frames[l].block.id => k = l
  /\ \A k \in 1..Len(frames) : \A v \in handles :
       v.home = frames[k].block.id => v.name \in AllLocals(frames[k].block)

NameInv == BuilderTypes /\ MainInv /\ HeldInv /\ FramesInv /\ OwnInv

(***************************************************************************)
(* Definitions of a block: what one more operation does to them.            *)
(***************************************************************************)

LEMMA OpDefsOf ==
  ASSUME NEW ops, NEW n
  PROVE  \A x : x \in OpDefs(ops, n) <=> \E k \in 1..n : x \in OutNames(ops[k])
  BY DEF OpDefs

LEMMA OpDefsGrow ==
  ASSUME NEW ops, NEW m \in Int, NEW n \in Int, m <= n
  PROVE  OpDefs(ops, m) \subseteq OpDefs(ops, n)
  BY DEF OpDefs

LEMMA OpDefsConcat ==
  ASSUME NEW S, NEW ops \in Seq(S), NEW more \in Seq(S)
  PROVE  /\ \A n \in 0..Len(ops) : OpDefs(ops \o more, n) = OpDefs(ops, n)
         /\ OpDefs(ops \o more, Len(ops \o more)) =
              OpDefs(ops, Len(ops)) \union OpDefs(more, Len(more))
<1> DEFINE all == ops \o more
<1>1. /\ Len(ops) \in Nat /\ Len(more) \in Nat /\ Len(all) = Len(ops) + Len(more)
      /\ \A i \in 1..Len(ops) : all[i] = ops[i]
      /\ \A i \in 1..Len(more) : all[Len(ops) + i] = more[i]
      /\ \A i \in 1..Len(all) : i \in 1..Len(ops) \/ \E j \in 1..Len(more) : i = Len(ops) + j
      BY ConcatSequences
<1> HIDE DEF all
<1>2. ASSUME NEW n \in 0..Len(ops)
      PROVE  OpDefs(all, n) = OpDefs(ops, n)
  <2>1. \A k \in 1..n : k \in 1..Len(ops)
        BY <1>1
  <2> QED BY <1>1, <2>1 DEF OpDefs
<1>3. OpDefs(all, Len(all)) \subseteq OpDefs(ops, Len(ops)) \union OpDefs(more, Len(more))
  <2> SUFFICES ASSUME NEW k \in 1..Len(all), NEW x \in OutNames(all[k])
               PROVE  x \in OpDefs(ops, Len(ops)) \union OpDefs(more, Len(more))
      BY OpDefsOf
  <2>1. CASE k \in 1..Len(ops)
        BY <1>1, <2>1, OpDefsOf
  <2>2. CASE \E j \in 1..Len(more) : k = Len(ops) + j
        BY <1>1, <2>2, OpDefsOf
  <2> QED BY <1>1, <2>1, <2>2
<1>4. OpDefs(ops, Len(ops)) \subseteq OpDefs(all, Len(all))
  <2>1. \A k \in 1..Len(ops) : k \in 1..Len(all)
        BY <1>1
  <2> QED BY <1>1, <2>1, OpDefsOf
<1>5. OpDefs(more, Len(more)) \subseteq OpDefs(all, Len(all))
  <2> SUFFICES ASSUME NEW j \in 1..Len(more), NEW x \in OutNames(more[j])
               PROVE  x \in OpDefs(all, Len(all))
      BY OpDefsOf
  <2> DEFINE k == Len(ops) + j
  <2>1. k \in 1..Len(all) /\ all[k] = more[j]
        BY <1>1
  <2> HIDE DEF k
  <2> QED BY <2>1, OpDefsOf
<1> QED BY <1>2, <1>3, <1>4, <1>5 DEF all

LEMMA NoOpDefs == ASSUME NEW ops PROVE OpDefs(ops, 0) = {}
  BY DEF OpDefs

LEMMA DefinedAsMore ==
  ASSUME NEW S, NEW ins, NEW ops \in Seq(S), NEW more \in Seq(S), NEW n, NEW t
  PROVE  /\ DefinedAs(ins, ops, n, t) => DefinedAs(ins, ops \o more, n, t)
         /\ DefinedAs(<<>>, more, n, t) => DefinedAs(ins, ops \o more, n, t)
<1> DEFINE all == ops \o more
<1>1. /\ Len(ops) \in Nat /\ Len(more) \in Nat /\ Len(all) = Len(ops) + Len(more)
      /\ \A i \in 1..Len(ops) : all[i] = ops[i]
      /\ \A i \in 1..Len(more) : all[Len(ops) + i] = more[i]
      BY ConcatSequences
<1> HIDE DEF all
<1>2. Elements(ops) \subseteq Elements(all)
  <2>1. \A i \in 1..Len(ops) : i \in 1..Len(all)
        BY <1>1
  <2> QED BY <1>1, <2>1 DEF Elements
<1>3. Elements(more) \subseteq Elements(all)
  <2>1. \A i \in 1..Len(more) : Len(ops) + i \in 1..Len(all)
        BY <1>1
  <2> QED BY <1>1, <2>1 DEF Elements
<1>4. Elements(<<>>) = {}
      BY DEF Elements
<1> QED BY <1>2, <1>3, <1>4 DEF DefinedAs, all

LEMMA DefinedAsInput ==
  ASSUME NEW S, NEW ins \in Seq(S), NEW v \in S, NEW ops, NEW n, NEW t
  PROVE  /\ DefinedAs(ins, ops, n, t) => DefinedAs(Append(ins, v), ops, n, t)
         /\ n = v.name /\ t = TypeOf(v) => DefinedAs(Append(ins, v), ops, n, t)
<1> DEFINE all == Append(ins, v)
<1>1. /\ Len(ins) \in Nat /\ Len(all) = Len(ins) + 1 /\ all[Len(ins) + 1] = v
      /\ \A i \in 1..Len(ins) : all[i] = ins[i]
      BY AppendSequence
<1> HIDE DEF all
<1>2. \A i \in 1..Len(ins) : i \in 1..Len(all)
      BY <1>1
<1>3. Len(ins) + 1 \in 1..Len(all)
      BY <1>1
<1>4. Elements(ins) \subseteq Elements(all) /\ v \in Elements(all)
      BY <1>1, <1>2, <1>3 DEF Elements
<1> QED BY <1>4 DEF DefinedAs, all

LEMMA DistinctMore ==
  ASSUME NEW S, NEW ins, NEW ops \in Seq(S), NEW more \in Seq(S), Distinct(ins, ops),
         OpsDistinct(more),
         OpDefs(more, Len(more)) \cap (InputNames(ins) \union OpDefs(ops, Len(ops))) = {}
  PROVE  Distinct(ins, ops \o more)
<1> DEFINE all == ops \o more
<1>1. /\ Len(ops) \in Nat /\ Len(more) \in Nat
      /\ \A i \in 1..Len(ops) : all[i] = ops[i]
      /\ \A i \in 1..Len(more) : all[Len(ops) + i] = more[i]
      /\ \A i \in 1..Len(all) : i \in 1..Len(ops) \/ \E j \in 1..Len(more) : i = Len(ops) + j
      BY ConcatSequences
<1>2. OpDefs(all, Len(all)) = OpDefs(ops, Len(ops)) \union OpDefs(more, Len(more))
      BY OpDefsConcat
<1> HIDE DEF all
<1>3. \A i \in 1..Len(ops) : OutNames(ops[i]) \subseteq OpDefs(ops, Len(ops))
      BY OpDefsOf
<1>4. \A i \in 1..Len(more) : OutNames(more[i]) \subseteq OpDefs(more, Len(more))
      BY OpDefsOf
<1>5. OpsDistinct(all)
  <2> SUFFICES ASSUME NEW i \in 1..Len(all), NEW j \in 1..Len(all), i # j
               PROVE  OutNames(all[i]) \cap OutNames(all[j]) = {}
      BY DEF OpsDistinct
  <2>1. CASE i \in 1..Len(ops) /\ j \in 1..Len(ops)
        BY <1>1, <2>1 DEF Distinct, OpsDistinct
  <2>2. CASE i \in 1..Len(ops) /\ \E l \in 1..Len(more) : j = Len(ops) + l
    <3>1. PICK l \in 1..Len(more) : j = Len(ops) + l
          BY <2>2
    <3>2. OutNames(all[i]) \subseteq OpDefs(ops, Len(ops))
          BY <1>1, <1>3, <2>2
    <3>3. OutNames(all[j]) \subseteq OpDefs(more, Len(more))
          BY <1>1, <1>4, <3>1
    <3> QED BY <3>2, <3>3
  <2>3. CASE j \in 1..Len(ops) /\ \E l \in 1..Len(more) : i = Len(ops) + l
    <3>1. PICK l \in 1..Len(more) : i = Len(ops) + l
          BY <2>3
    <3>2. OutNames(all[j]) \subseteq OpDefs(ops, Len(ops))
          BY <1>1, <1>3, <2>3
    <3>3. OutNames(all[i]) \subseteq OpDefs(more, Len(more))
          BY <1>1, <1>4, <3>1
    <3> QED BY <3>2, <3>3
  <2>4. CASE /\ \E l \in 1..Len(more) : i = Len(ops) + l
             /\ \E l \in 1..Len(more) : j = Len(ops) + l
        BY <1>1, <2>4 DEF OpsDistinct
  <2> QED BY <1>1, <2>1, <2>2, <2>3, <2>4
<1>6. InputNames(ins) \cap OpDefs(all, Len(all)) = {}
      BY <1>2 DEF Distinct
<1> QED BY <1>5, <1>6 DEF Distinct, all

LEMMA DistinctInput ==
  ASSUME NEW S, NEW ins \in Seq(S), NEW v \in S, NEW ops, Distinct(ins, ops),
         v.name \notin InputNames(ins) \union OpDefs(ops, Len(ops))
  PROVE  /\ Distinct(Append(ins, v), ops)
         /\ InputNames(Append(ins, v)) = InputNames(ins) \union {v.name}
<1> DEFINE all == Append(ins, v)
<1>1. /\ Len(ins) \in Nat /\ Len(all) = Len(ins) + 1 /\ all[Len(ins) + 1] = v
      /\ \A i \in 1..Len(ins) : all[i] = ins[i]
      BY AppendSequence
<1> HIDE DEF all
<1>2. \A i \in 1..Len(all) : i \in 1..Len(ins) \/ i = Len(ins) + 1
      BY <1>1
<1>3. \A i \in 1..Len(ins) : ins[i].name # v.name
      BY DEF InputNames
<1>4. \A i, j \in 1..Len(all) : i # j => all[i].name # all[j].name
      BY <1>1, <1>2, <1>3 DEF Distinct
<1>5. InputNames(all) = InputNames(ins) \union {v.name}
  <2>1. \A i \in 1..Len(ins) : i \in 1..Len(all)
        BY <1>1
  <2>2. Len(ins) + 1 \in 1..Len(all)
        BY <1>1
  <2> QED BY <1>1, <1>2, <2>1, <2>2 DEF InputNames
<1> QED BY <1>4, <1>5 DEF Distinct, all

LEMMA OneOpDefs ==
  ASSUME NEW op
  PROVE  OpDefs(<<op>>, Len(<<op>>)) = OutNames(op) /\ OpsDistinct(<<op>>)
<1>1. Len(<<op>>) = 1 /\ <<op>>[1] = op /\ \A i \in 1..1 : i = 1
      OBVIOUS
<1>2. OpDefs(<<op>>, Len(<<op>>)) = OutNames(op)
      BY <1>1, OpDefsOf
<1> QED BY <1>1, <1>2 DEF OpsDistinct

LEMMA OneOut ==
  ASSUME NEW op, NEW o, op.outs = <<o>>
  PROVE  OutNames(op) = {o.name} /\ Elements(op.outs) = {o}
<1>1. Len(<<o>>) = 1 /\ <<o>>[1] = o /\ \A i \in 1..1 : i = 1
      OBVIOUS
<1> QED BY <1>1 DEF OutNames, Elements

(* More defined main names do not disturb what was built on fewer.           *)

LEMMA MoreNames ==
  ASSUME NEW D, NEW E, D \subseteq E
  PROVE  /\ \A bb : IsBlock(bb, D) => IsBlock(bb, E)
         /\ \A bb : Filling(bb, D) => Filling(bb, E)
         /\ \A bb, types : Done(bb, types, D) => Done(bb, types, E)
         /\ \A f : ActiveFrame(f, D) => ActiveFrame(f, E)
         /\ \A a : Known(a, D) => Known(a, E)
<1>1. \A a : Known(a, D) => Known(a, E)
      BY DEF Known
<1>2. \A a, local, id : Refers(a, local, id, D) => Refers(a, local, id, E)
      BY <1>1 DEF Refers
<1>3. \A bb : IsBlock(bb, D) => IsBlock(bb, E)
      BY <1>2 DEF IsBlock
<1>4. \A bb : Filling(bb, D) => Filling(bb, E)
      BY <1>3 DEF Filling
<1>5. \A bb, types : Done(bb, types, D) => Done(bb, types, E)
      BY <1>3 DEF Done
<1>6. ASSUME NEW f, ActiveFrame(f, D)
      PROVE  ActiveFrame(f, E)
      BY <1>4, <1>5, <1>6 DEF ActiveFrame
<1> QED BY <1>1, <1>3, <1>4, <1>5, <1>6

(***************************************************************************)
(* The block a callback fills.                                              *)
(***************************************************************************)

(* What a callback can pass on, to an operation or as a result.              *)
Usable(v, bb, scope) ==
  /\ v \in scope /\ ~IsBlockOutput(v.name)
  /\ v.home = bb.id => v.name \in AllLocals(bb)

LEMMA UsableRefers ==
  ASSUME NEW D, NEW bb, NEW v \in Values, Usable(v, bb, D)
  PROVE  Refers(Bind(v), AllLocals(bb), bb.id, D) /\ ~IsBlockOutput(v.name)
<1>1. Bind(v).name = v.name /\ Bind(v).home = v.home
      BY BindFields
<1> QED BY <1>1 DEF Usable, Refers, Known

(* Block b2 is bb with these operations added.                               *)
Extends(b2, bb, more) ==
  /\ bb.operations \in Seq(BlockOps) /\ bb.inputs \in Seq(Values)
  /\ \A j \in 1..Len(bb.operations) :
       b2.operations[j] = bb.operations[j] /\ LocalDefs(b2, j) = LocalDefs(bb, j)
  /\ \A j \in 1..Len(more) :
       /\ b2.operations[Len(bb.operations) + j] = more[j]
       /\ AllLocals(bb) \subseteq LocalDefs(b2, Len(bb.operations) + j)
  /\ \A j \in 1..Len(b2.operations) :
       j \in 1..Len(bb.operations) \/ \E l \in 1..Len(more) : j = Len(bb.operations) + l

LEMMA LocalDefsAt ==
  ASSUME NEW bb \in Blocks, NEW more \in Seq(BlockOps), NEW b2, b2.inputs = bb.inputs,
         b2.operations = bb.operations \o more
  PROVE  Extends(b2, bb, more)
<1> DEFINE ops == bb.operations
           all == ops \o more
<1>1. ops \in Seq(BlockOps) /\ bb.inputs \in Seq(Values)
      BY PairsAre DEF Blocks
<1> HIDE DEF ops
<1>2. /\ Len(ops) \in Nat /\ Len(more) \in Nat
      /\ \A i \in 1..Len(ops) : all[i] = ops[i]
      /\ \A i \in 1..Len(more) : all[Len(ops) + i] = more[i]
      /\ \A i \in 1..Len(all) : i \in 1..Len(ops) \/ \E j \in 1..Len(more) : i = Len(ops) + j
      BY <1>1, ConcatSequences
<1>3. ASSUME NEW j \in 1..Len(ops)
      PROVE  OpDefs(all, j - 1) = OpDefs(ops, j - 1)
  <2>1. j - 1 \in 0..Len(ops)
        BY <1>2
  <2> QED BY <1>1, <2>1, OpDefsConcat
<1>4. ASSUME NEW j \in 1..Len(more)
      PROVE  OpDefs(ops, Len(ops)) \subseteq OpDefs(all, Len(ops) + j - 1)
  <2>1. Len(ops) \in 0..Len(ops) /\ Len(ops) \in Int /\ Len(ops) + j - 1 \in Int
        /\ Len(ops) <= Len(ops) + j - 1
        BY <1>2
  <2>2. OpDefs(all, Len(ops)) = OpDefs(ops, Len(ops))
        BY <1>1, <2>1, OpDefsConcat
  <2>3. OpDefs(all, Len(ops)) \subseteq OpDefs(all, Len(ops) + j - 1)
        BY <2>1, OpDefsGrow
  <2> QED BY <2>2, <2>3
<1>5. b2.operations = all
      BY DEF ops
<1> HIDE DEF all
<1>6. \A j \in 1..Len(ops) : LocalDefs(b2, j) = LocalDefs(bb, j)
      BY <1>3, <1>5 DEF LocalDefs, ops
<1>7. \A j \in 1..Len(more) : AllLocals(bb) \subseteq LocalDefs(b2, Len(ops) + j)
      BY <1>4, <1>5 DEF AllLocals, LocalDefs, ops
<1> QED BY <1>1, <1>2, <1>5, <1>6, <1>7 DEF ops, Extends

(* A block stays well-formed when operations join it whose results are new    *)
(* and whose arguments are known.                                            *)
Joins(more, bb, D) ==
  /\ OpsDistinct(more)
  /\ \A n \in OpDefs(more, Len(more)) : IsLocal(n) /\ n \notin AllLocals(bb)
  /\ \A k \in 1..Len(more) : \A a \in Elements(more[k].args) :
       Refers(a, AllLocals(bb), bb.id, D)

LEMMA BlockMore ==
  ASSUME NEW D, NEW bb \in Blocks, IsBlock(bb, D), NEW more \in Seq(BlockOps),
         Joins(more, bb, D), NEW b2 \in Blocks, b2.inputs = bb.inputs, b2.id = bb.id,
         b2.operations = bb.operations \o more
  PROVE  IsBlock(b2, D) /\ AllLocals(b2) = AllLocals(bb) \union OpDefs(more, Len(more))
<1>1. /\ bb.operations \in Seq(BlockOps) /\ bb.inputs \in Seq(Values)
      /\ \A j \in 1..Len(bb.operations) :
           b2.operations[j] = bb.operations[j] /\ LocalDefs(b2, j) = LocalDefs(bb, j)
      /\ \A j \in 1..Len(more) :
           /\ b2.operations[Len(bb.operations) + j] = more[j]
           /\ AllLocals(bb) \subseteq LocalDefs(b2, Len(bb.operations) + j)
      /\ \A j \in 1..Len(b2.operations) :
           j \in 1..Len(bb.operations) \/ \E l \in 1..Len(more) : j = Len(bb.operations) + l
  <2>1. Extends(b2, bb, more)
        BY LocalDefsAt
  <2> QED BY <2>1 DEF Extends
<1>2. AllLocals(b2) = AllLocals(bb) \union OpDefs(more, Len(more))
      BY <1>1, OpDefsConcat DEF AllLocals
<1>3. \A n \in AllLocals(b2) : IsLocal(n)
      BY <1>2 DEF IsBlock, Joins
<1>4. Distinct(b2.inputs, b2.operations)
  <2>1. OpDefs(more, Len(more)) \cap (InputNames(bb.inputs) \union
          OpDefs(bb.operations, Len(bb.operations))) = {}
        BY DEF AllLocals, Joins
  <2>2. Distinct(bb.inputs, bb.operations)
        BY DEF IsBlock
  <2>3. OpsDistinct(more)
        BY DEF Joins
  <2> QED BY <1>1, <2>1, <2>2, <2>3, DistinctMore
<1>5. ASSUME NEW j \in 1..Len(b2.operations), NEW a \in Elements(b2.operations[j].args)
      PROVE  Refers(a, LocalDefs(b2, j), b2.id, D)
  <2>1. CASE j \in 1..Len(bb.operations)
    <3>1. Refers(a, LocalDefs(bb, j), bb.id, D)
          BY <1>1, <1>5, <2>1 DEF IsBlock
    <3> QED BY <1>1, <2>1, <3>1
  <2>2. CASE \E l \in 1..Len(more) : j = Len(bb.operations) + l
    <3>1. PICK l \in 1..Len(more) : j = Len(bb.operations) + l
          BY <2>2
    <3>2. Refers(a, AllLocals(bb), bb.id, D) /\ AllLocals(bb) \subseteq LocalDefs(b2, j)
          BY <1>1, <1>5, <3>1 DEF Joins
    <3> QED BY <3>2 DEF Refers
  <2> QED BY <1>1, <2>1, <2>2
<1> QED BY <1>2, <1>3, <1>4, <1>5 DEF IsBlock

LEMMA BinaryKeepsFilling ==
  ASSUME NEW D, NEW bb \in Blocks, Filling(bb, D), NEW x \in Values, NEW y \in Values,
         Usable(x, bb, D), Usable(y, bb, D), NEW n \in NameRecords, NEW t \in TensorTypes,
         n.blk, n.id = bb.nextID, NEW o \in BlockOps, o.args = <<Bind(x), Bind(y)>>,
         o.outs = <<Out(n, t)>>, NEW b2 \in Blocks, b2.id = bb.id, b2.inputs = bb.inputs,
         b2.outputs = bb.outputs, b2.operations = Append(bb.operations, o),
         b2.nextID = bb.nextID + 1
  PROVE  Filling(b2, D) /\ AllLocals(b2) = AllLocals(bb) \union {n}
<1> DEFINE more == <<o>>
<1>1. IsBlock(bb, D) /\ bb.nextID \in Nat /\ bb.operations \in Seq(BlockOps)
      BY DEF Filling, Blocks
<1>2. OutNames(o) = {n}
  <2>1. Out(n, t).name = n
        BY OutFields
  <2> QED BY <2>1, OneOut
<1>3. more \in Seq(BlockOps) /\ OpsDistinct(more) /\ OpDefs(more, Len(more)) = {n}
      BY <1>2, OneOpDefs, SingletonSequence
<1>4. n \notin AllLocals(bb) /\ IsLocal(n)
      BY <1>1 DEF Filling, IsLocal, IsInner
<1>5. \A k \in 1..Len(more) : \A a \in Elements(more[k].args) :
        Refers(a, AllLocals(bb), bb.id, D)
  <2>1. \A k \in 1..Len(more) : more[k] = o
        OBVIOUS
  <2>2. \A a \in Elements(o.args) : a = Bind(x) \/ a = Bind(y)
    <3>1. Len(<<Bind(x), Bind(y)>>) = 2 /\ \A i \in 1..2 : i = 1 \/ i = 2
          OBVIOUS
    <3> QED BY <3>1 DEF Elements
  <2> QED BY <2>1, <2>2, UsableRefers
<1>6. b2.operations = bb.operations \o more
      BY <1>1, AppendSequence
<1> HIDE DEF more
<1>7. IsBlock(b2, D) /\ AllLocals(b2) = AllLocals(bb) \union {n}
  <2>1. Joins(more, bb, D)
        BY <1>3, <1>4, <1>5 DEF Joins
  <2>2. IsBlock(b2, D) /\ AllLocals(b2) = AllLocals(bb) \union OpDefs(more, Len(more))
        BY <1>1, <1>3, <1>6, <2>1, BlockMore
  <2> QED BY <1>3, <2>2
<1>8. \A m \in AllLocals(b2) : IsInner(m) /\ (m.blk => m.id < b2.nextID)
  <2>1. IsInner(n) /\ n.id < b2.nextID
        BY <1>1 DEF IsInner
  <2>2. \A m \in AllLocals(bb) : IsInner(m) /\ (m.blk => m.id < b2.nextID)
    <3>1. ASSUME NEW m \in AllLocals(bb)
          PROVE  IsInner(m) /\ (m.blk => m.id < b2.nextID)
      <4>1. IsInner(m) /\ (m.blk => m.id < bb.nextID)
            BY DEF Filling
      <4>2. m.id \in Int
        <5>1. bb.inputs \in Seq(Values)
              BY PairsAre DEF Blocks
        <5>2. \A w \in Values : w.name \in NameRecords
              BY DEF Values
        <5>3. InputNames(bb.inputs) \subseteq NameRecords
              BY <5>1, <5>2 DEF InputNames
        <5>4. \A k \in 1..Len(bb.operations) : bb.operations[k].outs \in Seq(OutRecords)
          <6>1. \A k \in 1..Len(bb.operations) : bb.operations[k] \in BlockOps
                BY <1>1
          <6> QED BY <6>1 DEF BlockOps
        <5>5. \A k \in 1..Len(bb.operations) : OutNames(bb.operations[k]) \subseteq NameRecords
          <6>1. \A k \in 1..Len(bb.operations) : \A i \in 1..Len(bb.operations[k].outs) :
                  bb.operations[k].outs[i] \in OutRecords
                BY <5>4
          <6> QED BY <6>1 DEF OutNames, OutRecords
        <5>6. OpDefs(bb.operations, Len(bb.operations)) \subseteq NameRecords
              BY <5>5, OpDefsOf
        <5>7. m \in NameRecords
              BY <5>3, <5>6 DEF AllLocals
        <5> QED BY <5>7 DEF NameRecords
      <4> QED BY <1>1, <4>1, <4>2
    <3> QED BY <3>1
  <2> QED BY <1>7, <2>1, <2>2
<1> QED BY <1>7, <1>8 DEF Filling

LEMMA NewBlockFilling ==
  ASSUME NEW D, NEW id \in Nat \ {0}
  PROVE  /\ Filling(NewBlock(id, <<>>), D)
         /\ \A base \in InputBases, vs \in Pairs(Values) :
              LET bb == NewBlock(id, BlockInputs(Numbered(base), vs, id)) IN
              /\ Filling(bb, D) /\ TypesOf(bb.inputs) = TypesOf(vs)
              /\ bb.id = id /\ \A v \in Elements(bb.inputs) : v.home = id
         /\ NewBlock(id, <<>>).id = id
         /\ \A v \in Elements(NewBlock(id, <<>>).inputs) : v.home = id
<1>1. ASSUME NEW ins \in Pairs(Values),
             \A i, j \in 1..Len(ins) : i # j => ins[i].name # ins[j].name,
             \A i \in 1..Len(ins) :
               ins[i].home = id /\ ~ins[i].name.blk /\ ins[i].name.base \in InputBases
      PROVE  Filling(NewBlock(id, ins), D)
  <2> DEFINE bb == NewBlock(id, ins)
  <2>1. /\ bb.id = id /\ bb.inputs = ins /\ bb.outputs = <<>> /\ bb.operations = <<>>
        BY NewBlockIs
  <2> HIDE DEF bb
  <2>2. Len(<<>>) = 0 /\ OpDefs(<<>>, 0) = {}
        BY NoOpDefs
  <2>3. AllLocals(bb) = InputNames(ins)
        BY <2>1, <2>2 DEF AllLocals
  <2>4. \A n \in AllLocals(bb) : IsInner(n) /\ ~n.blk
        BY <1>1, <2>3 DEF InputNames, IsInner
  <2>5. Distinct(bb.inputs, bb.operations)
    <3>1. OpsDistinct(<<>>)
          BY <2>2 DEF OpsDistinct
    <3> QED BY <1>1, <2>1, <2>2, <3>1 DEF Distinct
  <2>6. IsBlock(bb, D)
    <3>1. \A n \in AllLocals(bb) : IsLocal(n)
          BY <2>4 DEF IsLocal
    <3>2. \A j \in 1..Len(bb.operations) : FALSE
          BY <2>1, <2>2
    <3> QED BY <2>5, <3>1, <3>2 DEF IsBlock
  <2> QED BY <2>1, <2>4, <2>6 DEF Filling, bb
<1>2. Filling(NewBlock(id, <<>>), D)
  <2>1. \A i \in 1..Len(<<>>) : FALSE
        OBVIOUS
  <2> QED BY <1>1, <2>1, NoInputs
<1>3. ASSUME NEW base \in InputBases, NEW vs \in Pairs(Values)
      PROVE  LET bb == NewBlock(id, BlockInputs(Numbered(base), vs, id)) IN
             /\ Filling(bb, D) /\ TypesOf(bb.inputs) = TypesOf(vs)
             /\ bb.id = id /\ \A v \in Elements(bb.inputs) : v.home = id
  <2> DEFINE ins == BlockInputs(Numbered(base), vs, id)
  <2>1. base \in NameBases
        BY BasesAre
  <2>2. /\ ins \in Pairs(Values) /\ Len(ins) = Len(vs)
        /\ \A i \in 1..Len(vs) :
             /\ ins[i].name = Name(base, FALSE, i - 1) /\ TypeOf(ins[i]) = TypeOf(vs[i])
             /\ ins[i].home = id /\ ~ins[i].isConst
        BY <2>1, BlockInputsAre
  <2> HIDE DEF ins
  <2>3. ASSUME NEW i \in 1..Len(ins)
        PROVE  /\ ins[i].home = id /\ ~ins[i].name.blk /\ ins[i].name.base = base
               /\ ins[i].name.id = i - 1 /\ i \in Int
    <3>1. i \in 1..Len(vs) /\ i - 1 \in Int /\ FALSE \in BOOLEAN /\ i \in Int
          BY <2>2
    <3>2. /\ ~Name(base, FALSE, i - 1).blk /\ Name(base, FALSE, i - 1).base = base
          /\ Name(base, FALSE, i - 1).id = i - 1
          BY ZenonT(40), <2>1, <3>1, NameFields
    <3> QED BY <2>2, <3>1, <3>2
  <2>4. \A i, j \in 1..Len(ins) : i # j => ins[i].name # ins[j].name
    <3> SUFFICES ASSUME NEW i \in 1..Len(ins), NEW j \in 1..Len(ins), ins[i].name = ins[j].name
                 PROVE  i = j
        OBVIOUS
    <3>1. i - 1 = j - 1 /\ i \in Int /\ j \in Int
          BY <2>3
    <3> QED BY <3>1
  <2>5. Filling(NewBlock(id, ins), D)
        BY <1>1, <2>2, <2>3, <2>4
  <2>6. NewBlock(id, ins).inputs = ins /\ NewBlock(id, ins).id = id
        BY <2>2, NewBlockIs
  <2>7. TypesOf(ins) = TypesOf(vs)
        BY <2>2 DEF TypesOf
  <2>8. \A v \in Elements(ins) : v.home = id
        BY <2>3 DEF Elements
  <2> QED BY <2>5, <2>6, <2>7, <2>8 DEF ins
<1>4. NewBlock(id, <<>>).id = id
      BY NoInputs, NewBlockIs
<1>5. Elements(NewBlock(id, <<>>).inputs) = {}
      BY NoInputs, NewInputs
<1> QED BY <1>2, <1>3, <1>4, <1>5

(* BlockOutput: the values a callback returns become the block's outputs.     *)
LEMMA BlockFinishes ==
  ASSUME NEW D, NEW bb \in Blocks, Filling(bb, D), NEW vs \in Pairs(Values),
         \A i \in 1..Len(vs) : Usable(vs[i], bb, D), NEW names,
         \A i \in 1..Len(vs) : names[i] \in NameRecords /\ IsBlockOutput(names[i]),
         \A i, j \in 1..Len(vs) : i # j => names[i] # names[j]
  PROVE  /\ Done(BlockOutputs(bb, names, vs), TypesOf(vs), D)
         /\ BlockOutputs(bb, names, vs).inputs = bb.inputs
<1> DEFINE b == BlockOutputs(bb, names, vs)
           more == [i \in 1..Len(vs) |-> IdentityOp(vs[i], names[i])]
           outs == [i \in 1..Len(vs) |-> names[i]]
<1>1. IsBlock(bb, D) /\ bb.outputs = <<>> /\ bb.operations \in Seq(BlockOps)
      BY DEF Filling, Blocks
<1>2. Len(vs) \in Nat /\ \A i \in 1..Len(vs) : vs[i] \in Values
      BY PairsAre
<1>3. \A i \in 1..Len(vs) : /\ Refers(Bind(vs[i]), AllLocals(bb), bb.id, D)
                            /\ vs[i].name # names[i]
      BY <1>2, UsableRefers
<1>4. /\ b \in Blocks /\ b.id = bb.id /\ b.inputs = bb.inputs
      /\ b.outputs = bb.outputs \o outs /\ b.operations = bb.operations \o more
  <2>1. \A i \in 1..Len(vs) : names[i] \in NameRecords
        OBVIOUS
  <2>2. /\ b \in Blocks /\ b.id = bb.id /\ b.inputs = bb.inputs
        /\ b.outputs = bb.outputs \o outs
        /\ (\A i \in 1..Len(vs) : vs[i].name # names[i]) => b.operations = bb.operations \o more
        BY ZenonT(40), <2>1, BlockOutputsAre
  <2> QED BY <1>3, <2>2
<1> HIDE DEF b
<1>5. \A i \in 1..Len(vs) : /\ IdentityOp(vs[i], names[i]) \in BlockOps
                            /\ IdentityOp(vs[i], names[i]).args = <<Bind(vs[i])>>
                            /\ IdentityOp(vs[i], names[i]).outs = <<Out(names[i], TypeOf(vs[i]))>>
      BY <1>2, IdentityIs
<1>6. more \in Seq(BlockOps) /\ Len(more) = Len(vs)
  <2>1. more \in [1..Len(vs) -> BlockOps]
        BY <1>5
  <2> HIDE DEF more
  <2> QED BY <1>2, <2>1, FunctionIsSequence
<1>7. \A i \in 1..Len(vs) : more[i] = IdentityOp(vs[i], names[i])
      OBVIOUS
<1>8. outs \in Seq(NameRecords) /\ Len(outs) = Len(vs) /\ \A i \in 1..Len(vs) : outs[i] = names[i]
  <2>1. outs \in [1..Len(vs) -> NameRecords] /\ \A i \in 1..Len(vs) : outs[i] = names[i]
        OBVIOUS
  <2> HIDE DEF outs
  <2> QED BY <1>2, <2>1, FunctionIsSequence
<1> HIDE DEF more, outs
<1>9. \A i \in 1..Len(vs) : OutNames(more[i]) = {names[i]}
  <2> SUFFICES ASSUME NEW i \in 1..Len(vs)
               PROVE  OutNames(more[i]) = {names[i]}
      OBVIOUS
  <2>1. more[i].outs = <<Out(names[i], TypeOf(vs[i]))>>
        BY <1>5, <1>7
  <2>2. Out(names[i], TypeOf(vs[i])).name = names[i]
        BY <1>2, OutFields, TypeOfIs
  <2> QED BY <2>1, <2>2, OneOut
<1>10. \A n : n \in OpDefs(more, Len(more)) <=> \E i \in 1..Len(vs) : n = names[i]
  <2>1. \A n : n \in OpDefs(more, Len(vs)) <=> \E i \in 1..Len(vs) : n \in OutNames(more[i])
        BY OpDefsOf
  <2>2. \A n : n \in OpDefs(more, Len(vs)) <=> \E i \in 1..Len(vs) : n = names[i]
    <3> SUFFICES ASSUME NEW n
                 PROVE  (\E i \in 1..Len(vs) : n \in OutNames(more[i]))
                          <=> \E i \in 1..Len(vs) : n = names[i]
        BY <2>1
    <3>1. \A i \in 1..Len(vs) : n \in OutNames(more[i]) <=> n = names[i]
      <4> SUFFICES ASSUME NEW i \in 1..Len(vs)
                   PROVE  n \in OutNames(more[i]) <=> n = names[i]
          OBVIOUS
      <4>1. OutNames(more[i]) = {names[i]}
            BY <1>9
      <4> QED BY <4>1
    <3> QED BY <3>1
  <2>3. OpDefs(more, Len(more)) = OpDefs(more, Len(vs))
        BY <1>6
  <2> QED BY <2>2, <2>3
<1>11. OpsDistinct(more)
  <2> SUFFICES ASSUME NEW i \in 1..Len(vs), NEW j \in 1..Len(vs), i # j
               PROVE  OutNames(more[i]) \cap OutNames(more[j]) = {}
      BY <1>6 DEF OpsDistinct
  <2>1. names[i] # names[j]
        OBVIOUS
  <2> QED BY <1>9, <2>1
<1>12. \A n \in OpDefs(more, Len(more)) : IsLocal(n) /\ n \notin AllLocals(bb)
  <2>1. \A n : IsBlockOutput(n) => IsLocal(n) /\ ~IsInner(n)
        BY DEF IsBlockOutput, IsLocal, IsInner, OutputBases, InputBases
  <2> QED BY <1>10, <2>1 DEF Filling
<1>13. \A k \in 1..Len(more) : \A a \in Elements(more[k].args) :
         Refers(a, AllLocals(bb), bb.id, D)
  <2> SUFFICES ASSUME NEW k \in 1..Len(vs), NEW a \in Elements(more[k].args)
               PROVE  Refers(a, AllLocals(bb), bb.id, D)
      BY <1>6
  <2>1. more[k].args = <<Bind(vs[k])>>
        BY <1>5, <1>7
  <2>2. Len(<<Bind(vs[k])>>) = 1 /\ <<Bind(vs[k])>>[1] = Bind(vs[k]) /\ \A i \in 1..1 : i = 1
        OBVIOUS
  <2>3. a = Bind(vs[k])
        BY <2>1, <2>2 DEF Elements
  <2> QED BY <1>3, <2>3
<1>14. IsBlock(b, D) /\ AllLocals(b) = AllLocals(bb) \union OpDefs(more, Len(more))
  <2>1. Joins(more, bb, D)
        BY <1>11, <1>12, <1>13 DEF Joins
  <2> QED BY <1>1, <1>4, <1>6, <2>1, BlockMore
<1>15. b.outputs = outs
       BY <1>1, <1>4, <1>8
<1>16. Elements(b.outputs) \subseteq AllLocals(b)
       BY <1>8, <1>10, <1>14, <1>15 DEF Elements
<1>17. Len(TypesOf(vs)) = Len(vs) /\ \A k \in 1..Len(vs) : TypesOf(vs)[k] = TypeOf(vs[k])
  <2>1. Len(TypesOf(vs)) = Len(vs)
        BY TypesOfPair DEF TypesOf
  <2> QED BY <2>1 DEF TypesOf
<1>18. Yields(b, TypesOf(vs))
  <2> SUFFICES ASSUME NEW k \in 1..Len(vs)
               PROVE  DefinedAs(b.inputs, b.operations, b.outputs[k], TypeOf(vs[k]))
      BY <1>8, <1>15, <1>17 DEF Yields
  <2>1. more[k].outs = <<Out(names[k], TypeOf(vs[k]))>>
        BY <1>5, <1>7
  <2>2. /\ Out(names[k], TypeOf(vs[k])).name = names[k]
        /\ Out(names[k], TypeOf(vs[k])).type = TypeOf(vs[k])
        BY <1>2, OutFields, TypeOfIs
  <2>3. more[k] \in Elements(more)
        BY <1>6 DEF Elements
  <2>4. DefinedAs(<<>>, more, names[k], TypeOf(vs[k]))
    <3> DEFINE o == Out(names[k], TypeOf(vs[k]))
    <3> HIDE DEF o
    <3>1. Elements(more[k].outs) = {o} /\ o.name = names[k] /\ o.type = TypeOf(vs[k])
          BY <2>1, <2>2, OneOut DEF o
    <3> QED BY <2>3, <3>1 DEF DefinedAs
  <2>5. DefinedAs(b.inputs, b.operations, names[k], TypeOf(vs[k]))
        BY <1>1, <1>4, <1>6, <2>4, DefinedAsMore
  <2> QED BY <1>8, <1>15, <2>5
<1> QED BY <1>4, <1>14, <1>16, <1>18 DEF Done, b

(***************************************************************************)
(* The main block.                                                          *)
(***************************************************************************)

LEMMA MainDefsAre ==
  ASSUME BuilderTypes
  PROVE  /\ Len(operations) \in Nat /\ DefsBefore(Len(operations) + 1) = MainDefs
         /\ \A i \in 1..Len(operations) + 1 : DefsBefore(i) \subseteq MainDefs
<1>1. Len(operations) \in Nat /\ Len(operations) + 1 - 1 = Len(operations)
      BY DEF BuilderTypes
<1>2. ASSUME NEW i \in 1..Len(operations) + 1
      PROVE  DefsBefore(i) \subseteq MainDefs
  <2>1. i - 1 \in Int /\ Len(operations) \in Int /\ i - 1 <= Len(operations)
        BY <1>1
  <2>2. OpDefs(operations, i - 1) \subseteq OpDefs(operations, Len(operations))
        BY <2>1, OpDefsGrow
  <2> QED BY <2>2 DEF DefsBefore, MainDefs
<1>3. DefsBefore(Len(operations) + 1) = MainDefs
      BY <1>1 DEF DefsBefore, MainDefs
<1> QED BY <1>1, <1>2, <1>3

LEMMA SoundMore ==
  ASSUME NEW D, NEW E, D \subseteq E
  PROVE  \A op : Sound(op, D) => Sound(op, E)
<1>1. /\ \A bb : IsBlock(bb, D) => IsBlock(bb, E)
      /\ \A a : Known(a, D) => Known(a, E)
      BY MoreNames
<1> QED BY <1>1 DEF Sound

(* A new operation of the main block, whose results have new names.           *)
Adds(op, vs) ==
  /\ op \in MainOps /\ vs \subseteq Values /\ Defines(op, vs)
  /\ operations' = Append(operations, op) /\ Register(vs) /\ UNCHANGED inputs
  /\ nextID' \in Nat /\ nextID' >= nextID
  /\ \A v \in vs : ~Barred(v.name, DOMAIN values, nextID) /\ IsMain(v.name, nextID')

LEMMA ScopeGrows ==
  ASSUME handles \subseteq handles', NEW i, DefsBefore(i) \subseteq DefsBefore(i)'
  PROVE  ScopeBefore(i) \subseteq ScopeBefore(i)'
  BY DEF ScopeBefore

LEMMA MainAdds ==
  ASSUME BuilderTypes, MainInv, HeldInv, handles \subseteq handles', NEW op, NEW vs,
         Adds(op, vs), Sound(op, handles)
  PROVE  MainInv' /\ MainDefs' = MainDefs \union {v.name : v \in vs}
<1> DEFINE news == {v.name : v \in vs}
<1>1. /\ op \in MainOps /\ operations \in Seq(MainOps) /\ <<op>> \in Seq(MainOps)
      /\ operations' = operations \o <<op>> /\ inputs' = inputs
      /\ Len(operations) \in Nat /\ Len(operations') = Len(operations) + 1
      /\ operations'[Len(operations) + 1] = op
      /\ \A i \in 1..Len(operations) : operations'[i] = operations[i]
  <2>1. op \in MainOps /\ operations \in Seq(MainOps) /\ operations' = Append(operations, op)
        BY DEF Adds, BuilderTypes
  <2>2. <<op>> \in Seq(MainOps) /\ Append(operations, op) = operations \o <<op>>
        BY <2>1, AppendSequence
  <2> QED BY <2>1, <2>2, AppendSequence DEF Adds
<1>2. OutNames(op) = news
  <2>1. OutNames(op) \subseteq news
        BY SMTT(30) DEF Adds, Defines, OutNames
  <2>2. news \subseteq OutNames(op)
        BY DEF Adds, Defines, OutNames
  <2> QED BY <2>1, <2>2
<1>3. OpsDistinct(<<op>>) /\ OpDefs(<<op>>, Len(<<op>>)) = news
      BY <1>2, OneOpDefs
<1> DEFINE all == operations \o <<op>>
<1>4. /\ OpDefs(operations', Len(operations')) = OpDefs(operations, Len(operations)) \union news
      /\ \A n \in 0..Len(operations) : OpDefs(operations', n) = OpDefs(operations, n)
  <2>1. operations \in Seq(MainOps) /\ <<op>> \in Seq(MainOps) /\ operations' = all
        BY <1>1
  <2>2. ASSUME NEW ops \in Seq(MainOps), NEW more \in Seq(MainOps)
        PROVE  /\ OpDefs(ops \o more, Len(ops \o more)) = OpDefs(ops, Len(ops))
                                                           \union OpDefs(more, Len(more))
               /\ \A n \in 0..Len(ops) : OpDefs(ops \o more, n) = OpDefs(ops, n)
        BY OpDefsConcat
  <2>3. /\ OpDefs(all, Len(all)) = OpDefs(operations, Len(operations))
                                     \union OpDefs(<<op>>, Len(<<op>>))
        /\ \A n \in 0..Len(operations) : OpDefs(all, n) = OpDefs(operations, n)
        BY <2>1, <2>2
  <2> HIDE DEF all
  <2> QED BY <1>3, <2>1, <2>3
<1>5. MainDefs' = MainDefs \union news
      BY <1>1, <1>4 DEF MainDefs
<1>6. news \cap DOMAIN values = {}
      BY DEF Adds, Barred
<1>7. MainDefs \subseteq DOMAIN values
      BY DEF MainInv
<1> HIDE DEF news
<1>8. Distinct(inputs', operations')
  <2>1. OpDefs(<<op>>, Len(<<op>>)) \cap
          (InputNames(inputs) \union OpDefs(operations, Len(operations))) = {}
        BY <1>3, <1>6, <1>7 DEF MainDefs
  <2>2. Distinct(inputs, operations)
        BY DEF MainInv
  <2> QED BY <1>1, <1>3, <2>1, <2>2, DistinctMore
<1>9. /\ DOMAIN values' = DOMAIN values \union news
      /\ \A n \in DOMAIN values \ news : values'[n] = values[n]
      /\ \A v \in vs : values'[v.name] = v
  <2>1. Register(vs) /\ \A v, w \in vs : w.name = v.name => w = v
        BY DEF Adds, Defines
  <2> QED BY <2>1, RegisterKeeps DEF news
<1>10. \A n \in DOMAIN values' : IsMain(n, nextID')
  <2>1. \A n \in news : IsMain(n, nextID')
        BY DEF Adds, news
  <2>2. ASSUME NEW n \in DOMAIN values
        PROVE  IsMain(n, nextID')
    <3>1. IsMain(n, nextID) /\ n.id \in Int
          BY DEF MainInv, BuilderTypes, NameRecords
    <3>2. nextID \in Int /\ nextID' \in Int /\ nextID' >= nextID
          BY DEF Adds, BuilderTypes
    <3> QED BY <3>1, <3>2 DEF IsMain
  <2> QED BY <1>9, <2>1, <2>2
<1>11. \A n \in MainDefs' :
         n \in DOMAIN values' /\ DefinedAs(inputs', operations', n, TypeOf(values'[n]))
  <2>1. ASSUME NEW n \in MainDefs
        PROVE  n \in DOMAIN values' /\ DefinedAs(inputs', operations', n, TypeOf(values'[n]))
    <3>1. n \in DOMAIN values /\ DefinedAs(inputs, operations, n, TypeOf(values[n]))
          BY DEF MainInv
    <3>2. DefinedAs(inputs, operations', n, TypeOf(values[n]))
          BY <1>1, <3>1, DefinedAsMore
    <3>3. values'[n] = values[n] /\ n \in DOMAIN values'
          BY <1>6, <1>9, <3>1
    <3> QED BY <1>1, <3>2, <3>3
  <2>2. ASSUME NEW v \in vs
        PROVE  v.name \in DOMAIN values' /\
               DefinedAs(inputs', operations', v.name, TypeOf(values'[v.name]))
    <3>1. v.name \in news /\ values'[v.name] = v
          BY <1>9 DEF news
    <3>2. PICK k \in 1..Len(op.outs) : op.outs[k].name = v.name /\ op.outs[k].type = TypeOf(v)
          BY DEF Adds, Defines
    <3>3. op \in Elements(<<op>>)
      <4>1. Len(<<op>>) = 1 /\ <<op>>[1] = op /\ 1 \in 1..1
            OBVIOUS
      <4> QED BY <4>1 DEF Elements
    <3>4. op.outs[k] \in Elements(op.outs)
          BY DEF Elements
    <3>5. DefinedAs(<<>>, <<op>>, v.name, TypeOf(v))
          BY <3>2, <3>3, <3>4 DEF DefinedAs
    <3>6. DefinedAs(inputs, operations', v.name, TypeOf(v))
          BY <1>1, <3>5, DefinedAsMore
    <3> QED BY <1>1, <1>9, <3>1, <3>6
  <2> QED BY <1>5, <2>1, <2>2 DEF news
<1>12. \A i \in 1..Len(operations') : Sound(operations'[i], ScopeBefore(i)')
  <2> SUFFICES ASSUME NEW i \in 1..Len(operations')
               PROVE  Sound(operations'[i], ScopeBefore(i)')
      OBVIOUS
  <2>1. DefsBefore(i)' = DefsBefore(i)
    <3>1. i - 1 \in 0..Len(operations)
          BY <1>1
    <3>2. OpDefs(operations', i - 1) = OpDefs(operations, i - 1)
          BY <1>4, <3>1
    <3> QED BY <1>1, <3>2 DEF DefsBefore
  <2>2. CASE i \in 1..Len(operations)
    <3>1. Sound(operations[i], ScopeBefore(i))
          BY <2>2 DEF MainInv
    <3>2. ScopeBefore(i) \subseteq ScopeBefore(i)'
          BY <2>1, ScopeGrows
    <3> QED BY <1>1, <2>2, <3>1, <3>2, SoundMore
  <2>3. CASE i = Len(operations) + 1
    <3>1. DefsBefore(i)' = MainDefs
          BY <2>1, <2>3, MainDefsAre
    <3>2. handles \subseteq ScopeBefore(i)'
          BY <3>1 DEF ScopeBefore, HeldInv, IsHandle
    <3> QED BY <1>1, <2>3, <3>2, SoundMore
  <2> QED BY <1>1, <2>2, <2>3
<1> QED BY <1>5, <1>8, <1>10, <1>11, <1>12 DEF MainInv, news

(* A new input of the main block.                                            *)
LEMMA MainInput ==
  ASSUME BuilderTypes, MainInv, handles \subseteq handles', NEW v \in Values,
         inputs' = Append(inputs, v), Register({v}), UNCHANGED <<operations, nextID>>,
         v.name \notin DOMAIN values, IsMain(v.name, nextID)
  PROVE  MainInv' /\ MainDefs' = MainDefs \union {v.name}
<1>1. inputs \in Seq(Values) /\ operations' = operations /\ nextID' = nextID
      BY DEF BuilderTypes
<1>2. MainDefs \subseteq DOMAIN values
      BY DEF MainInv
<1>3. v.name \notin InputNames(inputs) \union OpDefs(operations, Len(operations))
      BY <1>2 DEF MainDefs
<1>4. Distinct(inputs, operations)
      BY DEF MainInv
<1>5. /\ Distinct(inputs', operations')
      /\ InputNames(inputs') = InputNames(inputs) \union {v.name}
      BY <1>1, <1>3, <1>4, DistinctInput
<1>6. MainDefs' = MainDefs \union {v.name}
      BY <1>1, <1>5 DEF MainDefs
<1>7. /\ DOMAIN values' = DOMAIN values \union {v.name} /\ values'[v.name] = v
      /\ \A n \in DOMAIN values : values'[n] = values[n]
  <2>1. {w.name : w \in {v}} = {v.name}
        OBVIOUS
  <2>2. /\ DOMAIN values' = DOMAIN values \union {w.name : w \in {v}}
        /\ \A n \in DOMAIN values \ {w.name : w \in {v}} : values'[n] = values[n]
        /\ \A u \in {v} : (\A w \in {v} : w.name = u.name => w = u) => values'[u.name] = u
        BY RegisterKeeps
  <2> QED BY <2>1, <2>2
<1>8. \A n \in DOMAIN values' : IsMain(n, nextID')
      BY <1>1, <1>7 DEF MainInv
<1>9. \A n \in MainDefs' :
        n \in DOMAIN values' /\ DefinedAs(inputs', operations', n, TypeOf(values'[n]))
  <2>1. ASSUME NEW n \in MainDefs
        PROVE  n \in DOMAIN values' /\ DefinedAs(inputs', operations', n, TypeOf(values'[n]))
    <3>1. n \in DOMAIN values /\ DefinedAs(inputs, operations, n, TypeOf(values[n]))
          BY DEF MainInv
    <3>2. DefinedAs(inputs', operations, n, TypeOf(values[n]))
          BY <1>1, <3>1, DefinedAsInput
    <3> QED BY <1>1, <1>7, <3>1, <3>2
  <2>2. DefinedAs(inputs', operations', v.name, TypeOf(values'[v.name]))
        BY <1>1, <1>7, DefinedAsInput
  <2> QED BY <1>6, <1>7, <2>1, <2>2
<1>10. ASSUME NEW i \in 1..Len(operations')
       PROVE  Sound(operations'[i], ScopeBefore(i)')
  <2>1. Sound(operations[i], ScopeBefore(i))
        BY <1>1, <1>10 DEF MainInv
  <2>2. ScopeBefore(i) \subseteq ScopeBefore(i)'
    <3>1. DefsBefore(i) \subseteq DefsBefore(i)'
          BY <1>1, <1>5 DEF DefsBefore
    <3> QED BY <3>1, ScopeGrows
  <2> QED BY <1>1, <2>1, <2>2, SoundMore
<1> QED BY <1>5, <1>6, <1>8, <1>9, <1>10 DEF MainInv

(* A placeholder or a constant is registered, the program does not change.    *)
LEMMA MainRegisters ==
  ASSUME BuilderTypes, MainInv, handles \subseteq handles', NEW v \in Values, Register({v}),
         UNCHANGED <<inputs, operations, nextID>>, v.name \notin DOMAIN values,
         IsMain(v.name, nextID)
  PROVE  MainInv' /\ MainDefs' = MainDefs
<1>1. inputs' = inputs /\ operations' = operations /\ nextID' = nextID
      OBVIOUS
<1>2. MainDefs' = MainDefs
      BY <1>1 DEF MainDefs
<1>3. /\ DOMAIN values' = DOMAIN values \union {v.name}
      /\ \A n \in DOMAIN values : values'[n] = values[n]
  <2>1. {w.name : w \in {v}} = {v.name}
        OBVIOUS
  <2>2. /\ DOMAIN values' = DOMAIN values \union {w.name : w \in {v}}
        /\ \A n \in DOMAIN values \ {w.name : w \in {v}} : values'[n] = values[n]
        BY RegisterKeeps
  <2> QED BY <2>1, <2>2
<1>4. \A n \in DOMAIN values' : IsMain(n, nextID')
      BY <1>1, <1>3 DEF MainInv
<1>5. ASSUME NEW n \in MainDefs
      PROVE  n \in DOMAIN values' /\ DefinedAs(inputs', operations', n, TypeOf(values'[n]))
  <2>1. n \in DOMAIN values /\ DefinedAs(inputs, operations, n, TypeOf(values[n]))
        BY DEF MainInv
  <2> QED BY <1>1, <1>3, <2>1
<1>6. ASSUME NEW i \in 1..Len(operations')
      PROVE  Sound(operations'[i], ScopeBefore(i)')
  <2>1. Sound(operations[i], ScopeBefore(i)) /\ DefsBefore(i)' = DefsBefore(i)
        BY <1>1, <1>6 DEF MainInv, DefsBefore
  <2> QED BY <1>1, <2>1, ScopeGrows, SoundMore
<1> QED BY <1>1, <1>2, <1>4, <1>5, <1>6 DEF MainInv

LEMMA MainStays ==
  ASSUME MainInv, handles \subseteq handles', UNCHANGED <<inputs, operations, values, nextID>>
  PROVE  MainInv' /\ MainDefs' = MainDefs
<1>1. /\ inputs' = inputs /\ operations' = operations /\ values' = values /\ nextID' = nextID
      OBVIOUS
<1>2. MainDefs' = MainDefs /\ \A i : DefsBefore(i)' = DefsBefore(i)
      BY <1>1 DEF MainDefs, DefsBefore
<1>3. ASSUME NEW i \in 1..Len(operations')
      PROVE  Sound(operations'[i], ScopeBefore(i)')
  <2>1. Sound(operations[i], ScopeBefore(i))
        BY <1>1, <1>3 DEF MainInv
  <2> QED BY <1>1, <1>2, <2>1, ScopeGrows, SoundMore
<1> QED BY <1>1, <1>2, <1>3 DEF MainInv

(* What the client holds and has listed as outputs, when main names were added. *)
LEMMA HeldGrows ==
  ASSUME BuilderTypes, HeldInv, MainDefs \subseteq MainDefs', DOMAIN values \subseteq DOMAIN values',
         nextID' \in Nat, nextID' >= nextID,
         \A n \in MainDefs' : n \in MainDefs \/ ~Barred(n, DOMAIN values, nextID),
         NEW held, handles' = handles \union held,
         \A v \in held : IsHandle(v, MainDefs', DOMAIN values', nextID'),
         NEW ns, Elements(outputs') \subseteq Elements(outputs) \union ns,
         \A n \in ns : n \in MainDefs' \/ \E v \in handles : v.name = n /\ v.home # Main
  PROVE  HeldInv'
<1>1. ASSUME NEW v \in handles
      PROVE  IsHandle(v, MainDefs', DOMAIN values', nextID')
  <2>1. IsHandle(v, MainDefs, DOMAIN values, nextID)
        BY DEF HeldInv
  <2>2. Barred(v.name, DOMAIN values, nextID) => Barred(v.name, DOMAIN values', nextID')
    <3>1. v.name.id \in Int /\ nextID \in Nat
          BY DEF BuilderTypes, Values, NameRecords
    <3> QED BY <3>1 DEF Barred
  <2> QED BY <2>1, <2>2 DEF IsHandle
<1>2. \A n \in Elements(outputs) :
        n \in MainDefs' \/ \E v \in handles : v.name = n /\ v.home # Main
      BY DEF HeldInv
<1>3. \A v \in handles' : IsHandle(v, MainDefs', DOMAIN values', nextID')
      BY <1>1
<1>4. \A n \in Elements(outputs') :
        n \in MainDefs' \/ \E v \in handles' : v.name = n /\ v.home # Main
      BY <1>2
<1> QED BY <1>3, <1>4 DEF HeldInv

LEMMA FramesStay ==
  ASSUME FramesInv, handles \subseteq handles', UNCHANGED frames
  PROVE  FramesInv'
<1>1. \A f : ActiveFrame(f, handles) => ActiveFrame(f, handles')
      BY MoreNames
<1> QED BY <1>1 DEF FramesInv

(* Values that belong to no block join, and no frame does.                    *)
LEMMA OwnStays ==
  ASSUME BuilderTypes, OwnInv, UNCHANGED blocksMade,
         \A k \in 1..Len(frames') : k \in 1..Len(frames) /\ frames'[k] = frames[k],
         NEW held \in SUBSET Values, handles' = handles \union held,
         \A v \in held : v.home <= Main
  PROVE  OwnInv'
<1>1. \A v \in held : v.home \in Int
      BY DEF Values
<1>2. \A v \in handles' : v.home <= blocksMade'
      BY <1>1 DEF OwnInv, BuilderTypes, Main
<1>3. ASSUME NEW k \in 1..Len(frames')
      PROVE  /\ k \in 1..Len(frames) /\ frames'[k] = frames[k] /\ frames[k].block.id > Main
             /\ frames'[k].block.id <= blocksMade' /\ frames[k].block.id \in Int
  <2>1. k \in 1..Len(frames) /\ frames'[k] = frames[k]
        OBVIOUS
  <2>2. frames[k].block.id \in Nat \ {0} /\ frames[k].block.id <= blocksMade
        BY <2>1, FrameAt DEF Blocks, OwnInv
  <2> QED BY <2>1, <2>2 DEF Main
<1>4. \A k, l \in 1..Len(frames') : frames'[k].block.id = frames'[l].block.id => k = l
      BY <1>3 DEF OwnInv
<1>5. ASSUME NEW k \in 1..Len(frames'), NEW v \in handles', v.home = frames'[k].block.id
      PROVE  v.name \in AllLocals(frames'[k].block)
  <2>1. v \in handles
    <3>1. \A w \in held : ~(w.home = frames'[k].block.id)
          BY <1>1, <1>3 DEF Main
    <3> QED BY <1>5, <3>1
  <2> QED BY <1>3, <1>5, <2>1 DEF OwnInv
<1> QED BY <1>2, <1>3, <1>4, <1>5 DEF OwnInv

(* A new block takes the place of frame m, or of none.                        *)
LEMMA OwnJoins ==
  ASSUME BuilderTypes, OwnInv, blocksMade' = blocksMade + 1, NEW m, NEW f,
         \A k \in 1..Len(frames') :
            \/ k = m /\ frames'[k] = f
            \/ k # m /\ k \in 1..Len(frames) /\ frames'[k] = frames[k],
         f.block.id = blocksMade + 1, NEW held, handles' = handles \union held,
         \A v \in held : v.home = blocksMade + 1 /\ v.name \in AllLocals(f.block)
  PROVE  OwnInv'
<1>1. blocksMade \in Nat /\ \A v \in handles : v.home \in Int
      BY DEF BuilderTypes, Values
<1>2. \A v \in handles' : v.home <= blocksMade'
      BY <1>1 DEF OwnInv
<1>3. ASSUME NEW k \in 1..Len(frames)
      PROVE  frames[k].block.id \in Int /\ frames[k].block.id <= blocksMade
      BY <1>3, FrameAt DEF Blocks, OwnInv
<1>4. \A k \in 1..Len(frames') : frames'[k].block.id <= blocksMade'
      BY <1>1, <1>3
<1>5. \A k, l \in 1..Len(frames') : frames'[k].block.id = frames'[l].block.id => k = l
  <2> SUFFICES ASSUME NEW k \in 1..Len(frames'), NEW l \in 1..Len(frames'),
                      frames'[k].block.id = frames'[l].block.id
               PROVE  k = l
      OBVIOUS
  <2>1. CASE k = m /\ l = m
        BY <2>1
  <2>2. CASE k # m /\ l # m
        BY <2>2 DEF OwnInv
  <2>3. CASE k = m /\ l # m
    <3>1. frames'[k].block.id = blocksMade + 1 /\ l \in 1..Len(frames) /\ frames'[l] = frames[l]
          BY <2>3
    <3>2. frames'[l].block.id \in Int /\ frames'[l].block.id <= blocksMade
          BY <1>3, <3>1
    <3> QED BY <1>1, <3>1, <3>2
  <2>4. CASE k # m /\ l = m
    <3>1. frames'[l].block.id = blocksMade + 1 /\ k \in 1..Len(frames) /\ frames'[k] = frames[k]
          BY <2>4
    <3> QED BY <1>1, <1>3, <3>1
  <2> QED BY <2>1, <2>2, <2>3, <2>4
<1>6. ASSUME NEW k \in 1..Len(frames'), NEW v \in handles', v.home = frames'[k].block.id
      PROVE  v.name \in AllLocals(frames'[k].block)
  <2>1. CASE k = m
    <3>1. frames'[k] = f /\ v.home = blocksMade + 1
          BY <1>6, <2>1
    <3>2. v \in held
      <4>1. \A w \in handles : ~(w.home = blocksMade + 1)
            BY <1>1 DEF OwnInv
      <4> QED BY <3>1, <4>1
    <3> QED BY <3>1, <3>2
  <2>2. CASE k # m
    <3>1. k \in 1..Len(frames) /\ frames'[k] = frames[k]
          BY <2>2
    <3>2. v \in handles
          BY <1>1, <1>3, <1>6, <3>1
    <3> QED BY <1>6, <3>1, <3>2 DEF OwnInv
  <2> QED BY <2>1, <2>2
<1> QED BY <1>2, <1>4, <1>5, <1>6 DEF OwnInv

(* The block of frame m gets the value v.                                     *)
LEMMA OwnGets ==
  ASSUME BuilderTypes, OwnInv, UNCHANGED blocksMade, NEW m \in 1..Len(frames), NEW f,
         Len(frames') = Len(frames),
         \A k \in 1..Len(frames) : frames'[k] = IF k = m THEN f ELSE frames[k],
         f.block.id = frames[m].block.id,
         NEW v, AllLocals(f.block) = AllLocals(frames[m].block) \union {v.name},
         v.home = frames[m].block.id, handles' = handles \union {v}
  PROVE  OwnInv'
<1>1. \A k \in 1..Len(frames') : k \in 1..Len(frames) /\ frames'[k].block.id = frames[k].block.id
      OBVIOUS
<1>2. \A w \in handles' : w.home <= blocksMade'
      BY DEF OwnInv
<1>3. \A k \in 1..Len(frames') : frames'[k].block.id <= blocksMade'
      BY <1>1 DEF OwnInv
<1>4. \A k, l \in 1..Len(frames') : frames'[k].block.id = frames'[l].block.id => k = l
      BY <1>1 DEF OwnInv
<1>5. ASSUME NEW k \in 1..Len(frames'), NEW w \in handles', w.home = frames'[k].block.id
      PROVE  w.name \in AllLocals(frames'[k].block)
  <2>1. CASE w = v
    <3>1. k = m
          BY <1>1, <1>5, <2>1 DEF OwnInv
    <3> QED BY <2>1, <3>1
  <2>2. CASE w \in handles
    <3>1. w.name \in AllLocals(frames[k].block)
          BY <1>1, <1>5, <2>2 DEF OwnInv
    <3>2. CASE k = m
          BY <3>1, <3>2
    <3>3. CASE k # m
          BY <3>1, <3>3
    <3> QED BY <3>2, <3>3
  <2> QED BY <2>1, <2>2
<1> QED BY <1>2, <1>3, <1>4, <1>5 DEF OwnInv

(***************************************************************************)
(* The operations of the main builder keep the names in order.              *)
(***************************************************************************)

LEMMA FreshIsMain ==
  ASSUME PlainNames, NEW n \in FreshNames, NEW next
  PROVE  /\ n \in NameRecords /\ n \notin DOMAIN values /\ IsMain(n, next)
         /\ ~Barred(n, DOMAIN values, next)
<1>1. PICK i \in 1..Len(UserNames) : n = UserNames[i] /\ n \notin DOMAIN values
      BY DEF FreshNames
<1> QED BY <1>1, FreshAreNames DEF PlainNames, IsMain, Barred

LEMMA GeneratedIsMain ==
  ASSUME BuilderTypes, MainInv, NEW base \in GeneratedBases, NEW k \in Nat, NEW next \in Nat,
         next > nextID + k
  PROVE  LET n == Name(base, FALSE, nextID + k) IN
         /\ n \in NameRecords /\ n \notin DOMAIN values /\ IsMain(n, next)
         /\ ~Barred(n, DOMAIN values, nextID) /\ Generated(n) /\ n.base = base
<1> DEFINE n == Name(base, FALSE, nextID + k)
<1>1. n \in NameRecords /\ n.base = base /\ ~n.blk /\ n.id = nextID + k
      BY MainNames DEF NameBases
<1> HIDE DEF n
<1>2. Generated(n)
      BY <1>1 DEF Generated
<1>3. ~IsLocal(n) /\ ~IsBlockConst(n)
      BY <1>1 DEF GeneratedBases, AllOps, OutputBases, InputBases, IsLocal, IsInner,
         IsBlockOutput, IsBlockConst
<1>4. n \notin DOMAIN values
  <2>1. ~(nextID + k < nextID)
        BY DEF BuilderTypes
  <2> QED BY <1>1, <1>2, <2>1 DEF MainInv, IsMain
<1>5. IsMain(n, next)
      BY <1>1, <1>3 DEF IsMain, BuilderTypes
<1>6. ~Barred(n, DOMAIN values, nextID)
  <2>1. ~(nextID + k < nextID)
        BY DEF BuilderTypes
  <2> QED BY <1>1, <1>3, <1>4, <2>1 DEF Barred
<1> QED BY <1>1, <1>2, <1>4, <1>5, <1>6 DEF n

(* Arguments that refer to values the client holds.                          *)
AllKnown(args, scope) == \A k \in 1..Len(args) : Known(args[k], scope)

LEMMA HandleIsKnown ==
  ASSUME BuilderTypes, NEW v \in handles
  PROVE  Known(Bind(v), handles) /\ Known(BindByName(v), handles)
<1>1. v \in Values
      BY DEF BuilderTypes
<1>2. /\ Bind(v).name = v.name /\ Bind(v).home = v.home
      /\ BindByName(v).name = v.name /\ BindByName(v).home = v.home
      BY <1>1, BindFields
<1> QED BY <1>2 DEF Known

LEMMA PlainIsSound ==
  ASSUME NEW op, NEW D, op.blocks = <<>>, AllKnown(op.args, D)
  PROVE  Sound(op, D)
<1>1. Elements(op.blocks) = {}
      BY DEF Elements
<1>2. \A a \in Elements(op.args) : Known(a, D)
      BY DEF Elements, AllKnown
<1> QED BY <1>1, <1>2 DEF Sound, FlowAgrees

(* Frames and their blocks, when values of no block join.                     *)
LEMMA RestStays ==
  ASSUME BuilderTypes, FramesInv, OwnInv, UNCHANGED <<frames, blocksMade>>,
         NEW held \in SUBSET Values, handles' = handles \union held,
         \A v \in held : v.home <= Main
  PROVE  FramesInv' /\ OwnInv'
<1>1. FramesInv'
      BY FramesStay
<1>2. \A k \in 1..Len(frames') : k \in 1..Len(frames) /\ frames'[k] = frames[k]
      OBVIOUS
<1> QED BY <1>1, <1>2, OwnStays

(* A result of TopK that no operation defines: its name is used up.           *)
Undefined(v, vs) ==
  /\ v.home = Phantom /\ v.name \notin DOMAIN values /\ IsMain(v.name, nextID')
  /\ Generated(v.name) /\ \A w \in vs : w.name # v.name

(* An operation is added and the client holds its results.                   *)
LEMMA ProgramGrows ==
  ASSUME BuilderTypes, MainInv, HeldInv, NEW op, NEW vs, Adds(op, vs), Sound(op, handles),
         NEW held, handles' = handles \union held,
         \A v \in held : v \in vs \/ Undefined(v, vs),
         NEW ns, Elements(outputs') \subseteq Elements(outputs) \union ns,
         ns \subseteq {v.name : v \in vs}
  PROVE  MainInv' /\ HeldInv'
<1>1. MainInv' /\ MainDefs' = MainDefs \union {v.name : v \in vs}
      BY MainAdds
<1>2. ASSUME NEW v \in held
      PROVE  IsHandle(v, MainDefs', DOMAIN values', nextID')
  <2>1. CASE v \in vs
    <3>1. v.home = Main /\ ~IsLocal(v.name) /\ v.name \in MainDefs'
          BY <1>1, <2>1 DEF Adds, Defines, IsMain
    <3> QED BY <3>1 DEF IsHandle, Main
  <2>2. CASE Undefined(v, vs)
    <3>1. v.name \notin MainDefs
          BY <2>2 DEF Undefined, MainInv
    <3>2. v.name \notin MainDefs'
          BY <1>1, <2>2, <3>1 DEF Undefined
    <3>3. Barred(v.name, DOMAIN values', nextID') /\ ~IsLocal(v.name)
          BY <2>2 DEF Undefined, Barred, IsMain
    <3> QED BY <2>2, <3>2, <3>3 DEF Undefined, IsHandle, Main, Phantom
  <2> QED BY <1>2, <2>1, <2>2
<1>3. DOMAIN values \subseteq DOMAIN values'
  <2>1. Register(vs)
        BY DEF Adds
  <2> QED BY <2>1, RegisterKeeps
<1>4. /\ nextID' \in Nat /\ nextID' >= nextID
      /\ \A n \in MainDefs' : n \in MainDefs \/ ~Barred(n, DOMAIN values, nextID)
      BY <1>1 DEF Adds
<1>5. MainDefs \subseteq MainDefs' /\ \A n \in ns : n \in MainDefs'
      BY <1>1
<1>6. HeldInv'
      BY <1>2, <1>3, <1>4, <1>5, HeldGrows
<1> QED BY <1>1, <1>6

NamesKept == MainInv' /\ HeldInv' /\ FramesInv' /\ OwnInv'

LEMMA AddOpKeeps ==
  ASSUME NameInv, NEW type \in OpTypes, NEW args \in Seq(ArgRecords),
         AllKnown(args, handles), NEW n \in NameRecords,
         NEW t \in TensorTypes, AddOp(type, args, n, t), nextID' \in Nat, nextID' >= nextID,
         ~Barred(n, DOMAIN values, nextID), IsMain(n, nextID'),
         UNCHANGED <<inputs, frames, blocksMade>>,
         outputs' = outputs \/ outputs' = Append(outputs, n)
  PROVE  NamesKept
<1> DEFINE op == Operation(type, args, <<Out(n, t)>>, <<>>)
           v == Value(n, t, FALSE, Main)
<1>1. /\ op \in MainOps /\ v \in Values /\ Defines(op, {v}) /\ op.args = args
      /\ op.blocks = <<>>
  <2>1. op \in MainOps /\ v \in Values
        BY OneResult
  <2>2. op.args = args /\ op.blocks = <<>>
        BY DEF Operation
  <2>3. Defines(op, {v})
        BY OneResult
  <2> QED BY <2>1, <2>2, <2>3
<1>2. v.name = n /\ v.home = Main
      BY HomesAre, ValueFields
<1>3. operations' = Append(operations, op) /\ Register({v}) /\ handles' = handles \union {v}
      BY DEF AddOp
<1> HIDE DEF op, v
<1>4. Adds(op, {v})
      BY <1>1, <1>2, <1>3 DEF Adds
<1>5. Sound(op, handles)
      BY <1>1, PlainIsSound
<1>6. Elements(outputs') \subseteq Elements(outputs) \union {n}
  <2>1. outputs \in Seq(NameRecords)
        BY DEF NameInv, BuilderTypes
  <2>2. CASE outputs' = outputs
        BY <2>2
  <2>3. CASE outputs' = Append(outputs, n)
        BY <2>1, <2>3 DEF Elements
  <2> QED BY <2>2, <2>3
<1>7. {n} \subseteq {w.name : w \in {v}}
      BY <1>2
<1>8. MainInv' /\ HeldInv'
      BY <1>3, <1>4, <1>5, <1>6, <1>7, ProgramGrows DEF NameInv
<1>9. FramesInv' /\ OwnInv'
  <2>1. {v} \in SUBSET Values /\ \A w \in {v} : w.home <= Main
        BY <1>1, <1>2 DEF Main
  <2> QED BY <1>3, <2>1, RestStays DEF NameInv
<1> QED BY <1>8, <1>9 DEF NamesKept

(* A value is registered that the program does not compute.                  *)
LEMMA RegisterKeepsNames ==
  ASSUME NameInv, NEW v \in Values, Register({v}), handles' = handles \union {v},
         UNCHANGED <<operations, outputs, nextID, frames, blocksMade>>,
         ~Barred(v.name, DOMAIN values, nextID), IsMain(v.name, nextID),
         \/ inputs' = Append(inputs, v) /\ v.home = Main
         \/ inputs' = inputs /\ v.home < Main
  PROVE  NamesKept
<1>1. BuilderTypes /\ MainInv /\ HeldInv /\ FramesInv /\ OwnInv
      BY DEF NameInv
<1>2. v.name \notin DOMAIN values /\ ~IsLocal(v.name)
      BY DEF IsMain, Barred
<1>3. DOMAIN values' = DOMAIN values \union {v.name}
  <2>1. DOMAIN values' = DOMAIN values \union {w.name : w \in {v}}
        BY RegisterKeeps
  <2> QED BY <2>1
<1>4. /\ MainInv' /\ MainDefs \subseteq MainDefs' /\ MainDefs' \subseteq MainDefs \union {v.name}
      /\ IsHandle(v, MainDefs', DOMAIN values', nextID')
  <2>1. CASE inputs' = Append(inputs, v) /\ v.home = Main
    <3>1. MainInv' /\ MainDefs' = MainDefs \union {v.name}
          BY <1>1, <1>2, <2>1, MainInput
    <3> QED BY <1>2, <2>1, <3>1 DEF IsHandle, Main
  <2>2. CASE inputs' = inputs /\ v.home < Main
    <3>1. MainInv' /\ MainDefs' = MainDefs
          BY <1>1, <1>2, <2>2, MainRegisters
    <3>2. v.name \notin MainDefs' /\ Barred(v.name, DOMAIN values', nextID')
          BY <1>1, <1>2, <1>3, <3>1 DEF MainInv, Barred
    <3>3. v.home \in Int /\ v.home # Main /\ v.home <= Main /\ ~(v.home > Main)
          BY <2>2 DEF Values, Main
    <3>4. IsHandle(v, MainDefs', DOMAIN values', nextID')
          BY <1>2, <3>2, <3>3 DEF IsHandle
    <3> QED BY <3>1, <3>4
  <2> QED BY <2>1, <2>2
<1>5. HeldInv'
  <2> DEFINE held == {v}
             ns == {}
  <2>1. /\ handles' = handles \union held
        /\ \A w \in held : IsHandle(w, MainDefs', DOMAIN values', nextID')
        /\ Elements(outputs') \subseteq Elements(outputs) \union ns
        /\ \A n \in ns : n \in MainDefs' \/ \E w \in handles : w.name = n /\ w.home # Main
        BY <1>4
  <2> HIDE DEF held, ns
  <2>2. /\ nextID' \in Nat /\ nextID' >= nextID /\ DOMAIN values \subseteq DOMAIN values'
        /\ \A n \in MainDefs' : n \in MainDefs \/ ~Barred(n, DOMAIN values, nextID)
        BY <1>1, <1>3, <1>4 DEF BuilderTypes
  <2> QED BY <1>1, <1>4, <2>1, <2>2, HeldGrows
<1>6. FramesInv' /\ OwnInv'
  <2>1. {v} \in SUBSET Values /\ \A w \in {v} : w.home <= Main
        BY DEF Values, Main
  <2> QED BY <1>1, <2>1, RestStays
<1> QED BY <1>4, <1>5, <1>6 DEF NamesKept

(* Nothing of the program changes.                                           *)
LEMMA NothingNew ==
  ASSUME BuilderTypes, MainInv, HeldInv,
         UNCHANGED <<inputs, operations, outputs, values, nextID, handles>>
  PROVE  MainInv' /\ HeldInv'
<1>1. MainInv' /\ MainDefs' = MainDefs
      BY MainStays
<1>2. HeldInv'
      BY <1>1 DEF HeldInv
<1> QED BY <1>1, <1>2

LEMMA DeclareKeeps ==
  ASSUME PlainNames, NameInv, NEW n \in FreshNames, NEW t \in UserTypes,
         Input(n, t) \/ PlaceholderValue(n, t) \/ Const(n, t)
  PROVE  NamesKept
<1>1. /\ n \in NameRecords /\ t \in TensorTypes /\ IsMain(n, nextID)
      /\ ~Barred(n, DOMAIN values, nextID)
      BY FreshIsMain, UserTypesAre
<1>2. CASE Input(n, t)
  <2> DEFINE v == Value(n, t, FALSE, Main)
  <2>1. v \in Values /\ v.name = n /\ v.home = Main
        BY ZenonT(40), <1>1, HomesAre, ValueFields
  <2>2. /\ inputs' = Append(inputs, v) /\ Register({v}) /\ handles' = handles \union {v}
        /\ UNCHANGED <<operations, outputs, nextID, frames, blocksMade>>
        BY <1>2 DEF Input
  <2> HIDE DEF v
  <2> QED BY <1>1, <2>1, <2>2, RegisterKeepsNames
<1>3. CASE PlaceholderValue(n, t)
  <2> DEFINE v == Value(n, t, FALSE, Placeholder)
  <2>1. v \in Values /\ v.name = n /\ v.home = Placeholder
        BY ZenonT(40), <1>1, HomesAre, ValueFields
  <2>2. /\ inputs' = inputs /\ Register({v}) /\ handles' = handles \union {v}
        /\ UNCHANGED <<operations, outputs, nextID, frames, blocksMade>>
        BY <1>3 DEF PlaceholderValue
  <2> HIDE DEF v
  <2>3. v.home < Main
        BY <2>1 DEF Placeholder, Main
  <2> QED BY <1>1, <2>1, <2>2, <2>3, RegisterKeepsNames
<1>4. CASE Const(n, t)
  <2> DEFINE v == Value(n, t, TRUE, Embedded)
  <2>1. v \in Values /\ v.name = n /\ v.home = Embedded
        BY <1>1, HomesAre, ConstFields
  <2>2. /\ inputs' = inputs /\ Register({v}) /\ handles' = handles \union {v}
        /\ UNCHANGED <<operations, outputs, nextID, frames, blocksMade>>
        BY <1>4 DEF Const
  <2> HIDE DEF v
  <2>3. v.home < Main
        BY <2>1 DEF Embedded, Main
  <2> QED BY <1>1, <2>1, <2>2, <2>3, RegisterKeepsNames
<1> QED BY <1>2, <1>3, <1>4

LEMMA BoundArguments ==
  ASSUME BuilderTypes
  PROVE  /\ \A x \in handles : <<Bind(x)>> \in Seq(ArgRecords)
                               /\ AllKnown(<<Bind(x)>>, handles)
         /\ \A x, y \in handles : <<Bind(x), Bind(y)>> \in Seq(ArgRecords)
                                  /\ AllKnown(<<Bind(x), Bind(y)>>, handles)
         /\ \A vs \in Pairs(Values) : (\A i \in 1..Len(vs) : vs[i] \in handles) =>
              /\ [i \in 1..Len(vs) |-> Bind(vs[i])] \in Seq(ArgRecords)
              /\ AllKnown([i \in 1..Len(vs) |-> Bind(vs[i])], handles)
<1>1. \A v \in handles : Bind(v) \in ArgRecords /\ Known(Bind(v), handles)
      BY HandleIsKnown, BindFields DEF BuilderTypes
<1>2. ASSUME NEW x \in handles
      PROVE  <<Bind(x)>> \in Seq(ArgRecords) /\ AllKnown(<<Bind(x)>>, handles)
  <2> DEFINE a == Bind(x)
  <2>1. a \in ArgRecords /\ Known(a, handles)
        BY <1>1
  <2> HIDE DEF a
  <2>2. <<a>> \in Seq(ArgRecords) /\ AllKnown(<<a>>, handles)
        BY <2>1, SingletonSequence DEF AllKnown
  <2> QED BY <2>2 DEF a
<1>3. ASSUME NEW x \in handles, NEW y \in handles
      PROVE  /\ <<Bind(x), Bind(y)>> \in Seq(ArgRecords)
             /\ AllKnown(<<Bind(x), Bind(y)>>, handles)
  <2> DEFINE a == Bind(x)
             b == Bind(y)
  <2>1. a \in ArgRecords /\ Known(a, handles) /\ b \in ArgRecords /\ Known(b, handles)
        BY <1>1
  <2> HIDE DEF a, b
  <2>2. <<a, b>> \in Seq(ArgRecords)
        BY <2>1, PairSequence
  <2>3. AllKnown(<<a, b>>, handles)
    <3>1. Len(<<a, b>>) = 2 /\ <<a, b>>[1] = a /\ <<a, b>>[2] = b /\ \A i \in 1..2 : i = 1 \/ i = 2
          OBVIOUS
    <3> QED BY <2>1, <3>1 DEF AllKnown
  <2> QED BY <2>2, <2>3 DEF a, b
<1>4. ASSUME NEW vs \in Pairs(Values), \A i \in 1..Len(vs) : vs[i] \in handles
      PROVE  /\ [i \in 1..Len(vs) |-> Bind(vs[i])] \in Seq(ArgRecords)
             /\ AllKnown([i \in 1..Len(vs) |-> Bind(vs[i])], handles)
  <2> DEFINE args == [i \in 1..Len(vs) |-> Bind(vs[i])]
  <2>1. args \in Seq(ArgRecords) /\ Len(args) = Len(vs)
        BY BindsOfPair
  <2>2. \A i \in 1..Len(vs) : Known(args[i], handles)
        BY <1>1, <1>4
  <2> HIDE DEF args
  <2>3. AllKnown(args, handles)
        BY <2>1, <2>2 DEF AllKnown
  <2> QED BY <2>1, <2>3 DEF args
<1> QED BY <1>2, <1>3, <1>4

LEMMA UnaryKeeps ==
  ASSUME NameInv, NEW op \in DOMAIN Attributes, NEW x \in handles, Unary(op, x)
  PROVE  NamesKept
<1>1. BuilderTypes /\ MainInv /\ HeldInv /\ x \in Values /\ nextID \in Nat
      BY DEF NameInv, BuilderTypes
<1> DEFINE k == Attributes[op]
           n == Name(op, FALSE, nextID + k)
           t == UnaryType(op, x)
           args == <<Bind(x)>>
<1>2. k \in Nat /\ t \in TensorTypes /\ op \in OpTypes /\ op \in GeneratedBases
      BY <1>1, UnaryIsType, BasesAre DEF GeneratedBases
<1>3. nextID' = nextID + k + 1 /\ UNCHANGED <<inputs, frames, outputs, blocksMade>>
      BY DEF Unary
<1>4. AddOp(op, args, n, t)
      BY DEF Unary
<1> HIDE DEF k
<1>5. nextID' \in Nat /\ nextID' >= nextID /\ nextID' > nextID + k
      BY <1>1, <1>2, <1>3
<1>6. n \in NameRecords /\ ~Barred(n, DOMAIN values, nextID) /\ IsMain(n, nextID')
      BY <1>1, <1>2, <1>5, GeneratedIsMain
<1>7. args \in Seq(ArgRecords) /\ AllKnown(args, handles)
      BY <1>1, BoundArguments
<1> HIDE DEF n, t, args
<1> QED BY <1>2, <1>3, <1>4, <1>5, <1>6, <1>7, AddOpKeeps

LEMMA BinaryKeeps ==
  ASSUME NameInv, NEW op \in BinaryOps, NEW x \in handles, NEW y \in handles, Binary(op, x, y)
  PROVE  NamesKept
<1>1. BuilderTypes /\ MainInv /\ HeldInv /\ x \in Values /\ y \in Values /\ nextID \in Nat
      BY DEF NameInv, BuilderTypes
<1> DEFINE n == Name(op, FALSE, nextID)
           t == BinaryType(op, x, y)
           args == <<Bind(x), Bind(y)>>
<1>2. t \in TensorTypes /\ op \in OpTypes /\ op \in GeneratedBases
      BY <1>1, BinaryIsType, BasesAre DEF GeneratedBases, BinaryOps, AllOps
<1>3. nextID' = nextID + 1 /\ UNCHANGED <<inputs, frames, outputs, blocksMade>>
      BY DEF Binary
<1>4. AddOp(op, args, n, t)
      BY DEF Binary
<1>5. nextID' \in Nat /\ nextID' >= nextID /\ nextID' > nextID + 0 /\ nextID + 0 = nextID
      BY <1>1, <1>3
<1>6. n \in NameRecords /\ ~Barred(n, DOMAIN values, nextID) /\ IsMain(n, nextID')
  <2> DEFINE m == Name(op, FALSE, nextID + 0)
  <2>1. m \in NameRecords /\ ~Barred(m, DOMAIN values, nextID) /\ IsMain(m, nextID')
        BY <1>1, <1>2, <1>5, GeneratedIsMain, 0 \in Nat
  <2> QED BY <1>5, <2>1
<1>7. args \in Seq(ArgRecords) /\ AllKnown(args, handles)
      BY <1>1, BoundArguments
<1> HIDE DEF n, t, args
<1> QED BY <1>2, <1>3, <1>4, <1>5, <1>6, <1>7, AddOpKeeps

LEMMA ConcatKeeps ==
  ASSUME NameInv, NEW vs \in Tuples(handles, client.outs), Concat(vs)
  PROVE  NamesKept
<1>1. BuilderTypes /\ MainInv /\ HeldInv /\ FramesInv /\ OwnInv /\ nextID \in Nat
      BY DEF NameInv, BuilderTypes
<1>2. vs \in Pairs(Values) /\ \A i \in 1..Len(vs) : vs[i] \in handles
      BY <1>1, HandleTuples
<1>3. CASE vs = <<>>
  <2>1. UNCHANGED <<inputs, operations, outputs, values, nextID, handles>>
        /\ UNCHANGED <<frames, blocksMade>>
        BY <1>3 DEF Concat
  <2>2. MainInv' /\ HeldInv'
        BY <1>1, <2>1, NothingNew
  <2>3. FramesInv' /\ OwnInv'
    <3>1. {} \in SUBSET Values /\ handles' = handles \union {}
          BY <2>1
    <3> QED BY <1>1, <2>1, <3>1, RestStays
  <2> QED BY <2>2, <2>3 DEF NamesKept
<1>4. CASE vs # <<>>
  <2> DEFINE t == [dtype |-> vs[1].dtype,
                   shape |-> [vs[1].shape EXCEPT ![1] =
                                IF Len(vs) = 1 THEN @ ELSE @ + vs[2].shape[1]]]
             args == [i \in 1..Len(vs) |-> Bind(vs[i])]
             n == Name("concat", FALSE, nextID + 2)
  <2>1. /\ \A i \in 1..Len(vs) : vs[i].shape # <<>>
        /\ AddOp("concat", args, n, t) /\ nextID' = nextID + 3
        /\ UNCHANGED <<inputs, outputs, frames, blocksMade>>
        BY <1>4 DEF Concat
  <2>2. t \in TensorTypes
    <3>1. [vs[1].shape EXCEPT ![1] = IF Len(vs) = 1 THEN @ ELSE @ + vs[2].shape[1]] \in Shapes
          BY <1>2, <1>4, <2>1, ConcatIsShape
    <3>2. vs[1].dtype \in ElementTypes
      <4>1. 1 \in 1..Len(vs)
            BY <1>2, <1>4, PairsAre
      <4> QED BY <1>2, <4>1, PairsAre, TypeOfIs
    <3> QED BY <3>1, <3>2, TypeFields
  <2>3. args \in Seq(ArgRecords) /\ AllKnown(args, handles)
        BY <1>1, <1>2, BoundArguments
  <2>4. "concat" \in GeneratedBases /\ "concat" \in OpTypes
        BY DEF GeneratedBases, AllOps, OpTypes
  <2>5. nextID' \in Nat /\ nextID' >= nextID /\ nextID' > nextID + 2 /\ 2 \in Nat
        BY <1>1, <2>1
  <2>6. n \in NameRecords /\ ~Barred(n, DOMAIN values, nextID) /\ IsMain(n, nextID')
        BY <1>1, <2>4, <2>5, GeneratedIsMain
  <2> HIDE DEF t, args, n
  <2> QED BY <2>1, <2>2, <2>3, <2>4, <2>5, <2>6, AddOpKeeps
<1> QED BY <1>3, <1>4

LEMMA TopKKeeps ==
  ASSUME NameInv, NEW x \in handles, TopK(x)
  PROVE  NamesKept
<1>1. BuilderTypes /\ MainInv /\ HeldInv /\ x \in Values /\ nextID \in Nat
      BY DEF NameInv, BuilderTypes
<1> DEFINE t == [dtype |-> x.dtype, shape |-> <<1>>]
           t2 == [dtype |-> "Int32", shape |-> <<1>>]
           n == Name("topk", FALSE, nextID + 3)
           m == Name("topk_indices", FALSE, nextID + 4)
           v == Value(n, t, FALSE, Main)
           indices == Value(m, t2, FALSE, Phantom)
           args == <<Bind(x)>>
           op == Operation("topk", args, <<Out(v.name, t)>>, <<>>)
<1>2. t \in TensorTypes /\ t2 \in TensorTypes
  <2>1. <<1>> \in Shapes
        BY SingletonSequence DEF Shapes, MaxRank
  <2>2. x.dtype \in ElementTypes /\ "Int32" \in ElementTypes
        BY <1>1, TypeOfIs DEF ElementTypes
  <2> QED BY <2>1, <2>2, TypeFields
<1>3. /\ operations' = Append(operations, op) /\ Register({v})
      /\ handles' = handles \union {v, indices}
      /\ nextID' = nextID + 5 /\ UNCHANGED <<inputs, outputs, frames, blocksMade>>
      BY DEF TopK
<1>4. nextID' \in Nat /\ nextID' >= nextID /\ nextID' > nextID + 3 /\ nextID' > nextID + 4
      BY <1>1, <1>3
<1>5. "topk" \in GeneratedBases /\ "topk_indices" \in GeneratedBases /\ "topk" \in OpTypes
      BY DEF GeneratedBases, AllOps, OpTypes
<1>6. /\ n \in NameRecords /\ ~Barred(n, DOMAIN values, nextID) /\ IsMain(n, nextID')
      /\ n.base = "topk"
      BY <1>1, <1>4, <1>5, GeneratedIsMain, 3 \in Nat
<1>7. /\ m \in NameRecords /\ m \notin DOMAIN values /\ IsMain(m, nextID')
      /\ Generated(m) /\ m.base = "topk_indices"
      BY <1>1, <1>4, <1>5, GeneratedIsMain, 4 \in Nat
<1>8. args \in Seq(ArgRecords) /\ AllKnown(args, handles)
      BY <1>1, BoundArguments
<1> HIDE DEF t, t2, n, m, args
<1>9. /\ v \in Values /\ v.name = n /\ v.home = Main
      /\ indices \in Values /\ indices.name = m /\ indices.home = Phantom
  <2>1. v \in Values /\ v.name = n /\ v.home = Main
        BY <1>2, <1>6, HomesAre, ValueFields
  <2>2. indices \in Values /\ indices.name = m /\ indices.home = Phantom
        BY <1>2, <1>7, HomesAre, ValueFields
  <2> QED BY <2>1, <2>2
<1>10. op \in MainOps /\ Defines(op, {v})
  <2> DEFINE o == Operation("topk", args, <<Out(n, t)>>, <<>>)
  <2>1. o \in MainOps /\ Defines(o, {Value(n, t, FALSE, Main)})
        BY <1>2, <1>5, <1>6, <1>8, OneResult
  <2>2. op = o
        BY <1>9
  <2> HIDE DEF o, op
  <2> QED BY <2>1, <2>2
<1>11. op.args = args /\ op.blocks = <<>>
       BY DEF Operation
<1> HIDE DEF op, v, indices
<1>12. Adds(op, {v})
       BY <1>3, <1>4, <1>6, <1>9, <1>10 DEF Adds
<1>13. Sound(op, handles)
       BY <1>8, <1>11, PlainIsSound
<1> DEFINE held == {v, indices}
           ns == {}
<1>14. /\ handles' = handles \union held /\ held \in SUBSET Values
       /\ \A w \in held : w.home <= Main
       /\ Elements(outputs') \subseteq Elements(outputs) \union ns
       /\ ns \subseteq {w.name : w \in {v}}
       BY <1>3, <1>9 DEF Main, Phantom
<1>15. \A w \in held : w \in {v} \/ Undefined(w, {v})
       BY <1>6, <1>7, <1>9 DEF Undefined
<1> HIDE DEF held, ns
<1>16. MainInv' /\ HeldInv'
       BY <1>1, <1>12, <1>13, <1>14, <1>15, ProgramGrows
<1>17. FramesInv' /\ OwnInv'
       BY <1>3, <1>14, RestStays DEF NameInv
<1> QED BY <1>16, <1>17 DEF NamesKept

LEMMA IdentityKeeps ==
  ASSUME PlainNames, NameInv, NEW x \in handles, NEW n \in FreshNames,
         AddOp("identity", <<Bind(x)>>, n, TypeOf(x)), UNCHANGED <<inputs, nextID, frames, blocksMade>>,
         outputs' = outputs \/ outputs' = Append(outputs, n)
  PROVE  NamesKept
<1>1. BuilderTypes /\ MainInv /\ HeldInv /\ x \in Values /\ nextID' \in Nat /\ nextID' >= nextID
      BY DEF NameInv, BuilderTypes
<1> DEFINE args == <<Bind(x)>>
           t == TypeOf(x)
<1>2. t \in TensorTypes /\ "identity" \in OpTypes
      BY <1>1, TypeOfIs, BasesAre
<1>3. n \in NameRecords /\ ~Barred(n, DOMAIN values, nextID) /\ IsMain(n, nextID')
      BY FreshIsMain
<1>4. args \in Seq(ArgRecords) /\ AllKnown(args, handles)
      BY <1>1, BoundArguments
<1>5. AddOp("identity", args, n, t) /\ UNCHANGED <<inputs, frames, blocksMade>>
      OBVIOUS
<1> HIDE DEF args, t
<1> QED BY <1>1, <1>2, <1>3, <1>4, <1>5, AddOpKeeps

LEMMA OutputKeeps ==
  ASSUME PlainNames, NameInv, NEW x \in handles, NEW n \in FreshNames \union {x.name},
         Output(n, x)
  PROVE  NamesKept
<1>1. BuilderTypes /\ MainInv /\ HeldInv /\ FramesInv /\ OwnInv
      BY DEF NameInv
<1>2. outputs' = Append(outputs, n) /\ UNCHANGED <<inputs, nextID, frames, blocksMade>>
      BY DEF Output
<1>3. CASE n # x.name
  <2>1. AddOp("identity", <<Bind(x)>>, n, TypeOf(x)) /\ n \in FreshNames
        BY <1>3 DEF Output
  <2> QED BY <1>2, <2>1, IdentityKeeps
<1>4. CASE n = x.name
  <2>1. UNCHANGED <<inputs, operations, values, nextID, frames, blocksMade>>
        /\ UNCHANGED handles
        BY <1>2, <1>4 DEF Output
  <2>2. MainInv' /\ MainDefs' = MainDefs
        BY <1>1, <2>1, MainStays
  <2> DEFINE held == {}
             ns == {x.name}
  <2>3. Elements(outputs') \subseteq Elements(outputs) \union ns
    <3>1. outputs \in Seq(NameRecords)
          BY <1>1 DEF BuilderTypes
    <3> QED BY <1>2, <1>4, <3>1 DEF Elements
  <2>4. x.name \in MainDefs' \/ x.home # Main
        BY <1>1, <2>2 DEF HeldInv, IsHandle
  <2>5. /\ handles' = handles \union held /\ held \in SUBSET Values
        /\ \A v \in held : v.home <= Main /\ IsHandle(v, MainDefs', DOMAIN values', nextID')
        /\ \A m \in ns : m \in MainDefs' \/ \E v \in handles : v.name = m /\ v.home # Main
        BY <2>1, <2>4
  <2>6. nextID' \in Nat /\ nextID' >= nextID
        BY <1>1, <2>1 DEF BuilderTypes
  <2> HIDE DEF held, ns
  <2>7. HeldInv'
        BY <1>1, <2>1, <2>2, <2>3, <2>5, <2>6, HeldGrows
  <2>8. FramesInv' /\ OwnInv'
        BY <1>1, <2>1, <2>5, RestStays
  <2> QED BY <2>2, <2>7, <2>8 DEF NamesKept
<1> QED BY <1>3, <1>4

(***************************************************************************)
(* Cond and WhileLoop keep the names in order.                              *)
(***************************************************************************)

LEMMA TopIsActive ==
  ASSUME BuilderTypes, FramesInv, InCallback
  PROVE  ActiveFrame(TopFrame, handles)
<1>1. Len(frames) \in 1..Len(frames)
      BY TopIs
<1> QED BY <1>1 DEF FramesInv, TopFrame

LEMMA HandlesAreUsable ==
  ASSUME BuilderTypes, HeldInv, OwnInv, NEW k \in 1..Len(frames), NEW v \in handles
  PROVE  v \in Values /\ Usable(v, frames[k].block, handles)
<1>1. v \in Values /\ v.home \in Int
      BY DEF BuilderTypes, Values
<1>2. ~IsBlockOutput(v.name)
  <2>1. IsHandle(v, MainDefs, DOMAIN values, nextID)
        BY DEF HeldInv
  <2>2. CASE v.home <= Main
        BY <2>1, <2>2 DEF IsHandle, IsLocal
  <2>3. CASE v.home > Main
        BY <2>1, <2>3 DEF IsHandle, IsInner, IsBlockOutput, InputBases, OutputBases
  <2> QED BY <1>1, <2>2, <2>3 DEF Main
<1>3. v.home = frames[k].block.id => v.name \in AllLocals(frames[k].block)
      BY DEF OwnInv
<1> QED BY <1>1, <1>2, <1>3 DEF Usable

LEMMA FramesSet ==
  ASSUME BuilderTypes, FramesInv, NEW k \in 1..Len(frames), NEW f \in Frames, SetFrame(k, f),
         handles \subseteq handles', ActiveFrame(f, handles')
  PROVE  FramesInv'
<1>1. /\ Len(frames') = Len(frames)
      /\ \A l \in 1..Len(frames) : frames'[l] = IF l = k THEN f ELSE frames[l]
      BY SetFrameIs
<1>2. \A g : ActiveFrame(g, handles) => ActiveFrame(g, handles')
      BY MoreNames
<1>3. \A l \in 1..Len(frames') : ActiveFrame(frames'[l], handles')
      BY <1>1, <1>2 DEF FramesInv
<1> QED BY <1>3 DEF FramesInv

LEMMA FramesPop ==
  ASSUME BuilderTypes, FramesInv, InCallback, PopFrame, handles \subseteq handles'
  PROVE  FramesInv'
<1>1. \A k \in 1..Len(frames') : k \in 1..Len(frames) /\ frames'[k] = frames[k]
      BY PopFrameIs
<1>2. \A f : ActiveFrame(f, handles) => ActiveFrame(f, handles')
      BY MoreNames
<1>3. \A k \in 1..Len(frames') : ActiveFrame(frames'[k], handles')
      BY <1>1, <1>2 DEF FramesInv
<1> QED BY <1>3 DEF FramesInv

LEMMA FramesPush ==
  ASSUME BuilderTypes, FramesInv, NEW f \in Frames, frames' = Append(frames, f),
         handles \subseteq handles', ActiveFrame(f, handles')
  PROVE  FramesInv'
<1>1. /\ Len(frames') = Len(frames) + 1 /\ Len(frames) \in Nat
      /\ \A k \in 1..Len(frames) : frames'[k] = frames[k]
      /\ frames'[Len(frames) + 1] = f
      BY PushIs DEF BuilderTypes
<1>2. \A k \in 1..Len(frames') : k \in 1..Len(frames) \/ k = Len(frames) + 1
      BY <1>1
<1>3. \A g : ActiveFrame(g, handles) => ActiveFrame(g, handles')
      BY MoreNames
<1>4. \A k \in 1..Len(frames') : ActiveFrame(frames'[k], handles')
      BY <1>1, <1>2, <1>3 DEF FramesInv
<1> QED BY <1>4 DEF FramesInv

(* The client is given a value of a block: no main name, now or later.        *)
LEMMA InnerIsHandle ==
  ASSUME MainInv, NEW v \in Values, v.home > Main, IsInner(v.name)
  PROVE  IsHandle(v, MainDefs, DOMAIN values, nextID)
<1>1. IsLocal(v.name) /\ v.name \notin MainDefs
      BY DEF IsLocal, MainInv, IsMain
<1>2. v.home # Main /\ ~(v.home <= Main)
      BY DEF Values, Main
<1> QED BY <1>1, <1>2 DEF IsHandle, Barred

(* The program stays as it is; the client is given values.                    *)
LEMMA MainKeeps ==
  ASSUME BuilderTypes, MainInv, HeldInv, UNCHANGED <<inputs, operations, outputs, values, nextID>>,
         NEW held, handles' = handles \union held,
         \A v \in held : IsHandle(v, MainDefs, DOMAIN values, nextID)
  PROVE  MainInv' /\ HeldInv'
<1>1. MainInv' /\ MainDefs' = MainDefs
      BY MainStays
<1>2. \A v \in held : IsHandle(v, MainDefs', DOMAIN values', nextID')
      BY <1>1
<1> DEFINE ns == {}
<1>3. /\ Elements(outputs') \subseteq Elements(outputs) \union ns
      /\ \A n \in ns : n \in MainDefs' \/ \E v \in handles : v.name = n /\ v.home # Main
      /\ nextID' \in Nat /\ nextID' >= nextID
      BY DEF BuilderTypes
<1> HIDE DEF ns
<1>4. HeldInv'
      BY <1>1, <1>2, <1>3, HeldGrows
<1> QED BY <1>1, <1>4

LEMMA BlockBinaryKeeps ==
  ASSUME NameInv, NEW k \in 1..Len(frames), NEW op \in BinaryOps, NEW x \in handles,
         NEW y \in handles, BlockBinary(k, op, x, y)
  PROVE  NamesKept
<1>1. BuilderTypes /\ MainInv /\ HeldInv /\ FramesInv /\ OwnInv
      BY DEF NameInv
<1> DEFINE bb == frames[k].block
<1>2. PICK f \in Frames, b2 \in Blocks, o \in BlockOps :
        \E v \in Values, n \in NameRecords, t \in TensorTypes :
          BinaryAdded(k, f, b2, o, v, n, t, x, y)
      BY <1>1, BlockBinaryIs
<1>3. PICK v \in Values, n \in NameRecords, t \in TensorTypes :
        BinaryAdded(k, f, b2, o, v, n, t, x, y)
      BY <1>2
<1>4. /\ SetFrame(k, f) /\ f.block = b2 /\ f.kind = frames[k].kind
      /\ f.operands = frames[k].operands /\ f.built = frames[k].built
      /\ f.results = frames[k].results /\ handles' = handles \union {v}
      BY <1>3 DEF BinaryAdded
<1>5. /\ b2.id = bb.id /\ b2.inputs = bb.inputs
      /\ b2.outputs = bb.outputs /\ b2.operations = Append(bb.operations, o)
      /\ b2.nextID = bb.nextID + 1
      /\ o.args = <<Bind(x), Bind(y)>> /\ o.outs = <<Out(n, t)>>
      /\ n.blk /\ n.id = bb.nextID /\ v.name = n /\ v.home = bb.id
      BY <1>3 DEF BinaryAdded
<1>6. /\ x \in Values /\ Usable(x, bb, handles) /\ y \in Values /\ Usable(y, bb, handles)
      BY <1>1, HandlesAreUsable
<1>7. bb \in Blocks /\ ActiveFrame(frames[k], handles)
      BY <1>1, FrameAt DEF FramesInv
<1>8. Filling(bb, handles)
      BY <1>7 DEF ActiveFrame
<1> HIDE DEF bb
<1>9. Filling(b2, handles) /\ AllLocals(b2) = AllLocals(bb) \union {n}
      BY <1>5, <1>6, <1>7, <1>8, BinaryKeepsFilling
<1>10. ActiveFrame(f, handles)
       BY <1>4, <1>5, <1>7, <1>9 DEF ActiveFrame, bb
<1>11. UNCHANGED <<inputs, operations, outputs, values, nextID>> /\ UNCHANGED blocksMade
       BY DEF BlockBinary
<1>12. MainInv' /\ HeldInv'
  <2>1. v.home > Main
        BY <1>5, <1>7 DEF Blocks, Main
  <2>2. IsInner(v.name)
        BY <1>5 DEF IsInner
  <2>3. IsHandle(v, MainDefs, DOMAIN values, nextID)
        BY <1>1, <2>1, <2>2, InnerIsHandle
  <2> DEFINE held == {v}
  <2>4. /\ handles' = handles \union held
        /\ \A w \in held : IsHandle(w, MainDefs, DOMAIN values, nextID)
        BY <1>4, <2>3
  <2> HIDE DEF held
  <2> QED BY <1>1, <1>11, <2>4, MainKeeps
<1>13. FramesInv'
  <2>1. handles \subseteq handles'
        BY <1>4
  <2>2. ActiveFrame(f, handles')
        BY <1>10, <2>1, MoreNames
  <2> QED BY <1>1, <1>4, <2>1, <2>2, FramesSet
<1>14. OwnInv'
  <2>1. /\ Len(frames') = Len(frames)
        /\ \A l \in 1..Len(frames) : frames'[l] = IF l = k THEN f ELSE frames[l]
        BY <1>1, <1>4, SetFrameIs
  <2>2. f.block.id = frames[k].block.id /\ v.home = frames[k].block.id
        BY <1>4, <1>5 DEF bb
  <2>3. AllLocals(f.block) = AllLocals(frames[k].block) \union {v.name}
        BY <1>4, <1>5, <1>9 DEF bb
  <2> QED BY <1>1, <1>4, <1>11, <2>1, <2>2, <2>3, OwnGets
<1> QED BY <1>12, <1>13, <1>14 DEF NamesKept

LEMMA BlockConstKeeps ==
  ASSUME NameInv, NEW t \in UserTypes, BlockConst(t)
  PROVE  NamesKept
<1>1. BuilderTypes /\ MainInv /\ HeldInv /\ FramesInv /\ OwnInv
      BY DEF NameInv
<1>2. PICK v \in Values : /\ handles' = handles \union {v} /\ v.home = Embedded
                          /\ v.name.base = "block_const" /\ ~v.name.blk
      BY BlockConstIs
<1>3. UNCHANGED <<inputs, operations, outputs, values, nextID>>
      /\ UNCHANGED <<frames, blocksMade>>
      BY DEF BlockConst
<1>4. IsBlockConst(v.name) /\ ~IsLocal(v.name)
      BY <1>2 DEF IsBlockConst, IsLocal, IsInner, IsBlockOutput, InputBases, OutputBases
<1>5. v.name \notin MainDefs
      BY <1>1, <1>4 DEF MainInv, IsMain
<1>6. IsHandle(v, MainDefs, DOMAIN values, nextID)
  <2>1. v.home # Main /\ ~(v.home > Main)
        BY <1>2 DEF Embedded, Main
  <2> QED BY <1>4, <1>5, <2>1 DEF IsHandle, Barred
<1>7. MainInv' /\ HeldInv'
  <2> DEFINE held == {v}
  <2>1. /\ handles' = handles \union held
        /\ \A w \in held : IsHandle(w, MainDefs, DOMAIN values, nextID)
        BY <1>2, <1>6
  <2> HIDE DEF held
  <2> QED BY <1>1, <1>3, <2>1, MainKeeps
<1>8. FramesInv' /\ OwnInv'
  <2>1. {v} \in SUBSET Values /\ \A w \in {v} : w.home <= Main
        BY <1>2 DEF Embedded, Main
  <2> QED BY <1>1, <1>2, <1>3, <2>1, RestStays
<1> QED BY <1>7, <1>8 DEF NamesKept

(* A call that fails, with the stack unchanged or one frame shorter.          *)
LEMMA FailKeeps ==
  ASSUME NameInv, NEW e, Fails(e), UNCHANGED frames \/ (InCallback /\ PopFrame)
  PROVE  NamesKept
<1>1. BuilderTypes /\ MainInv /\ HeldInv /\ FramesInv /\ OwnInv
      BY DEF NameInv
<1>2. UNCHANGED <<inputs, operations, outputs, values, nextID, handles>> /\ UNCHANGED blocksMade
      BY DEF Fails, Fail
<1>3. MainInv' /\ HeldInv'
      BY <1>1, <1>2, NothingNew
<1>4. FramesInv'
      BY <1>1, <1>2, FramesStay, FramesPop
<1>5. OwnInv'
  <2>1. \A k \in 1..Len(frames') : k \in 1..Len(frames) /\ frames'[k] = frames[k]
        BY <1>1, PopFrameIs
  <2>2. {} \in SUBSET Values /\ handles' = handles \union {}
        BY <1>2
  <2> QED BY <1>1, <1>2, <2>1, <2>2, OwnStays
<1> QED BY <1>3, <1>4, <1>5 DEF NamesKept

(* A step that only changes the stack, by a frame that is in order and has a   *)
(* new block.                                                                *)
LEMMA StackKeeps ==
  ASSUME NameInv, NEW f \in Frames, ActiveFrame(f, handles),
         Begins(f) \/ (InCallback /\ Continues(f)), f.block.id = blocksMade + 1,
         \A v \in Elements(f.block.inputs) : v.home = blocksMade + 1
  PROVE  NamesKept
<1>1. BuilderTypes /\ MainInv /\ HeldInv /\ FramesInv /\ OwnInv
      BY DEF NameInv
<1> DEFINE held == Elements(f.block.inputs)
<1>2. /\ UNCHANGED <<inputs, operations, outputs, values, nextID>>
      /\ blocksMade' = blocksMade + 1 /\ handles' = handles \union held
      BY DEF Begins, Continues, GivesInputs, UnchangedMain
<1>3. f.block \in Blocks /\ f.block.inputs \in Seq(Values) /\ blocksMade \in Nat
  <2>1. f.block \in Blocks
        BY DEF Frames, FrameRecords
  <2> QED BY <1>1, <2>1, PairsAre DEF Blocks, BuilderTypes
<1>4. \A v \in held : /\ v \in Values /\ v.home = blocksMade + 1
                      /\ v.name \in AllLocals(f.block)
      BY <1>3 DEF Elements, AllLocals, InputNames
<1> HIDE DEF held
<1>5. \A v \in held : IsHandle(v, MainDefs, DOMAIN values, nextID)
  <2>1. \A v \in held : IsInner(v.name)
        BY <1>4 DEF ActiveFrame, Filling
  <2>2. \A v \in held : v.home > Main
        BY <1>3, <1>4 DEF Main
  <2> QED BY <1>1, <1>4, <2>1, <2>2, InnerIsHandle
<1>6. MainInv' /\ HeldInv'
      BY <1>1, <1>2, <1>5, MainKeeps
<1>7. handles \subseteq handles' /\ ActiveFrame(f, handles')
  <2>1. handles \subseteq handles'
        BY <1>2
  <2> QED BY <2>1, MoreNames
<1>8. CASE Begins(f)
  <2>1. frames' = Append(frames, f)
        BY <1>8 DEF Begins
  <2>2. FramesInv'
        BY <1>1, <1>7, <2>1, FramesPush
  <2> DEFINE m == Len(frames) + 1
  <2>3. \A k \in 1..Len(frames') :
          \/ k = m /\ frames'[k] = f
          \/ k # m /\ k \in 1..Len(frames) /\ frames'[k] = frames[k]
    <3>1. /\ Len(frames') = Len(frames) + 1 /\ Len(frames) \in Nat
          /\ \A k \in 1..Len(frames) : frames'[k] = frames[k]
          /\ frames'[Len(frames) + 1] = f
          BY <1>1, <2>1, PushIs DEF BuilderTypes
    <3> QED BY <3>1
  <2> HIDE DEF m
  <2>4. OwnInv'
        BY <1>1, <1>2, <1>4, <2>3, OwnJoins
  <2> QED BY <1>6, <2>2, <2>4 DEF NamesKept
<1>9. CASE InCallback /\ Continues(f)
  <2>1. SetFrame(Len(frames), f) /\ Len(frames) \in 1..Len(frames)
        BY <1>1, <1>9, TopIs DEF Continues, SetTop
  <2>2. FramesInv'
        BY <1>1, <1>7, <2>1, FramesSet
  <2>3. \A k \in 1..Len(frames') :
          \/ k = Len(frames) /\ frames'[k] = f
          \/ k # Len(frames) /\ k \in 1..Len(frames) /\ frames'[k] = frames[k]
    <3>1. /\ Len(frames') = Len(frames)
          /\ \A l \in 1..Len(frames) : frames'[l] = IF l = Len(frames) THEN f ELSE frames[l]
          BY <1>1, <2>1, SetFrameIs
    <3> QED BY <3>1
  <2>4. OwnInv'
        BY <1>1, <1>2, <1>4, <2>3, OwnJoins
  <2> QED BY <1>6, <2>2, <2>4 DEF NamesKept
<1> QED BY <1>8, <1>9

LEMMA CondKeeps ==
  ASSUME NameInv, NEW x \in handles, Cond(x)
  PROVE  NamesKept
<1>1. BuilderTypes /\ HeldInv
      BY DEF NameInv
<1>2. CASE Fails("cond") /\ UNCHANGED frames
      BY <1>2, FailKeeps
<1>3. ASSUME NEW f \in Frames, Begins(f), f.kind = "cond", f.operands = <<x>>, f.built = <<>>,
             f.block = NewBlock(blocksMade + 1, <<>>)
      PROVE  NamesKept
  <2>1. /\ Filling(f.block, handles) /\ f.block.id = blocksMade + 1
        /\ \A v \in Elements(f.block.inputs) : v.home = blocksMade + 1
        BY <1>1, <1>3, NewIds, NewBlockFilling
  <2>2. \A k \in 1..Len(f.operands) : f.operands[k] \in handles
        BY <1>3
  <2>3. ActiveFrame(f, handles)
        BY <1>3, <2>1, <2>2 DEF ActiveFrame
  <2> QED BY <1>3, <2>1, <2>3, StackKeeps
<1> QED BY <1>1, <1>2, <1>3, CondIs

LEMMA WhileLoopKeeps ==
  ASSUME NameInv, NEW vs \in Tuples(handles, client.outs), WhileLoop(vs)
  PROVE  NamesKept
<1>1. BuilderTypes /\ HeldInv
      BY DEF NameInv
<1>2. CASE Fails("while") /\ UNCHANGED frames
      BY <1>2, FailKeeps
<1>3. ASSUME vs \in Pairs(Values), \A i \in 1..Len(vs) : vs[i] \in handles, NEW f \in Frames,
             Begins(f), f.kind = "while", f.operands = vs, f.built = <<>>,
             f.block = NewBlock(blocksMade + 1,
                                BlockInputs(Numbered("cond_var"), vs, blocksMade + 1))
      PROVE  NamesKept
  <2> DEFINE base == "cond_var"
  <2>1. base \in InputBases
        BY DEF InputBases
  <2>2. /\ Filling(f.block, handles) /\ TypesOf(f.block.inputs) = TypesOf(f.operands)
        /\ f.block.id = blocksMade + 1
        /\ \A v \in Elements(f.block.inputs) : v.home = blocksMade + 1
    <3> DEFINE bb == NewBlock(blocksMade + 1,
                              BlockInputs(Numbered(base), vs, blocksMade + 1))
    <3>1. /\ Filling(bb, handles) /\ TypesOf(bb.inputs) = TypesOf(vs)
          /\ bb.id = blocksMade + 1 /\ \A v \in Elements(bb.inputs) : v.home = blocksMade + 1
          BY <1>1, <1>3, <2>1, NewIds, NewBlockFilling
    <3>2. f.block = bb /\ f.operands = vs
          BY <1>3
    <3> HIDE DEF bb
    <3> QED BY <3>1, <3>2
  <2>3. \A k \in 1..Len(f.operands) : f.operands[k] \in handles
        BY <1>3
  <2>4. ActiveFrame(f, handles)
        BY <1>3, <2>2, <2>3 DEF ActiveFrame
  <2> QED BY <1>3, <2>2, <2>4, StackKeeps
<1> QED BY <1>1, <1>2, <1>3, WhileLoopIs

(* The block a callback returned from, with its outputs.                     *)
LEMMA CallbackBlock ==
  ASSUME NameInv, InCallback, NEW base \in OutputBases, NEW outs \in Pairs(Values),
         \A i \in 1..Len(outs) : outs[i] \in handles
  PROVE  LET b == BlockOutputs(TopFrame.block, Numbered(base), outs) IN
         Done(b, TypesOf(outs), handles) /\ b.inputs = TopFrame.block.inputs
<1>1. BuilderTypes /\ HeldInv /\ FramesInv /\ OwnInv
      BY DEF NameInv
<1>2. TopFrame.block \in Blocks /\ Filling(TopFrame.block, handles)
      BY <1>1, TopIs, TopIsActive DEF ActiveFrame
<1>3. Len(outs) \in 0..2 /\ \A i \in 1..Len(outs) : Usable(outs[i], TopFrame.block, handles)
  <2>1. Len(frames) \in 1..Len(frames)
        BY <1>1, TopIs
  <2> QED BY <1>1, <2>1, PairsAre, HandlesAreUsable DEF TopFrame
<1> DEFINE names == Numbered(base)
<1>4. \A i \in 1..Len(outs) :
        names[i] \in NameRecords /\ names[i].base = base /\ ~names[i].blk /\ names[i].id = i - 1
      BY <1>3, OutputNamesAre
<1> HIDE DEF names
<1>5. \A i \in 1..Len(outs) : names[i] \in NameRecords /\ IsBlockOutput(names[i])
      BY <1>4 DEF IsBlockOutput
<1>6. \A i, j \in 1..Len(outs) : i # j => names[i] # names[j]
  <2> SUFFICES ASSUME NEW i \in 1..Len(outs), NEW j \in 1..Len(outs), names[i] = names[j]
               PROVE  i = j
      OBVIOUS
  <2>1. i - 1 = j - 1 /\ i \in Int /\ j \in Int
        BY <1>3, <1>4
  <2> QED BY <2>1
<1>7. /\ Done(BlockOutputs(TopFrame.block, names, outs), TypesOf(outs), handles)
      /\ BlockOutputs(TopFrame.block, names, outs).inputs = TopFrame.block.inputs
      BY <1>2, <1>3, <1>5, <1>6, BlockFinishes
<1> QED BY <1>7 DEF names

LEMMA TrueBranchKeeps ==
  ASSUME NameInv, InCallback, NEW outs \in Tuples(handles, client.outs),
         TrueBranchReturns(outs)
  PROVE  NamesKept
<1>1. BuilderTypes /\ HeldInv /\ FramesInv /\ OwnInv
      BY DEF NameInv
<1> DEFINE b == BlockOutputs(TopFrame.block, Numbered("cond_true_out"), outs)
<1>2. /\ outs \in Pairs(Values) /\ \A i \in 1..Len(outs) : outs[i] \in handles
      /\ \E f \in Frames :
           /\ Continues(f) /\ f.kind = "cond" /\ f.operands = TopFrame.operands
           /\ f.built = <<b>> /\ f.results = outs
           /\ f.block = NewBlock(blocksMade + 1, <<>>)
      BY <1>1, TrueBranchIs
<1>3. Done(b, TypesOf(outs), handles)
  <2>1. "cond_true_out" \in OutputBases
        BY DEF OutputBases
  <2> QED BY <1>2, <2>1, CallbackBlock
<1> HIDE DEF b
<1>4. PICK f \in Frames :
           /\ Continues(f) /\ f.kind = "cond" /\ f.operands = TopFrame.operands
           /\ f.built = <<b>> /\ f.results = outs
           /\ f.block = NewBlock(blocksMade + 1, <<>>)
      BY <1>2
<1>5. /\ Filling(f.block, handles) /\ f.block.id = blocksMade + 1
      /\ \A v \in Elements(f.block.inputs) : v.home = blocksMade + 1
      BY <1>1, <1>4, NewIds, NewBlockFilling
<1>6. \A k \in 1..Len(f.operands) : f.operands[k] \in handles
      BY <1>1, <1>4, TopIsActive DEF ActiveFrame
<1>7. Len(f.built) = 1 /\ f.built[1] = b
      BY <1>4
<1>8. ActiveFrame(f, handles)
      BY <1>3, <1>4, <1>5, <1>6, <1>7 DEF ActiveFrame
<1> QED BY <1>4, <1>5, <1>8, StackKeeps

LEMMA LoopCondKeeps ==
  ASSUME NameInv, InCallback, NEW res \in Tuples(handles, 1), LoopCondReturns(res)
  PROVE  NamesKept
<1>1. BuilderTypes /\ HeldInv /\ FramesInv /\ OwnInv
      BY DEF NameInv
<1> DEFINE names == <<Name("cond_result", FALSE, NoId)>>
           b == BlockOutputs(TopFrame.block, names, res)
           bb == NewBlock(blocksMade + 1,
                   BlockInputs(Numbered("body_var"), TopFrame.operands, blocksMade + 1))
<1>2. /\ TopFrame.kind = "while"
      /\ res \in Pairs(Values) /\ \A i \in 1..Len(res) : res[i] \in handles
      /\ names[1] \in NameRecords /\ names[1].base = "cond_result" /\ ~names[1].blk
      BY <1>1, LoopCondIs
<1>3. \/ PopFrame /\ Fails("while")
      \/ \E f \in Frames :
           /\ Continues(f) /\ f.kind = "while" /\ f.operands = TopFrame.operands
           /\ f.built = <<b>> /\ Len(res) = 1 /\ BoolScalar(res[1]) /\ f.block = bb
      BY <1>1, LoopCondIs
<1> HIDE DEF names, b, bb
<1>4. CASE PopFrame /\ Fails("while")
      BY <1>4, FailKeeps
<1>5. ASSUME NEW f \in Frames, Continues(f), f.kind = "while", f.operands = TopFrame.operands,
             f.built = <<b>>, Len(res) = 1, BoolScalar(res[1]), f.block = bb
      PROVE  NamesKept
  <2>1. TopFrame.block \in Blocks /\ ActiveFrame(TopFrame, handles)
        BY <1>1, TopIs, TopIsActive
  <2>2. Filling(TopFrame.block, handles)
        BY <2>1 DEF ActiveFrame
  <2>3. \A i \in 1..Len(res) : i = 1
        BY <1>5
  <2>4. \A i \in 1..Len(res) : Usable(res[i], TopFrame.block, handles)
    <3>1. Len(frames) \in 1..Len(frames)
          BY <1>1, TopIs
    <3> QED BY <1>1, <1>2, <3>1, HandlesAreUsable DEF TopFrame
  <2>5. \A i \in 1..Len(res) : names[i] \in NameRecords /\ IsBlockOutput(names[i])
        BY <1>2, <2>3 DEF IsBlockOutput, OutputBases
  <2>6. \A i, j \in 1..Len(res) : i # j => names[i] # names[j]
        BY <2>3
  <2>7. Done(b, TypesOf(res), handles) /\ b.inputs = TopFrame.block.inputs
        BY <1>2, <2>1, <2>2, <2>4, <2>5, <2>6, BlockFinishes DEF b
  <2>8. TypesOf(res) = OneBool
    <3>1. TypeOf(res[1]) = [dtype |-> "Bool", shape |-> <<>>]
          BY <1>5 DEF BoolScalar, TypeOf
    <3>2. TypesOf(res) = [k \in 1..1 |-> TypeOf(res[k])]
          BY <1>5 DEF TypesOf
    <3>3. \A k \in 1..1 : k = 1
          OBVIOUS
    <3> DEFINE t == [dtype |-> "Bool", shape |-> <<>>]
    <3>4. TypesOf(res) = [k \in 1..1 |-> t]
          BY <3>1, <3>2, <3>3
    <3> HIDE DEF t
    <3>5. [k \in 1..1 |-> t] = <<t>>
          OBVIOUS
    <3> QED BY <3>4, <3>5 DEF t, OneBool
  <2>9. TypesOf(TopFrame.block.inputs) = TypesOf(TopFrame.operands)
        BY <1>2, <2>1 DEF ActiveFrame
  <2>10. /\ Filling(bb, handles) /\ TypesOf(bb.inputs) = TypesOf(TopFrame.operands)
         /\ bb.id = blocksMade + 1 /\ \A v \in Elements(bb.inputs) : v.home = blocksMade + 1
    <3> DEFINE base == "body_var"
    <3>1. base \in InputBases
          BY DEF InputBases
    <3>2. TopFrame.operands \in Pairs(Values)
          BY <1>1, TopIs
    <3> QED BY <1>1, <3>1, <3>2, NewIds, NewBlockFilling DEF bb
  <2>11. \A k \in 1..Len(f.operands) : f.operands[k] \in handles
         BY <1>5, <2>1 DEF ActiveFrame
  <2>12. Len(f.built) = 1 /\ f.built[1] = b
         BY <1>5
  <2>13. ActiveFrame(f, handles)
         BY <1>5, <2>7, <2>8, <2>9, <2>10, <2>11, <2>12 DEF ActiveFrame
  <2> QED BY <1>5, <2>10, <2>13, StackKeeps
<1> QED BY <1>3, <1>4, <1>5

(* The blocks and types of a control-flow operation about to be added.        *)
FlowBuilt(type, args, types, built, D) ==
  /\ Len(built) = 2 /\ Done(built[2], types, D)
  /\ type = "cond" => Done(built[1], types, D)
  /\ type = "while_loop" =>
       /\ Done(built[1], OneBool, D)
       /\ TypesOf(built[1].inputs) = types /\ TypesOf(built[2].inputs) = types
       /\ Len(args) = Len(types)

LEMMA FlowIsSound ==
  ASSUME NEW op, NEW D, op.type \in {"cond", "while_loop"}, AllKnown(op.args, D),
         NEW types \in Pairs(TensorTypes), Len(op.outs) = Len(types),
         \A i \in 1..Len(types) : op.outs[i].type = types[i],
         FlowBuilt(op.type, op.args, types, op.blocks, D)
  PROVE  Sound(op, D)
<1>1. Len(op.blocks) = 2 /\ Done(op.blocks[2], types, D)
      BY DEF FlowBuilt
<1>2. \E ts : Done(op.blocks[1], ts, D)
      BY DEF FlowBuilt
<1>3. \A bb \in Elements(op.blocks) :
        IsBlock(bb, D) /\ Elements(bb.outputs) \subseteq AllLocals(bb)
  <2>1. \A i \in 1..2 : i = 1 \/ i = 2
        OBVIOUS
  <2>2. \A bb \in Elements(op.blocks) : bb = op.blocks[1] \/ bb = op.blocks[2]
        BY <1>1, <2>1 DEF Elements
  <2> QED BY <1>1, <1>2, <2>2 DEF Done
<1>4. \A a \in Elements(op.args) : Known(a, D)
      BY DEF Elements, AllKnown
<1>5. [k \in 1..Len(op.outs) |-> op.outs[k].type] = types
  <2>1. types = [k \in 1..Len(types) |-> types[k]]
        BY DEF Pairs
  <2> QED BY <2>1
<1>6. FlowAgrees(op)
      BY <1>1, <1>5 DEF FlowAgrees, FlowBuilt, Done
<1> QED BY <1>3, <1>4, <1>6 DEF Sound

LEMMA FlowKeeps ==
  ASSUME NameInv, NEW type \in {"cond", "while_loop"}, NEW args \in Seq(ArgRecords),
         AllKnown(args, handles), NEW bases \in {CondOut, WhileOut},
         NEW types \in Pairs(TensorTypes), NEW built \in Seq(Blocks),
         FlowBuilt(type, args, types, built, handles),
         AddControlFlow(type, args, bases, types, built), InCallback, PopFrame,
         UNCHANGED blocksMade
  PROVE  NamesKept
<1>1. BuilderTypes /\ MainInv /\ HeldInv /\ FramesInv /\ OwnInv /\ nextID \in Nat
      BY DEF NameInv, BuilderTypes
<1> DEFINE op == ControlOp(type, args, bases, types, built)
           vs == ControlValues(bases, types)
<1>2. /\ op \in MainOps /\ vs \subseteq Values /\ Defines(op, vs)
      /\ op.type = type /\ op.args = args /\ op.blocks = built
      /\ Len(op.outs) = Len(types)
      /\ \A i \in 1..Len(types) : op.outs[i].type = types[i]
      /\ \A v \in vs : \E i \in 1..Len(types) :
           i \in 1..2 /\ v.name = Name(bases[i], FALSE, nextID + i - 1)
  <2>1. IsControlFlow(op, vs, type, args, bases, types, built)
        BY <1>1, ControlFlowResults
  <2> HIDE DEF op, vs
  <2> QED BY <2>1 DEF IsControlFlow
<1>3. /\ operations' = Append(operations, op) /\ Register(vs) /\ handles' = handles \union vs
      /\ nextID' = nextID + Len(types) /\ UNCHANGED <<inputs, outputs>>
      BY DEF AddControlFlow, ControlOp, ControlValues, ControlNames
<1> HIDE DEF op, vs
<1>4. Len(types) \in Nat /\ nextID' \in Nat /\ nextID' >= nextID
      BY <1>1, <1>3, PairsAre
<1>5. \A i \in 1..2 : bases[i] \in GeneratedBases
  <2>1. \A i \in 1..2 : i = 1 \/ i = 2
        OBVIOUS
  <2> QED BY <2>1 DEF CondOut, WhileOut, GeneratedBases
<1>6. \A v \in vs : ~Barred(v.name, DOMAIN values, nextID) /\ IsMain(v.name, nextID')
  <2> SUFFICES ASSUME NEW v \in vs
               PROVE  ~Barred(v.name, DOMAIN values, nextID) /\ IsMain(v.name, nextID')
      OBVIOUS
  <2>1. PICK i \in 1..Len(types) : i \in 1..2 /\ v.name = Name(bases[i], FALSE, nextID + i - 1)
        BY <1>2
  <2> DEFINE k == i - 1
             base == bases[i]
             n == Name(base, FALSE, nextID + k)
  <2>2. k \in Nat /\ nextID' > nextID + k /\ nextID + i - 1 = nextID + k
        BY <1>1, <1>3, <1>4, <2>1
  <2>3. base \in GeneratedBases /\ v.name = n
        BY <1>5, <2>1, <2>2
  <2> HIDE DEF k, base
  <2>4. ~Barred(n, DOMAIN values, nextID) /\ IsMain(n, nextID')
        BY <1>1, <1>4, <2>2, <2>3, GeneratedIsMain
  <2> QED BY <2>3, <2>4
<1>7. Adds(op, vs)
      BY <1>2, <1>3, <1>4, <1>6 DEF Adds
<1>8. Sound(op, handles)
      BY <1>2, FlowIsSound
<1> DEFINE ns == {}
<1>9. /\ Elements(outputs') \subseteq Elements(outputs) \union ns
      /\ ns \subseteq {v.name : v \in vs}
      BY <1>3
<1> HIDE DEF ns
<1>10. MainInv' /\ HeldInv'
       BY <1>1, <1>3, <1>7, <1>8, <1>9, ProgramGrows
<1>11. FramesInv'
       BY <1>1, <1>3, FramesPop
<1>12. OwnInv'
  <2>1. \A k \in 1..Len(frames') : k \in 1..Len(frames) /\ frames'[k] = frames[k]
        BY <1>1, PopFrameIs
  <2>2. \A v \in vs : v.home <= Main
        BY <1>2 DEF Defines, Main
  <2> QED BY <1>1, <1>2, <1>3, <2>1, <2>2, OwnStays
<1> QED BY <1>10, <1>11, <1>12 DEF NamesKept

LEMMA SameTypesOf ==
  ASSUME NEW vs, NEW ws, SameTypes(vs, ws)
  PROVE  TypesOf(vs) = TypesOf(ws) /\ Len(vs) = Len(ws)
  BY DEF SameTypes, TypesOf

LEMMA BuiltWith ==
  ASSUME NEW built \in Seq(Blocks), Len(built) = 1, NEW b \in Blocks
  PROVE  /\ Append(built, b) \in Seq(Blocks) /\ Len(Append(built, b)) = 2
         /\ Append(built, b)[1] = built[1] /\ Append(built, b)[2] = b
<1> DEFINE all == Append(built, b)
<1>1. all \in Seq(Blocks) /\ Len(all) = Len(built) + 1 /\ all[Len(built) + 1] = b
      /\ \A i \in 1..Len(built) : all[i] = built[i]
  <2>1. Len(built) \in Nat
        OBVIOUS
  <2> QED BY <2>1
<1> HIDE DEF all
<1>2. 1 \in 1..1 /\ 1 + 1 = 2
      OBVIOUS
<1> QED BY <1>1, <1>2 DEF all

LEMMA FalseBranchKeeps ==
  ASSUME NameInv, InCallback, NEW outs \in Tuples(handles, client.outs),
         FalseBranchReturns(outs)
  PROVE  NamesKept
<1>1. BuilderTypes /\ HeldInv /\ FramesInv /\ OwnInv
      BY DEF NameInv
<1> DEFINE b == BlockOutputs(TopFrame.block, Numbered("cond_false_out"), outs)
           types == TypesOf(outs)
           args == <<BindByName(TopFrame.operands[1])>>
           built == Append(TopFrame.built, b)
<1>2. /\ TopFrame.kind = "cond" /\ TopFrame.built # <<>> /\ PopFrame
      /\ outs \in Pairs(Values) /\ \A i \in 1..Len(outs) : outs[i] \in handles
      /\ \/ Fails("cond")
         \/ /\ UNCHANGED blocksMade /\ b \in Blocks /\ SameTypes(TopFrame.results, outs)
            /\ TopFrame.operands[1] \in Values /\ 1 \in 1..Len(TopFrame.operands)
            /\ AddControlFlow("cond", args, CondOut, types, built)
      BY <1>1, FalseBranchIs DEF TypesOf
<1>3. CASE Fails("cond")
      BY <1>2, <1>3, FailKeeps
<1>4. CASE /\ UNCHANGED blocksMade /\ b \in Blocks /\ SameTypes(TopFrame.results, outs)
           /\ TopFrame.operands[1] \in Values /\ 1 \in 1..Len(TopFrame.operands)
           /\ AddControlFlow("cond", args, CondOut, types, built)
  <2>1. "cond_false_out" \in OutputBases
        BY DEF OutputBases
  <2>2. Done(b, types, handles)
        BY <1>2, <2>1, CallbackBlock
  <2>3. ActiveFrame(TopFrame, handles) /\ TopFrame.built \in Seq(Blocks)
        BY <1>1, TopIs, TopIsActive
  <2>4. Len(TopFrame.built) = 1 /\ Done(TopFrame.built[1], types, handles)
        BY <1>2, <1>4, <2>3, SameTypesOf DEF ActiveFrame
  <2>5. types \in Pairs(TensorTypes)
        BY <1>2, TypesOfPair DEF TypesOf
  <2>6. /\ built \in Seq(Blocks) /\ Len(built) = 2 /\ built[1] = TopFrame.built[1]
        /\ built[2] = b
        BY <1>4, <2>3, <2>4, BuiltWith
  <2>7. args \in Seq(ArgRecords) /\ AllKnown(args, handles)
    <3> DEFINE v == TopFrame.operands[1]
               a == BindByName(v)
    <3>1. v \in handles /\ v \in Values
          BY <1>4, <2>3 DEF ActiveFrame
    <3> HIDE DEF v
    <3>2. a \in ArgRecords /\ Known(a, handles)
          BY <1>1, <3>1, BindFields, HandleIsKnown
    <3> HIDE DEF a
    <3>3. <<a>> \in Seq(ArgRecords) /\ AllKnown(<<a>>, handles)
          BY <3>2, SingletonSequence DEF AllKnown
    <3> QED BY <3>3 DEF a, v
  <2> HIDE DEF b, types, args, built
  <2>8. FlowBuilt("cond", args, types, built, handles)
        BY <2>2, <2>4, <2>6 DEF FlowBuilt
  <2>9. AddControlFlow("cond", args, CondOut, types, built) /\ UNCHANGED blocksMade
        BY <1>4
  <2> QED BY <1>2, <2>5, <2>6, <2>7, <2>8, <2>9, FlowKeeps
<1> QED BY <1>2, <1>3, <1>4

LEMMA LoopBodyKeeps ==
  ASSUME NameInv, InCallback, NEW outs \in Tuples(handles, client.outs),
         LoopBodyReturns(outs)
  PROVE  NamesKept
<1>1. BuilderTypes /\ HeldInv /\ FramesInv /\ OwnInv
      BY DEF NameInv
<1> DEFINE b == BlockOutputs(TopFrame.block, Numbered("body_out"), outs)
           types == TypesOf(outs)
           args == [i \in 1..Len(TopFrame.operands) |-> Bind(TopFrame.operands[i])]
           built == Append(TopFrame.built, b)
<1>2. /\ TopFrame.kind = "while" /\ TopFrame.built # <<>> /\ PopFrame
      /\ outs \in Pairs(Values) /\ \A i \in 1..Len(outs) : outs[i] \in handles
      /\ \/ Fails("while")
         \/ /\ UNCHANGED blocksMade /\ b \in Blocks /\ SameTypes(TopFrame.operands, outs)
            /\ AddControlFlow("while_loop", args, WhileOut, types, built)
      BY <1>1, LoopBodyIs DEF TypesOf
<1>3. CASE Fails("while")
      BY <1>2, <1>3, FailKeeps
<1>4. CASE /\ UNCHANGED blocksMade /\ b \in Blocks /\ SameTypes(TopFrame.operands, outs)
           /\ AddControlFlow("while_loop", args, WhileOut, types, built)
  <2>1. "body_out" \in OutputBases
        BY DEF OutputBases
  <2>2. Done(b, types, handles) /\ b.inputs = TopFrame.block.inputs
        BY <1>2, <2>1, CallbackBlock
  <2>3. /\ ActiveFrame(TopFrame, handles) /\ TopFrame.built \in Seq(Blocks)
        /\ TopFrame.operands \in Pairs(Values)
        BY <1>1, TopIs, TopIsActive
  <2>4. TypesOf(TopFrame.operands) = types /\ Len(TopFrame.operands) = Len(outs)
        BY <1>4, SameTypesOf
  <2>5. /\ Len(TopFrame.built) = 1 /\ Done(TopFrame.built[1], OneBool, handles)
        /\ TypesOf(TopFrame.built[1].inputs) = types /\ TypesOf(b.inputs) = types
        BY <1>2, <2>2, <2>3, <2>4 DEF ActiveFrame
  <2>6. types \in Pairs(TensorTypes) /\ Len(types) = Len(outs)
        BY <1>2, TypesOfPair DEF TypesOf
  <2>7. /\ built \in Seq(Blocks) /\ Len(built) = 2 /\ built[1] = TopFrame.built[1]
        /\ built[2] = b
        BY <1>4, <2>3, <2>5, BuiltWith
  <2>8. /\ args \in Seq(ArgRecords) /\ Len(args) = Len(TopFrame.operands)
        /\ AllKnown(args, handles)
    <3>1. args \in Seq(ArgRecords) /\ Len(args) = Len(TopFrame.operands)
          BY <2>3, BindsOfPair
    <3>2. ASSUME NEW i \in 1..Len(TopFrame.operands)
          PROVE  Known(args[i], handles)
      <4> DEFINE v == TopFrame.operands[i]
      <4>1. v \in handles /\ args[i] = Bind(v)
            BY <2>3 DEF ActiveFrame
      <4> HIDE DEF v, args
      <4> QED BY <1>1, <4>1, HandleIsKnown
    <3> HIDE DEF args
    <3> QED BY <3>1, <3>2 DEF AllKnown
  <2> HIDE DEF b, types, args, built
  <2>9. FlowBuilt("while_loop", args, types, built, handles)
        BY <2>2, <2>4, <2>5, <2>6, <2>7, <2>8 DEF FlowBuilt
  <2>10. AddControlFlow("while_loop", args, WhileOut, types, built) /\ UNCHANGED blocksMade
         BY <1>4
  <2> QED BY <1>2, <2>6, <2>7, <2>8, <2>9, <2>10, FlowKeeps
<1> QED BY <1>2, <1>3, <1>4

LEMMA InitNames ==
  ASSUME Init
  PROVE  NameInv
<1>1. BuilderTypes
      BY InitTypes
<1>2. /\ inputs = <<>> /\ operations = <<>> /\ outputs = <<>> /\ DOMAIN values = {}
      /\ handles = {} /\ frames = <<>>
      BY DEF Init
<1>3. /\ Len(inputs) = 0 /\ Len(operations) = 0 /\ Len(outputs) = 0 /\ Len(frames) = 0
      BY <1>2
<1>4. MainDefs = {}
      BY <1>3, NoOpDefs DEF MainDefs, InputNames
<1>5. Distinct(inputs, operations)
      BY <1>3, NoOpDefs DEF Distinct, OpsDistinct
<1>6. MainInv
      BY <1>2, <1>3, <1>4, <1>5 DEF MainInv
<1>7. HeldInv
      BY <1>2, <1>3 DEF HeldInv, Elements
<1>8. FramesInv /\ OwnInv
      BY <1>2, <1>3 DEF FramesInv, OwnInv
<1> QED BY <1>1, <1>6, <1>7, <1>8 DEF NameInv

LEMMA NamesStep ==
  ASSUME PlainNames, NameInv, Next
  PROVE  NamesKept
<1>1. ASSUME NEW n \in FreshNames, NEW t \in UserTypes,
             Input(n, t) \/ PlaceholderValue(n, t) \/ Const(n, t)
      PROVE  NamesKept
      BY <1>1, DeclareKeeps
<1>2. ASSUME NEW x \in handles, NEW n \in FreshNames, Identity(n, x)
      PROVE  NamesKept
      BY <1>2, IdentityKeeps DEF Identity
<1>3. ASSUME NEW x \in handles, NEW n \in FreshNames \union {x.name}, Output(n, x)
      PROVE  NamesKept
      BY <1>3, OutputKeeps
<1> QED BY <1>1, <1>2, <1>3, UnaryKeeps, BinaryKeeps, ConcatKeeps, TopKKeeps, BlockBinaryKeeps,
          BlockConstKeeps, CondKeeps, TrueBranchKeeps, FalseBranchKeeps, WhileLoopKeeps,
          LoopCondKeeps, LoopBodyKeeps DEF Next

LEMMA NamesInvariant ==
  ASSUME PlainNames
  PROVE  Spec => []NameInv
<1>1. Init => NameInv
      BY InitNames
<1>2. NameInv /\ [Next]_vars => MainInv' /\ HeldInv' /\ FramesInv' /\ OwnInv'
  <2>1. ASSUME NameInv, Next
        PROVE  MainInv' /\ HeldInv' /\ FramesInv' /\ OwnInv'
        BY <2>1, NamesStep DEF NamesKept
  <2>2. ASSUME NameInv, UNCHANGED vars
        PROVE  MainInv' /\ HeldInv' /\ FramesInv' /\ OwnInv'
    <3>1. BuilderTypes /\ MainInv /\ HeldInv /\ FramesInv /\ OwnInv
          BY <2>2 DEF NameInv
    <3>2. UNCHANGED <<inputs, operations, outputs, values, nextID, handles>>
          /\ UNCHANGED <<frames, blocksMade>>
          BY <2>2 DEF vars
    <3>3. MainInv' /\ HeldInv'
          BY <3>1, <3>2, NothingNew
    <3>4. {} \in SUBSET Values /\ handles' = handles \union {}
          BY <3>2
    <3>5. FramesInv' /\ OwnInv'
          BY <3>1, <3>2, <3>4, RestStays
    <3> QED BY <3>3, <3>5
  <2> QED BY <2>1, <2>2
<1>3. BuilderTypes' /\ MainInv' /\ HeldInv' /\ FramesInv' /\ OwnInv' => NameInv'
      BY DEF NameInv
<1> QED BY <1>1, <1>2, <1>3, TypesInvariant, PTL DEF Spec

(***************************************************************************)
(* What the invariant says of the program.                                  *)
(***************************************************************************)

LEMMA DistinctNames ==
  ASSUME NEW S, NEW ins \in Seq(S), NEW ops, Distinct(ins, ops)
  PROVE  NoRepeat(NamesOf(ins)) /\ OpsDistinct(ops)
<1> DEFINE n == Len(ins)
           names == NamesOf(ins)
<1>1. names = [i \in 1..n |-> ins[i].name] /\ n \in Nat
      BY DEF NamesOf
<1>2. \A i, j \in 1..n : i # j => ins[i].name # ins[j].name
      BY DEF Distinct
<1> HIDE DEF n, names
<1>3. Len(names) = n
      BY <1>1
<1> QED BY <1>1, <1>2, <1>3 DEF NoRepeat, Distinct, names

(* The blocks of the program's operations are in order.                      *)
LEMMA BlocksAre ==
  ASSUME NameInv, NEW i \in 1..Len(operations), NEW bb \in Elements(operations[i].blocks)
  PROVE  /\ bb \in Blocks /\ IsBlock(bb, ScopeBefore(i))
         /\ Elements(bb.outputs) \subseteq AllLocals(bb)
<1>1. operations[i] \in MainOps /\ Sound(operations[i], ScopeBefore(i))
      BY DEF NameInv, BuilderTypes, MainInv
<1>2. operations[i].blocks \in Seq(Blocks)
      BY <1>1 DEF MainOps
<1>3. bb \in Blocks
      BY <1>2 DEF Elements
<1> QED BY <1>1, <1>3 DEF Sound

(* No main name is the name of a block's definition.                         *)
LEMMA MainIsNotLocal ==
  ASSUME NameInv
  PROVE  /\ \A n \in MainDefs : ~IsLocal(n)
         /\ \A i \in 1..Len(operations) + 1 : DefsBefore(i) \subseteq MainDefs
         /\ DefsBefore(Len(operations) + 1) = MainDefs
<1>1. \A n \in MainDefs : ~IsLocal(n)
      BY DEF NameInv, MainInv, IsMain
<1> QED BY <1>1, MainDefsAre DEF NameInv

(* builder.go genName, ops_control_flow.go: with plain client names every name *)
(* is defined once, and no block hides a main name (NamesUnique).             *)
THEOREM NamesAreUnique ==
  ASSUME PlainNames
  PROVE  Spec => []NamesUnique
<1>1. NameInv => NamesUnique
  <2> SUFFICES ASSUME NameInv
               PROVE  NamesUnique
      OBVIOUS
  <2>1. NoRepeat(NamesOf(inputs)) /\ OpsDistinct(operations)
        BY DistinctNames DEF NameInv, BuilderTypes, MainInv
  <2>2. InputNames(inputs) \cap OpDefs(operations, Len(operations)) = {}
        BY DEF NameInv, MainInv, Distinct
  <2>3. ASSUME NEW op \in Elements(operations), NEW bb \in Elements(op.blocks)
        PROVE  /\ NoRepeat(NamesOf(bb.inputs)) /\ OpsDistinct(bb.operations)
               /\ (InputNames(bb.inputs) \union OpDefs(bb.operations, Len(bb.operations)))
                    \cap DefsBefore(Len(operations) + 1) = {}
    <3>1. PICK i \in 1..Len(operations) : op = operations[i]
          BY DEF Elements
    <3>2. bb \in Blocks /\ IsBlock(bb, ScopeBefore(i))
          BY <2>3, <3>1, BlocksAre
    <3>3. NoRepeat(NamesOf(bb.inputs)) /\ OpsDistinct(bb.operations)
      <4>1. bb.inputs \in Seq(Values) /\ Distinct(bb.inputs, bb.operations)
            BY <3>2, PairsAre DEF Blocks, IsBlock
      <4> QED BY <4>1, DistinctNames
    <3>4. AllLocals(bb) \cap DefsBefore(Len(operations) + 1) = {}
          BY <3>2, MainIsNotLocal DEF IsBlock
    <3> QED BY <3>3, <3>4 DEF AllLocals
  <2> QED BY <2>1, <2>2, <2>3 DEF NamesUnique
<1> QED BY <1>1, NamesInvariant, PTL

(* What is known of a name an operation of the main block, or of its blocks,   *)
(* mentions.                                                                 *)
LEMMA KnownResolves ==
  ASSUME NameInv, NEW i \in 1..Len(operations), NEW a, a.byName, Known(a, ScopeBefore(i))
  PROVE  /\ a.home = Main <=> a.name \in DefsBefore(i)
         /\ IsLocal(a.name) => a.home > Main
<1>1. PICK v \in ScopeBefore(i) : v.name = a.name /\ v.home = a.home
      BY DEF Known
<1>2. v \in Values /\ IsHandle(v, MainDefs, DOMAIN values, nextID)
      BY <1>1 DEF ScopeBefore, NameInv, HeldInv, BuilderTypes
<1>3. DefsBefore(i) \subseteq MainDefs
  <2>1. i \in 1..Len(operations) + 1
        BY MainDefsAre DEF NameInv
  <2> QED BY <2>1, MainIsNotLocal
<1>4. a.home = Main => a.name \in DefsBefore(i)
      BY <1>1 DEF ScopeBefore
<1>5. a.name \in DefsBefore(i) => a.home = Main
      BY <1>1, <1>2, <1>3 DEF IsHandle
<1>6. IsLocal(a.name) => a.home > Main
  <2>1. v.home \in Int
        BY <1>2 DEF Values
  <2> QED BY <1>1, <1>2, <2>1 DEF IsHandle, Main
<1> QED BY <1>4, <1>5, <1>6

(* builder.go addOp, ops_control_flow.go: whatever values the client passes,   *)
(* with plain client names every name an operation mentions is, when the value *)
(* passed is in scope, the name of that value; and it is that of a definition  *)
(* of the main block exactly when the value is one (DefinedBeforeUse).         *)
THEOREM UsesAreDefined ==
  ASSUME PlainNames
  PROVE  Spec => []DefinedBeforeUse
<1>1. NameInv => DefinedBeforeUse
  <2> SUFFICES ASSUME NameInv, NEW i \in 1..Len(operations)
               PROVE  /\ \A a \in Elements(operations[i].args) :
                           a.byName => (a.home = Main <=> a.name \in DefsBefore(i))
                      /\ \A bb \in Elements(operations[i].blocks) : BlockRefsResolve(bb, i)
      BY DEF DefinedBeforeUse
  <2>1. ASSUME NEW a \in Elements(operations[i].args), a.byName
        PROVE  a.home = Main <=> a.name \in DefsBefore(i)
    <3>1. Known(a, ScopeBefore(i))
          BY DEF NameInv, MainInv, Sound
    <3> QED BY <2>1, <3>1, KnownResolves
  <2>2. ASSUME NEW bb \in Elements(operations[i].blocks)
        PROVE  BlockRefsResolve(bb, i)
    <3>1. /\ bb \in Blocks /\ IsBlock(bb, ScopeBefore(i))
          /\ Elements(bb.outputs) \subseteq AllLocals(bb)
          BY BlocksAre
    <3>2. Len(bb.operations) \in Nat
          BY <3>1 DEF Blocks
    <3>3. LocalDefs(bb, Len(bb.operations) + 1) = AllLocals(bb)
      <4>1. Len(bb.operations) + 1 - 1 = Len(bb.operations)
            BY <3>2
      <4> QED BY <4>1 DEF LocalDefs, AllLocals
    <3>4. ASSUME NEW j \in 1..Len(bb.operations), NEW a \in Elements(bb.operations[j].args),
                 a.byName
          PROVE  /\ a.home = Main <=> a.name \in DefsBefore(i)
                 /\ a.home = bb.id => a.name \in LocalDefs(bb, j)
                 /\ a.name \in LocalDefs(bb, j) => a.home > Main
      <4>1. Refers(a, LocalDefs(bb, j), bb.id, ScopeBefore(i))
            BY <3>1 DEF IsBlock
      <4>2. Known(a, ScopeBefore(i)) /\ (a.home = bb.id => a.name \in LocalDefs(bb, j))
            BY <3>4, <4>1 DEF Refers
      <4>3. LocalDefs(bb, j) \subseteq AllLocals(bb)
        <5>1. j - 1 \in Int /\ Len(bb.operations) \in Int /\ j - 1 <= Len(bb.operations)
              BY <3>2
        <5>2. OpDefs(bb.operations, j - 1) \subseteq OpDefs(bb.operations, Len(bb.operations))
              BY <5>1, OpDefsGrow
        <5> QED BY <5>2 DEF LocalDefs, AllLocals
      <4>4. \A n \in LocalDefs(bb, j) : IsLocal(n)
            BY <3>1, <4>3 DEF IsBlock
      <4> QED BY <3>4, <4>2, <4>4, KnownResolves
    <3> QED BY <3>1, <3>3, <3>4 DEF BlockRefsResolve, LocalDefs
  <2> QED BY <2>1, <2>2
<1> QED BY <1>1, NamesInvariant, PTL

(* ops_control_flow.go: with plain client names the results of Cond and        *)
(* WhileLoop agree with the outputs of their blocks in number and in type, and *)
(* a loop's blocks accept what it carries (ControlFlowAgrees).                 *)
THEOREM FlowsAgree ==
  ASSUME PlainNames
  PROVE  Spec => []ControlFlowAgrees
<1>1. NameInv => ControlFlowAgrees
  <2> SUFFICES ASSUME NameInv
               PROVE  ControlFlowAgrees
      OBVIOUS
  <2>1. \A op \in Elements(operations) : FlowAgrees(op)
        BY DEF NameInv, MainInv, Sound, Elements
  <2> QED BY <2>1 DEF ControlFlowAgrees, FlowAgrees, Yields, TypesOf, OneBool
<1> QED BY <1>1, NamesInvariant, PTL

(* builder.go OutputSpecs: with plain client names the type it reads for an    *)
(* output is the type the program defines that output with (OutputSpecsMatch). *)
THEOREM OutputSpecsAreRight ==
  ASSUME PlainNames
  PROVE  Spec => []OutputSpecsMatch
<1>1. NameInv => OutputSpecsMatch
      BY DEF NameInv, MainInv, HeldInv, OutputSpecsMatch
<1> QED BY <1>1, NamesInvariant, PTL
=============================================================================
