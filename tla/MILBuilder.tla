------------------------------ MODULE MILBuilder ------------------------------
(***************************************************************************)
(* model.Builder and model.BlockBuilder: how a MIL program grows call by    *)
(* call.  A value is what the client holds (model.Value); an operation      *)
(* refers to a value by NAME, or embeds it when it is a constant, so the    *)
(* program is only meaningful if every name it mentions is the name of the  *)
(* value the client passed.  Cond and WhileLoop run client callbacks that   *)
(* fill a BlockBuilder; a callback may also call the main builder, and may  *)
(* start another Cond or WhileLoop there: the active calls form a stack.    *)
(*                                                                          *)
(* Nothing checks where a value comes from: every call takes any value the  *)
(* client was ever given, by the main builder or by a block, the blocks of  *)
(* other callbacks and of calls that are over or failed included.            *)
(*                                                                          *)
(* Left out: attribute values, documentation strings, SetOpset, tensor      *)
(* contents, a block's own map of values (the model has no reader of it),   *)
(* and calls on a BlockBuilder whose callback has returned.  The ghost      *)
(* field "home" of a value says which scope owns it.                        *)
(***************************************************************************)
EXTENDS Integers, Sequences, FiniteSets

CONSTANTS
  UserNames,   \* sequence of names the client gives, in this order
  UserTypes,   \* tensor types the client may declare: [dtype, shape] records
  MaxDepth,    \* bound: control-flow calls active at the same time
  Clients      \* bounds: the operations a client uses, how deep it nests control-flow
               \* calls, how many builder calls it makes, how many values (at most 2)
               \* it passes to Concat and WhileLoop and its callbacks return

AllOps == {"relu", "reduce_sum", "add", "less", "concat", "topk"}
OpTypes == AllOps \union {"identity", "cond", "while_loop"}

ClientNames == [base : STRING, blk : BOOLEAN, id : Int]
MaxRank == 1
ElementTypes == {"Bool", "Float32", "Int32"}
IsType(t) ==
  t \in [dtype : ElementTypes, shape : Seq(Nat \ {0})] /\ Len(t.shape) <= MaxRank

ClientRecords ==
  [ops : SUBSET OpTypes, depth : 0..MaxDepth, calls : Nat, outs : 0..2]

ASSUME BoundsAssumption ==
  /\ MaxDepth \in Nat /\ Clients \subseteq ClientRecords
  /\ UserNames \in Seq(ClientNames) /\ \A t \in UserTypes : IsType(t)

VARIABLES
  inputs,      \* Builder.inputs: sequence of values
  operations,  \* Builder.operations: sequence of operations
  outputs,     \* Builder.outputs: sequence of names
  values,      \* Builder.values: name -> the value last registered under it
  nextID,      \* Builder.nextID
  err,         \* Builder.err: "none" or the first error
  frames,      \* active Cond / WhileLoop calls, innermost last
  handles,     \* every value the client was given, by the builder or by a block
  blocksMade,  \* ghost: number of BlockBuilders created, names their scopes
  client       \* bound: what the client may still do

vars == <<inputs, operations, outputs, values, nextID, err, frames, handles,
          blocksMade, client>>

-----------------------------------------------------------------------------
(* Names.  The string is base, "_blk" when blk holds, and "_id" unless id is *)
(* NoId: two names are equal exactly when their strings are.                 *)

(* Bases of the names that genName, Cond and WhileLoop give in the main block *)
(* and in nested blocks.                                                      *)
GeneratedBases ==
  AllOps \union {"topk_indices", "cond_out_0", "cond_out_1", "while_out_0", "while_out_1"}
OutputBases == {"cond_true_out", "cond_false_out", "cond_result", "body_out"}
InputBases == {"cond_var", "body_var"}

NoId == -1
NameRecords ==
  [base : GeneratedBases \union OutputBases \union InputBases \union {"block_const"}
            \union {UserNames[i].base : i \in 1..Len(UserNames)},
   blk : BOOLEAN, id : Int]
NameLosingBlk(base, blk, id) == [base |-> base, blk |-> FALSE, id |-> id]
Name(base, blk, id) == [base |-> base, blk |-> blk, id |-> id]
CondOut   == <<"cond_out_0", "cond_out_1">>
WhileOut  == <<"while_out_0", "while_out_1">>

(* Scopes a value can belong to: the main block, block k >= 1, or no scope at *)
(* all because nothing in the program defines the name.                      *)
Main        == 0
Embedded    == -1    \* constants: their value is written at each use
Placeholder == -2    \* PlaceholderValue: bound by nothing in this builder
Phantom     == -3    \* the second result of TopK

Value(name, type, isConst, home) ==
  [name |-> name, dtype |-> type.dtype, shape |-> type.shape,
   isConst |-> isConst, home |-> home]
TypeOf(v) == [dtype |-> v.dtype, shape |-> v.shape]
BoolScalar(v) == v.dtype = "Bool" /\ v.shape = <<>>

(* broadcastShape: align the shapes at the right, 1 gives way, and of two    *)
(* incompatible sizes the larger one is taken.                               *)
BroadcastShapeLong(a, b) ==
  [i \in 1..Len(a) + Len(b) |-> IF i <= Len(a) THEN a[i] ELSE b[i - Len(a)]]
BroadcastShape(a, b) ==
  LET n == IF Len(a) >= Len(b) THEN Len(a) ELSE Len(b)
      At(s, i) == IF i > n - Len(s) THEN s[i - (n - Len(s))] ELSE 1
  IN  [i \in 1..n |-> IF At(a, i) >= At(b, i) THEN At(a, i) ELSE At(b, i)]

(* How an argument refers to a value: embedded constant, or by name.         *)
Bind(v)       == [byName |-> ~v.isConst, name |-> v.name, home |-> v.home]
BindByName(v) == [byName |-> TRUE, name |-> v.name, home |-> v.home]

Operation(type, args, outs, blocks) ==
  [type |-> type, args |-> args, outs |-> outs, blocks |-> blocks]
Out(name, type) == [name |-> name, type |-> type]

(* The operations of the program: unary ones with the number of attribute    *)
(* constants they name first, and binary ones.                               *)
Attributes == [relu |-> 0, reduce_sum |-> 2]
UnaryType(op, x) ==
  IF op = "reduce_sum" THEN [dtype |-> x.dtype, shape |-> <<>>] ELSE TypeOf(x)
BinaryOps == {"add", "less"}
BinaryType(op, x, y) ==
  [dtype |-> IF op = "less" THEN "Bool" ELSE x.dtype,
   shape |-> BroadcastShape(x.shape, y.shape)]

-----------------------------------------------------------------------------
(* BlockBuilder, as a record.                                                *)

BlockInputsSameName(names, vs, id) ==
  [i \in 1..Len(vs) |-> Value(names[1], TypeOf(vs[i]), FALSE, id)]
BlockInputs(names, vs, id) ==
  [i \in 1..Len(vs) |-> Value(names[i], TypeOf(vs[i]), FALSE, id)]
NewBlock(id, ins) ==
  [id |-> id, inputs |-> ins, outputs |-> <<>>, operations |-> <<>>,
   nextID |-> 0]

BlockAddOp(bb, op) == [bb EXCEPT !.operations = Append(@, op)]

(* BlockOutput for each returned value: the identity operation that gives it *)
(* its output name is skipped when the value already has that name.          *)
BlockOutputsUnnamed(bb, names, vs) ==
  [bb EXCEPT !.outputs = @ \o [i \in 1..Len(vs) |-> names[i]]]
Ascending(S) ==
  CHOOSE s \in [1..Cardinality(S) -> S] : \A i, j \in DOMAIN s : i < j => s[i] < s[j]
BlockOutputs(bb, names, vs) ==
  LET renamed == Ascending({i \in 1..Len(vs) : vs[i].name # names[i]})
      identity(i) == Operation("identity", <<Bind(vs[i])>>,
                               <<Out(names[i], TypeOf(vs[i]))>>, <<>>)
  IN  [bb EXCEPT !.outputs = @ \o [i \in 1..Len(vs) |-> names[i]],
                 !.operations = @ \o [k \in 1..Len(renamed) |-> identity(renamed[k])]]

Numbered(base) == [i \in 1..2 |-> Name(base, FALSE, i - 1)]

-----------------------------------------------------------------------------
TopFrame == frames[Len(frames)]
SetFrame(k, f) == frames' = [frames EXCEPT ![k] = f]
SetTop(f) == SetFrame(Len(frames), f)
PopFrame == frames' = SubSeq(frames, 1, Len(frames) - 1)
InCallback == frames # <<>>

(* The client is given the inputs of a block together with its builder.      *)
HandOut(ins) == handles' = handles \union {ins[i] : i \in 1..Len(ins)}

Call == client.calls > 0 /\ client' = [client EXCEPT !.calls = @ - 1]

(* The client's names are interchangeable and it does not reuse one: it takes *)
(* them in order.                                                             *)
FreshNames ==
  {UserNames[i] : i \in {k \in 1..Len(UserNames) :
                            /\ UserNames[k] \notin DOMAIN values
                            /\ \A j \in 1..k - 1 : UserNames[j] \in DOMAIN values}}

Register(vs) ==
  values' = [n \in DOMAIN values \union {v.name : v \in vs} |->
               IF \E v \in vs : v.name = n
               THEN CHOOSE v \in vs : v.name = n ELSE values[n]]

SetErrLast(e) == err' = e
SetErr(e) == err' = IF err = "none" THEN e ELSE err

Init ==
  /\ inputs = <<>> /\ operations = <<>> /\ outputs = <<>>
  /\ values = <<>>
  /\ nextID = 0 /\ err = "none"
  /\ frames = <<>> /\ handles = {} /\ blocksMade = 0
  /\ client \in Clients

-----------------------------------------------------------------------------
(* The main builder.                                                         *)

Input(n, t) ==
  LET v == Value(n, t, FALSE, Main) IN
  /\ Call
  /\ inputs' = Append(inputs, v)
  /\ Register({v}) /\ handles' = handles \union {v}
  /\ UNCHANGED <<operations, outputs, nextID, err, frames, blocksMade>>

PlaceholderValue(n, t) ==
  LET v == Value(n, t, FALSE, Placeholder) IN
  /\ Call
  /\ Register({v}) /\ handles' = handles \union {v}
  /\ UNCHANGED <<inputs, operations, outputs, nextID, err, frames, blocksMade>>

Const(n, t) ==
  LET v == Value(n, t, TRUE, Embedded) IN
  /\ Call
  /\ Register({v}) /\ handles' = handles \union {v}
  /\ UNCHANGED <<inputs, operations, outputs, nextID, err, frames, blocksMade>>

(* addOp: append the operation and register its single result.               *)
AddOpUnregistered(type, args, name, t) ==
  /\ operations' = Append(operations, Operation(type, args, <<Out(name, t)>>, <<>>))
  /\ handles' = handles \union {Value(name, t, FALSE, Main)}
  /\ UNCHANGED values
AddOp(type, args, name, t) ==
  LET v == Value(name, t, FALSE, Main) IN
  /\ operations' = Append(operations, Operation(type, args, <<Out(name, t)>>, <<>>))
  /\ Register({v}) /\ handles' = handles \union {v}

(* genName is called for each attribute constant and then for the result.    *)
Unary(op, x) ==
  /\ Call
  /\ AddOp(op, <<Bind(x)>>, Name(op, FALSE, nextID + Attributes[op]), UnaryType(op, x))
  /\ nextID' = nextID + Attributes[op] + 1
  /\ UNCHANGED <<inputs, outputs, err, frames, blocksMade>>

Binary(op, x, y) ==
  /\ Call
  /\ AddOp(op, <<Bind(x), Bind(y)>>, Name(op, FALSE, nextID), BinaryType(op, x, y))
  /\ nextID' = nextID + 1
  /\ UNCHANGED <<inputs, outputs, err, frames, blocksMade>>

(* Concat along axis 0: an empty list of operands only sets the error.       *)
Concat(vs) ==
  /\ Call
  /\ \/ /\ vs = <<>>
        /\ SetErr("concat")
        /\ UNCHANGED <<operations, values, nextID, handles>>
     \/ /\ vs # <<>>
        /\ \A i \in 1..Len(vs) : vs[i].shape # <<>>
        /\ AddOp("concat", [i \in 1..Len(vs) |-> Bind(vs[i])],
                 Name("concat", FALSE, nextID + 2),
                 [dtype |-> vs[1].dtype,
                  shape |-> [vs[1].shape EXCEPT ![1] =
                               IF Len(vs) = 1 THEN @ ELSE @ + vs[2].shape[1]]])
        /\ nextID' = nextID + 3
        /\ UNCHANGED err
  /\ UNCHANGED <<inputs, outputs, frames, blocksMade>>

(* TopK with k = 1: the operation has one result; the second value returned  *)
(* only has a name, it is not registered and no operation defines it.        *)
TopK(x) ==
  LET t == [dtype |-> x.dtype, shape |-> <<1>>]
      v == Value(Name("topk", FALSE, nextID + 3), t, FALSE, Main)
      indices == Value(Name("topk_indices", FALSE, nextID + 4),
                       [dtype |-> "Int32", shape |-> <<1>>], FALSE, Phantom)
  IN
  /\ Call /\ x.shape # <<>>
  /\ operations' = Append(operations, Operation("topk", <<Bind(x)>>, <<Out(v.name, t)>>, <<>>))
  /\ Register({v}) /\ handles' = handles \union {v, indices}
  /\ nextID' = nextID + 5
  /\ UNCHANGED <<inputs, outputs, err, frames, blocksMade>>

Identity(n, x) ==
  /\ Call
  /\ AddOp("identity", <<Bind(x)>>, n, TypeOf(x))
  /\ UNCHANGED <<inputs, outputs, nextID, err, frames, blocksMade>>

(* Output under the value's own name only lists it; under another name an    *)
(* identity operation defines that name.                                     *)
Output(n, x) ==
  /\ Call
  /\ outputs' = Append(outputs, n)
  /\ IF n = x.name
     THEN UNCHANGED <<operations, values, handles>>
     ELSE AddOp("identity", <<Bind(x)>>, n, TypeOf(x))
  /\ UNCHANGED <<inputs, nextID, err, frames, blocksMade>>

-----------------------------------------------------------------------------
(* Operations a callback adds to a block: the one it was given, or the block  *)
(* of a call around it, whose builder it can still reach.                     *)

BlockBinary(k, op, x, y) ==
  LET bb == frames[k].block
      n  == Name(op, TRUE, bb.nextID)
      t  == BinaryType(op, x, y)
      b1 == BlockAddOp(bb, Operation(op, <<Bind(x), Bind(y)>>, <<Out(n, t)>>, <<>>))
  IN
  /\ Call
  /\ SetFrame(k, [frames[k] EXCEPT !.block = [b1 EXCEPT !.nextID = @ + 1]])
  /\ handles' = handles \union {Value(n, t, FALSE, bb.id)}
  /\ UNCHANGED <<inputs, operations, outputs, values, nextID, err, blocksMade>>

(* The client names a block's constants itself, apart from every other name:  *)
(* one name stands for all of them.                                           *)
BlockConst(t) ==
  /\ Call
  /\ handles' = handles \union {Value(Name("block_const", FALSE, NoId), t, TRUE, Embedded)}
  /\ UNCHANGED <<inputs, operations, outputs, values, nextID, err, frames, blocksMade>>

-----------------------------------------------------------------------------
(* Cond and WhileLoop.  A failed validation records the error, drops the     *)
(* blocks built so far and returns nil.                                      *)

Frame(kind, operand, bb) ==
  [kind |-> kind, operands |-> operand, block |-> bb, built |-> <<>>, results |-> <<>>]

Fail(e) ==
  /\ SetErr(e)
  /\ UNCHANGED <<inputs, operations, outputs, values, nextID, handles>>

SameCount(vs, ws) == Len(vs) = Len(ws)
SameTypes(vs, ws) ==
  Len(vs) = Len(ws) /\ \A i \in 1..Len(vs) : TypeOf(vs[i]) = TypeOf(ws[i])

(* The operation with its two blocks, and its results.                       *)
AddControlFlow(type, args, bases, types, built) ==
  LET names == [i \in 1..Len(types) |-> Name(bases[i], FALSE, nextID + i - 1)]
      vs == {Value(names[i], types[i], FALSE, Main) : i \in 1..Len(types)}
  IN
  /\ operations' = Append(operations,
        Operation(type, args, [i \in 1..Len(types) |-> Out(names[i], types[i])], built))
  /\ nextID' = nextID + Len(types)
  /\ Register(vs) /\ handles' = handles \union vs
  /\ UNCHANGED <<inputs, outputs, err>>

Cond(pred) ==
  /\ Call
  /\ \/ /\ ~BoolScalar(pred)
        /\ Fail("cond")
        /\ UNCHANGED <<frames, blocksMade>>
     \/ /\ BoolScalar(pred) /\ Len(frames) < client.depth
        /\ frames' = Append(frames, Frame("cond", <<pred>>, NewBlock(blocksMade + 1, <<>>)))
        /\ blocksMade' = blocksMade + 1
        /\ UNCHANGED <<inputs, operations, outputs, values, nextID, err, handles>>

TrueBranchReturns(outs) ==
  /\ InCallback /\ TopFrame.kind = "cond" /\ TopFrame.built = <<>>
  /\ SetTop([TopFrame EXCEPT
        !.built = <<BlockOutputs(TopFrame.block, Numbered("cond_true_out"), outs)>>,
        !.results = outs,
        !.block = NewBlock(blocksMade + 1, <<>>)])
  /\ blocksMade' = blocksMade + 1
  /\ UNCHANGED <<inputs, operations, outputs, values, nextID, err, handles, client>>

FalseBranchReturns(outs) ==
  LET f == TopFrame
      ok == SameTypes(f.results, outs)
      falseBlock == BlockOutputs(f.block, Numbered("cond_false_out"), outs)
  IN
  /\ InCallback /\ f.kind = "cond" /\ f.built # <<>>
  /\ PopFrame
  /\ IF ok
     THEN AddControlFlow("cond", <<BindByName(f.operands[1])>>, CondOut,
                         [i \in 1..Len(outs) |-> TypeOf(f.results[i])],
                         Append(f.built, falseBlock))
     ELSE Fail("cond")
  /\ UNCHANGED <<blocksMade, client>>

WhileLoop(loopVars) ==
  LET condVars == BlockInputs(Numbered("cond_var"), loopVars, blocksMade + 1) IN
  /\ Call
  /\ \/ /\ loopVars = <<>>
        /\ Fail("while")
        /\ UNCHANGED <<frames, blocksMade>>
     \/ /\ loopVars # <<>> /\ Len(frames) < client.depth
        /\ frames' = Append(frames,
                            Frame("while", loopVars, NewBlock(blocksMade + 1, condVars)))
        /\ blocksMade' = blocksMade + 1 /\ HandOut(condVars)
        /\ UNCHANGED <<inputs, operations, outputs, values, nextID, err>>

(* The callback may also return nil: res is then the empty sequence.         *)
LoopCondReturns(res) ==
  LET f == TopFrame
      condBlock == BlockOutputs(f.block, <<Name("cond_result", FALSE, NoId)>>, res)
      bodyVars == BlockInputs(Numbered("body_var"), f.operands, blocksMade + 1)
  IN
  /\ InCallback /\ f.kind = "while" /\ f.built = <<>>
  /\ IF res # <<>> /\ BoolScalar(res[1])
     THEN /\ SetTop([f EXCEPT !.built = <<condBlock>>,
                              !.block = NewBlock(blocksMade + 1, bodyVars)])
          /\ blocksMade' = blocksMade + 1 /\ HandOut(bodyVars)
          /\ UNCHANGED <<inputs, operations, outputs, values, nextID, err>>
     ELSE PopFrame /\ Fail("while") /\ UNCHANGED blocksMade
  /\ UNCHANGED client

LoopBodyReturns(outs) ==
  LET f == TopFrame
      ok == SameTypes(f.operands, outs)
      bodyBlock == BlockOutputs(f.block, Numbered("body_out"), outs)
  IN
  /\ InCallback /\ f.kind = "while" /\ f.built # <<>>
  /\ PopFrame
  /\ IF ok
     THEN AddControlFlow("while_loop",
                         [i \in 1..Len(f.operands) |-> Bind(f.operands[i])], WhileOut,
                         [i \in 1..Len(outs) |-> TypeOf(f.operands[i])],
                         Append(f.built, bodyBlock))
     ELSE Fail("while")
  /\ UNCHANGED <<blocksMade, client>>

-----------------------------------------------------------------------------
Tuples(S, n) == UNION {[1..k -> S] : k \in 0..n}

Next ==
  \/ \E n \in FreshNames, t \in UserTypes : Input(n, t)
  \/ \E n \in FreshNames, t \in UserTypes : PlaceholderValue(n, t)
  \/ \E n \in FreshNames, t \in UserTypes : Const(n, t)
  \/ \E op \in DOMAIN Attributes \cap client.ops, x \in handles : Unary(op, x)
  \/ \E op \in BinaryOps \cap client.ops, x, y \in handles : Binary(op, x, y)
  \/ "concat" \in client.ops /\ \E vs \in Tuples(handles, client.outs) : Concat(vs)
  \/ "topk" \in client.ops /\ \E x \in handles : TopK(x)
  \/ "identity" \in client.ops /\ \E x \in handles, n \in FreshNames : Identity(n, x)
  \/ \E x \in handles, n \in FreshNames : Output(n, x)
  \/ \E x \in handles : x.name \notin {outputs[i] : i \in 1..Len(outputs)} /\ Output(x.name, x)
  \/ \E k \in 1..Len(frames), op \in BinaryOps \cap client.ops, x, y \in handles :
       BlockBinary(k, op, x, y)
  \/ InCallback /\ \E t \in UserTypes : BlockConst(t)
  \/ "cond" \in client.ops /\ \E x \in handles : Cond(x)
  \/ InCallback /\ \E outs \in Tuples(handles, client.outs) : TrueBranchReturns(outs)
  \/ InCallback /\ \E outs \in Tuples(handles, client.outs) : FalseBranchReturns(outs)
  \/ "while_loop" \in client.ops /\ \E vs \in Tuples(handles, client.outs) : WhileLoop(vs)
  \/ InCallback /\ \E res \in Tuples(handles, 1) : LoopCondReturns(res)
  \/ InCallback /\ \E outs \in Tuples(handles, client.outs) : LoopBodyReturns(outs)

Spec == Init /\ [][Next]_vars

-----------------------------------------------------------------------------
(* Properties.                                                               *)

Elements(s) == {s[i] : i \in 1..Len(s)}
OutNames(op) == {op.outs[i].name : i \in 1..Len(op.outs)}
OpDefs(ops, n) == UNION {OutNames(ops[k]) : k \in 1..n}
InputNames(vs) == {vs[i].name : i \in 1..Len(vs)}

(* Names that the main block defines before its operation number i.          *)
DefsBefore(i) == InputNames(inputs) \union OpDefs(operations, i - 1)

(* Every value, wherever it is kept, has a known element type, positive sizes *)
(* and no more axes than the declared types have; at most MaxDepth            *)
(* control-flow calls are active.  Every name is one of the client's or has a *)
(* base the code gives.                                                       *)
TypeOK ==
  /\ \A v \in Elements(inputs) \union handles :
        v.name \in NameRecords /\ IsType(TypeOf(v))
  /\ \A op \in Elements(operations) : \A o \in Elements(op.outs) :
        o.name \in NameRecords /\ IsType(o.type)
  /\ Elements(outputs) \subseteq NameRecords
  /\ DOMAIN values \subseteq NameRecords
  /\ nextID \in Nat /\ blocksMade \in Nat /\ client.calls \in Nat
  /\ err \in {"none", "concat", "cond", "while"}
  /\ Len(frames) \in 0..MaxDepth

(* Block bb of operation i, its operation j: block inputs and results of       *)
(* earlier operations of the block come before main names.  A value of the     *)
(* block itself, or of the main block, is resolved to its definition; of the   *)
(* others only those of another block can meet a name defined here, because    *)
(* every block counts its names from 0.                                        *)
BlockRefsResolve(bb, i) ==
  LET local(j) == InputNames(bb.inputs) \union OpDefs(bb.operations, j - 1)
  IN  /\ \A j \in 1..Len(bb.operations) : \A a \in Elements(bb.operations[j].args) :
            a.byName => /\ a.home = Main <=> a.name \in DefsBefore(i)
                        /\ a.home = bb.id => a.name \in local(j)
                        /\ a.name \in local(j) => a.home > Main
      /\ Elements(bb.outputs) \subseteq local(Len(bb.operations) + 1)

(* builder.go addOp, ops_control_flow.go: whatever values the client passes,   *)
(* in the main block or in a callback, an argument that is a name is resolved, *)
(* by MIL's scoping, to the very value passed when that value is in scope.  A   *)
(* name is resolved to a definition of the main block only for a value of the  *)
(* main block: a placeholder, a constant or a value of a nested block that is  *)
(* out of scope is never taken for one.  Inside a block such a value of         *)
(* another block may be taken for the local one of the same name.              *)
DefinedBeforeUse ==
  \A i \in 1..Len(operations) :
    /\ \A a \in Elements(operations[i].args) :
         a.byName => (a.home = Main <=> a.name \in DefsBefore(i))
    /\ \A bb \in Elements(operations[i].blocks) : BlockRefsResolve(bb, i)

(* A sequence of definitions without repetition.                             *)
NoRepeat(names) == \A i, j \in 1..Len(names) : i # j => names[i] # names[j]
OpsDistinct(ops) ==
  \A i, j \in 1..Len(ops) : i # j => OutNames(ops[i]) \cap OutNames(ops[j]) = {}
NamesOf(vs) == [i \in 1..Len(vs) |-> vs[i].name]

(* genName: with names the client keeps distinct, no name is defined twice in *)
(* the main block or in one nested block, and no nested block hides a main    *)
(* name.                                                                      *)
NamesUnique ==
  /\ NoRepeat(NamesOf(inputs)) /\ OpsDistinct(operations)
  /\ InputNames(inputs) \cap OpDefs(operations, Len(operations)) = {}
  /\ \A op \in Elements(operations) : \A bb \in Elements(op.blocks) :
       /\ NoRepeat(NamesOf(bb.inputs)) /\ OpsDistinct(bb.operations)
       /\ (InputNames(bb.inputs) \union OpDefs(bb.operations, Len(bb.operations)))
            \cap DefsBefore(Len(operations) + 1) = {}

(* The type a name is defined with in a block.                               *)
DefinedAs(ins, ops, n, t) ==
  \/ \E v \in Elements(ins) : v.name = n /\ TypeOf(v) = t
  \/ \E op \in Elements(ops) : \E o \in Elements(op.outs) : o.name = n /\ o.type = t

(* Cond and WhileLoop: the operation's results, the outputs of its blocks     *)
(* and, for a loop, the inputs of both blocks agree in number and in type,    *)
(* and a loop's condition block yields one Bool scalar.                       *)
ControlFlowAgrees ==
  \A op \in Elements(operations) : op.blocks # <<>> =>
    LET yields(bb, types) ==
          /\ Len(bb.outputs) = Len(types)
          /\ \A k \in 1..Len(types) :
               DefinedAs(bb.inputs, bb.operations, bb.outputs[k], types[k])
        results == [k \in 1..Len(op.outs) |-> op.outs[k].type]
        accepts(bb) == [k \in 1..Len(bb.inputs) |-> TypeOf(bb.inputs[k])] = results
    IN  /\ Len(op.blocks) = 2 /\ yields(op.blocks[2], results)
        /\ op.type = "cond" => yields(op.blocks[1], results)
        /\ op.type = "while_loop" =>
             /\ yields(op.blocks[1], <<[dtype |-> "Bool", shape |-> <<>>]>>)
             /\ accepts(op.blocks[1]) /\ accepts(op.blocks[2])
             /\ Len(op.args) = Len(op.outs)

(* OutputSpecs reads the type of an output from Builder.values: it is the     *)
(* type the program defines that name with, unless the client listed, under   *)
(* its own name, a value that the main block does not define.                 *)
OutputSpecsMatch ==
  \A n \in Elements(outputs) :
    \/ n \in DOMAIN values /\ DefinedAs(inputs, operations, n, TypeOf(values[n]))
    \/ \E v \in handles : v.name = n /\ v.home # Main

(* setErr: the first error stays, and a call that fails adds no operation,    *)
(* no name and consumes no identifier.                                        *)
FailureLeavesNoTrace ==
  [][/\ err # "none" => err' = err
     /\ err' # err => UNCHANGED <<inputs, operations, outputs, values, nextID, handles>>
    ]_vars

(* ops_control_flow.go:289 takes any scalar boolean value as the predicate of *)
(* Cond; builder.go:40 lets that value be a constant.  The operation then     *)
(* refers to it by a name that nothing defines.                               *)
CondPredicateDefined ==
  \A op \in Elements(operations) : op.type = "cond" => op.args[1].home # Embedded

(* ops.go:484: TopK returns the values and the indices.  No operation may     *)
(* refer to indices that no operation produces.                               *)
TopKIndicesDefined ==
  \A op \in Elements(operations) : \A a \in Elements(op.args) : a.home # Phantom

=============================================================================
