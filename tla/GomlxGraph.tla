------------------------------ MODULE GomlxGraph ------------------------------
(***************************************************************************)
(* gomlx Builder and Function: how the calls of a GoMLX client become a MIL  *)
(* program.  A top-level function emits MIL operations as it is called.  A   *)
(* closure mostly records nodes whose MIL value is a placeholder; While and   *)
(* If replay the recorded nodes in a block of the program.                   *)
(*                                                                          *)
(* Every node and every MIL value carries a meaning, a term: what the client *)
(* asked for, and what the program computes.  All values are scalars (shapes *)
(* are GomlxLowering's subject).  Calls that the code rejects change nothing *)
(* and are not enumerated.  Names are MILBuilder's subject; constants are    *)
(* embedded wherever they are used, so nextConstID is left out.              *)
(***************************************************************************)
EXTENDS Integers, Sequences, SequencesExt

CONSTANT
  Outlines       \* bounds: the functions and parameters a client declares before
                 \* anything else, and how often it calls the rest

(* Operations of Function by helper.  The first three groups are lazy in a   *)
(* closure; the last emits at once wherever it is called.                    *)
UnaryOps == {"Abs", "Exp", "Log", "Sqrt", "Floor", "Ceil", "Round", "Sign", "Tanh",
             "Logistic", "Cos", "Sin", "Erf", "Rsqrt"}
BinaryOps == {"Add", "Sub", "Mul", "Div", "Pow", "Max", "Min"}
ComparisonOps == {"Equal", "NotEqual", "LessThan", "LessOrEqual", "GreaterThan",
                  "GreaterOrEqual"}
EagerOps == {"Neg", "Expm1", "Log1p", "Where"}
AllOps == UnaryOps \union BinaryOps \union ComparisonOps \union EagerOps

ASSUME BoundsAssumption ==
  \A o \in Outlines :
    /\ DOMAIN o.uses \subseteq AllOps \union {"Constant", "While", "If"}
    /\ o.outs \in Nat /\ \A op \in DOMAIN o.uses : o.uses[op] \in Nat
    /\ \A f \in DOMAIN o.parents : o.parents[f] \in 0..f - 1

VARIABLES
  functions,  \* main and closures: parent, returned, outputs, parameters, sorted
  mainFn,     \* Builder.mainFn: 0 or the index of the main function
  nodes,      \* Builder.nodes
  inputs,     \* Builder.inputs, inputNames, inputShapes: nodes
  program,    \* the operations of the MIL main block
  outline     \* bound: the outline this client follows

vars == <<functions, mainFn, nodes, inputs, program, outline>>

-----------------------------------------------------------------------------
(* Terms and MIL values.  A value belongs to the main block, to a block of    *)
(* operation i, or nowhere: then nothing defines the name it refers to, and   *)
(* whatever is computed from it is broken.                                    *)
Term(op, args) == [op |-> op, id |-> 0, args |-> args]
Leaf(kind, id) == [op |-> kind, id |-> id, args |-> <<>>]

Main == <<0, 0>>
Nowhere == <<-1, 0>>
Value(home, term) == [home |-> home, whole |-> TRUE, means |-> term]
PlaceholderValue == [home |-> Nowhere, whole |-> FALSE, means |-> Leaf("nothing", 0)]

Means(vs) == [i \in DOMAIN vs |-> vs[i].means]
Whole(vs) == \A i \in DOMAIN vs : vs[i].whole
(* The result, living at home, of an operation that computes a term from vs.  *)
Result(home, term, vs) ==
  IF Whole(vs) THEN Value(home, term) ELSE [PlaceholderValue EXCEPT !.home = home]

MilOp(op, args) == [op |-> op, args |-> args, blocks |-> <<>>]
Computed(home, op, args) == Result(home, Term(op, Means(args)), args)
Literal(x) == Value(Main, Leaf("literal", x))

-----------------------------------------------------------------------------
(* What the client asks of an operation.                                      *)
Promise(op, ts) ==
  CASE op = "Neg"   -> Term("Mul", <<ts[1], Leaf("literal", -1)>>)
    [] op = "Expm1" -> Term("Sub", <<Term("Exp", ts), Leaf("literal", 1)>>)
    [] op = "Log1p" -> Term("Log", <<Term("Add", <<ts[1], Leaf("literal", 1)>>)>>)
    [] OTHER        -> Term(op, ts)

(* shapeinference: the operand types an operation takes and its result's.     *)
Signatures(op) ==
  CASE op \in UnaryOps \union {"Neg", "Expm1", "Log1p"} -> {<<"Float32">>}
    [] op \in BinaryOps \union ComparisonOps -> {<<"Float32", "Float32">>}
    [] op = "Where" -> {<<"Bool", t, t>> : t \in {"Bool", "Float32"}}
ResultType(op, types) ==
  IF op \in ComparisonOps THEN "Bool" ELSE types[Len(types)]

(* The MIL operations emitted for one call, and the value of the last one.    *)
Emitted(before, op, args) ==
  [ops |-> Append(before, MilOp(op, args)), val |-> Computed(Main, op, args)]
Emission(op, vs) ==
  LET plusOne == <<vs[1], Literal(1)>>
  IN  CASE op = "Neg"   -> Emitted(<<>>, "Mul", <<vs[1], Literal(-1)>>)
        [] op = "Expm1" -> Emitted(<<MilOp("Exp", vs)>>,
                                   "Sub", <<Computed(Main, "Exp", vs), Literal(1)>>)
        [] op = "Log1p" -> Emitted(<<MilOp("Add", plusOne)>>,
                                   "Log", <<Computed(Main, "Add", plusOne)>>)
        [] OTHER        -> Emitted(<<>>, op, vs)

-----------------------------------------------------------------------------
(* Nodes and functions.                                                       *)
NewFn(parent) ==
  [parent |-> parent, returned |-> FALSE, outputs |-> <<>>, parameters |-> <<>>,
   sorted |-> <<>>]
Fns == DOMAIN functions
Ns == DOMAIN nodes
IsClosure(f) == functions[f].parent # 0
Parameters(f) == ToSet(functions[f].parameters)

(* asked is a ghost, the meaning the client was promised; owner and loops     *)
(* remember the caller and the operands of a While or If, whose nodes have no *)
(* inputs.                                                                     *)
Node(op, ins, type, val, asked, owner) ==
  [op |-> op, inputs |-> ins, type |-> type, val |-> val, asked |-> asked,
   owner |-> owner, over |-> <<>>, closures |-> <<>>]
Vals(ns) == [i \in DOMAIN ns |-> nodes[ns[i]].val]
TypesOf(ns) == [i \in DOMAIN ns |-> nodes[ns[i]].type]
Asked(ns) == [i \in DOMAIN ns |-> nodes[ns[i]].asked]

Leaves == {"Parameter", "Constant"}
Left(op) ==
  /\ op \in DOMAIN outline.uses
  /\ Len(SelectSeq(nodes, LAMBDA n : n.op = op)) < outline.uses[op]

(* Bound: a client first creates its functions, each under the parent the     *)
(* outline gives it (0: none), then their parameters.  Then it writes them,   *)
(* the last created first; before it starts on one it may write its ancestors.*)
NextFunction(parent) ==
  /\ Len(functions) < Len(outline.parents)
  /\ outline.parents[Len(functions) + 1] = parent
Undeclared ==
  {f \in DOMAIN outline.params :
     f \notin DOMAIN functions \/ Len(functions[f].parameters) < Len(outline.params[f])}
NextParameter(f, type) ==
  /\ Len(functions) = Len(outline.parents)
  /\ f \in Undeclared /\ \A g \in Undeclared : f <= g
  /\ outline.params[f][Len(functions[f].parameters) + 1] = type

Ancestors[f \in Nat] ==
  IF f = 0 THEN {} ELSE {f} \union Ancestors[functions[f].parent]
Unused(f) == \A n \in DOMAIN nodes : nodes[n].owner = f => nodes[n].op = "Parameter"
Current(f) ==
  /\ ~functions[f].returned
  /\ \A g \in f + 1..Len(functions) : functions[g].returned
Open(f) ==
  /\ Undeclared = {} /\ ~functions[f].returned
  /\ \E c \in DOMAIN functions :
       Current(c) /\ (f = c \/ (Unused(c) /\ f \in Ancestors[c]))

(* The values a function may use: its own and those of its ancestors.         *)
Visible(f) == {n \in DOMAIN nodes : nodes[n].owner \in Ancestors[f]}

Init ==
  /\ functions = <<>> /\ mainFn = 0
  /\ nodes = <<>> /\ inputs = <<>> /\ program = <<>>
  /\ outline \in Outlines

MainFunction ==
  /\ mainFn = 0 /\ NextFunction(0)
  /\ functions' = Append(functions, NewFn(0))
  /\ mainFn' = Len(functions) + 1
  /\ UNCHANGED <<nodes, inputs, program, outline>>

NewFunction ==
  /\ mainFn # 0 /\ NextFunction(0)
  /\ functions' = Append(functions, NewFn(0))
  /\ UNCHANGED <<mainFn, nodes, inputs, program, outline>>

Closure(f) ==
  /\ NextFunction(f)
  /\ functions' = Append(functions, NewFn(f))
  /\ UNCHANGED <<mainFn, nodes, inputs, program, outline>>

(* A closure's parameter is a placeholder, any other is an input of the model.*)
Parameter(f, type) ==
  LET n == Len(nodes) + 1
      v == IF IsClosure(f) THEN PlaceholderValue ELSE Value(Main, Leaf("param", n))
  IN
  /\ NextParameter(f, type)
  /\ nodes' = Append(nodes, Node("Parameter", <<>>, type, v, Leaf("param", n), f))
  /\ functions' = [functions EXCEPT ![f].parameters = Append(@, n)]
  /\ inputs' = IF IsClosure(f) THEN inputs ELSE Append(inputs, n)
  /\ UNCHANGED <<mainFn, program, outline>>

Constant(f, type) ==
  LET n == Len(nodes) + 1 IN
  /\ Open(f) /\ Left("Constant")
  /\ nodes' = Append(nodes, Node("Constant", <<>>, type, Value(Main, Leaf("const", n)),
                                 Leaf("const", n), f))
  /\ UNCHANGED <<functions, mainFn, inputs, program, outline>>

(* addUnaryOp, addBinaryOp, addComparisonOp and the operations that do not    *)
(* use them.                                                                  *)
Operation(f, op, xs) ==
  LET e == Emission(op, Vals(xs))
      node(v) == Node(op, xs, ResultType(op, TypesOf(xs)), v, Promise(op, Asked(xs)), f)
  IN
  /\ TypesOf(xs) \in Signatures(op)
  /\ IF IsClosure(f) /\ op \notin EagerOps
     THEN nodes' = Append(nodes, node(PlaceholderValue)) /\ UNCHANGED program
     ELSE nodes' = Append(nodes, node(e.val)) /\ program' = program \o e.ops
  /\ UNCHANGED <<functions, mainFn, inputs, outline>>

(* compile: the nodes the outputs depend on, wherever they were created, in   *)
(* the order of their creation.                                                *)
Reach[n \in Ns] == {n} \union UNION {Reach[m] : m \in ToSet(nodes[n].inputs)}
Needed(outs) == UNION {Reach[n] : n \in ToSet(outs)}
Sorted(outs) ==
  LET needed == Needed(outs)
      upTo[n \in 0..Len(nodes)] ==
        IF n = 0 THEN <<>> ELSE IF n \in needed THEN Append(upTo[n - 1], n) ELSE upTo[n - 1]
  IN  upTo[Len(nodes)]

ReturnNothing(f, outs) ==
  /\ Open(f) /\ Current(f)
  /\ functions' = [functions EXCEPT
        ![f].returned = TRUE, ![f].outputs = outs,
        ![f].sorted = IF IsClosure(f) THEN Sorted(outs) ELSE <<>>]
  /\ UNCHANGED <<mainFn, nodes, inputs, program, outline>>
Return(f, outs) ==
  /\ Open(f) /\ Current(f) /\ outs # <<>>
  /\ functions' = [functions EXCEPT
        ![f].returned = TRUE, ![f].outputs = outs,
        ![f].sorted = IF IsClosure(f) THEN Sorted(outs) ELSE <<>>]
  /\ UNCHANGED <<mainFn, nodes, inputs, program, outline>>

-----------------------------------------------------------------------------
(* Replay of closure c in the block at home.  valueMap holds the values that  *)
(* nodes have in the block; any other node stands for its own value.          *)
Replayable == {"Add", "Sub", "Mul", "LessThan", "GreaterThan", "Where"}

Mapped(n, valueMap) == IF n \in DOMAIN valueMap THEN valueMap[n] ELSE nodes[n].val
MappedAll(ns, valueMap) == [i \in DOMAIN ns |-> Mapped(ns[i], valueMap)]

(* replayNodeInBlock: the node's value in the block and the operations added. *)
ReplayNodeSwapped(n, home, valueMap) ==
  LET args == Reverse(MappedAll(nodes[n].inputs, valueMap))
  IN  IF nodes[n].op \in Replayable
      THEN [val |-> Computed(home, nodes[n].op, args), ops |-> <<MilOp(nodes[n].op, args)>>]
      ELSE [val |-> nodes[n].val, ops |-> <<>>]
ReplayNodeStale(n, home, valueMap) ==
  LET args == Vals(nodes[n].inputs)
  IN  IF nodes[n].op \in Replayable
      THEN [val |-> Computed(home, nodes[n].op, args), ops |-> <<MilOp(nodes[n].op, args)>>]
      ELSE [val |-> nodes[n].val, ops |-> <<>>]
ReplayNode(n, home, valueMap) ==
  LET args == MappedAll(nodes[n].inputs, valueMap)
  IN  IF nodes[n].op \in Replayable
      THEN [val |-> Computed(home, nodes[n].op, args), ops |-> <<MilOp(nodes[n].op, args)>>]
      ELSE [val |-> nodes[n].val, ops |-> <<>>]

(* The parameters of closure c stand for the inputs of the block, as far as   *)
(* there are any.                                                             *)
BoundParameters(c, blockInputs) ==
  LET ps == functions[c].parameters
      bound == DOMAIN ps \cap DOMAIN blockInputs
  IN  [n \in {ps[i] : i \in bound} |-> blockInputs[CHOOSE i \in bound : ps[i] = n]]

(* Parameters are mapped beforehand or not at all, and a parameter of another *)
(* function is not mapped; a node without inputs keeps its value.             *)
Outside(n, c) ==
  /\ ToSet(nodes[n].inputs) \cap (ToSet(functions[c].sorted) \union Parameters(c)) = {}
  /\ nodes[n].op \notin Leaves
ReplayStep(n, c, home, acc) ==
  LET r == IF Outside(n, c) THEN [val |-> nodes[n].val, ops |-> <<>>]
           ELSE ReplayNode(n, home, acc.map)
  IN  IF n \in DOMAIN acc.map \/ nodes[n].op = "Parameter" THEN acc
      ELSE [map |-> [m \in DOMAIN acc.map \union {n} |-> IF m = n THEN r.val ELSE acc.map[m]],
            ops |-> acc.ops \o r.ops]
(* The map and the operations after each of the sorted nodes.                 *)
Replayed(c, home, blockInputs) ==
  LET sorted == functions[c].sorted
      upTo[k \in 0..Len(sorted)] ==
        IF k = 0 THEN [map |-> BoundParameters(c, blockInputs), ops |-> <<>>]
        ELSE ReplayStep(sorted[k], c, home, upTo[k - 1])
  IN  upTo
Replay(c, home, blockInputs) ==
  LET end == Replayed(c, home, blockInputs)[Len(functions[c].sorted)]
  IN  [inputs |-> Len(blockInputs), ops |-> end.ops,
       outs |-> MappedAll(functions[c].outputs, end.map)]

(* The blocks of the next operation, and the results of that operation: value *)
(* k stands for result k of it.                                               *)
Block(k) == <<Len(program) + 1, k>>
Results(op, args, blocks, count) ==
  LET vs == args \o blocks[1].outs \o blocks[2].outs
  IN  [k \in 1..count |-> Result(Main, Term(op, <<Leaf("result", k)>> \o Means(vs)), vs)]
AddResults(f, op, over, pair, vs, types) ==
  LET asked(k) == Term(op, <<Leaf("result", k)>> \o Asked(over)
                           \o Asked(functions[pair[1]].outputs)
                           \o Asked(functions[pair[2]].outputs))
  IN  nodes' = nodes \o [k \in 1..Len(vs) |->
        [Node(op, <<>>, types[k], vs[k], asked(k), f)
          EXCEPT !.over = over, !.closures = pair]]

ClosureOf(c, f) == functions[c].parent = f /\ functions[c].returned

(* The loop variables are given to the k-th block as its inputs: a loop runs  *)
(* with the parameters of closure c standing for them.                        *)
BlockInputsShared(c, k, count) ==
  [i \in 1..count |-> Value(Block(1), nodes[functions[c].parameters[i]].asked)]
BlockInputs(c, k, count) ==
  [i \in 1..count |-> Value(Block(k), nodes[functions[c].parameters[i]].asked)]

While(f, cond, body, initial) ==
  LET count == Len(initial)
      condBlock == Replay(cond, Block(1), BlockInputs(cond, 1, count))
      bodyBlock == Replay(body, Block(2), BlockInputs(body, 2, count))
      blocks == <<[condBlock EXCEPT !.outs = <<@[1]>>], bodyBlock>>
      args == Vals(initial)
  IN
  /\ Open(f) /\ Left("While") /\ initial # <<>>
  /\ ClosureOf(cond, f) /\ TypesOf(functions[cond].outputs) = <<"Bool">>
  /\ ClosureOf(body, f) /\ TypesOf(functions[body].outputs) = TypesOf(initial)
  /\ Len(functions[cond].parameters) = count
  /\ Len(functions[body].parameters) = count
  /\ program' = Append(program, [MilOp("While", args) EXCEPT !.blocks = blocks])
  /\ AddResults(f, "While", initial, <<cond, body>>,
                Results("While", args, blocks, count), TypesOf(initial))
  /\ UNCHANGED <<functions, mainFn, inputs, outline>>

(* A constant predicate is referred to by a name that nothing defines.        *)
Predicate(n) == IF nodes[n].op = "Constant" THEN PlaceholderValue ELSE nodes[n].val

If(f, pred, trueBranch, falseBranch) ==
  LET blocks == <<Replay(trueBranch, Block(1), <<>>), Replay(falseBranch, Block(2), <<>>)>>
      types == TypesOf(functions[trueBranch].outputs)
      args == <<Predicate(pred)>>
  IN
  /\ Open(f) /\ Left("If") /\ nodes[pred].type = "Bool"
  /\ ClosureOf(trueBranch, f) /\ ClosureOf(falseBranch, f)
  /\ types = TypesOf(functions[falseBranch].outputs)
  /\ program' = Append(program, [MilOp("If", args) EXCEPT !.blocks = blocks])
  /\ AddResults(f, "If", <<pred>>, <<trueBranch, falseBranch>>,
                Results("If", args, blocks, Len(types)), types)
  /\ UNCHANGED <<functions, mainFn, inputs, outline>>

-----------------------------------------------------------------------------
Types == {"Bool", "Float32"}
SeqsUpTo(S, n) == UNION {[1..k -> S] : k \in 1..n}
Writable == {f \in Fns : Open(f)}
Uses == {op \in DOMAIN outline.uses : Left(op)}
(* Bound: a top-level function returns its newest value.                      *)
Outs(f) ==
  IF IsClosure(f) THEN {<<>>} \union SeqsUpTo(Visible(f), outline.outs)
  ELSE {<<n>> : n \in Ns \cap {Len(nodes)}}

Next ==
  \/ MainFunction
  \/ NewFunction
  \/ \E f \in Fns : Closure(f)
  \/ \E f \in Fns, t \in Types : Parameter(f, t)
  \/ \E f \in Writable, t \in Types : Constant(f, t)
  \/ \E f \in Writable, op \in AllOps \cap Uses : \E types \in Signatures(op) :
        \E xs \in [DOMAIN types -> Visible(f)] : Operation(f, op, xs)
  \/ \E f \in Writable : \E outs \in Outs(f) : Return(f, outs)
  \/ \E f \in Writable, cond, body \in Fns :
        \E initial \in SeqsUpTo(Visible(f), outline.outs) : While(f, cond, body, initial)
  \/ \E f \in Writable, yes, no \in Fns : \E pred \in Visible(f) : If(f, pred, yes, no)

Spec == Init /\ [][Next]_vars

-----------------------------------------------------------------------------
(* Properties.                                                               *)

(* Nodes refer to earlier nodes, a function has one parent and, once it has  *)
(* returned, at least one output; a value that is computed has a place.       *)
TypeOK ==
  /\ mainFn \in 0..Len(functions)
  /\ \A f \in Fns :
       /\ functions[f].parent \in 0..f - 1 /\ functions[f].returned \in BOOLEAN
       /\ functions[f].returned <=> functions[f].outputs # <<>>
       /\ ToSet(functions[f].outputs) \union Parameters(f)
            \union ToSet(functions[f].sorted) \subseteq Ns
  /\ \A n \in Ns :
       /\ nodes[n].op \in AllOps \union Leaves \union {"While", "If"}
       /\ nodes[n].type \in Types /\ nodes[n].owner \in Fns
       /\ ToSet(nodes[n].inputs) \union ToSet(nodes[n].over) \subseteq 1..n - 1
       /\ nodes[n].val.whole => nodes[n].val.home # Nowhere
  /\ ToSet(inputs) \subseteq Ns

(* replayClosureInBlock: whatever is captured, shared or replayed, a value    *)
(* whose names are all defined is the one the client asked for.               *)
NeverSilentlyWrong ==
  \A n \in Ns : nodes[n].val.whole => nodes[n].val.means = nodes[n].asked

(* Where a client may rely on node n, good[n]: 0 is the main program, c a loop *)
(* over closure c, -c a branch that is closure c.                             *)
ClosureAt(w) == IF w > 0 THEN w ELSE -w
TopLevel(f) == functions[f].parent = 0
Reliable(w, n, good) ==
  LET x == nodes[n]
      all(v, ns) == \A m \in ToSet(ns) : v \in good[m]
      yields(v) == all(v, functions[ClosureAt(v)].outputs)
  IN  IF w # 0 /\ n \in Parameters(ClosureAt(w)) THEN w > 0
      ELSE CASE x.op = "Parameter" -> TopLevel(x.owner)
             [] x.op = "Constant" -> TRUE
             [] x.op = "While" -> /\ all(0, x.over)
                                  /\ yields(x.closures[1]) /\ yields(x.closures[2])
             [] x.op = "If" -> /\ all(0, x.over) /\ nodes[x.over[1]].op # "Constant"
                               /\ yields(-x.closures[1]) /\ yields(-x.closures[2])
             [] OTHER -> IF w # 0 /\ x.op \in Replayable THEN all(w, x.inputs)
                         ELSE /\ all(0, x.inputs)
                              /\ TopLevel(x.owner) \/ x.op \in EagerOps
Good[n \in Ns] == {w \in Int : Reliable(w, n, Good)}

(* function.go:1365: the replay supports some operations and lets any other   *)
(* stand for itself.  The program defines everything a node needs exactly     *)
(* when loops and branches keep to the supported operations, bound parameters *)
(* and values of the main program, and no If branches on a constant, which    *)
(* Cond binds by a name that nothing defines (ops_control_flow.go:378).       *)
SupportedIsComplete == \A n \in Ns : nodes[n].val.whole <=> 0 \in Good[n]

(* Blocks: an operation uses values of the main block and, inside a block,    *)
(* values of that block, never those of another one.                          *)
BlocksApart ==
  \A i \in DOMAIN program :
    LET within(vs, homes) == \A k \in DOMAIN vs : vs[k].home \in homes \union {Main, Nowhere}
        blocks == program[i].blocks
    IN  /\ within(program[i].args, {})
        /\ \A b \in DOMAIN blocks :
             /\ within(blocks[b].outs, {<<i, b>>})
             /\ \A k \in DOMAIN blocks[b].ops : within(blocks[b].ops[k].args, {<<i, b>>})

=============================================================================
