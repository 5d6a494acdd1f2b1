----------------------------- MODULE MCMILBuilder -----------------------------
(* Small instances of MILBuilder: a Bool scalar and a Float32 vector of two   *)
(* elements are enough for every validation of Cond and WhileLoop to succeed  *)
(* and to fail.                                                               *)
EXTENDS MILBuilder

MCTypes == {[dtype |-> "Bool", shape |-> <<>>], [dtype |-> "Float32", shape |-> <<2>>]}

(* Names that no generated name can be: they carry no number.                 *)
MCUserNames == <<Name("x", FALSE, NoId), Name("y", FALSE, NoId)>>

(* Any operation in short programs, where one control-flow call may run inside *)
(* another; longer programs that compare, add and branch; two values at a time. *)
Client(ops, depth, calls, outs) ==
  [ops |-> ops, depth |-> depth, calls |-> calls, outs |-> outs]
MCClients ==
  {Client(OpTypes, 2, 3, 1), Client({"add", "less", "identity", "cond"}, 2, 4, 1),
   Client(OpTypes, 1, 2, 2), Client({"cond"}, 2, 3, 2)}
ConstPredicates == {Client({"less", "cond"}, 1, 3, 1)}
TopKClients == {Client({"relu", "topk"}, 0, 3, 1)}

=============================================================================
