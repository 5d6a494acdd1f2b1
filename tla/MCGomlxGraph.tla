----------------------------- MODULE MCGomlxGraph -----------------------------
(* Outlines that let every kind of control flow be built: a loop, a loop over *)
(* two variables, branches, branches in a closure, and misuses.               *)
EXTENDS GomlxGraph

F == "Float32"
B == "Bool"
Outline(parents, params, uses, outs) ==
  [parents |-> parents, params |-> params, uses |-> uses, outs |-> outs]

Loop       == Outline(<<0, 1, 1>>, <<<<F>>, <<F>>, <<F>>>>,
                      [LessThan |-> 1, Sub |-> 1, While |-> 1], 1)
LoopExp    == Outline(<<0, 1, 1>>, <<<<F>>, <<F>>, <<F>>>>,
                      [LessThan |-> 1, Exp |-> 1, While |-> 1], 1)
TwoVars    == Outline(<<0, 1, 1>>, <<<<F, F>>, <<F, F>>, <<F, F>>>>,
                      [LessThan |-> 1, While |-> 1], 2)
Branches   == Outline(<<0, 1, 1>>, <<<<B, F>>, <<>>, <<F>>>>,
                      [Exp |-> 1, Sub |-> 1, If |-> 1], 1)
Nested     == Outline(<<0, 1, 2>>, <<<<B, F>>, <<>>, <<>>>>,
                      [Sub |-> 1, Neg |-> 1, If |-> 2], 1)
LoopInside == Outline(<<0, 1, 2>>, <<<<B>>, <<B>>, <<B>>>>,
                      [Where |-> 1, While |-> 2], 1)
TwoTops    == Outline(<<0, 0, 1>>, <<<<F, B>>, <<F>>, <<>>>>,
                      [Constant |-> 1, Log1p |-> 1, Expm1 |-> 1, If |-> 1], 1)
MCOutlines == {Loop, LoopExp, TwoVars, Branches, Nested, LoopInside, TwoTops}

=============================================================================
