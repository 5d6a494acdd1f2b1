-------------------------- MODULE GomlxGraphComplete --------------------------
(***************************************************************************)
(* Proofs about GomlxGraph, for any outlines: the program defines everything *)
(* a node needs exactly when loops and branches keep to what a replay        *)
(* supports.  GomlxGraphProofs has the invariant that these proofs rest on.  *)
(***************************************************************************)
EXTENDS GomlxGraphProofs

-----------------------------------------------------------------------------
(* What a closure replays: its outputs and everything they are computed from. *)
Settled(c) ==
  /\ c \in Fns /\ IsClosure(c) /\ functions[c].returned
Reaching(f) ==
  /\ Increasing(functions[f].sorted)
  /\ ToSet(functions[f].outputs) \subseteq ToSet(functions[f].sorted)
  /\ \A n \in ToSet(functions[f].sorted) :
       ToSet(nodes[n].inputs) \subseteq ToSet(functions[f].sorted)
FunctionShape(f) ==
  /\ \A n \in Parameters(f) : nodes[n].op = "Parameter" /\ nodes[n].owner = f
  /\ Settled(f) => Reaching(f)
(* A While or If keeps no inputs, but its operands and its closures.          *)
NodeShape(x, n) ==
  /\ x.op \in AllOps => ToSet(x.inputs) # {}
  /\ x.op \notin AllOps => ToSet(x.inputs) = {}
  /\ x.op = "If" => 1 \in DOMAIN x.over
  /\ x.op \in {"While", "If"} =>
       \A i \in {1, 2} : /\ Settled(x.closures[i])
                         /\ ToSet(functions[x.closures[i]].outputs) \subseteq 1..n - 1
Shaped ==
  /\ \A f \in Fns : FunctionShape(f)
  /\ \A n \in Ns : NodeShape(nodes[n], n)

(* The recursions of Reach and Good: node n takes what its equation needs     *)
(* from earlier nodes, so there is a function with that equation.             *)
LEMMA ReachEquation ==
  ASSUME GraphInv
  PROVE  \A n \in Ns : Reach[n] = {n} \union UNION {Reach[m] : m \in ToSet(nodes[n].inputs)}
<1> DEFINE step(n, g) == {n} \union UNION {g[m] : m \in ToSet(nodes[n].inputs)}
           is(g, m) == g = [n \in 1..m |-> step(n, g)]
           N == Len(nodes)
<1>1. N \in Nat /\ Ns = 1..N
      BY SeqFacts DEF GraphInv, Typed, Ns
<1>2. ASSUME NEW n \in 1..N, NEW g, NEW h, \A m \in 1..n - 1 : g[m] = h[m]
      PROVE  step(n, g) = step(n, h)
  <2>1. ToSet(nodes[n].inputs) \subseteq 1..n - 1
        BY <1>1 DEF GraphInv, NodesOK, NodeTyped
  <2> QED BY <1>2, <2>1
<1>3. Reach = CHOOSE g : g = [n \in Ns |-> step(n, g)]
      BY Zenon DEF Reach
<1> HIDE DEF step, N
<1>4. \A m \in 0..N : \E g : is(g, m)
  <2> DEFINE T == {m \in 0..N : ~ \E g : is(g, m)}
  <2>1. SUFFICES ASSUME T # {} PROVE FALSE
        OBVIOUS
  <2>2. PICK m \in T : \A k \in T : m <= k
    <3>1. T \in SUBSET Nat
          BY <1>1
    <3> HIDE DEF T
    <3> QED BY <2>1, <3>1, LeastNumber
  <2>3. m \in 0..N /\ ~ \E g : is(g, m)
        OBVIOUS
  <2>4. CASE m = 0
    <3> DEFINE g == [n \in 1..0 |-> {}]
    <3>1. is(g, 0)
          OBVIOUS
    <3> QED BY <2>3, <2>4, <3>1
  <2>5. CASE m # 0
    <3>1. m - 1 \in 0..N /\ m - 1 \notin T
      <4>1. m - 1 \in 0..N /\ ~ (m <= m - 1)
            BY <2>3, <2>5, <1>1
      <4> HIDE DEF T
      <4> QED BY <2>2, <4>1
    <3>2. PICK g : is(g, m - 1)
          BY <3>1
    <3> DEFINE h == [n \in 1..m |-> IF n = m THEN step(m, g) ELSE g[n]]
    <3>3. ASSUME NEW n \in 1..m PROVE h[n] = step(n, h)
      <4>1. n \in 1..N /\ \A k \in 1..n - 1 : k \in 1..m /\ k # m
            BY <2>3, <1>1
      <4>2. \A k \in 1..n - 1 : g[k] = h[k]
            BY <4>1
      <4>3. step(n, g) = step(n, h)
            BY <4>1, <4>2, <1>2
      <4>4. CASE n = m
            BY <4>3, <4>4
      <4>5. CASE n # m
        <5>1. n \in 1..m - 1
              BY <4>5, <2>3
        <5>2. h[n] = g[n] /\ g[n] = step(n, g)
              BY <4>5, <5>1, <3>2
        <5> QED BY <4>3, <5>2
      <4> QED BY <4>4, <4>5
    <3>4. h = [n \in 1..m |-> h[n]]
          OBVIOUS
    <3> HIDE DEF h
    <3>5. is(h, m)
          BY <3>3, <3>4
    <3> QED BY <2>3, <3>5
  <2> QED BY <2>4, <2>5
<1>5. \E g : is(g, N)
      BY <1>1, <1>4
<1>6. Reach = [n \in Ns |-> step(n, Reach)]
      BY <1>1, <1>3, <1>5
<1>7. \A n \in Ns : Reach[n] = step(n, Reach)
      BY <1>6
<1> QED BY <1>7 DEF step

LEMMA NeededFacts ==
  ASSUME GraphInv, NEW outs, ToSet(outs) \subseteq Ns
  PROVE  /\ ToSet(outs) \subseteq Needed(outs) \cap Ns
         /\ \A n \in Needed(outs) \cap Ns : ToSet(nodes[n].inputs) \subseteq Needed(outs) \cap Ns
<1> DEFINE from(n) == ToSet(nodes[n].inputs)
<1>1. \A n \in Ns : Reach[n] = {n} \union UNION {Reach[m] : m \in from(n)}
      BY ReachEquation
<1>2. Ns \subseteq Nat /\ \A n \in Ns : from(n) \subseteq 1..n - 1 /\ from(n) \subseteq Ns
  <2>1. Len(nodes) \in Nat /\ Ns = 1..Len(nodes)
        BY SeqFacts DEF GraphInv, Typed, Ns
  <2>2. \A n \in Ns : from(n) \subseteq 1..n - 1
        BY DEF GraphInv, NodesOK, NodeTyped
  <2> HIDE DEF from
  <2> QED BY <2>1, <2>2
<1> HIDE DEF from
<1> DEFINE closed(n) == \A m \in Reach[n] \cap Ns : from(m) \subseteq Reach[n]
<1>3. \A n \in Ns : closed(n)
  <2> DEFINE T == {n \in Ns : ~ closed(n)}
  <2>1. SUFFICES ASSUME T # {} PROVE FALSE
        OBVIOUS
  <2>2. PICK n \in T : \A k \in T : n <= k
    <3>1. T \in SUBSET Nat
          BY <1>2
    <3> HIDE DEF T
    <3> QED BY <2>1, <3>1, LeastNumber
  <2>3. n \in Ns /\ Reach[n] = {n} \union UNION {Reach[k] : k \in from(n)}
        BY <1>1
  <2>4. ASSUME NEW k \in from(n) PROVE closed(k) /\ k \in Reach[k] /\ Reach[k] \subseteq Reach[n]
    <3>1. k \in Ns /\ ~ (n <= k)
          BY <1>2, <2>3
    <3>2. closed(k)
          BY <3>1, <2>2
    <3>3. k \in Reach[k]
          BY <3>1, <1>1
    <3>4. Reach[k] \subseteq Reach[n]
          BY <2>3
    <3> QED BY <3>2, <3>3, <3>4
  <2>5. ASSUME NEW m \in Reach[n] \cap Ns PROVE from(m) \subseteq Reach[n]
    <3>1. CASE m = n
          BY <2>4, <3>1
    <3>2. CASE m # n
      <4>1. PICK k \in from(n) : m \in Reach[k]
            BY <2>3, <3>2
      <4> QED BY <2>4, <4>1
    <3> QED BY <3>1, <3>2
  <2> QED BY <2>3, <2>5
<1>4. ToSet(outs) \subseteq Needed(outs) \cap Ns
      BY <1>1 DEF Needed
<1>5. ASSUME NEW n \in Needed(outs) \cap Ns PROVE from(n) \subseteq Needed(outs) \cap Ns
  <2>1. PICK k \in ToSet(outs) : n \in Reach[k]
        BY DEF Needed
  <2>2. from(n) \subseteq Reach[k]
        BY <1>3, <2>1
  <2> QED BY <1>2, <2>1, <2>2 DEF Needed
<1> QED BY <1>4, <1>5 DEF from

-----------------------------------------------------------------------------
(* Reliance, case by case.                                                    *)
All(v, ns, good) == \A m \in ToSet(ns) : v \in good[m]
Yields(v, good) == All(v, functions[ClosureAt(v)].outputs, good)
Own(w, n) == w # 0 /\ n \in Parameters(ClosureAt(w))
Controls == {"While", "If"}

ReliableAs(x, w, good) ==
  CASE x.op = "Parameter" -> TopLevel(x.owner)
    [] x.op = "Constant" -> TRUE
    [] x.op = "While" -> /\ All(0, x.over, good)
                         /\ Yields(x.closures[1], good) /\ Yields(x.closures[2], good)
    [] x.op = "If" -> /\ All(0, x.over, good) /\ nodes[x.over[1]].op # "Constant"
                      /\ Yields(-x.closures[1], good) /\ Yields(-x.closures[2], good)
    [] OTHER -> IF w # 0 /\ x.op \in Replayable THEN All(w, x.inputs, good)
                ELSE All(0, x.inputs, good) /\ (TopLevel(x.owner) \/ x.op \in EagerOps)

LEMMA ReliableIs ==
  ASSUME NEW w, NEW n, NEW good
  PROVE  /\ Own(w, n) => (Reliable(w, n, good) <=> w > 0)
         /\ ~Own(w, n) => (Reliable(w, n, good) <=> ReliableAs(nodes[n], w, good))
<1>1. CASE Own(w, n)
      BY <1>1 DEF Reliable, Own
<1>2. CASE ~Own(w, n)
      BY <1>2 DEF Reliable, Own, ReliableAs, All, Yields
<1> QED BY <1>1, <1>2

(* In two environments whose values agree wherever node n looks, it is as     *)
(* reliable in one as in the other.                                           *)
LEMMA ReliableLocal ==
  ASSUME GraphInv, Shaped, NEW n \in Ns, NEW w \in Int, NEW g, NEW h,
         \A m \in 1..n - 1 : g[m] = h[m]
  PROVE  Reliable(w, n, g) <=> Reliable(w, n, h)
<1> DEFINE x == nodes[n]
<1>1. ASSUME NEW v, NEW ns, ToSet(ns) \subseteq 1..n - 1
      PROVE  All(v, ns, g) <=> All(v, ns, h)
      BY <1>1 DEF All
<1>2. ToSet(x.inputs) \subseteq 1..n - 1 /\ ToSet(x.over) \subseteq 1..n - 1
      BY DEF GraphInv, NodesOK, NodeTyped
<1>3. ASSUME x.op \in Controls, NEW i \in {1, 2}, NEW v \in {x.closures[i], -x.closures[i]}
      PROVE  Yields(v, g) <=> Yields(v, h)
  <2> DEFINE c == x.closures[i]
  <2>1. c \in Fns /\ ToSet(functions[c].outputs) \subseteq 1..n - 1
        BY <1>3 DEF Shaped, NodeShape, Settled, Controls
  <2>2. c \in Nat /\ c # 0
        BY <2>1 DEF GraphInv, Typed, Fns
  <2> HIDE DEF c
  <2>3. ClosureAt(c) = c /\ ClosureAt(-c) = c
        BY <2>2 DEF ClosureAt
  <2>4. ClosureAt(v) = c
        BY <2>3 DEF c
  <2> QED BY <1>1, <2>1, <2>4 DEF Yields
<1> HIDE DEF x
<1>4. ReliableAs(x, w, g) <=> ReliableAs(x, w, h)
  <2>1. CASE x.op \in Controls
    <3>1. /\ All(0, x.over, g) <=> All(0, x.over, h)
          /\ \A i \in {1, 2} : /\ Yields(x.closures[i], g) <=> Yields(x.closures[i], h)
                               /\ Yields(-x.closures[i], g) <=> Yields(-x.closures[i], h)
          BY <1>1, <1>2, <1>3, <2>1
    <3> QED BY <2>1, <3>1 DEF ReliableAs, Controls
  <2>2. CASE x.op \notin Controls
    <3>1. \A v : All(v, x.inputs, g) <=> All(v, x.inputs, h)
          BY <1>1, <1>2
    <3> QED BY <2>2, <3>1 DEF ReliableAs, Controls
  <2> QED BY <2>1, <2>2
<1> QED BY <1>4, ReliableIs DEF x

LEMMA GoodEquation ==
  ASSUME GraphInv, Shaped
  PROVE  \A n \in Ns : Good[n] = {w \in Int : Reliable(w, n, Good)}
<1> DEFINE step(n, g) == {w \in Int : Reliable(w, n, g)}
           is(g, m) == g = [n \in 1..m |-> step(n, g)]
           N == Len(nodes)
<1>1. N \in Nat /\ Ns = 1..N
      BY SeqFacts DEF GraphInv, Typed, Ns
<1>2. ASSUME NEW n \in 1..N, NEW g, NEW h, \A m \in 1..n - 1 : g[m] = h[m]
      PROVE  step(n, g) = step(n, h)
      BY <1>1, <1>2, ReliableLocal
<1>3. Good = CHOOSE g : g = [n \in Ns |-> step(n, g)]
      BY Zenon DEF Good
<1> HIDE DEF step, N
<1>4. \A m \in 0..N : \E g : is(g, m)
  <2> DEFINE T == {m \in 0..N : ~ \E g : is(g, m)}
  <2>1. SUFFICES ASSUME T # {} PROVE FALSE
        OBVIOUS
  <2>2. PICK m \in T : \A k \in T : m <= k
    <3>1. T \in SUBSET Nat
          BY <1>1
    <3> HIDE DEF T
    <3> QED BY <2>1, <3>1, LeastNumber
  <2>3. m \in 0..N /\ ~ \E g : is(g, m)
        OBVIOUS
  <2>4. CASE m = 0
    <3> DEFINE g == [n \in 1..0 |-> {}]
    <3>1. is(g, 0)
          OBVIOUS
    <3> QED BY <2>3, <2>4, <3>1
  <2>5. CASE m # 0
    <3>1. m - 1 \in 0..N /\ m - 1 \notin T
      <4>1. m - 1 \in 0..N /\ ~ (m <= m - 1)
            BY <2>3, <2>5, <1>1
      <4> HIDE DEF T
      <4> QED BY <2>2, <4>1
    <3>2. PICK g : is(g, m - 1)
          BY <3>1
    <3> DEFINE h == [n \in 1..m |-> IF n = m THEN step(m, g) ELSE g[n]]
    <3>3. ASSUME NEW n \in 1..m PROVE h[n] = step(n, h)
      <4>1. n \in 1..N /\ \A k \in 1..n - 1 : k \in 1..m /\ k # m
            BY <2>3, <1>1
      <4>2. \A k \in 1..n - 1 : g[k] = h[k]
            BY <4>1
      <4>3. step(n, g) = step(n, h)
            BY <4>1, <4>2, <1>2
      <4>4. CASE n = m
            BY <4>3, <4>4
      <4>5. CASE n # m
        <5>1. n \in 1..m - 1
              BY <4>5, <2>3
        <5>2. h[n] = g[n] /\ g[n] = step(n, g)
              BY <4>5, <5>1, <3>2
        <5> QED BY <4>3, <5>2
      <4> QED BY <4>4, <4>5
    <3>4. h = [n \in 1..m |-> h[n]]
          OBVIOUS
    <3> HIDE DEF h
    <3>5. is(h, m)
          BY <3>3, <3>4
    <3> QED BY <2>3, <3>5
  <2> QED BY <2>4, <2>5
<1>5. \E g : is(g, N)
      BY <1>1, <1>4
<1>6. Good = [n \in Ns |-> step(n, Good)]
      BY <1>1, <1>3, <1>5
<1>7. \A n \in Ns : Good[n] = step(n, Good)
      BY <1>6
<1> QED BY <1>7 DEF step

(* Where node n is reliable, in the terms of the cases above.                 *)
LEMMA GoodCases ==
  ASSUME GraphInv, Shaped, NEW n \in Ns, NEW w \in Int
  PROVE  /\ Own(w, n) => (w \in Good[n] <=> w > 0)
         /\ ~Own(w, n) => (w \in Good[n] <=> ReliableAs(nodes[n], w, Good))
<1>1. w \in Good[n] <=> Reliable(w, n, Good)
      BY GoodEquation
<1> QED BY <1>1, ReliableIs

(* The same, for every node and place.                                        *)
GoodIs ==
  \A n \in Ns, w \in Int :
    /\ Own(w, n) => (w \in Good[n] <=> w > 0)
    /\ ~Own(w, n) => (w \in Good[n] <=> ReliableAs(nodes[n], w, Good))

LEMMA GoodIsNow == GraphInv /\ Shaped => GoodIs
  BY GoodCases DEF GoodIs

LEMMA GoodIsNext == GraphInv' /\ Shaped' => GoodIs'
  BY GoodIsNow, PTL

-----------------------------------------------------------------------------
(* A step that keeps what there is: nodes, the parameters among them, and     *)
(* closures that have returned.                                               *)
FunctionGrows(f) ==
  /\ functions'[f].parent = functions[f].parent
  /\ \A n \in Ns : n \in ToSet(functions'[f].parameters) <=> n \in Parameters(f)
  /\ functions[f].returned => /\ functions'[f].returned
                              /\ functions'[f].outputs = functions[f].outputs
                              /\ functions'[f].sorted = functions[f].sorted
Grows ==
  /\ Ns \subseteq Ns' /\ \A n \in Ns : nodes'[n] = nodes[n]
  /\ Fns \subseteq Fns' /\ \A f \in Fns : FunctionGrows(f)

(* Places of the program in which closures are replayed.                      *)
Place(w) == w \in Int /\ (w = 0 \/ ClosureAt(w) \in Fns)
Stays(n) == \A w \in Int : Place(w) => (w \in Good'[n] <=> w \in Good[n])

LEMMA NodeStays ==
  ASSUME GraphInv, Shaped, GraphInv', Shaped', Grows, NEW n \in Ns, \A m \in 1..n - 1 : Stays(m)
  PROVE  Stays(n)
<1> DEFINE g == Good
           h == Good'
<1>0. PICK x : x = nodes[n] /\ x = nodes'[n]
      BY DEF Grows
<1>1. ASSUME NEW v \in Int, Place(v), NEW ns, ToSet(ns) \subseteq 1..n - 1
      PROVE  All(v, ns, h) <=> All(v, ns, g)
      BY <1>1 DEF All, Stays
<1>2. ToSet(x.inputs) \subseteq 1..n - 1 /\ ToSet(x.over) \subseteq 1..n - 1 /\ x.owner \in Fns
      BY <1>0 DEF GraphInv, NodesOK, NodeTyped
<1>3. n \in Ns' /\ Ns \subseteq Ns' /\ Fns \subseteq Fns'
      BY DEF Grows
<1>4. Ns = 1..Len(nodes) /\ Len(nodes) \in Nat
      BY SeqFacts DEF GraphInv, Typed, Ns
<1>5. TopLevel(x.owner)' <=> TopLevel(x.owner)
      BY <1>2, <1>3 DEF Grows, FunctionGrows, TopLevel
<1>6. ASSUME x.op = "If" PROVE nodes'[x.over[1]].op = nodes[x.over[1]].op
  <2>1. 1 \in DOMAIN x.over
        BY <1>0, <1>6 DEF Shaped, NodeShape
  <2>2. x.over[1] \in ToSet(x.over)
        BY <2>1 DEF ToSet
  <2>3. x.over[1] \in Ns
        BY <2>2, <1>2, <1>4
  <2> QED BY <2>3 DEF Grows
<1>7. ASSUME x.op \in Controls, NEW i \in {1, 2}, NEW v \in {x.closures[i], -x.closures[i]}
      PROVE  Yields(v, Good)' <=> Yields(v, Good)
  <2> DEFINE c == x.closures[i]
  <2>1. Settled(c) /\ ToSet(functions[c].outputs) \subseteq 1..n - 1
        BY <1>0, <1>7 DEF Shaped, NodeShape, Controls
  <2>2. c \in Fns /\ c \in Nat /\ c # 0
        BY <2>1 DEF GraphInv, Typed, Fns, Settled
  <2>3. functions'[c].outputs = functions[c].outputs
        BY <2>1, <2>2 DEF Grows, FunctionGrows, Settled
  <2> HIDE DEF c
  <2>4. ClosureAt(c) = c /\ ClosureAt(-c) = c
        BY <2>2 DEF ClosureAt
  <2>5. v \in Int /\ ClosureAt(v) = c /\ Place(v)
        BY <2>2, <2>4 DEF c, Place
  <2>6. All(v, functions[c].outputs, h) <=> All(v, functions[c].outputs, g)
        BY <1>1, <2>1, <2>5
  <2> QED BY <2>3, <2>5, <2>6 DEF Yields
<1>8. ASSUME NEW w \in Int, Place(w)
      PROVE  ReliableAs(x, w, Good)' <=> ReliableAs(x, w, Good)
  <2>1. Place(0)
        BY DEF Place
  <2>2. /\ All(0, x.over, h) <=> All(0, x.over, g)
        /\ All(0, x.inputs, h) <=> All(0, x.inputs, g)
        /\ All(w, x.inputs, h) <=> All(w, x.inputs, g)
        BY <1>1, <1>2, <1>8, <2>1
  <2>3. CASE x.op \in Controls
    <3>1. \A i \in {1, 2} : /\ Yields(x.closures[i], Good)' <=> Yields(x.closures[i], Good)
                            /\ Yields(-x.closures[i], Good)' <=> Yields(-x.closures[i], Good)
          BY <1>7, <2>3
    <3> DEFINE c == x.closures[1]
               d == x.closures[2]
    <3>2. /\ Yields(c, Good)' <=> Yields(c, Good)
          /\ Yields(d, Good)' <=> Yields(d, Good)
          /\ Yields(-c, Good)' <=> Yields(-c, Good)
          /\ Yields(-d, Good)' <=> Yields(-d, Good)
          BY <3>1
    <3> QED BY <2>2, <2>3, <3>2, <1>6 DEF ReliableAs, Controls
  <2>4. CASE x.op \notin Controls
        BY <2>2, <2>4, <1>3, <1>5 DEF ReliableAs, Controls
  <2> QED BY <2>3, <2>4
<1>9. ASSUME NEW w \in Int, Place(w) PROVE Own(w, n)' <=> Own(w, n)
      BY <1>9 DEF Own, Place, Grows, FunctionGrows, Parameters
<1>10. GoodIs /\ GoodIs'
       BY GoodIsNow, GoodIsNext
<1>11. ASSUME NEW w \in Int, Place(w) PROVE w \in Good'[n] <=> w \in Good[n]
  <2>1. CASE Own(w, n)
    <3>1. (w \in Good[n] <=> w > 0) /\ (w \in Good'[n] <=> w > 0)
          BY <1>3, <1>9, <1>10, <1>11, <2>1 DEF GoodIs
    <3> QED BY <3>1
  <2>2. CASE ~Own(w, n)
    <3>1. /\ w \in Good[n] <=> ReliableAs(x, w, Good)
          /\ w \in Good'[n] <=> ReliableAs(nodes[n], w, Good)'
          BY <1>0, <1>3, <1>9, <1>10, <1>11, <2>2 DEF GoodIs
    <3>2. ReliableAs(nodes[n], w, Good)' <=> ReliableAs(x, w, Good)'
          BY <1>0 DEF ReliableAs
    <3> QED BY <3>1, <3>2, <1>8, <1>11
  <2> QED BY <2>1, <2>2
<1> QED BY <1>11 DEF Stays

LEMMA GoodStays ==
  ASSUME GraphInv, Shaped, GraphInv', Shaped', Grows
  PROVE  \A n \in Ns : Stays(n)
<1> DEFINE T == {n \in Ns : ~ Stays(n)}
<1>1. SUFFICES ASSUME T # {} PROVE FALSE
      OBVIOUS
<1>2. Ns = 1..Len(nodes) /\ Len(nodes) \in Nat
      BY SeqFacts DEF GraphInv, Typed, Ns
<1>3. PICK n \in T : \A k \in T : n <= k
  <2>1. T \in SUBSET Nat
        BY <1>2
  <2> HIDE DEF T
  <2> QED BY <1>1, <2>1, LeastNumber
<1>4. \A m \in 1..n - 1 : m \in Ns /\ ~ (n <= m)
      BY <1>2, <1>3
<1>5. \A m \in 1..n - 1 : Stays(m)
      BY <1>3, <1>4
<1>6. Stays(n)
      BY <1>3, <1>5, NodeStays
<1> QED BY <1>3, <1>6

-----------------------------------------------------------------------------
(* Replay of a settled closure c, in a loop over it (w = c) or in a branch    *)
(* that is c (w = -c): the values it maps nodes to are whole where the client *)
(* may rely on those nodes.                                                   *)
MapWhole(map, w) == \A m \in DOMAIN map : map[m].whole <=> w \in Good[m]
Known(m, map) == m \in DOMAIN map \/ nodes[m].op = "Parameter"
Bound(map, c, w) == w = c => Parameters(c) \subseteq DOMAIN map
Replays(c, w) == Settled(c) /\ w \in {c, -c}

LEMMA ReplaysFacts ==
  ASSUME GraphInv, NEW c, NEW w, Replays(c, w)
  PROVE  /\ c \in Fns /\ c \in Nat /\ c # 0 /\ w \in Int /\ w # 0
         /\ ClosureAt(w) = c /\ (w > 0 <=> w = c) /\ ~TopLevel(c)
         /\ IsSeq(functions[c].sorted) /\ ToSet(functions[c].sorted) \subseteq Ns
         /\ IsSeq(functions[c].outputs) /\ ToSet(functions[c].outputs) \subseteq Ns
<1>1. c \in Fns /\ w \in {c, -c} /\ IsClosure(c)
      BY DEF Replays, Settled
<1>2. c \in Nat /\ c # 0
      BY <1>1 DEF GraphInv, Typed, Fns
<1>3. ClosureAt(w) = c /\ (w > 0 <=> w = c) /\ w \in Int /\ w # 0
      BY <1>1, <1>2 DEF ClosureAt
<1>4. ~TopLevel(c)
      BY <1>1 DEF IsClosure, TopLevel
<1>5. IsSeq(functions[c].sorted) /\ IsSeq(functions[c].outputs)
      BY <1>1, FunctionFacts DEF GraphInv
<1>6. ToSet(functions[c].sorted) \subseteq Ns /\ ToSet(functions[c].outputs) \subseteq Ns
      BY <1>1 DEF GraphInv, FunctionsOK
<1> QED BY <1>1, <1>2, <1>3, <1>4, <1>5, <1>6

(* What no replay recomputes is as reliable in a block as in the main program.*)
LEMMA SameElsewhere ==
  ASSUME GraphInv, Shaped, NEW n \in Ns, NEW w \in Int, ~Own(w, n), nodes[n].op \notin Replayable
  PROVE  w \in Good[n] <=> 0 \in Good[n]
<1>1. ~Own(0, n)
      BY DEF Own
<1>2. /\ w \in Good[n] <=> ReliableAs(nodes[n], w, Good)
      /\ 0 \in Good[n] <=> ReliableAs(nodes[n], 0, Good)
      BY <1>1, GoodCases
<1>3. ReliableAs(nodes[n], w, Good) <=> ReliableAs(nodes[n], 0, Good)
      BY DEF ReliableAs
<1> QED BY <1>2, <1>3

LEMMA MappedWhole ==
  ASSUME GraphInv, Shaped, SupportedIsComplete, NEW c, NEW w, Replays(c, w),
         NEW map, MapWhole(map, w), Bound(map, c, w), NEW m \in Ns, Known(m, map)
  PROVE  Mapped(m, map).whole <=> w \in Good[m]
<1>1. CASE m \in DOMAIN map
      BY <1>1 DEF MapWhole, Mapped
<1>2. CASE m \notin DOMAIN map
  <2>1. nodes[m].op = "Parameter" /\ Mapped(m, map).whole = nodes[m].val.whole
        BY <1>2 DEF Known, Mapped
  <2>2. nodes[m].val.whole <=> 0 \in Good[m]
        BY DEF SupportedIsComplete
  <2>3. 0 \in Good[m] <=> TopLevel(nodes[m].owner)
    <3>1. ~Own(0, m)
          BY DEF Own
    <3> QED BY <3>1, <2>1, GoodCases DEF ReliableAs
  <2>4. CASE Own(w, m)
    <3>1. m \in Parameters(c) /\ w # c /\ ~(w > 0)
          BY <1>2, <2>4, ReplaysFacts DEF Own, Bound
    <3>2. nodes[m].owner = c
          BY <3>1, ReplaysFacts DEF Shaped, FunctionShape
    <3>3. ~(w \in Good[m])
          BY <2>4, <3>1, GoodCases, ReplaysFacts
    <3> QED BY <2>1, <2>2, <2>3, <3>2, <3>3, ReplaysFacts
  <2>5. CASE ~Own(w, m)
    <3>1. nodes[m].op \notin Replayable
          BY <2>1 DEF Replayable
    <3>2. w \in Good[m] <=> 0 \in Good[m]
          BY <2>5, <3>1, SameElsewhere, ReplaysFacts
    <3> QED BY <2>1, <2>2, <3>2
  <2> QED BY <2>4, <2>5
<1> QED BY <1>1, <1>2

LEMMA MappedAllWhole ==
  ASSUME GraphInv, Shaped, SupportedIsComplete, NEW c, NEW w, Replays(c, w),
         NEW map, MapWhole(map, w), Bound(map, c, w),
         NEW ns, IsSeq(ns), ToSet(ns) \subseteq Ns, \A m \in ToSet(ns) : Known(m, map)
  PROVE  Whole(MappedAll(ns, map)) <=> All(w, ns, Good)
<1> DEFINE vs == MappedAll(ns, map)
<1>1. DOMAIN vs = DOMAIN ns /\ \A i \in DOMAIN ns : vs[i] = Mapped(ns[i], map)
      BY DEF MappedAll
<1>2. /\ \A i \in DOMAIN ns : ns[i] \in ToSet(ns)
      /\ \A m \in ToSet(ns) : \E i \in DOMAIN ns : ns[i] = m
      BY SeqFacts
<1>3. \A m \in ToSet(ns) : Mapped(m, map).whole <=> w \in Good[m]
      BY MappedWhole
<1> HIDE DEF vs
<1>4. ASSUME Whole(vs), NEW m \in ToSet(ns) PROVE w \in Good[m]
  <2>1. PICK i \in DOMAIN ns : ns[i] = m
        BY <1>2
  <2>2. vs[i].whole /\ vs[i] = Mapped(m, map)
        BY <1>1, <1>4, <2>1 DEF Whole
  <2> QED BY <1>3, <2>2
<1>5. ASSUME All(w, ns, Good), NEW i \in DOMAIN vs PROVE vs[i].whole
  <2>1. ns[i] \in ToSet(ns) /\ vs[i] = Mapped(ns[i], map)
        BY <1>1, <1>2
  <2>2. w \in Good[ns[i]]
        BY <1>5, <2>1 DEF All
  <2> QED BY <1>3, <2>1, <2>2
<1>6. Whole(vs) <=> All(w, ns, Good)
      BY <1>4, <1>5 DEF Whole, All
<1> QED BY <1>6 DEF vs

(* The value that a replay maps an operation to.                              *)
LEMMA ReplayNodeWhole ==
  ASSUME GraphInv, Shaped, SupportedIsComplete, NEW c, NEW w, Replays(c, w),
         NEW map, MapWhole(map, w), Bound(map, c, w), NEW home,
         NEW n \in Ns, ~Own(w, n), \A m \in ToSet(nodes[n].inputs) : Known(m, map)
  PROVE  ReplayNode(n, home, map).val.whole <=> w \in Good[n]
<1> DEFINE x == nodes[n]
           args == MappedAll(x.inputs, map)
           r == ReplayNode(n, home, map)
<1>1. CASE x.op \in Replayable
  <2>1. r.val = Computed(home, x.op, args)
        BY <1>1 DEF ReplayNode
  <2>2. Whole(args) <=> All(w, x.inputs, Good)
    <3>1. IsSeq(x.inputs) /\ ToSet(x.inputs) \subseteq Ns
          BY NodeInputs DEF GraphInv, Typed
    <3> QED BY <3>1, MappedAllWhole
  <2>3. w \in Good[n] <=> All(w, x.inputs, Good)
    <3>1. x.op \notin {"Parameter", "Constant", "While", "If"}
          BY <1>1 DEF Replayable
    <3>2. w \in Good[n] <=> ReliableAs(x, w, Good)
          BY GoodCases, ReplaysFacts
    <3>3. w # 0
          BY ReplaysFacts
    <3> HIDE DEF x
    <3> QED BY <1>1, <3>1, <3>2, <3>3 DEF ReliableAs
  <2> HIDE DEF args
  <2>4. Computed(home, x.op, args).whole <=> Whole(args)
        BY ComputedFacts
  <2> QED BY <2>1, <2>2, <2>3, <2>4
<1>2. CASE x.op \notin Replayable
  <2>1. r.val = x.val
        BY <1>2 DEF ReplayNode
  <2>2. x.val.whole <=> 0 \in Good[n]
        BY DEF SupportedIsComplete
  <2>3. w \in Good[n] <=> 0 \in Good[n]
        BY <1>2, SameElsewhere, ReplaysFacts
  <2> QED BY <2>1, <2>2, <2>3
<1> QED BY <1>1, <1>2

LEMMA StepWhole ==
  ASSUME GraphInv, Shaped, SupportedIsComplete, NEW c, NEW w, Replays(c, w),
         NEW acc, MapWhole(acc.map, w), Bound(acc.map, c, w), NEW home,
         NEW n \in ToSet(functions[c].sorted), \A m \in ToSet(nodes[n].inputs) : Known(m, acc.map),
         NEW new, new = ReplayStep(n, c, home, acc)
  PROVE  /\ MapWhole(new.map, w) /\ DOMAIN acc.map \subseteq DOMAIN new.map
         /\ Known(n, new.map)
<1> DEFINE r == IF Outside(n, c) THEN [val |-> nodes[n].val, ops |-> <<>>]
                ELSE ReplayNode(n, home, acc.map)
           map == [m \in DOMAIN acc.map \union {n} |-> IF m = n THEN r.val ELSE acc.map[m]]
<1>1. n \in Ns /\ ToSet(nodes[n].inputs) \subseteq ToSet(functions[c].sorted)
      BY ReplaysFacts DEF Replays, Shaped, FunctionShape, Reaching
<1>2. CASE n \in DOMAIN acc.map \/ nodes[n].op = "Parameter"
  <2>1. new = acc
        BY <1>2 DEF ReplayStep
  <2> QED BY <1>2, <2>1 DEF Known
<1>3. CASE ~ (n \in DOMAIN acc.map \/ nodes[n].op = "Parameter")
  <2>1. new.map = map
        BY <1>3 DEF ReplayStep
  <2>2. ~Own(w, n) /\ w \in Int
        BY <1>3, ReplaysFacts DEF Own, Shaped, FunctionShape
  <2>3. r.val.whole <=> w \in Good[n]
    <3>1. CASE Outside(n, c)
      <4>1. r.val = nodes[n].val
            BY <3>1
      <4>2. ToSet(nodes[n].inputs) = {}
            BY <1>1, <3>1 DEF Outside
      <4>3. nodes[n].op \notin AllOps
            BY <1>1, <4>2 DEF Shaped, NodeShape
      <4>4. nodes[n].op \notin Replayable
            BY <4>3 DEF Replayable, AllOps, BinaryOps, ComparisonOps, EagerOps
      <4>5. w \in Good[n] <=> 0 \in Good[n]
            BY <1>1, <2>2, <4>4, SameElsewhere
      <4> QED BY <1>1, <4>1, <4>5 DEF SupportedIsComplete
    <3>2. CASE ~Outside(n, c)
      <4>1. r = ReplayNode(n, home, acc.map)
            BY <3>2
      <4> HIDE DEF r
      <4> QED BY <1>1, <2>2, <4>1, ReplayNodeWhole
    <3> QED BY <3>1, <3>2
  <2> HIDE DEF r
  <2>4. MapWhole(map, w)
        BY <2>3 DEF MapWhole
  <2>5. DOMAIN acc.map \subseteq DOMAIN map /\ n \in DOMAIN map
        OBVIOUS
  <2> HIDE DEF map
  <2> QED BY <2>1, <2>4, <2>5 DEF Known
<1> QED BY <1>2, <1>3

(* The blocks of a loop take a whole value for each of the closure's          *)
(* parameters, those of a branch take none.                                   *)
Serves(vs, c, w) ==
  /\ w = c => DOMAIN functions[c].parameters \subseteq DOMAIN vs
  /\ w # c => DOMAIN vs = {}
  /\ \A i \in DOMAIN vs : vs[i].whole

LEMMA BoundWhole ==
  ASSUME GraphInv, Shaped, NEW c, NEW w, Replays(c, w), NEW vs, Serves(vs, c, w)
  PROVE  MapWhole(BoundParameters(c, vs), w) /\ Bound(BoundParameters(c, vs), c, w)
<1> DEFINE ps == functions[c].parameters
           bound == DOMAIN ps \cap DOMAIN vs
           map == BoundParameters(c, vs)
<1>1. map = [n \in {ps[i] : i \in bound} |-> vs[CHOOSE i \in bound : ps[i] = n]]
      BY DEF BoundParameters
<1>2. \A i \in DOMAIN ps : ps[i] \in Parameters(c)
      BY DEF Parameters, ToSet
<1>3. \A m \in Parameters(c) : m \in Ns /\ \E i \in DOMAIN ps : ps[i] = m
      BY ReplaysFacts DEF Parameters, ToSet, GraphInv, FunctionsOK
<1>4. ASSUME w = c, NEW m \in Parameters(c) PROVE m \in DOMAIN map
  <2>1. PICK i \in DOMAIN ps : ps[i] = m
        BY <1>3
  <2>2. i \in bound
        BY <1>4, <2>1 DEF Serves
  <2> HIDE DEF bound, ps, map
  <2> QED BY <1>1, <2>1, <2>2
<1>5. ASSUME NEW m \in DOMAIN map PROVE map[m].whole /\ m \in Parameters(c) /\ w = c
  <2> HIDE DEF bound, ps, map
  <2>1. PICK i \in bound : ps[i] = m
        BY <1>1
  <2> DEFINE k == CHOOSE j \in bound : ps[j] = m
  <2>2. k \in bound /\ ps[k] = m
        BY <2>1
  <2>3. map[m] = vs[k]
        BY <1>1
  <2> HIDE DEF k
  <2>4. map[m].whole
        BY <2>2, <2>3 DEF bound, Serves
  <2>5. m \in Parameters(c)
        BY <1>2, <2>2 DEF bound
  <2>6. w = c
        BY <2>2 DEF bound, Serves
  <2> QED BY <2>4, <2>5, <2>6
<1> HIDE DEF map
<1>6. ASSUME NEW m \in DOMAIN map PROVE w \in Good[m]
  <2>1. Own(w, m) /\ w > 0 /\ w \in Int
        BY <1>5, ReplaysFacts DEF Own
  <2> QED BY <1>3, <1>5, <2>1, GoodCases
<1>7. MapWhole(map, w) /\ Bound(map, c, w)
      BY <1>4, <1>5, <1>6 DEF MapWhole, Bound
<1> QED BY <1>7 DEF map

(* Whether the outputs of a replayed closure are whole.                       *)
LEMMA ReplayWhole ==
  ASSUME GraphInv, Shaped, SupportedIsComplete, NEW c, NEW w, Replays(c, w),
         NEW home, NEW vs, Serves(vs, c, w)
  PROVE  Whole(Replay(c, home, vs).outs) <=> All(w, functions[c].outputs, Good)
<1> DEFINE sorted == functions[c].sorted
           all == Replayed(c, home, vs)
           N == Len(sorted)
<1>1. /\ IsSeq(sorted) /\ N \in Nat /\ DOMAIN sorted = 1..N
      /\ \A i \in 1..N : sorted[i] \in ToSet(sorted)
      /\ \A n \in ToSet(sorted) : \E i \in 1..N : sorted[i] = n
      /\ ToSet(sorted) \subseteq Ns
  <2>1. IsSeq(sorted) /\ ToSet(sorted) \subseteq Ns
        BY ReplaysFacts
  <2> QED BY <2>1, SeqFacts
<1>2. /\ all[0].map = BoundParameters(c, vs)
      /\ \A k \in 1..N : all[k] = ReplayStep(sorted[k], c, home, all[k - 1])
  <2> DEFINE base == [map |-> BoundParameters(c, vs), ops |-> <<>>]
  <2>0. IsSeq(sorted)
        BY <1>1
  <2>1. all[0] = base
        BY <2>0, ReplayedEquation
  <2>2. base.map = BoundParameters(c, vs)
        OBVIOUS
  <2>3. \A k \in 1..N : all[k] = ReplayStep(sorted[k], c, home, all[k - 1])
        BY <2>0, ReplayedEquation
  <2> HIDE DEF base
  <2> QED BY <2>1, <2>2, <2>3
<1>3. Replay(c, home, vs).outs = MappedAll(functions[c].outputs, all[N].map)
      BY DEF Replay
<1>4. /\ Increasing(sorted)
      /\ ToSet(functions[c].outputs) \subseteq ToSet(sorted)
      /\ \A n \in ToSet(sorted) : ToSet(nodes[n].inputs) \subseteq ToSet(sorted)
      BY ReplaysFacts DEF Replays, Shaped, FunctionShape, Reaching
<1>5. \A n \in ToSet(sorted) : n \in Nat /\ ToSet(nodes[n].inputs) \subseteq 1..n - 1
  <2>1. Ns \subseteq Nat
    <3>1. Ns = 1..Len(nodes) /\ Len(nodes) \in Nat
          BY SeqFacts DEF GraphInv, Typed, Ns
    <3> QED BY <3>1
  <2>2. \A n \in Ns : ToSet(nodes[n].inputs) \subseteq 1..n - 1
        BY DEF GraphInv, NodesOK, NodeTyped
  <2> HIDE DEF sorted
  <2> QED BY <1>1, <2>1, <2>2
<1> HIDE DEF all, N
<1> DEFINE good(k) == /\ MapWhole(all[k].map, w) /\ Bound(all[k].map, c, w)
                      /\ \A i \in 1..k : Known(sorted[i], all[k].map)
<1>6. good(0)
      BY <1>2, BoundWhole
<1>7. ASSUME NEW k \in 1..N, good(k - 1) PROVE good(k)
  <2> DEFINE n == sorted[k]
             acc == all[k - 1]
  <2>1. n \in ToSet(sorted) /\ all[k] = ReplayStep(n, c, home, acc)
        BY <1>1, <1>2
  <2>2. ASSUME NEW m \in ToSet(nodes[n].inputs) PROVE Known(m, acc.map)
    <3>1. m \in ToSet(sorted) /\ m \in 1..n - 1 /\ n \in Nat
          BY <1>4, <1>5, <2>1
    <3>2. PICK i \in 1..N : sorted[i] = m
          BY <1>1, <3>1
    <3>3. ~ (sorted[i] > sorted[k]) /\ sorted[i] # sorted[k]
          BY <3>1, <3>2
    <3>4. i < k
      <4>1. k < i => sorted[k] < sorted[i]
            BY <1>1, <1>4 DEF Increasing
      <4>2. k < i => m > n
            BY <3>2, <4>1
      <4>3. ~ (k < i) /\ i # k
            BY <3>1, <3>2, <4>2
      <4> QED BY <4>3, <1>1
    <3>5. i \in 1..k - 1
          BY <3>4, <1>1
    <3> QED BY <1>7, <3>2, <3>5
  <2> HIDE DEF acc, n
  <2>3. /\ MapWhole(all[k].map, w) /\ DOMAIN acc.map \subseteq DOMAIN all[k].map
        /\ Known(n, all[k].map)
    <3>1. MapWhole(acc.map, w) /\ Bound(acc.map, c, w)
          BY <1>7 DEF acc
    <3> QED BY <2>1, <2>2, <3>1, StepWhole
  <2>4. Bound(all[k].map, c, w)
        BY <1>7, <2>3 DEF acc, Bound
  <2>5. ASSUME NEW i \in 1..k PROVE Known(sorted[i], all[k].map)
    <3>1. CASE i = k
          BY <2>3, <3>1 DEF n
    <3>2. CASE i # k
      <4>1. i \in 1..k - 1
            BY <3>2, <1>1
      <4>2. Known(sorted[i], acc.map)
            BY <1>7, <4>1 DEF acc
      <4> QED BY <2>3, <4>2 DEF Known
    <3> QED BY <3>1, <3>2
  <2> QED BY <2>3, <2>4, <2>5
<1>8. good(N)
  <2> HIDE DEF good
  <2> DEFINE T == {m \in 0..N : ~ good(m)}
  <2>1. SUFFICES ASSUME T # {} PROVE FALSE
        BY <1>1
  <2>2. PICK m \in T : \A k \in T : m <= k
    <3>1. T \in SUBSET Nat
          BY <1>1
    <3> HIDE DEF T
    <3> QED BY <2>1, <3>1, LeastNumber
  <2>3. m \in 1..N
        BY <1>1, <1>6
  <2>4. m - 1 \in 0..N /\ ~ (m <= m - 1)
        BY <2>3, <1>1
  <2>5. good(m - 1)
        BY <2>2, <2>4
  <2> QED BY <2>3, <2>5, <1>7
<1>9. \A m \in ToSet(functions[c].outputs) : Known(m, all[N].map)
  <2>1. \A m \in ToSet(sorted) : Known(m, all[N].map)
        BY <1>1, <1>8
  <2> QED BY <2>1, <1>4
<1>10. IsSeq(functions[c].outputs) /\ ToSet(functions[c].outputs) \subseteq Ns
       BY ReplaysFacts
<1>11. MapWhole(all[N].map, w) /\ Bound(all[N].map, c, w)
       BY <1>8
<1> HIDE DEF good
<1>12. Whole(MappedAll(functions[c].outputs, all[N].map)) <=> All(w, functions[c].outputs, Good)
       BY <1>9, <1>10, <1>11, MappedAllWhole
<1> QED BY <1>3, <1>12

-----------------------------------------------------------------------------
(* Steps.  What there was keeps its shape and its reliance, so that a step is *)
(* about the nodes it adds and the function it changes.                       *)
LEMMA NsFacts ==
  ASSUME GraphInv
  PROVE  Ns = 1..Len(nodes) /\ Len(nodes) \in Nat /\ IsSeq(nodes)
  BY SeqFacts DEF GraphInv, Typed, Ns

LEMMA SettledStays ==
  ASSUME Grows, NEW c, Settled(c)
  PROVE  Settled(c)' /\ functions'[c].outputs = functions[c].outputs
                     /\ functions'[c].sorted = functions[c].sorted
  BY DEF Grows, FunctionGrows, Settled, IsClosure

LEMMA NodeShapeStays ==
  ASSUME GraphInv, Shaped, Grows, NEW n \in Ns
  PROVE  NodeShape(nodes[n], n)'
<1>1. PICK x : x = nodes[n] /\ x = nodes'[n]
      BY DEF Grows
<1>2. NodeShape(x, n)
      BY <1>1 DEF Shaped
<1>3. ASSUME x.op \in {"While", "If"}, NEW i \in {1, 2}
      PROVE  /\ Settled(x.closures[i])'
             /\ ToSet(functions'[x.closures[i]].outputs) \subseteq 1..n - 1
  <2>1. /\ Settled(x.closures[i])
        /\ ToSet(functions[x.closures[i]].outputs) \subseteq 1..n - 1
        BY <1>2, <1>3 DEF NodeShape
  <2> QED BY <2>1, SettledStays
<1>4. NodeShape(x, n)'
      BY <1>2, <1>3 DEF NodeShape
<1> QED BY <1>1, <1>4 DEF NodeShape

LEMMA FunctionShapeStays ==
  ASSUME GraphInv, Shaped, Grows, NEW f \in Fns,
         \A n \in ToSet(functions'[f].parameters) \ Ns :
           nodes'[n].op = "Parameter" /\ nodes'[n].owner = f,
         functions'[f].returned => functions[f].returned
  PROVE  FunctionShape(f)'
<1>1. FunctionShape(f) /\ FunctionGrows(f)
      BY DEF Shaped, Grows
<1>2. \A n \in Ns : nodes'[n] = nodes[n]
      BY DEF Grows
<1>3. ASSUME NEW n \in ToSet(functions'[f].parameters)
      PROVE  nodes'[n].op = "Parameter" /\ nodes'[n].owner = f
  <2>1. CASE n \in Ns
    <3>1. n \in Parameters(f)
          BY <1>1, <2>1 DEF FunctionGrows
    <3> QED BY <1>1, <1>2, <2>1, <3>1 DEF FunctionShape
  <2>2. CASE n \notin Ns
        BY <2>2
  <2> QED BY <2>1, <2>2
<1>4. ASSUME Settled(f)' PROVE Reaching(f)'
  <2>1. Settled(f)
        BY <1>1, <1>4 DEF Settled, IsClosure, FunctionGrows
  <2>2. /\ functions'[f].outputs = functions[f].outputs
        /\ functions'[f].sorted = functions[f].sorted
        BY <2>1, SettledStays
  <2>3. Reaching(f)
        BY <1>1, <2>1 DEF FunctionShape
  <2>4. \A n \in ToSet(functions[f].sorted) : n \in Ns
        BY DEF GraphInv, FunctionsOK
  <2> QED BY <1>2, <2>2, <2>3, <2>4 DEF Reaching
<1> QED BY <1>3, <1>4 DEF FunctionShape, Parameters

LEMMA AllStays ==
  ASSUME GraphInv, Shaped, GraphInv', Shaped', Grows,
         NEW w, Place(w), NEW ns, ToSet(ns) \subseteq Ns
  PROVE  All(w, ns, Good') <=> All(w, ns, Good)
<1>1. \A m \in ToSet(ns) : w \in Good'[m] <=> w \in Good[m]
      BY GoodStays DEF Stays, Place
<1> QED BY <1>1 DEF All

(* It is enough to look at new nodes.                                         *)
LEMMA StillComplete ==
  ASSUME GraphInv, Shaped, SupportedIsComplete, GraphInv', Shaped', Grows,
         \A n \in Ns' \ Ns : nodes'[n].val.whole <=> ReliableAs(nodes[n], 0, Good)'
  PROVE  SupportedIsComplete'
<1>1. ASSUME NEW n \in Ns' PROVE nodes'[n].val.whole <=> 0 \in Good'[n]
  <2>1. CASE n \in Ns
    <3>1. 0 \in Good'[n] <=> 0 \in Good[n]
      <4>1. Place(0) /\ 0 \in Int
            BY DEF Place
      <4>2. Stays(n)
            BY <2>1, GoodStays
      <4> QED BY <4>1, <4>2 DEF Stays
    <3>2. nodes'[n] = nodes[n]
          BY <2>1 DEF Grows
    <3> QED BY <2>1, <3>1, <3>2 DEF SupportedIsComplete
  <2>2. CASE n \notin Ns
    <3>1. 0 \in Good'[n] <=> ReliableAs(nodes[n], 0, Good)'
      <4>1. GoodIs'
            BY GoodIsNext
      <4>2. ~Own(0, n)'
            BY DEF Own
      <4> QED BY <4>1, <4>2 DEF GoodIs
    <3> QED BY <2>2, <3>1
  <2> QED BY <2>1, <2>2
<1> QED BY <1>1 DEF SupportedIsComplete

CompleteInv == GraphInv /\ Shaped /\ SupportedIsComplete

LEMMA NewFnComplete ==
  ASSUME CompleteInv, GraphInv', NEW p, functions' = Append(functions, NewFn(p)),
         UNCHANGED nodes
  PROVE  CompleteInv'
<1> USE DEF CompleteInv
<1> DEFINE none == <<>>
           new == NewFn(p)
<1>1. IsSeq(functions)
      BY SeqOfSet DEF GraphInv, Typed
<1>0. PICK k : k = Len(functions) + 1
      OBVIOUS
<1>2. /\ Fns' = Fns \union {k} /\ k \notin Fns
      /\ \A f \in Fns : functions'[f] = functions[f]
      /\ functions'[k] = new
      BY <1>0, <1>1, AppendFacts DEF Fns
<1>3. new.returned = FALSE /\ new.parameters = none
      BY DEF NewFn
<1>4. ToSet(none) = {}
  <2>1. none \in Seq({})
        OBVIOUS
  <2> HIDE DEF none
  <2> QED BY <2>1, EmptyFacts
<1> HIDE DEF new, none
<1>5. Ns' = Ns
      BY DEF Ns
<1>6. Grows
      BY <1>2, <1>5 DEF Grows, FunctionGrows, Parameters
<1>7. ASSUME NEW f \in Fns PROVE FunctionShape(f)'
  <2>1. functions'[f] = functions[f] /\ ToSet(functions[f].parameters) \subseteq Ns
        BY <1>2 DEF GraphInv, FunctionsOK, Parameters
  <2> QED BY <1>6, <2>1, FunctionShapeStays
<1>8. FunctionShape(k)'
      BY <1>2, <1>3, <1>4 DEF FunctionShape, Settled, Parameters
<1>9. Shaped'
      BY <1>2, <1>5, <1>6, <1>7, <1>8, NodeShapeStays DEF Shaped
<1> QED BY <1>5, <1>6, <1>9, StillComplete

(* A step that leaves the functions alone.                                    *)
LEMMA NodesOnly ==
  ASSUME GraphInv, Shaped, UNCHANGED functions, Ns \subseteq Ns',
         \A n \in Ns : nodes'[n] = nodes[n]
  PROVE  Grows /\ \A f \in Fns' : FunctionShape(f)'
<1>1. Fns' = Fns
      BY DEF Fns
<1>2. Grows
      BY <1>1 DEF Grows, FunctionGrows, Parameters
<1>3. ASSUME NEW f \in Fns PROVE FunctionShape(f)'
  <2>1. ToSet(functions'[f].parameters) \subseteq Ns
        BY DEF GraphInv, FunctionsOK, Parameters
  <2> QED BY <1>2, <2>1, FunctionShapeStays
<1> QED BY <1>1, <1>2, <1>3

LEMMA UnchangedComplete ==
  ASSUME CompleteInv, GraphInv', UNCHANGED <<functions, nodes>>
  PROVE  CompleteInv'
<1> USE DEF CompleteInv
<1>1. Ns' = Ns
      BY DEF Ns
<1>2. Grows /\ \A f \in Fns' : FunctionShape(f)'
      BY <1>1, NodesOnly
<1>3. Shaped'
      BY <1>1, <1>2, NodeShapeStays DEF Shaped
<1> QED BY <1>1, <1>2, <1>3, StillComplete

LEMMA AppendedNode ==
  ASSUME GraphInv, NEW x, nodes' = Append(nodes, x), NEW n, n = Len(nodes) + 1
  PROVE  /\ Ns' = Ns \union {n} /\ n \notin Ns /\ n \in Nat /\ 1..n - 1 = Ns
         /\ nodes'[n] = x /\ \A m \in Ns : nodes'[m] = nodes[m]
<1>1. IsSeq(nodes) /\ Ns = 1..Len(nodes) /\ Len(nodes) \in Nat
      BY NsFacts
<1>2. /\ DOMAIN nodes' = DOMAIN nodes \union {n} /\ n \notin DOMAIN nodes
      /\ nodes'[n] = x /\ \A m \in DOMAIN nodes : nodes'[m] = nodes[m]
      BY <1>1, AppendFacts
<1>3. 1..n - 1 = Ns
      BY <1>1
<1> QED BY <1>1, <1>2, <1>3 DEF Ns

LEMMA ConstantComplete ==
  ASSUME CompleteInv, GraphInv', NEW f \in Fns, NEW type \in Types, Constant(f, type)
  PROVE  CompleteInv'
<1> USE DEF CompleteInv
<1>0. PICK n : n = Len(nodes) + 1
      OBVIOUS
<1> DEFINE v == Value(Main, Leaf("const", n))
           none == <<>>
           x == Node("Constant", none, type, v, Leaf("const", n), f)
<1>1. nodes' = Append(nodes, x) /\ UNCHANGED functions
      BY <1>0 DEF Constant
<1>2. x.op = "Constant" /\ x.inputs = none /\ x.val.whole = TRUE
      BY DEF Node, Value
<1>3. ToSet(none) = {}
  <2>1. none \in Seq({})
        OBVIOUS
  <2> HIDE DEF none
  <2> QED BY <2>1, EmptyFacts
<1> HIDE DEF x, none
<1>4. /\ Ns' = Ns \union {n} /\ n \notin Ns
      /\ nodes'[n] = x /\ \A m \in Ns : nodes'[m] = nodes[m]
      BY <1>0, <1>1, AppendedNode
<1>5. Grows /\ \A g \in Fns' : FunctionShape(g)'
      BY <1>1, <1>4, NodesOnly
<1>6. NodeShape(nodes[n], n)'
  <2>1. "Constant" \notin AllOps
        BY DEF AllOps, UnaryOps, BinaryOps, ComparisonOps, EagerOps
  <2> QED BY <1>2, <1>3, <1>4, <2>1 DEF NodeShape
<1>7. Shaped'
      BY <1>4, <1>5, <1>6, NodeShapeStays DEF Shaped
<1>8. nodes'[n].val.whole <=> ReliableAs(nodes[n], 0, Good)'
      BY <1>2, <1>4 DEF ReliableAs
<1> QED BY <1>4, <1>5, <1>7, <1>8, StillComplete

LEMMA ParameterComplete ==
  ASSUME CompleteInv, GraphInv', NEW f \in Fns, NEW type \in Types, Parameter(f, type)
  PROVE  CompleteInv'
<1> USE DEF CompleteInv
<1>0. PICK n : n = Len(nodes) + 1
      OBVIOUS
<1> DEFINE v == IF IsClosure(f) THEN PlaceholderValue ELSE Value(Main, Leaf("param", n))
           none == <<>>
           x == Node("Parameter", none, type, v, Leaf("param", n), f)
           ps == Append(functions[f].parameters, n)
           g == [functions[f] EXCEPT !.parameters = ps]
<1>1. nodes' = Append(nodes, x) /\ functions' = [functions EXCEPT ![f] = g]
  <2>1. functions' = [functions EXCEPT ![f].parameters = Append(@, n)]
        BY <1>0 DEF Parameter
  <2>2. functions' = [functions EXCEPT ![f] = g]
        BY <2>1
  <2> QED BY <1>0, <2>2 DEF Parameter
<1>2. x.op = "Parameter" /\ x.inputs = none /\ x.val = v /\ x.owner = f
      BY DEF Node
<1>3. ToSet(none) = {}
  <2>1. none \in Seq({})
        OBVIOUS
  <2> HIDE DEF none
  <2> QED BY <2>1, EmptyFacts
<1>4. v.whole <=> TopLevel(f)
      BY DEF Value, PlaceholderValue, TopLevel, IsClosure
<1> HIDE DEF x, none, v
<1>5. /\ Ns' = Ns \union {n} /\ n \notin Ns
      /\ nodes'[n] = x /\ \A m \in Ns : nodes'[m] = nodes[m]
      BY <1>0, <1>1, AppendedNode
<1>6. ToSet(ps) = Parameters(f) \union {n}
  <2>1. IsSeq(functions[f].parameters)
        BY FunctionFacts DEF GraphInv
  <2> QED BY <2>1, AppendFacts DEF Parameters
<1>7. /\ g.parent = functions[f].parent /\ g.returned = functions[f].returned
      /\ g.outputs = functions[f].outputs /\ g.sorted = functions[f].sorted
      /\ g.parameters = ps
  <2>1. functions[f] \in FnRecord
        BY FunctionFacts DEF GraphInv
  <2> HIDE DEF ps
  <2> QED BY <2>1 DEF FnRecord
<1> HIDE DEF g, ps
<1>8. Fns' = Fns /\ functions'[f] = g /\ \A h \in Fns \ {f} : functions'[h] = functions[h]
      BY <1>1 DEF Fns
<1>9. Grows
  <2>1. FunctionGrows(f)
        BY <1>5, <1>6, <1>7, <1>8 DEF FunctionGrows
  <2>2. \A h \in Fns \ {f} : FunctionGrows(h)
        BY <1>8 DEF FunctionGrows, Parameters
  <2> QED BY <1>5, <1>8, <2>1, <2>2 DEF Grows
<1>10. ASSUME NEW h \in Fns PROVE FunctionShape(h)'
  <2>1. \A m \in ToSet(functions'[h].parameters) \ Ns :
           nodes'[m].op = "Parameter" /\ nodes'[m].owner = h
    <3>1. Parameters(h) \subseteq Ns
          BY DEF GraphInv, FunctionsOK
    <3>2. CASE h = f
          BY <3>1, <3>2, <1>2, <1>5, <1>6, <1>7, <1>8
    <3>3. CASE h # f
          BY <3>1, <3>3, <1>8 DEF Parameters
    <3> QED BY <3>2, <3>3
  <2>2. functions'[h].returned => functions[h].returned
        BY <1>7, <1>8
  <2> QED BY <1>9, <2>1, <2>2, FunctionShapeStays
<1>11. NodeShape(nodes[n], n)'
  <2>1. "Parameter" \notin AllOps
        BY DEF AllOps, UnaryOps, BinaryOps, ComparisonOps, EagerOps
  <2> QED BY <1>2, <1>3, <1>5, <2>1 DEF NodeShape
<1>12. Shaped'
       BY <1>5, <1>8, <1>9, <1>10, <1>11, NodeShapeStays DEF Shaped
<1>13. nodes'[n].val.whole <=> ReliableAs(nodes[n], 0, Good)'
  <2>1. TopLevel(f)' <=> TopLevel(f)
        BY <1>7, <1>8 DEF TopLevel
  <2> QED BY <1>2, <1>4, <1>5, <2>1 DEF ReliableAs
<1> QED BY <1>5, <1>9, <1>12, <1>13, StillComplete

LEMMA ReturnComplete ==
  ASSUME CompleteInv, GraphInv', NEW f \in Fns, NEW outs, Return(f, outs)
  PROVE  CompleteInv'
<1> USE DEF CompleteInv
<1> DEFINE s == IF IsClosure(f) THEN Sorted(outs) ELSE <<>>
           g == [functions[f] EXCEPT !.returned = TRUE, !.outputs = outs, !.sorted = s]
<1>1. /\ ~functions[f].returned /\ functions' = [functions EXCEPT ![f] = g]
      /\ UNCHANGED nodes
  <2>1. functions' = [functions EXCEPT ![f].returned = TRUE, ![f].outputs = outs, ![f].sorted = s]
        BY DEF Return
  <2> HIDE DEF s
  <2>2. functions' = [functions EXCEPT ![f] = g]
        BY <2>1
  <2> QED BY <2>2 DEF Return, Open
<1>2. IsClosure(f) => s = Sorted(outs)
      OBVIOUS
<1> HIDE DEF s
<1>3. /\ g.parent = functions[f].parent /\ g.returned = TRUE
      /\ g.outputs = outs /\ g.sorted = s /\ g.parameters = functions[f].parameters
  <2>1. functions[f] \in FnRecord
        BY FunctionFacts DEF GraphInv
  <2> QED BY <2>1 DEF FnRecord
<1> HIDE DEF g
<1>4. Fns' = Fns /\ functions'[f] = g /\ \A h \in Fns \ {f} : functions'[h] = functions[h]
      BY <1>1 DEF Fns
<1>5. Ns' = Ns
      BY <1>1 DEF Ns
<1>6. Grows
  <2>1. FunctionGrows(f)
        BY <1>1, <1>3, <1>4 DEF FunctionGrows, Parameters
  <2>2. \A h \in Fns \ {f} : FunctionGrows(h)
        BY <1>4 DEF FunctionGrows, Parameters
  <2> QED BY <1>1, <1>4, <1>5, <2>1, <2>2 DEF Grows
<1>7. ASSUME NEW h \in Fns \ {f} PROVE FunctionShape(h)'
  <2>1. functions'[h] = functions[h] /\ ToSet(functions[h].parameters) \subseteq Ns
        BY <1>4 DEF GraphInv, FunctionsOK, Parameters
  <2> QED BY <1>6, <2>1, FunctionShapeStays
<1>8. FunctionShape(f)'
  <2>1. \A n \in Parameters(f)' : nodes'[n].op = "Parameter" /\ nodes'[n].owner = f
        BY <1>1, <1>3, <1>4 DEF Shaped, FunctionShape, Parameters
  <2>2. ASSUME Settled(f)' PROVE Reaching(f)'
    <3>1. IsClosure(f) /\ functions'[f].sorted = Sorted(outs) /\ functions'[f].outputs = outs
          BY <1>2, <1>3, <1>4, <2>2 DEF Settled, IsClosure
    <3>2. ToSet(outs) \subseteq Ns
          BY <1>4, <1>5, <3>1 DEF GraphInv, FunctionsOK
    <3>3. Increasing(Sorted(outs)) /\ ToSet(Sorted(outs)) = Needed(outs) \cap Ns
          BY SortedFacts, NsFacts
    <3>4. /\ ToSet(outs) \subseteq ToSet(Sorted(outs))
          /\ \A n \in ToSet(Sorted(outs)) : ToSet(nodes[n].inputs) \subseteq ToSet(Sorted(outs))
          BY <3>2, <3>3, NeededFacts
    <3> QED BY <1>1, <3>1, <3>3, <3>4 DEF Reaching
  <2> QED BY <2>1, <2>2 DEF FunctionShape
<1>9. Shaped'
      BY <1>4, <1>5, <1>6, <1>7, <1>8, NodeShapeStays DEF Shaped
<1> QED BY <1>5, <1>6, <1>9, StillComplete

LEMMA ValsWhole ==
  ASSUME CompleteInv, NEW ns, IsSeq(ns), ToSet(ns) \subseteq Ns
  PROVE  Whole(Vals(ns)) <=> All(0, ns, Good)
<1> DEFINE vs == Vals(ns)
<1>1. DOMAIN vs = DOMAIN ns /\ \A i \in DOMAIN ns : vs[i] = nodes[ns[i]].val
      BY DEF Vals
<1>2. /\ \A i \in DOMAIN ns : ns[i] \in ToSet(ns)
      /\ \A m \in ToSet(ns) : \E i \in DOMAIN ns : ns[i] = m
      BY SeqFacts
<1>3. \A m \in ToSet(ns) : nodes[m].val.whole <=> 0 \in Good[m]
      BY DEF CompleteInv, SupportedIsComplete
<1> HIDE DEF vs
<1>4. ASSUME Whole(vs), NEW m \in ToSet(ns) PROVE 0 \in Good[m]
  <2>1. PICK i \in DOMAIN ns : ns[i] = m
        BY <1>2
  <2>2. vs[i].whole /\ vs[i] = nodes[m].val
        BY <1>1, <1>4, <2>1 DEF Whole
  <2> QED BY <1>3, <2>2
<1>5. ASSUME All(0, ns, Good), NEW i \in DOMAIN vs PROVE vs[i].whole
  <2>1. ns[i] \in ToSet(ns) /\ vs[i] = nodes[ns[i]].val
        BY <1>1, <1>2
  <2>2. 0 \in Good[ns[i]]
        BY <1>5, <2>1 DEF All
  <2> QED BY <1>3, <2>1, <2>2
<1>6. Whole(vs) <=> All(0, ns, Good)
      BY <1>4, <1>5 DEF Whole, All
<1> QED BY <1>6 DEF vs

LEMMA OperationComplete ==
  ASSUME CompleteInv, GraphInv', NEW f \in Fns, NEW op \in AllOps, NEW types \in Signatures(op),
         NEW xs \in [DOMAIN types -> Visible(f)], Operation(f, op, xs)
  PROVE  CompleteInv'
<1> USE DEF CompleteInv
<1>0. PICK n : n = Len(nodes) + 1
      OBVIOUS
<1> DEFINE vs == Vals(xs)
           e == Emission(op, vs)
           type == ResultType(op, TypesOf(xs))
           asked == Promise(op, Asked(xs))
           lazy == IsClosure(f) /\ op \notin EagerOps
           v == IF lazy THEN PlaceholderValue ELSE e.val
           x == Node(op, xs, type, v, asked, f)
<1>1. TypesOf(xs) \in Signatures(op) /\ nodes' = Append(nodes, x) /\ UNCHANGED functions
  <2>1. CASE lazy
        BY <2>1 DEF Operation
  <2>2. CASE ~lazy
        BY <2>2 DEF Operation
  <2> QED BY <2>1, <2>2
<1>2. /\ IsSeq(xs) /\ ToSet(xs) \subseteq Ns /\ Len(xs) \in Nat \ {0}
      /\ op \in {"Neg", "Expm1", "Log1p"} => Len(xs) = 1
      BY <1>1, OperandFacts DEF GraphInv
<1>3. Whole(vs) <=> All(0, xs, Good)
      BY <1>2, ValsWhole
<1>4. e.val.whole <=> Whole(vs)
  <2>1. IsSeq(vs) /\ Len(vs) = Len(xs)
    <3>1. Answers(vs, xs)
          BY <1>2, ValsFacts DEF GraphInv
    <3> QED BY <3>1 DEF Answers
  <2> HIDE DEF vs
  <2>2. EmissionIs(e, op, vs)
        BY <1>2, <2>1, EmissionFacts
  <2> HIDE DEF e
  <2> QED BY <2>2 DEF EmissionIs
<1> HIDE DEF vs, e, type, asked
<1>5. v.whole <=> All(0, xs, Good) /\ (TopLevel(f) \/ op \in EagerOps)
  <2>1. CASE lazy
    <3>1. v = PlaceholderValue
          BY <2>1
    <3> HIDE DEF v
    <3> QED BY <2>1, <3>1, PlaceholderFacts DEF IsClosure, TopLevel
  <2>2. CASE ~lazy
    <3>1. v = e.val
          BY <2>2
    <3> HIDE DEF v
    <3> QED BY <1>3, <1>4, <2>2, <3>1 DEF IsClosure, TopLevel
  <2> QED BY <2>1, <2>2
<1> HIDE DEF v
<1>6. x.op = op /\ x.inputs = xs /\ x.val = v /\ x.owner = f
      BY DEF Node
<1> HIDE DEF x
<1>7. /\ Ns' = Ns \union {n} /\ n \notin Ns
      /\ nodes'[n] = x /\ \A m \in Ns : nodes'[m] = nodes[m]
      BY <1>0, <1>1, AppendedNode
<1>8. Grows /\ \A g \in Fns' : FunctionShape(g)'
      BY <1>1, <1>7, NodesOnly
<1>9. op \notin {"Parameter", "Constant", "While", "If"}
      BY DEF AllOps, UnaryOps, BinaryOps, ComparisonOps, EagerOps
<1>10. NodeShape(nodes[n], n)'
  <2>1. ToSet(xs) # {}
    <3>1. DOMAIN xs = 1..Len(xs) /\ Len(xs) \in Nat \ {0} /\ \A i \in DOMAIN xs : xs[i] \in ToSet(xs)
          BY <1>2, SeqFacts
    <3>2. 1 \in DOMAIN xs
          BY <3>1
    <3> QED BY <3>1, <3>2
  <2> QED BY <1>6, <1>7, <1>9, <2>1 DEF NodeShape
<1>11. Shaped'
       BY <1>7, <1>8, <1>10, NodeShapeStays DEF Shaped
<1>12. nodes'[n].val.whole <=> ReliableAs(nodes[n], 0, Good)'
  <2>1. TopLevel(f)' <=> TopLevel(f)
        BY <1>1 DEF TopLevel
  <2>2. All(0, xs, Good') <=> All(0, xs, Good)
    <3>1. Place(0)
          BY DEF Place
    <3> QED BY <1>2, <1>8, <1>11, <3>1, AllStays
  <2>3. ReliableAs(nodes[n], 0, Good)' <=> All(0, xs, Good') /\ (TopLevel(f)' \/ op \in EagerOps)
        BY <1>6, <1>7, <1>9 DEF ReliableAs
  <2> QED BY <1>5, <1>6, <1>7, <2>1, <2>2, <2>3
<1> QED BY <1>7, <1>8, <1>11, <1>12, StillComplete

(* A loop or a branch.  Its results are whole when its operands and the       *)
(* outputs of both its blocks are.                                            *)
LEMMA WholeConcat ==
  ASSUME NEW s, IsSeq(s), NEW t, IsSeq(t)
  PROVE  Whole(s \o t) <=> (Whole(s) /\ Whole(t))
<1> DEFINE u == s \o t
<1>1. /\ \A i \in DOMAIN s : i \in DOMAIN u /\ u[i] = s[i]
      /\ \A i \in DOMAIN t : Len(s) + i \in DOMAIN u /\ u[Len(s) + i] = t[i]
      /\ \A k \in DOMAIN u : \/ k \in DOMAIN s /\ u[k] = s[k]
                             \/ \E i \in DOMAIN t : k = Len(s) + i /\ u[k] = t[i]
  <2>1. Joined(u, s, t)
        BY ConcatFacts
  <2> HIDE DEF u
  <2> QED BY <2>1 DEF Joined
<1> HIDE DEF u
<1>2. Whole(u) => Whole(s) /\ Whole(t)
      BY <1>1 DEF Whole
<1>3. Whole(s) /\ Whole(t) => Whole(u)
      BY <1>1 DEF Whole
<1> QED BY <1>2, <1>3 DEF u

LEMMA ResultsWhole ==
  ASSUME NEW op, NEW args, IsSeq(args), NEW blocks, IsSeq(blocks[1].outs), IsSeq(blocks[2].outs),
         NEW count \in Nat, NEW k \in 1..count
  PROVE  Results(op, args, blocks, count)[k].whole
           <=> (Whole(args) /\ Whole(blocks[1].outs) /\ Whole(blocks[2].outs))
<1> DEFINE front == args \o blocks[1].outs
           vs == front \o blocks[2].outs
           term == Term(op, <<Leaf("result", k)>> \o Means(vs))
           v == Results(op, args, blocks, count)[k]
<1>1. v = Result(Main, term, vs)
      BY DEF Results
<1>2. IsSeq(front) /\ (Whole(front) <=> (Whole(args) /\ Whole(blocks[1].outs)))
      BY WholeConcat, ConcatFacts DEF Joined
<1> HIDE DEF front
<1>3. Whole(vs) <=> (Whole(front) /\ Whole(blocks[2].outs))
      BY <1>2, WholeConcat
<1> HIDE DEF vs, term, v
<1>4. v.whole <=> Whole(vs)
      BY <1>1, ResultFacts
<1> QED BY <1>2, <1>3, <1>4 DEF v

(* What makes a loop over closures c and d, or a branch to them, reliable.    *)
Controlled(op, over, c, d, good) ==
  /\ All(0, over, good)
  /\ op = "While" => Yields(c, good) /\ Yields(d, good)
  /\ op = "If" => /\ nodes[over[1]].op # "Constant"
                  /\ Yields(-c, good) /\ Yields(-d, good)

LEMMA ControlledIsNext ==
  ASSUME NEW x, x.op \in {"While", "If"}, NEW c, NEW d, x.closures[1] = c, x.closures[2] = d
  PROVE  ReliableAs(x, 0, Good)' <=> Controlled(x.op, x.over, c, d, Good)'
  BY DEF ReliableAs, Controlled

LEMMA YieldsStays ==
  ASSUME GraphInv, Shaped, GraphInv', Shaped', Grows, NEW c, Settled(c), NEW w \in {c, -c}
  PROVE  Yields(w, Good)' <=> Yields(w, Good)
<1>1. Replays(c, w)
      BY DEF Replays
<1>2. ClosureAt(w) = c /\ w \in Int /\ c \in Fns /\ ToSet(functions[c].outputs) \subseteq Ns
      BY <1>1, ReplaysFacts
<1>3. Place(w)
      BY <1>2 DEF Place
<1>4. functions'[c].outputs = functions[c].outputs
      BY SettledStays
<1>5. All(w, functions[c].outputs, Good') <=> All(w, functions[c].outputs, Good)
      BY <1>2, <1>3, AllStays
<1> QED BY <1>2, <1>4, <1>5 DEF Yields

LEMMA ControlledStays ==
  ASSUME GraphInv, Shaped, GraphInv', Shaped', Grows, NEW op \in {"While", "If"},
         NEW over, ToSet(over) \subseteq Ns, 1 \in DOMAIN over,
         NEW c, Settled(c), NEW d, Settled(d)
  PROVE  Controlled(op, over, c, d, Good)' <=> Controlled(op, over, c, d, Good)
<1>1. All(0, over, Good') <=> All(0, over, Good)
  <2>1. Place(0)
        BY DEF Place
  <2> QED BY <2>1, AllStays
<1>2. /\ Yields(c, Good)' <=> Yields(c, Good)
      /\ Yields(-c, Good)' <=> Yields(-c, Good)
      /\ Yields(d, Good)' <=> Yields(d, Good)
      /\ Yields(-d, Good)' <=> Yields(-d, Good)
      BY YieldsStays
<1>3. nodes'[over[1]] = nodes[over[1]]
  <2>1. over[1] \in Ns
        BY DEF ToSet
  <2> QED BY <2>1 DEF Grows
<1> QED BY <1>1, <1>2, <1>3 DEF Controlled

LEMMA ControlComplete ==
  ASSUME CompleteInv, GraphInv', NEW f \in Fns, NEW op \in {"While", "If"},
         NEW over, IsSeq(over), ToSet(over) \subseteq Ns, 1 \in DOMAIN over,
         NEW args, IsSeq(args), NEW c, Settled(c), NEW d, Settled(d),
         NEW first, IsSeq(first.outs), NEW second, IsSeq(second.outs),
         NEW count \in Nat, NEW types,
         AddResults(f, op, over, <<c, d>>,
                    Results(op, args, <<first, second>>, count), types),
         UNCHANGED functions,
         (Whole(args) /\ Whole(first.outs) /\ Whole(second.outs))
           <=> Controlled(op, over, c, d, Good)
  PROVE  CompleteInv'
<1> USE DEF CompleteInv
<1> DEFINE blocks == <<first, second>>
           pair == <<c, d>>
           none == <<>>
           vs == Results(op, args, blocks, count)
           a == functions[c].outputs
           b == functions[d].outputs
           asked(k) == Term(op, <<Leaf("result", k)>> \o Asked(over) \o Asked(a) \o Asked(b))
           plain(k) == Node(op, none, types[k], vs[k], asked(k), f)
           new(k) == [plain(k) EXCEPT !.over = over, !.closures = pair]
           more == [k \in 1..count |-> new(k)]
<1>1. /\ blocks[1] = first /\ blocks[2] = second
      /\ pair[1] = c /\ pair[2] = d
      BY TwoTuple
<1>2. Len(vs) = count
  <2>1. vs = [k \in 1..count |-> vs[k]]
        BY DEF Results
  <2> HIDE DEF vs
  <2> QED BY <2>1, MadeIsSeq
<1>3. ToSet(none) = {}
  <2>1. none \in Seq({})
        OBVIOUS
  <2> HIDE DEF none
  <2> QED BY <2>1, EmptyFacts
<1>4. nodes' = nodes \o more
  <2> HIDE DEF vs, blocks
  <2>1. nodes' = nodes \o [k \in 1..Len(vs) |->
          [Node(op, <<>>, types[k], vs[k],
                Term(op, <<Leaf("result", k)>> \o Asked(over) \o Asked(functions[pair[1]].outputs)
                           \o Asked(functions[pair[2]].outputs)), f)
            EXCEPT !.over = over, !.closures = pair]]
        BY Zenon DEF AddResults, vs, blocks
  <2> HIDE DEF pair
  <2> QED BY <1>1, <1>2, <2>1
<1>5. ASSUME NEW k \in 1..count
      PROVE  vs[k].whole <=> Controlled(op, over, c, d, Good)
  <2> HIDE DEF blocks
  <2>1. vs[k].whole <=> (Whole(args) /\ Whole(blocks[1].outs) /\ Whole(blocks[2].outs))
        BY <1>1, ResultsWhole
  <2> QED BY <1>1, <2>1
<1> HIDE DEF blocks, pair, none, vs, asked
<1>6. ASSUME NEW k \in 1..count
      PROVE  /\ new(k).op = op /\ new(k).inputs = none /\ new(k).val = vs[k]
             /\ new(k).over = over /\ new(k).closures = pair
      BY DEF Node
<1>7. Joined(nodes', nodes, more)
  <2>1. IsSeq(more)
    <3> HIDE DEF new
    <3>1. more = [k \in 1..count |-> more[k]]
          OBVIOUS
    <3> HIDE DEF more
    <3> QED BY <3>1, MadeIsSeq
  <2> HIDE DEF more
  <2> QED BY <1>4, <2>1, ConcatFacts, NsFacts
<1>8. DOMAIN more = 1..count /\ \A k \in 1..count : more[k] = new(k)
  <2> HIDE DEF new
  <2> QED OBVIOUS
<1> HIDE DEF more, new
<1>9. /\ Ns \subseteq Ns' /\ \A n \in Ns : nodes'[n] = nodes[n]
      /\ \A n \in Ns' : \/ n \in Ns
                        \/ \E k \in 1..count : n = Len(nodes) + k /\ nodes'[n] = new(k)
      BY <1>7, <1>8 DEF Joined, Ns
<1>10. Grows /\ \A g \in Fns' : FunctionShape(g)'
       BY <1>9, NodesOnly
<1>11. ASSUME NEW n \in Ns' \ Ns
       PROVE  /\ nodes'[n].op = op /\ nodes'[n].inputs = none /\ nodes'[n].over = over
              /\ nodes'[n].closures[1] = c /\ nodes'[n].closures[2] = d
              /\ nodes'[n].val.whole <=> Controlled(op, over, c, d, Good)
              /\ Ns \subseteq 1..n - 1
  <2>1. PICK k \in 1..count : n = Len(nodes) + k /\ nodes'[n] = new(k)
        BY <1>9
  <2>2. Ns \subseteq 1..n - 1
        BY <2>1, NsFacts
  <2> QED BY <1>1, <1>5, <1>6, <2>1, <2>2
<1>12. ASSUME NEW n \in Ns' \ Ns PROVE NodeShape(nodes[n], n)'
  <2>1. op \notin AllOps
        BY DEF AllOps, UnaryOps, BinaryOps, ComparisonOps, EagerOps
  <2>2. ASSUME NEW e \in {c, d}
        PROVE  Settled(e)' /\ ToSet(functions'[e].outputs) \subseteq 1..n - 1
    <3>1. Settled(e)' /\ functions'[e].outputs = functions[e].outputs
          BY <1>10, SettledStays
    <3>2. ToSet(functions[e].outputs) \subseteq Ns
          BY DEF Settled, GraphInv, FunctionsOK
    <3> QED BY <1>11, <3>1, <3>2
  <2> QED BY <1>3, <1>11, <2>1, <2>2 DEF NodeShape
<1>13. Shaped'
       BY <1>10, <1>12, NodeShapeStays DEF Shaped
<1>14. ASSUME NEW n \in Ns' \ Ns
       PROVE  nodes'[n].val.whole <=> ReliableAs(nodes[n], 0, Good)'
  <2>1. PICK x : x = nodes'[n]
        OBVIOUS
  <2>2. ReliableAs(x, 0, Good)' <=> Controlled(op, over, c, d, Good)'
        BY <1>11, <2>1, ControlledIsNext
  <2>3. Controlled(op, over, c, d, Good)' <=> Controlled(op, over, c, d, Good)
        BY <1>10, <1>13, ControlledStays
  <2>4. ReliableAs(nodes[n], 0, Good)' <=> ReliableAs(x, 0, Good)'
        BY <2>1 DEF ReliableAs
  <2> QED BY <1>11, <2>2, <2>3, <2>4
<1> QED BY <1>10, <1>13, <1>14, StillComplete

(* The closures of a loop or a branch have returned.                          *)
LEMMA ClosureOfSettled ==
  ASSUME GraphInv, NEW f \in Fns, NEW c \in Fns, ClosureOf(c, f)
  PROVE  Settled(c)
<1>1. f # 0
      BY DEF GraphInv, Typed, Fns
<1> QED BY <1>1 DEF ClosureOf, Settled, IsClosure

LEMMA LoopServes ==
  ASSUME GraphInv, NEW c \in Fns, NEW b, NEW count \in Nat, Len(functions[c].parameters) = count
  PROVE  Serves(BlockInputs(c, b, count), c, c)
<1> DEFINE vs == BlockInputs(c, b, count)
           ps == functions[c].parameters
<1>1. DOMAIN ps = 1..count
  <2>1. IsSeq(ps)
        BY FunctionFacts DEF GraphInv
  <2> QED BY <2>1, SeqFacts
<1>2. DOMAIN vs = 1..count
      BY DEF BlockInputs
<1>3. ASSUME NEW i \in 1..count PROVE vs[i].whole
      BY DEF BlockInputs, Value
<1> HIDE DEF vs
<1>4. Serves(vs, c, c)
      BY <1>1, <1>2, <1>3 DEF Serves
<1> QED BY <1>4 DEF vs

LEMMA BranchServes ==
  ASSUME GraphInv, NEW c \in Fns
  PROVE  Serves(<<>>, c, -c) /\ -c # c
<1> DEFINE none == <<>>
<1>1. DOMAIN none = {}
      OBVIOUS
<1>2. c \in Nat /\ c # 0
      BY DEF GraphInv, Typed, Fns
<1> HIDE DEF none
<1>3. Serves(none, c, -c)
      BY <1>1, <1>2 DEF Serves
<1> QED BY <1>2, <1>3 DEF none

LEMMA ClosureAtFacts ==
  ASSUME GraphInv, NEW c \in Fns
  PROVE  ClosureAt(c) = c /\ ClosureAt(-c) = c
<1>1. c \in Nat /\ c # 0
      BY DEF GraphInv, Typed, Fns
<1> QED BY <1>1 DEF ClosureAt

LEMMA FirstWhole ==
  ASSUME NEW outs, IsSeq(outs), Len(outs) = 1
  PROVE  IsSeq(<<outs[1]>>) /\ (Whole(<<outs[1]>>) <=> Whole(outs))
<1> DEFINE one == <<outs[1]>>
<1>1. IsSeq(one) /\ DOMAIN one = {1} /\ one[1] = outs[1]
      BY OneTuple
<1>2. DOMAIN outs = {1}
      BY SeqFacts
<1> HIDE DEF one
<1>3. Whole(one) <=> Whole(outs)
      BY <1>1, <1>2 DEF Whole
<1> QED BY <1>1, <1>3 DEF one

LEMMA WhileComplete ==
  ASSUME CompleteInv, GraphInv', NEW f \in Fns, NEW cond \in Fns, NEW body \in Fns,
         NEW initial \in SeqsUpTo(Visible(f), outline.outs), While(f, cond, body, initial)
  PROVE  CompleteInv'
<1> USE DEF CompleteInv
<1> DEFINE count == Len(initial)
           condBlock == Replay(cond, Block(1), BlockInputs(cond, 1, count))
           bodyBlock == Replay(body, Block(2), BlockInputs(body, 2, count))
           first == [condBlock EXCEPT !.outs = <<@[1]>>]
           args == Vals(initial)
           types == TypesOf(initial)
<1>1. /\ TypesOf(functions[cond].outputs) = <<"Bool">>
      /\ AddResults(f, "While", initial, <<cond, body>>,
                    Results("While", args, <<first, bodyBlock>>, count), types)
      /\ UNCHANGED functions
      /\ initial # <<>> /\ ClosureOf(cond, f) /\ ClosureOf(body, f)
      /\ Len(functions[cond].parameters) = count /\ Len(functions[body].parameters) = count
      BY Zenon DEF While
<1>2. IsSeq(initial) /\ ToSet(initial) \subseteq Ns
      BY OutsBound, ChoiceFacts, VisibleFacts DEF GraphInv
<1>3. count \in Nat /\ DOMAIN initial = 1..count
      BY <1>2, SeqFacts
<1>4. 1 \in DOMAIN initial
  <2>1. initial \in Seq(Visible(f))
        BY OutsBound, ChoiceFacts DEF GraphInv
  <2>2. count # 0
        BY <1>1, <2>1
  <2> HIDE DEF count
  <2> QED BY <1>3, <2>2
<1>5. Settled(cond) /\ Settled(body)
      BY <1>1, ClosureOfSettled
<1>6. IsSeq(args) /\ (Whole(args) <=> All(0, initial, Good))
      BY <1>2, ValsFacts, ValsWhole DEF GraphInv, Answers
<1>7. /\ Whole(condBlock.outs) <=> Yields(cond, Good)
      /\ Whole(bodyBlock.outs) <=> Yields(body, Good)
  <2> HIDE DEF count
  <2>1. Replays(cond, cond) /\ Replays(body, body)
        BY <1>5 DEF Replays
  <2>2. /\ Serves(BlockInputs(cond, 1, count), cond, cond)
        /\ Serves(BlockInputs(body, 2, count), body, body)
        BY <1>1, <1>3, LoopServes
  <2>3. /\ Whole(condBlock.outs) <=> All(cond, functions[cond].outputs, Good)
        /\ Whole(bodyBlock.outs) <=> All(body, functions[body].outputs, Good)
        BY <2>1, <2>2, ReplayWhole
  <2> HIDE DEF condBlock, bodyBlock
  <2> QED BY <2>3, ClosureAtFacts DEF Yields
<1>8. /\ IsSeq(condBlock.outs) /\ Len(condBlock.outs) = 1
      /\ IsSeq(bodyBlock.outs)
  <2>1. ReplayOK(condBlock, cond, Block(1)) /\ ReplayOK(bodyBlock, body, Block(2))
        BY LoopInputs, ReplayFacts DEF GraphInv
  <2>2. Len(functions[cond].outputs) = 1
        BY <1>1, OneOutput DEF GraphInv
  <2> HIDE DEF condBlock, bodyBlock
  <2> QED BY <2>1, <2>2 DEF ReplayOK, Answers
<1>9. first.outs = <<condBlock.outs[1]>>
      BY DEF Replay
<1> HIDE DEF condBlock, bodyBlock, first, args, types, count
<1>10. IsSeq(first.outs) /\ (Whole(first.outs) <=> Whole(condBlock.outs))
       BY <1>8, <1>9, FirstWhole
<1>11. (Whole(args) /\ Whole(first.outs) /\ Whole(bodyBlock.outs))
         <=> Controlled("While", initial, cond, body, Good)
       BY <1>6, <1>7, <1>10 DEF Controlled
<1> QED BY <1>1, <1>2, <1>3, <1>4, <1>5, <1>6, <1>8, <1>10, <1>11, ControlComplete

LEMMA IfComplete ==
  ASSUME CompleteInv, GraphInv', NEW f \in Fns, NEW yes \in Fns, NEW no \in Fns,
         NEW pred \in Visible(f), If(f, pred, yes, no)
  PROVE  CompleteInv'
<1> USE DEF CompleteInv
<1> DEFINE none == <<>>
           first == Replay(yes, Block(1), none)
           second == Replay(no, Block(2), none)
           outs == functions[yes].outputs
           types == TypesOf(outs)
           count == Len(types)
           args == <<Predicate(pred)>>
           over == <<pred>>
<1>1. /\ AddResults(f, "If", over, <<yes, no>>,
                    Results("If", args, <<first, second>>, count), types)
      /\ UNCHANGED functions /\ ClosureOf(yes, f) /\ ClosureOf(no, f)
      BY Zenon DEF If
<1>2. pred \in Ns
      BY VisibleFacts
<1>3. IsSeq(over) /\ DOMAIN over = {1} /\ over[1] = pred /\ ToSet(over) = {pred}
      BY OneTuple
<1>4. IsSeq(args) /\ DOMAIN args = {1} /\ args[1] = Predicate(pred)
      BY OneTuple
<1>5. Settled(yes) /\ Settled(no)
      BY <1>1, ClosureOfSettled
<1>6. /\ Whole(first.outs) <=> Yields(-yes, Good)
      /\ Whole(second.outs) <=> Yields(-no, Good)
  <2>1. Replays(yes, -yes) /\ Replays(no, -no)
        BY <1>5 DEF Replays
  <2>2. Serves(none, yes, -yes) /\ Serves(none, no, -no)
        BY BranchServes
  <2> HIDE DEF none
  <2>3. /\ Whole(first.outs) <=> All(-yes, functions[yes].outputs, Good)
        /\ Whole(second.outs) <=> All(-no, functions[no].outputs, Good)
        BY <2>1, <2>2, ReplayWhole
  <2> HIDE DEF first, second
  <2> QED BY <2>3, ClosureAtFacts DEF Yields
<1>7. IsSeq(first.outs) /\ IsSeq(second.outs)
  <2>1. ReplayOK(first, yes, Block(1)) /\ ReplayOK(second, no, Block(2))
        BY NoInputs, ReplayFacts DEF GraphInv
  <2> HIDE DEF first, second
  <2> QED BY <2>1 DEF ReplayOK, Answers
<1>8. count \in Nat
  <2>1. IsSeq(outs)
        BY FunctionFacts DEF GraphInv
  <2> HIDE DEF outs
  <2>2. Len(outs) \in Nat /\ DOMAIN outs = 1..Len(outs)
        BY <2>1, SeqFacts
  <2>3. types = [k \in 1..Len(outs) |-> types[k]]
        BY <2>2 DEF TypesOf
  <2> HIDE DEF types
  <2>4. Len(types) = Len(outs)
        BY <2>2, <2>3, MadeIsSeq
  <2> QED BY <2>2, <2>4
<1> HIDE DEF first, second, types, count, over, args
<1>9. Whole(args) <=> (All(0, over, Good) /\ nodes[over[1]].op # "Constant")
  <2>1. Whole(args) <=> Predicate(pred).whole
        BY <1>4 DEF Whole
  <2>2. Predicate(pred).whole <=> (nodes[pred].op # "Constant" /\ nodes[pred].val.whole)
    <3>1. CASE nodes[pred].op = "Constant"
      <4>1. Predicate(pred) = PlaceholderValue
            BY <3>1 DEF Predicate
      <4> QED BY <3>1, <4>1, PlaceholderFacts
    <3>2. CASE nodes[pred].op # "Constant"
      <4>1. Predicate(pred) = nodes[pred].val
            BY <3>2 DEF Predicate
      <4> QED BY <3>2, <4>1
    <3> QED BY <3>1, <3>2
  <2>3. nodes[pred].val.whole <=> 0 \in Good[pred]
        BY <1>2 DEF SupportedIsComplete
  <2>4. All(0, over, Good) <=> 0 \in Good[pred]
        BY <1>3 DEF All
  <2> QED BY <1>3, <2>1, <2>2, <2>3, <2>4
<1>10. (Whole(args) /\ Whole(first.outs) /\ Whole(second.outs))
         <=> Controlled("If", over, yes, no, Good)
       BY <1>6, <1>9 DEF Controlled
<1>11. ToSet(over) \subseteq Ns /\ 1 \in DOMAIN over
       BY <1>2, <1>3
<1> QED BY <1>1, <1>3, <1>4, <1>5, <1>7, <1>8, <1>10, <1>11, ControlComplete

-----------------------------------------------------------------------------
LEMMA InitComplete == Init => CompleteInv
<1> SUFFICES ASSUME Init PROVE CompleteInv
    OBVIOUS
<1> DEFINE none == <<>>
<1>1. functions = none /\ nodes = none
      BY DEF Init
<1>2. DOMAIN none = {}
      OBVIOUS
<1> HIDE DEF none
<1>3. Fns = {} /\ Ns = {}
      BY <1>1, <1>2 DEF Fns, Ns
<1>4. Shaped /\ SupportedIsComplete
      BY <1>3 DEF Shaped, SupportedIsComplete
<1> QED BY <1>4, InitKeeps DEF CompleteInv

LEMMA NextComplete == CompleteInv /\ [Next]_vars => CompleteInv'
<1> SUFFICES ASSUME CompleteInv, [Next]_vars PROVE CompleteInv'
    OBVIOUS
<1>1. GraphInv'
      BY NextKeeps DEF CompleteInv
<1>2. Writable \subseteq Fns
      BY DEF Writable
<1>3. CASE MainFunction
      BY <1>1, <1>3, NewFnComplete DEF MainFunction
<1>4. CASE NewFunction
      BY <1>1, <1>4, NewFnComplete DEF NewFunction
<1>5. ASSUME NEW f \in Fns, Closure(f) PROVE CompleteInv'
      BY <1>1, <1>5, NewFnComplete DEF Closure
<1>6. ASSUME NEW f \in Fns, NEW t \in Types, Parameter(f, t) PROVE CompleteInv'
      BY <1>1, <1>6, ParameterComplete
<1>7. ASSUME NEW f \in Writable, NEW t \in Types, Constant(f, t) PROVE CompleteInv'
      BY <1>1, <1>2, <1>7, ConstantComplete
<1>8. ASSUME NEW f \in Writable, NEW op \in AllOps \cap Uses, NEW types \in Signatures(op),
             NEW xs \in [DOMAIN types -> Visible(f)], Operation(f, op, xs)
      PROVE  CompleteInv'
      BY <1>1, <1>2, <1>8, OperationComplete
<1>9. ASSUME NEW f \in Writable, NEW outs \in Outs(f), Return(f, outs) PROVE CompleteInv'
      BY <1>1, <1>2, <1>9, ReturnComplete
<1>10. ASSUME NEW f \in Writable, NEW cond \in Fns, NEW body \in Fns,
              NEW initial \in SeqsUpTo(Visible(f), outline.outs), While(f, cond, body, initial)
       PROVE  CompleteInv'
       BY <1>1, <1>2, <1>10, WhileComplete
<1>11. ASSUME NEW f \in Writable, NEW yes \in Fns, NEW no \in Fns, NEW pred \in Visible(f),
              If(f, pred, yes, no)
       PROVE  CompleteInv'
       BY <1>1, <1>2, <1>11, IfComplete
<1>12. CASE UNCHANGED vars
       BY <1>1, <1>12, UnchangedComplete DEF vars
<1> QED BY <1>3, <1>4, <1>5, <1>6, <1>7, <1>8, <1>9, <1>10, <1>11, <1>12 DEF Next

(* The program defines everything a node needs exactly when loops and         *)
(* branches keep to the operations that replayNodeInBlock supports, to bound  *)
(* parameters and to values of the main program (function.go:1365), and no If *)
(* branches on a constant (ops_control_flow.go:378).                          *)
THEOREM SupportedComplete == Spec => []SupportedIsComplete
<1>1. CompleteInv => SupportedIsComplete
      BY DEF CompleteInv
<1> QED BY <1>1, InitComplete, NextComplete, PTL DEF Spec

=============================================================================
