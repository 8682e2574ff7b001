-------------------------- MODULE MCWorkflowEngine --------------------------
(* Small instances of WorkflowEngine for TLC. *)
EXTENDS WorkflowEngine

Edge(from, to, on) == [from |-> from, to |-> to, on |-> on]

ThreeNodes == {1, 2, 3}
FourNodes  == {1, 2, 3, 4}

(* Every graph over three nodes with edges from lower to higher numbers,   *)
(* at most one between two nodes: chains, fan-outs and joins.              *)
Pairs == {<<1, 2>>, <<1, 3>>, <<2, 3>>}
ThreeNodeDags ==
  {[nodes |-> ThreeNodes,
    edges |-> {Edge(p[1], p[2], f[p]) : p \in {q \in Pairs : f[q] # "no edge"}}] :
      f \in [Pairs -> Condition \cup {"no edge"}]}

(* A fan-out followed by a join, with any condition on the two joining edges. *)
DiamondDags ==
  {[nodes |-> FourNodes,
    edges |-> {Edge(1, 2, "always"), Edge(1, 3, "always"), Edge(2, 4, a), Edge(3, 4, b)}] :
      a \in Condition, b \in Condition}

(* Graphs the builder lets a user save that are not acyclic or not closed. *)
OddDags ==
  {[nodes |-> {1, 2}, edges |-> {Edge(1, 2, "always"), Edge(2, 1, "always")}],
   [nodes |-> {1, 2}, edges |-> {Edge(2, 2, "success")}],
   [nodes |-> {1, 2}, edges |-> {Edge(3, 2, "success")}],
   [nodes |-> {1, 2}, edges |-> {Edge(1, 3, "success"), Edge(1, 2, "failure"), Edge(1, 2, "success")}]}

AllDags == ThreeNodeDags \cup OddDags \cup DiamondDags

OneRetry  == [n \in Nodes |-> IF n = 1 THEN 1 ELSE 0]
=============================================================================
