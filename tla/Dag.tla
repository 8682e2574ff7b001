--------------------------------- MODULE Dag ---------------------------------
(***************************************************************************)
(* The graph of a workflow: the class Dag and its traversal helpers.  A    *)
(* graph is a record of its node ids and its edges; an edge is a record    *)
(* [from, to, on].  The code does not check that a graph is acyclic, nor   *)
(* that the ends of its edges are nodes.                                   *)
(*                                                                         *)
(* A definition named A_Slip is the definition A that follows it with a    *)
(* plausible slip in the code; nothing uses it.                            *)
(***************************************************************************)
Condition == {"success", "failure", "always"}
Outcome   == {"success", "failure"}

EdgesOver(N) == [from: N, to: N, on: Condition]

IsDag(g, N) == g.nodes \subseteq N /\ g.edges \subseteq EdgesOver(N)

(* Nodes no edge enters: the entry points. *)
Roots(g) == {n \in g.nodes : \A e \in g.edges : e.to # n}

(* The condition on an edge admits the outcome of its source. *)
Admits(e, outcome) == e.on \in {outcome, "always"}

Successors_AnyOutcome(g, n, outcome) ==
  {m \in g.nodes : \E e \in g.edges : e.from = n /\ e.to = m}

Successors_Unchecked(g, n, outcome) ==
  {e.to : e \in {d \in g.edges : d.from = n /\ Admits(d, outcome)}}

Successors(g, n, outcome) ==
  {m \in g.nodes : \E e \in g.edges : e.from = n /\ e.to = m /\ Admits(e, outcome)}

Predecessors(g, n) == {e.from : e \in {d \in g.edges : d.to = n}}
=============================================================================
