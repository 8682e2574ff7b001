------------------------ MODULE WorkflowEngineProofs ------------------------
(***************************************************************************)
(* Proofs about WorkflowEngine, for every set of graphs (cyclic ones and   *)
(* ones with dangling edges included), all retry counts, any size of a     *)
(* wave's pool and any number of exceptions.                               *)
(***************************************************************************)
EXTENDS WorkflowEngine, TLAPS

USE DEF Outcome

(* Traversals of a graph stay within its nodes, and those of its edges.    *)
LEMMA GraphFacts ==
  ASSUME TypeOK
  PROVE  /\ dag.nodes \subseteq Nodes /\ dag.edges \subseteq EdgesOver(Nodes)
         /\ Roots(dag) \subseteq dag.nodes
         /\ \A n, outcome : Successors(dag, n, outcome) \subseteq dag.nodes
         /\ \A n : Predecessors(dag, n) \subseteq Nodes
<1>1. IsDag(dag, Nodes) BY DagsAssumption DEF TypeOK
<1>2. dag.nodes \subseteq Nodes /\ dag.edges \subseteq EdgesOver(Nodes) BY <1>1 DEF IsDag
<1>3. Roots(dag) \subseteq dag.nodes BY DEF Roots
<1>4. \A n, outcome : Successors(dag, n, outcome) \subseteq dag.nodes BY DEF Successors
<1>5. \A n : Predecessors(dag, n) \subseteq Nodes BY <1>2 DEF Predecessors, EdgesOver
<1> QED BY <1>2, <1>3, <1>4, <1>5

(* A node is released by a node that precedes it, and whose edge admits the *)
(* outcome; all nodes that precede it have completed.                       *)
LEMMA ReleasedFacts ==
  ASSUME NEW n, NEW outcome, NEW done, NEW m \in Released(n, outcome, done)
  PROVE  /\ m \in dag.nodes /\ m \notin done
         /\ n \in Predecessors(dag, m) /\ Predecessors(dag, m) \subseteq done
         /\ \E e \in dag.edges : e.from = n /\ e.to = m /\ Admits(e, outcome)
<1>1. m \in Successors(dag, n, outcome) \ done /\ Predecessors(dag, m) \subseteq done
  BY DEF Released
<1>2. m \in dag.nodes /\ \E e \in dag.edges : e.from = n /\ e.to = m /\ Admits(e, outcome)
  BY <1>1 DEF Successors
<1>3. n \in Predecessors(dag, m) BY <1>2 DEF Predecessors
<1> QED BY <1>1, <1>2, <1>3

-----------------------------------------------------------------------------
(* Type correctness *)

LEMMA InitType == Init => TypeOK
<1> SUFFICES ASSUME Init PROVE TypeOK
  OBVIOUS
<1>1. raises \in 0..MaxRaises BY RaisesAssumption DEF Init
<1>2. /\ node \in [Nodes -> {"idle", "submitted", "running", "raised"} \cup Outcome]
      /\ attempts \in [Nodes -> Nat]
      /\ completed \in [Nodes -> {"none"} \cup Outcome]
  BY DEF Init
<1>3. wave \subseteq dag.nodes /\ nextReady \subseteq dag.nodes BY DEF Init
<1>4. deleted \in BOOLEAN /\ hadFailure \in BOOLEAN BY DEF Init
<1> QED BY <1>1, <1>2, <1>3, <1>4 DEF Init, TypeOK

LEMMA AttemptType ==
  ASSUME TypeOK, NEW n \in Nodes, NEW result \in Outcome, Attempt(n, result)
  PROVE  /\ node' \in [Nodes -> {"idle", "submitted", "running", "raised"} \cup Outcome]
         /\ attempts' \in [Nodes -> Nat]
  BY DEF Attempt, TypeOK

LEMMA StepType ==
  ASSUME TypeOK, [Next]_vars
  PROVE  TypeOK'
<1> USE RaisesAssumption DEF waveVars
<1>1. CASE Load BY <1>1, GraphFacts DEF Load, TypeOK
<1>2. CASE StartWave BY <1>2 DEF StartWave, TypeOK
<1>3. CASE PoolEnds BY <1>3 DEF PoolEnds, TypeOK
<1>4. CASE Finish BY <1>4 DEF Finish, TypeOK, Terminal
<1>5. ASSUME NEW n \in Nodes, Collect(n) PROVE TypeOK'
  <2>1. nextReady' \subseteq dag.nodes
    BY <1>5, ReleasedFacts DEF Collect, TypeOK
  <2>2. completed' \in [Nodes -> {"none"} \cup Outcome] BY <1>5 DEF Collect, TypeOK
  <2>3. hadFailure' \in BOOLEAN BY <1>5, Zenon DEF Collect, TypeOK
  <2> QED BY <1>5, <2>1, <2>2, <2>3 DEF Collect, TypeOK
<1>6. ASSUME NEW n \in Nodes, CollectRaises(n) PROVE TypeOK'
  BY <1>6 DEF CollectRaises, TypeOK
<1>7. ASSUME NEW n \in Nodes, StartNode(n) PROVE TypeOK'
  BY <1>7 DEF StartNode, TypeOK
<1>8. ASSUME NEW n \in Nodes, CreateRaises(n) PROVE TypeOK'
  BY <1>8 DEF CreateRaises, TypeOK
<1>9. ASSUME NEW n \in Nodes, AttemptEnds(n) PROVE TypeOK'
  BY <1>9, AttemptType DEF AttemptEnds, TypeOK
<1>10. ASSUME NEW n \in Nodes, AttemptRaises(n) PROVE TypeOK'
  <2>1. /\ node' \in [Nodes -> {"idle", "submitted", "running", "raised"} \cup Outcome]
        /\ attempts' \in [Nodes -> Nat]
    <3>1. CASE attempts[n] = 1 BY <1>10, <3>1, AttemptType DEF AttemptRaises
    <3>2. CASE attempts[n] # 1 BY <1>10, <3>2 DEF AttemptRaises, TypeOK
    <3> QED BY <3>1, <3>2
  <2>2. raises' \in 0..MaxRaises BY <1>10 DEF AttemptRaises, TypeOK
  <2>3. UNCHANGED <<dag, cancel, parent, pc, wave, completed, nextReady, hadFailure, deleted>>
    BY <1>10 DEF AttemptRaises
  <2> QED BY <2>1, <2>2, <2>3 DEF TypeOK
<1>11. CASE CancelParent BY <1>11 DEF CancelParent, TypeOK, Terminal
<1>12. CASE DeleteWorkflow BY <1>12 DEF DeleteWorkflow, TypeOK
<1>13. CASE OwnRaises BY <1>13 DEF OwnRaises, TypeOK
<1>14. CASE UNCHANGED vars BY <1>14 DEF vars, TypeOK
<1> QED
  BY <1>1, <1>2, <1>3, <1>4, <1>5, <1>6, <1>7, <1>8, <1>9, <1>10, <1>11, <1>12, <1>13, <1>14
  DEF Next, EngineStep, Over

(* Every state of every execution has the declared shape: above all, only  *)
(* nodes of the graph are ever submitted, also when edges of the stored    *)
(* graph lead to nodes that do not exist.                                  *)
THEOREM TypeCorrect == Spec => []TypeOK
<1>1. Init => TypeOK BY InitType
<1>2. TypeOK /\ [Next]_vars => TypeOK' BY StepType
<1> QED BY <1>1, <1>2, PTL DEF Spec

-----------------------------------------------------------------------------
(* The inductive invariant *)

LEMMA InitInv == Init => EngineInv
  BY RetryAssumption DEF Init, EngineInv, Chosen, AttemptsBounded

(* A step that moves node n from "submitted" on, or lets it run, leaves    *)
(* the set of chosen nodes and everything that is said of it alone.        *)
LEMMA NodeStepInv ==
  ASSUME TypeOK, EngineInv, NEW n \in Nodes,
         node[n] \in {"submitted", "running"},
         NEW s \in {"running", "raised"} \cup Outcome, node' = [node EXCEPT ![n] = s],
         NEW k \in Nat, attempts' = [attempts EXCEPT ![n] = k], k <= Retry[n] + 1,
         UNCHANGED <<dag, pc, completed, nextReady>>
  PROVE  EngineInv'
<1>1. completed[n] = "none"
  BY DEF EngineInv, TypeOK
<1>2. Chosen' = Chosen
  BY DEF Chosen, TypeOK
<1>3. n \notin nextReady BY DEF EngineInv
<1>4. \A m \in nextReady' : node'[m] = "idle" BY <1>3, GraphFacts DEF EngineInv, TypeOK
<1>5. \A m \in Nodes : node'[m] \in {"idle", "submitted"} => attempts'[m] = 0
  BY DEF EngineInv, TypeOK
<1>6. \A m \in Nodes : completed'[m] # "none" => node'[m] = completed'[m]
  BY <1>1 DEF EngineInv, TypeOK
<1>7. AttemptsBounded' BY DEF EngineInv, AttemptsBounded, TypeOK
<1>8. Completed' = Completed BY DEF Completed
<1>9. \A m \in Chosen' : Predecessors(dag, m)' \subseteq Completed'
  BY <1>2, <1>8 DEF EngineInv, Predecessors
<1>10. \A m \in Chosen' \ Roots(dag)' : Fired(m)'
  BY <1>2 DEF EngineInv, Roots, Fired
<1>11. pc' = "load" => Chosen' = {} BY <1>2 DEF EngineInv
<1> QED BY <1>4, <1>5, <1>6, <1>7, <1>9, <1>10, <1>11 DEF EngineInv

LEMMA AttemptInv ==
  ASSUME TypeOK, EngineInv, NEW n \in Nodes, NEW result \in Outcome, Attempt(n, result),
         UNCHANGED <<dag, pc, completed, nextReady>>
  PROVE  EngineInv'
<1>1. node[n] = "running" /\ attempts[n] \in Nat /\ Retry[n] \in Nat
  BY RetryAssumption DEF Attempt, TypeOK
<1>2. attempts[n] <= Retry[n] + 1 BY DEF EngineInv, AttemptsBounded
<1>3. CASE result = "success" \/ attempts[n] > Retry[n]
  <2>1. node' = [node EXCEPT ![n] = result] /\ attempts' = [attempts EXCEPT ![n] = attempts[n]]
    BY <1>3 DEF Attempt, TypeOK
  <2> QED BY <1>1, <1>2, <2>1, NodeStepInv
<1>4. CASE ~(result = "success" \/ attempts[n] > Retry[n])
  <2>1. /\ node' = [node EXCEPT ![n] = "running"]
        /\ attempts' = [attempts EXCEPT ![n] = attempts[n] + 1]
    BY <1>1, <1>4 DEF Attempt, TypeOK
  <2>2. attempts[n] + 1 \in Nat /\ attempts[n] + 1 <= Retry[n] + 1 BY <1>1, <1>4
  <2> QED BY <1>1, <2>1, <2>2, NodeStepInv
<1> QED BY <1>3, <1>4

(* Completing node n releases nodes that were not chosen before: one that  *)
(* was has no predecessor that is still to complete.                       *)
LEMMA CollectInv ==
  ASSUME TypeOK, EngineInv, NEW n \in Nodes, Collect(n)
  PROVE  EngineInv'
<1> DEFINE new == Released(n, node[n], Completed \cup {n})
<1>1. /\ completed[n] = "none" /\ node[n] \in Outcome
      /\ completed' = [completed EXCEPT ![n] = node[n]]
      /\ nextReady' = nextReady \cup new
      /\ UNCHANGED <<dag, node, attempts>> /\ pc = "collect" /\ pc' = pc
  BY DEF Collect
<1>2. Completed' = Completed \cup {n} BY <1>1 DEF Completed, TypeOK
<1>3. new \subseteq Nodes BY ReleasedFacts, GraphFacts
<1>4. \A m \in new : m \notin Chosen
  <2> SUFFICES ASSUME NEW m \in new, m \in Chosen PROVE FALSE
    OBVIOUS
  <2>1. n \in Predecessors(dag, m) BY ReleasedFacts
  <2>2. Predecessors(dag, m) \subseteq Completed BY DEF EngineInv
  <2> QED BY <1>1, <2>1, <2>2 DEF Completed
<1>5. Chosen' = Chosen \cup new BY <1>1, <1>3 DEF Chosen
<1>6. \A m \in nextReady' : node'[m] = "idle"
  <2>1. \A m \in new : node[m] = "idle" BY <1>3, <1>4 DEF Chosen
  <2> QED BY <1>1, <2>1 DEF EngineInv
<1>7. \A m \in Nodes : node'[m] \in {"idle", "submitted"} => attempts'[m] = 0
  BY <1>1 DEF EngineInv
<1>8. \A m \in Nodes : completed'[m] # "none" => node'[m] = completed'[m]
  BY <1>1 DEF EngineInv, TypeOK
<1>9. AttemptsBounded' BY <1>1 DEF EngineInv, AttemptsBounded
<1>10. \A m \in Chosen' : Predecessors(dag, m)' \subseteq Completed'
  <2>1. \A m \in new : Predecessors(dag, m) \subseteq Completed \cup {n} BY ReleasedFacts
  <2> QED BY <1>1, <1>2, <1>5, <2>1 DEF EngineInv, Predecessors
<1>11. \A m \in Chosen' \ Roots(dag)' : Fired(m)'
  <2> SUFFICES ASSUME NEW m \in Chosen', m \notin Roots(dag)
               PROVE  \E e \in dag.edges : /\ e.to = m /\ completed'[e.from] # "none"
                                           /\ Admits(e, completed'[e.from])
    BY <1>1 DEF Roots, Fired
  <2>1. CASE m \in Chosen
    <3>1. PICK e \in dag.edges : /\ e.to = m /\ completed[e.from] # "none"
                                 /\ Admits(e, completed[e.from])
      BY <2>1 DEF EngineInv, Fired
    <3>2. e.from \in Nodes BY GraphFacts DEF EdgesOver
    <3>3. completed'[e.from] = completed[e.from] BY <1>1, <3>1, <3>2 DEF TypeOK
    <3> QED BY <3>1, <3>3
  <2>2. CASE m \in new
    <3>1. PICK e \in dag.edges : e.from = n /\ e.to = m /\ Admits(e, node[n])
      BY <2>2, ReleasedFacts
    <3>2. completed'[n] = node[n] BY <1>1 DEF TypeOK
    <3> QED BY <1>1, <3>1, <3>2
  <2> QED BY <1>5, <2>1, <2>2
<1> QED BY <1>1, <1>6, <1>7, <1>8, <1>9, <1>10, <1>11 DEF EngineInv

LEMMA LoadInv == ASSUME TypeOK, EngineInv, Load PROVE EngineInv'
<1>1. CASE deleted
  <2>1. UNCHANGED <<dag, node, attempts, completed, nextReady>> /\ pc' = "dead"
    BY <1>1 DEF Load
  <2> QED BY <2>1 DEF EngineInv, Chosen, Completed, Fired, AttemptsBounded
<1>2. CASE ~deleted
  <2>1. /\ UNCHANGED <<dag, node, attempts, completed>> /\ pc = "load" /\ pc' = "wave"
        /\ nextReady' = Roots(dag)
    BY <1>2 DEF Load
  <2>2. \A n \in Nodes : node[n] = "idle" BY <2>1 DEF EngineInv, Chosen
  <2>3. Chosen' = Roots(dag) BY <2>1, <2>2, GraphFacts DEF Chosen
  <2>4. \A n \in Roots(dag) : Predecessors(dag, n) = {} BY DEF Roots, Predecessors
  <2>5. \A n \in nextReady' : node'[n] = "idle" BY <2>1, <2>2, GraphFacts
  <2> QED BY <2>1, <2>3, <2>4, <2>5 DEF EngineInv, Roots, Predecessors, AttemptsBounded
<1> QED BY <1>1, <1>2

LEMMA StartWaveInv == ASSUME TypeOK, EngineInv, StartWave PROVE EngineInv'
<1>1. /\ UNCHANGED <<dag, attempts, completed>> /\ nextReady' = {} /\ pc' = "collect"
      /\ node' = [n \in Nodes |-> IF n \in nextReady THEN "submitted" ELSE node[n]]
  BY DEF StartWave
<1>2. Chosen' = Chosen BY <1>1 DEF Chosen
<1>3. \A n \in Nodes : node'[n] \in {"idle", "submitted"} => attempts'[n] = 0
  BY <1>1 DEF EngineInv
<1>4. \A n \in Nodes : completed'[n] # "none" => node'[n] = completed'[n]
  BY <1>1 DEF EngineInv, TypeOK
<1>5. AttemptsBounded' BY <1>1 DEF EngineInv, AttemptsBounded
<1>6. \A n \in Chosen' : Predecessors(dag, n)' \subseteq Completed'
  BY <1>1, <1>2 DEF EngineInv, Predecessors, Completed
<1>7. \A n \in Chosen' \ Roots(dag)' : Fired(n)'
  BY <1>1, <1>2 DEF EngineInv, Roots, Fired
<1> QED BY <1>1, <1>3, <1>4, <1>5, <1>6, <1>7 DEF EngineInv

LEMMA UnchangedInv ==
  ASSUME EngineInv, UNCHANGED <<dag, node, attempts, completed, nextReady>>,
         pc' = "load" => pc = "load"
  PROVE  EngineInv'
<1>1. Chosen' = Chosen /\ Completed' = Completed BY DEF Chosen, Completed
<1>2. \A n \in Chosen' \ Roots(dag)' : Fired(n)' BY <1>1 DEF EngineInv, Roots, Fired
<1>3. \A n \in Chosen' : Predecessors(dag, n)' \subseteq Completed'
  BY <1>1 DEF EngineInv, Predecessors
<1>4. AttemptsBounded' BY DEF EngineInv, AttemptsBounded
<1>5. pc' = "load" => Chosen' = {} BY <1>1 DEF EngineInv
<1>6. /\ \A n \in nextReady' : node'[n] = "idle"
      /\ \A n \in Nodes : node'[n] \in {"idle", "submitted"} => attempts'[n] = 0
      /\ \A n \in Nodes : completed'[n] # "none" => node'[n] = completed'[n]
  BY DEF EngineInv
<1> QED BY <1>2, <1>3, <1>4, <1>5, <1>6 DEF EngineInv

LEMMA StepInv == ASSUME TypeOK, EngineInv, [Next]_vars PROVE EngineInv'
<1>1. CASE Load BY <1>1, LoadInv
<1>2. CASE StartWave BY <1>2, StartWaveInv
<1>3. CASE PoolEnds \/ Finish
  BY <1>3, UnchangedInv DEF PoolEnds, Finish, waveVars
<1>4. ASSUME NEW n \in Nodes, Collect(n) PROVE EngineInv' BY <1>4, CollectInv
<1>5. ASSUME NEW n \in Nodes, CollectRaises(n) PROVE EngineInv'
  BY <1>5, UnchangedInv DEF CollectRaises, waveVars
<1>6. ASSUME NEW n \in Nodes, StartNode(n) PROVE EngineInv'
  <2>1. attempts[n] = 0 /\ Retry[n] \in Nat
    BY <1>6, RetryAssumption DEF StartNode, EngineInv
  <2>2. attempts' = [attempts EXCEPT ![n] = 1] BY <1>6, <2>1 DEF StartNode, TypeOK
  <2>3. /\ node[n] = "submitted" /\ node' = [node EXCEPT ![n] = "running"]
        /\ UNCHANGED <<dag, pc, completed, nextReady>>
    BY <1>6 DEF StartNode
  <2>4. 1 \in Nat /\ 1 <= Retry[n] + 1 BY <2>1
  <2> QED BY <2>2, <2>3, <2>4, NodeStepInv
<1>7. ASSUME NEW n \in Nodes, CreateRaises(n) PROVE EngineInv'
  <2>1. attempts[n] \in Nat /\ attempts[n] <= Retry[n] + 1
    BY DEF TypeOK, EngineInv, AttemptsBounded
  <2>2. attempts' = [attempts EXCEPT ![n] = attempts[n]] BY <1>7 DEF CreateRaises, TypeOK
  <2> QED BY <1>7, <2>1, <2>2, NodeStepInv DEF CreateRaises
<1>8. ASSUME NEW n \in Nodes, AttemptEnds(n) PROVE EngineInv'
  BY <1>8, AttemptInv DEF AttemptEnds
<1>9. ASSUME NEW n \in Nodes, AttemptRaises(n) PROVE EngineInv'
  <2>1. CASE attempts[n] = 1 BY <1>9, <2>1, AttemptInv DEF AttemptRaises
  <2>2. CASE attempts[n] # 1
    <3>1. attempts[n] \in Nat /\ attempts[n] <= Retry[n] + 1
      BY DEF TypeOK, EngineInv, AttemptsBounded
    <3>2. attempts' = [attempts EXCEPT ![n] = attempts[n]]
      BY <1>9, <2>2 DEF AttemptRaises, TypeOK
    <3> QED BY <1>9, <2>2, <3>1, <3>2, NodeStepInv DEF AttemptRaises
  <2> QED BY <2>1, <2>2
<1>10. CASE CancelParent \/ DeleteWorkflow
  BY <1>10, UnchangedInv DEF CancelParent, DeleteWorkflow, waveVars
<1>11. CASE OwnRaises BY <1>11, UnchangedInv DEF OwnRaises
<1>12. CASE UNCHANGED vars BY <1>12, UnchangedInv DEF vars
<1> QED
  BY <1>1, <1>2, <1>3, <1>4, <1>5, <1>6, <1>7, <1>8, <1>9, <1>10, <1>11, <1>12
  DEF Next, EngineStep, Over

(* The inductive invariant of the waves holds in every reachable state.      *)
THEOREM EngineInvariant == Spec => [](TypeOK /\ EngineInv)
<1>1. Init => TypeOK /\ EngineInv BY InitType, InitInv
<1>2. TypeOK /\ EngineInv /\ [Next]_vars => (TypeOK /\ EngineInv)' BY StepType, StepInv
<1> QED BY <1>1, <1>2, PTL DEF Spec

(* A node that has started was chosen. *)
LEMMA StartedIsChosen == ASSUME TypeOK, EngineInv PROVE Started \subseteq Chosen
<1> SUFFICES ASSUME NEW n \in Started PROVE n \in Chosen
  OBVIOUS
<1>1. n \in Nodes /\ attempts[n] # 0 BY DEF Started
<1> QED BY <1>1 DEF EngineInv, Chosen

(* However many predecessors release a node, and in whatever order they    *)
(* complete, it is executed once, with at most its number of retries.      *)
THEOREM NodesRunOnce == Spec => []AttemptsBounded
<1>1. EngineInv => AttemptsBounded BY DEF EngineInv
<1> QED BY <1>1, EngineInvariant, PTL

(* A join waits for all of its predecessors, in every graph.               *)
THEOREM JoinsWait == Spec => []JoinAll
<1>1. TypeOK /\ EngineInv => JoinAll BY StartedIsChosen DEF EngineInv, JoinAll
<1> QED BY <1>1, EngineInvariant, PTL

(* Every node that runs is a root or was fired by an edge whose condition  *)
(* its source's outcome met.                                               *)
THEOREM NodesAreFired == Spec => []FiredByEdge
<1>1. TypeOK /\ EngineInv => FiredByEdge BY StartedIsChosen DEF EngineInv, FiredByEdge
<1> QED BY <1>1, EngineInvariant, PTL

-----------------------------------------------------------------------------
(* What becomes of every node, and the final status *)

LEMMA InitOutcome == ASSUME Init PROVE OutcomeInv
<1>1. \A n \in Nodes : node[n] = "idle" /\ completed[n] = "none" BY DEF Init
<1>2. WaveInv BY <1>1 DEF Init, WaveInv, Settled
<1>3. DueInv BY DEF Init, DueInv
<1>4. FailureInv BY <1>1 DEF Init, FailureInv
<1> QED BY <1>2, <1>3, <1>4 DEF OutcomeInv

(* A node that a thread of the pool has taken up is not settled: the wave   *)
(* is still being collected.                                                *)
LEMMA ThreadMovesNode ==
  ASSUME TypeOK, EngineInv, OutcomeInv, NEW n \in Nodes, node[n] \in {"submitted", "running"},
         NEW s \in {"running", "raised"} \cup Outcome, node' = [node EXCEPT ![n] = s],
         UNCHANGED <<dag, parent, pc, wave, completed, nextReady, hadFailure>>
  PROVE  OutcomeInv'
<1>1. completed[n] = "none" BY DEF EngineInv, TypeOK
<1>2. pc \notin {"load", "wave", "done"}
  BY <1>1 DEF OutcomeInv, WaveInv, Settled
<1>3. /\ node'[n] # "idle"
      /\ \A m \in Nodes : m # n => node'[m] = node[m]
  BY DEF TypeOK
<1>4. WaveInv' BY <1>2, <1>3 DEF OutcomeInv, WaveInv
<1>5. Chosen' = Chosen BY <1>3 DEF Chosen
<1>6. DueInv' BY <1>5 DEF OutcomeInv, DueInv, Due
<1>7. FailureInv' BY <1>2 DEF OutcomeInv, FailureInv
<1> QED BY <1>4, <1>6, <1>7 DEF OutcomeInv

LEMMA AttemptOutcome ==
  ASSUME TypeOK, EngineInv, OutcomeInv, NEW n \in Nodes, NEW result \in Outcome,
         Attempt(n, result),
         UNCHANGED <<dag, parent, pc, wave, completed, nextReady, hadFailure>>
  PROVE  OutcomeInv'
<1>1. node[n] = "running" BY DEF Attempt
<1>2. CASE node' = [node EXCEPT ![n] = result] BY <1>1, <1>2, ThreadMovesNode
<1>3. CASE node' = node
  <2>1. node' = [node EXCEPT ![n] = "running"] BY <1>1, <1>3 DEF TypeOK
  <2> QED BY <1>1, <2>1, ThreadMovesNode
<1> QED BY <1>2, <1>3 DEF Attempt

(* The last predecessor that is collected releases the node it makes due.  *)
LEMMA DueIsReleased ==
  ASSUME TypeOK, EngineInv, NEW n \in Nodes, Collect(n),
         NEW m \in dag.nodes, Due(m)', ~Due(m)
  PROVE  m \in Chosen'
<1> DEFINE done == Completed \cup {n}
<1>1. /\ completed[n] = "none" /\ node[n] \in Outcome
      /\ completed' = [completed EXCEPT ![n] = node[n]]
      /\ nextReady' = nextReady \cup Released(n, node[n], done)
      /\ UNCHANGED <<dag, node>>
  BY DEF Collect
<1>2. \A k \in Nodes : completed'[k] = IF k = n THEN node[n] ELSE completed[k]
  BY <1>1 DEF TypeOK
<1>3. \A e \in dag.edges : e.from \in Nodes BY GraphFacts DEF EdgesOver
<1>4. \A e \in dag.edges :
        e.to = m => completed'[e.from] # "none" /\ Admits(e, completed'[e.from])
  BY <1>1 DEF Due
<1>5. PICK d \in dag.edges :
        d.to = m /\ ~(completed[d.from] # "none" /\ Admits(d, completed[d.from]))
  BY DEF Due
<1>6. d.from = n BY <1>2, <1>3, <1>4, <1>5
<1>7. Admits(d, node[n])
  <2>1. Admits(d, completed'[d.from]) BY <1>4, <1>5
  <2>2. completed'[d.from] = node[n] BY <1>2, <1>6
  <2> QED BY <2>1, <2>2
<1>8. m \in Successors(dag, n, node[n]) BY <1>5, <1>6, <1>7 DEF Successors
<1>9. Predecessors(dag, m) \subseteq done
  BY <1>2, <1>3, <1>4 DEF Predecessors, Completed
<1>10. m \in Nodes BY GraphFacts
<1>11. CASE m \in done
  <2>1. node[m] # "idle" BY <1>1, <1>11 DEF Completed, EngineInv, TypeOK
  <2> QED BY <1>1, <1>10, <2>1 DEF Chosen
<1>12. CASE m \notin done
  <2>1. m \in Released(n, node[n], done) BY <1>8, <1>9, <1>12 DEF Released
  <2> QED BY <1>1, <1>10, <2>1 DEF Chosen
<1> QED BY <1>11, <1>12

LEMMA CollectOutcome ==
  ASSUME TypeOK, EngineInv, OutcomeInv, NEW n \in Nodes, Collect(n)
  PROVE  OutcomeInv'
<1>1. /\ pc = "collect" /\ n \in wave /\ completed[n] = "none" /\ node[n] \in Outcome
      /\ completed' = [completed EXCEPT ![n] = node[n]]
      /\ nextReady \subseteq nextReady'
      /\ UNCHANGED <<dag, pc, wave, node>>
  BY DEF Collect
<1>2. /\ completed'[n] = node[n]
      /\ \A m \in Nodes : m # n => completed'[m] = completed[m]
  BY <1>1 DEF TypeOK
<1>3. WaveInv' BY <1>1, <1>2 DEF OutcomeInv, WaveInv
<1>4. \A m \in dag.nodes : Due(m)' => m \in Chosen'
  <2> SUFFICES ASSUME NEW m \in dag.nodes, Due(m)' PROVE m \in Chosen'
    OBVIOUS
  <2>1. CASE Due(m)
    <3>1. m \in Chosen BY <1>1, <2>1 DEF OutcomeInv, DueInv
    <3> QED BY <1>1, <3>1 DEF Chosen
  <2>2. CASE ~Due(m) BY <2>2, DueIsReleased
  <2> QED BY <2>1, <2>2
<1>5. DueInv' BY <1>1, <1>4 DEF DueInv
<1>6. FailureInv'
  <2>1. hadFailure' <=> hadFailure \/ node[n] = "failure" BY DEF Collect
  <2>2. hadFailure <=> \E m \in Nodes : completed[m] = "failure" BY DEF OutcomeInv, FailureInv
  <2>3. (\E m \in Nodes : completed'[m] = "failure")
        <=> (\E m \in Nodes : completed[m] = "failure") \/ node[n] = "failure"
    BY <1>1, <1>2
  <2> QED BY <1>1, <2>1, <2>2, <2>3 DEF FailureInv
<1> QED BY <1>3, <1>5, <1>6 DEF OutcomeInv

(* Before a node has completed, only the roots are due. *)
LEMMA LoadOutcome == ASSUME TypeOK, EngineInv, OutcomeInv, Load PROVE OutcomeInv'
<1>1. UNCHANGED <<dag, wave, node, completed, hadFailure>> /\ pc = "load" BY DEF Load
<1>2. \A n \in Nodes : node[n] = "idle" BY <1>1 DEF EngineInv, Chosen
<1>3. \A n \in Nodes : completed[n] = "none" BY <1>2 DEF EngineInv, TypeOK
<1>4. FailureInv'
  <2>1. pc' # "done" BY DEF Load
  <2> QED BY <1>1, <2>1 DEF OutcomeInv, FailureInv
<1>5. CASE deleted
  <2>1. pc' = "dead" BY <1>5 DEF Load
  <2> QED BY <1>4, <2>1 DEF OutcomeInv, WaveInv, DueInv
<1>6. CASE ~deleted
  <2>1. pc' = "wave" /\ nextReady' = Roots(dag) BY <1>6 DEF Load
  <2>2. WaveInv' BY <1>1, <1>2, <1>3, <2>1 DEF WaveInv, Settled
  <2>3. \A n \in dag.nodes : Due(n)' => n \in Roots(dag)
    <3>1. \A e \in dag.edges : e.from \in Nodes BY GraphFacts DEF EdgesOver
    <3> QED BY <1>1, <1>3, <3>1 DEF Due, Roots
  <2>4. DueInv' BY <1>1, <2>1, <2>3, GraphFacts DEF DueInv, Chosen
  <2> QED BY <1>4, <2>2, <2>4 DEF OutcomeInv
<1> QED BY <1>5, <1>6

LEMMA StartWaveOutcome == ASSUME TypeOK, EngineInv, OutcomeInv, StartWave PROVE OutcomeInv'
<1>1. /\ UNCHANGED <<dag, parent, completed, hadFailure>> /\ pc = "wave"
      /\ wave' = nextReady /\ nextReady' = {} /\ pc' = "collect"
      /\ node' = [n \in Nodes |-> IF n \in nextReady THEN "submitted" ELSE node[n]]
  BY DEF StartWave
<1>2. Settled BY <1>1 DEF OutcomeInv, WaveInv
<1>3. WaveInv' BY <1>1, <1>2 DEF WaveInv, Settled
<1>4. Chosen' = Chosen BY <1>1 DEF Chosen
<1>5. DueInv' BY <1>1, <1>4 DEF OutcomeInv, DueInv, Due
<1>6. FailureInv' BY <1>1 DEF OutcomeInv, FailureInv
<1> QED BY <1>3, <1>5, <1>6 DEF OutcomeInv

(* The threads of a pool that has ended without an exception have left      *)
(* every node of the wave completed.                                        *)
LEMMA PoolEndsOutcome == ASSUME TypeOK, EngineInv, OutcomeInv, PoolEnds PROVE OutcomeInv'
<1>1. UNCHANGED <<dag, parent, wave, node, completed, nextReady, hadFailure>>
  BY DEF PoolEnds, waveVars
<1>2. FailureInv' BY <1>1 DEF OutcomeInv, FailureInv, PoolEnds
<1>3. CASE pc = "collect" /\ wave \subseteq Completed /\ pc' = "wave"
  <2>1. \A n \in Nodes : node[n] # "idle" => completed[n] # "none"
    BY <1>3 DEF OutcomeInv, WaveInv, Completed
  <2>2. Settled' BY <1>1, <2>1 DEF Settled, EngineInv
  <2>3. WaveInv' BY <1>3, <2>2 DEF WaveInv
  <2>4. DueInv' BY <1>1, <1>3 DEF OutcomeInv, DueInv, Due, Chosen
  <2> QED BY <1>2, <2>3, <2>4 DEF OutcomeInv
<1>4. CASE pc' = "dead"
  <2>1. WaveInv' /\ DueInv' BY <1>4 DEF WaveInv, DueInv
  <2> QED BY <1>2, <2>1 DEF OutcomeInv
<1> QED BY <1>3, <1>4 DEF PoolEnds

LEMMA FinishOutcome == ASSUME TypeOK, EngineInv, OutcomeInv, Finish PROVE OutcomeInv'
<1>1. /\ UNCHANGED <<dag, wave, node, completed, nextReady, hadFailure>>
      /\ pc = "wave" /\ pc' = "done" /\ nextReady = {}
      /\ parent' = IF hadFailure THEN "failed" ELSE "success"
  BY DEF Finish, waveVars
<1>2. WaveInv' BY <1>1 DEF OutcomeInv, WaveInv, Settled
<1>3. DueInv' BY <1>1 DEF OutcomeInv, DueInv, Due, Chosen
<1>4. FailureInv' BY <1>1 DEF OutcomeInv, FailureInv
<1> QED BY <1>2, <1>3, <1>4 DEF OutcomeInv

(* A step that leaves the nodes alone, and the status too unless it cancels; *)
(* it may end the thread of the workflow with an exception.                  *)
LEMMA OtherOutcome ==
  ASSUME OutcomeInv, UNCHANGED <<dag, wave, node, completed, nextReady, hadFailure>>,
         pc' = pc \/ pc' \in {"raise", "dead"}, parent' = parent \/ parent' = "cancelled"
  PROVE  OutcomeInv'
<1>1. WaveInv' BY DEF OutcomeInv, WaveInv, Settled
<1>2. DueInv' BY DEF OutcomeInv, DueInv, Due, Chosen
<1>3. FailureInv' BY DEF OutcomeInv, FailureInv
<1> QED BY <1>1, <1>2, <1>3 DEF OutcomeInv

LEMMA StepOutcome ==
  ASSUME TypeOK, EngineInv, OutcomeInv, [Next]_vars
  PROVE  OutcomeInv'
<1>1. CASE Load BY <1>1, LoadOutcome
<1>2. CASE StartWave BY <1>2, StartWaveOutcome
<1>3. CASE PoolEnds BY <1>3, PoolEndsOutcome
<1>4. CASE Finish BY <1>4, FinishOutcome
<1>5. ASSUME NEW n \in Nodes, Collect(n) PROVE OutcomeInv' BY <1>5, CollectOutcome
<1>6. ASSUME NEW n \in Nodes, CollectRaises(n) PROVE OutcomeInv'
  BY <1>6, OtherOutcome DEF CollectRaises, waveVars
<1>7. ASSUME NEW n \in Nodes, StartNode(n) PROVE OutcomeInv'
  BY <1>7, ThreadMovesNode DEF StartNode
<1>8. ASSUME NEW n \in Nodes, CreateRaises(n) PROVE OutcomeInv'
  BY <1>8, ThreadMovesNode DEF CreateRaises
<1>9. ASSUME NEW n \in Nodes, AttemptEnds(n) PROVE OutcomeInv'
  BY <1>9, AttemptOutcome DEF AttemptEnds
<1>10. ASSUME NEW n \in Nodes, AttemptRaises(n) PROVE OutcomeInv'
  <2>1. CASE attempts[n] = 1 BY <1>10, <2>1, AttemptOutcome DEF AttemptRaises
  <2>2. CASE attempts[n] # 1 BY <1>10, <2>2, ThreadMovesNode DEF AttemptRaises
  <2> QED BY <2>1, <2>2
<1>11. CASE CancelParent BY <1>11, OtherOutcome DEF CancelParent, waveVars
<1>12. CASE DeleteWorkflow BY <1>12, OtherOutcome DEF DeleteWorkflow, waveVars
<1>13. CASE OwnRaises BY <1>13, OtherOutcome DEF OwnRaises
<1>14. CASE UNCHANGED vars BY <1>14, OtherOutcome DEF vars
<1> QED
  BY <1>1, <1>2, <1>3, <1>4, <1>5, <1>6, <1>7, <1>8, <1>9, <1>10, <1>11, <1>12, <1>13, <1>14
  DEF Next, EngineStep, Over

(* What is settled after a node, which nodes are due and which failures are *)
(* counted: the invariant behind the next two theorems.                      *)
THEOREM OutcomeInvariant == Spec => []OutcomeInv
<1>1. Init => OutcomeInv BY InitOutcome
<1>2. TypeOK /\ EngineInv /\ OutcomeInv /\ [Next]_vars => OutcomeInv' BY StepOutcome
<1> QED BY <1>1, <1>2, EngineInvariant, PTL DEF Spec

(* In every graph, whatever the order in which its nodes complete: when the *)
(* workflow is done, each node that the outcomes of its predecessors made   *)
(* due has run to its end.                                                  *)
THEOREM EveryDueNodeRan == Spec => []NoNodeForgotten
<1>1. TypeOK /\ OutcomeInv => NoNodeForgotten
  <2> SUFFICES ASSUME TypeOK, OutcomeInv, pc = "done", NEW n \in dag.nodes, Due(n)
               PROVE  completed[n] # "none"
    BY DEF NoNodeForgotten
  <2>1. n \in Chosen BY DEF OutcomeInv, DueInv
  <2>2. node[n] # "idle" BY <2>1 DEF Chosen, OutcomeInv, WaveInv
  <2>3. n \in Nodes BY GraphFacts
  <2> QED BY <2>2, <2>3 DEF OutcomeInv, WaveInv, Settled
<1> QED BY <1>1, EngineInvariant, OutcomeInvariant, PTL

(* A workflow ends as a success if and only if none of its nodes ended as a *)
(* failure, unless it was cancelled, and no thread is left behind.          *)
THEOREM FinalStatusIsFaithful == Spec => []StatusFaithful
<1>1. OutcomeInv => StatusFaithful
  BY DEF OutcomeInv, WaveInv, FailureInv, Settled, StatusFaithful
<1> QED BY <1>1, OutcomeInvariant, PTL
=============================================================================
