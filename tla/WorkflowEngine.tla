--------------------------- MODULE WorkflowEngine ---------------------------
(***************************************************************************)
(* One execution of a workflow by execute_workflow: the parent run, the    *)
(* waves of _run_dag with the thread pool of each wave, the attempts of    *)
(* _run_node, and the cancel of the parent run.  execute_script is         *)
(* abstracted to its result: it returns zero or not, or raises (the script *)
(* was deleted, or its first or last transaction failed).  The workflow's  *)
(* own transactions may fail too, as on a locked database.                 *)
(*                                                                         *)
(* A definition named A_Slip is the definition A that follows it with a    *)
(* plausible slip in the code; no action uses it.                          *)
(***************************************************************************)
EXTENDS Dag, Naturals, FiniteSets

CONSTANTS Nodes,        \* node ids that graphs use
          Dags,         \* the graphs a workflow may hold
          Retry,        \* the retry count of each node
          WavePool,     \* threads of a wave's pool at most: 8 in the code
          MaxRaises     \* bound on the exceptions of transactions and attempts

ASSUME DagsAssumption == \A g \in Dags : IsDag(g, Nodes)
ASSUME RetryAssumption == Retry \in [Nodes -> Nat]
ASSUME PoolAssumption == WavePool \in Nat \ {0}
ASSUME RaisesAssumption == MaxRaises \in Nat

VARIABLES
  dag,        \* the graph, read once when the execution starts
  parent,     \* status of the parent run
  cancel,     \* the handler of a request to cancel the parent run
  pc,         \* where the thread that executes the workflow is
  wave,       \* the nodes submitted to the pool of this wave
  node,       \* where _run_node of each node is
  attempts,   \* the runs created for each node
  completed,  \* outcome of each node whose future was collected
  nextReady,  \* nodes for the next wave
  hadFailure,
  deleted,    \* the workflow's row was deleted
  raises      \* exceptions that may still happen

vars == <<dag, parent, cancel, pc, wave, node, attempts, completed, nextReady, hadFailure, deleted, raises>>
waveVars == <<wave, node, attempts, completed, nextReady, hadFailure, raises>>

Terminal  == {"success", "failed", "cancelled"}
Completed == {n \in Nodes : completed[n] # "none"}
Running   == {n \in Nodes : node[n] = "running"}

Init ==
  /\ dag \in Dags
  /\ parent = "queued"
  /\ cancel = "idle"
  /\ pc = "load"
  /\ wave = {}
  /\ node = [n \in Nodes |-> "idle"]
  /\ attempts = [n \in Nodes |-> 0]
  /\ completed = [n \in Nodes |-> "none"]
  /\ nextReady = {}
  /\ hadFailure = FALSE
  /\ deleted = FALSE
  /\ raises = MaxRaises

(* Marks the parent RUNNING, whatever its status was; raises when the      *)
(* workflow is gone.                                                       *)
Load ==
  /\ pc = "load"
  /\ IF deleted THEN pc' = "dead" /\ UNCHANGED <<parent, nextReady>>
     ELSE pc' = "wave" /\ parent' = "running" /\ nextReady' = Roots(dag)
  /\ UNCHANGED <<dag, cancel, wave, node, attempts, completed, hadFailure, deleted, raises>>

StartWave_ResetsFailure ==
  /\ pc = "wave" /\ nextReady # {}
  /\ wave' = nextReady
  /\ node' = [n \in Nodes |-> IF n \in nextReady THEN "submitted" ELSE node[n]]
  /\ nextReady' = {}
  /\ hadFailure' = FALSE
  /\ pc' = "collect"
  /\ UNCHANGED <<dag, parent, cancel, attempts, completed, deleted, raises>>

(* The pool of the wave before has ended; the next set is submitted. *)
StartWave ==
  /\ pc = "wave" /\ nextReady # {}
  /\ wave' = nextReady
  /\ node' = [n \in Nodes |-> IF n \in nextReady THEN "submitted" ELSE node[n]]
  /\ nextReady' = {}
  /\ pc' = "collect"
  /\ UNCHANGED <<dag, cancel, parent, attempts, completed, hadFailure, deleted, raises>>

-----------------------------------------------------------------------------
(* _run_node in a thread of the pool *)

(* A thread takes a submitted node and creates the run of its first attempt. *)
StartNode(n) ==
  /\ node[n] = "submitted"
  /\ Cardinality(Running) < (IF Cardinality(wave) < WavePool THEN Cardinality(wave) ELSE WavePool)
  /\ node' = [node EXCEPT ![n] = "running"]
  /\ attempts' = [attempts EXCEPT ![n] = @ + 1]
  /\ UNCHANGED <<dag, cancel, parent, pc, wave, completed, nextReady, hadFailure, deleted, raises>>

Attempt_OneMore(n, result) ==
  /\ node[n] = "running"
  /\ IF result = "success" \/ attempts[n] > Retry[n] + 1
     THEN node' = [node EXCEPT ![n] = result] /\ UNCHANGED attempts
     ELSE attempts' = [attempts EXCEPT ![n] = @ + 1] /\ UNCHANGED node

(* An attempt ends with an exit code: another run is created while there   *)
(* are retries left, or the node ends with the outcome of its last run.    *)
Attempt(n, result) ==
  /\ node[n] = "running"
  /\ IF result = "success" \/ attempts[n] > Retry[n]
     THEN node' = [node EXCEPT ![n] = result] /\ UNCHANGED attempts
     ELSE attempts' = [attempts EXCEPT ![n] = @ + 1] /\ UNCHANGED node

(* Creating the first run of the node fails, which nothing catches. *)
CreateRaises(n) ==
  /\ raises > 0 /\ node[n] = "submitted"
  /\ raises' = raises - 1
  /\ node' = [node EXCEPT ![n] = "raised"]
  /\ UNCHANGED <<dag, cancel, parent, pc, wave, attempts, completed, nextReady, hadFailure, deleted>>

AttemptEnds(n) ==
  /\ \E result \in Outcome : Attempt(n, result)
  /\ UNCHANGED <<dag, cancel, parent, pc, wave, completed, nextReady, hadFailure, deleted, raises>>

(* An exception of the first attempt counts as a failure; one of a retry   *)
(* leaves _run_node.                                                       *)
AttemptRaises(n) ==
  /\ raises > 0
  /\ raises' = raises - 1
  /\ IF attempts[n] = 1 THEN Attempt(n, "failure")
     ELSE /\ node[n] = "running"
          /\ node' = [node EXCEPT ![n] = "raised"]
          /\ UNCHANGED attempts
  /\ UNCHANGED <<dag, cancel, parent, pc, wave, completed, nextReady, hadFailure, deleted>>

-----------------------------------------------------------------------------
(* The loop over as_completed, and what follows it *)

(* The nodes that are released when node n completes with this outcome, *)
(* given the set of nodes completed so far, n included.                 *)
Released_OfThisNode(n, outcome, done) == Successors(dag, n, outcome) \ done

Released_Earlier(n, outcome, done) ==
  {m \in Successors(dag, n, outcome) \ done : Predecessors(dag, m) \subseteq done \ {n}}

Released(n, outcome, done) ==
  {m \in Successors(dag, n, outcome) \ done : Predecessors(dag, m) \subseteq done}

Collect(n) ==
  /\ pc = "collect" /\ n \in wave /\ completed[n] = "none" /\ node[n] \in Outcome
  /\ completed' = [completed EXCEPT ![n] = node[n]]
  /\ hadFailure' = (hadFailure \/ node[n] = "failure")
  /\ nextReady' = nextReady \cup Released(n, node[n], Completed \cup {n})
  /\ UNCHANGED <<dag, cancel, parent, pc, wave, node, attempts, deleted, raises>>

CollectRaises(n) ==
  /\ pc = "collect" /\ n \in wave /\ node[n] = "raised"
  /\ pc' = "raise"
  /\ UNCHANGED <<dag, cancel, parent, deleted>> /\ UNCHANGED waveVars

(* Leaving the with block waits for every thread of the pool. *)
PoolEnds ==
  /\ \/ pc = "collect" /\ wave \subseteq Completed /\ pc' = "wave"
     \/ pc = "raise" /\ (\A n \in wave : node[n] \in Outcome \cup {"raised"}) /\ pc' = "dead"
  /\ UNCHANGED <<dag, cancel, parent, deleted>> /\ UNCHANGED waveVars

Finish_OnlySuccess ==
  /\ pc = "wave" /\ nextReady = {}
  /\ parent' = IF hadFailure THEN parent ELSE "success"
  /\ pc' = "done"
  /\ UNCHANGED <<dag, cancel, deleted>> /\ UNCHANGED waveVars

(* No node is ready: the final status overwrites the parent's. *)
Finish ==
  /\ pc = "wave" /\ nextReady = {}
  /\ parent' = IF hadFailure THEN "failed" ELSE "success"
  /\ pc' = "done"
  /\ UNCHANGED <<dag, cancel, deleted>> /\ UNCHANGED waveVars

(* The workflow's first or last transaction fails: nothing of it is written, *)
(* and the exception ends the thread.                                        *)
OwnRaises ==
  /\ raises > 0
  /\ pc = "load" \/ (pc = "wave" /\ nextReady = {})
  /\ raises' = raises - 1
  /\ pc' = "dead"
  /\ UNCHANGED <<dag, cancel, parent, deleted>>
  /\ UNCHANGED <<wave, node, attempts, completed, nextReady, hadFailure>>

-----------------------------------------------------------------------------
(* Requests of users *)

(* The cancel handlers read the parent's status and mark it in a later     *)
(* statement; kill_run finds no process for it.                            *)
CancelParent ==
  /\ \/ /\ cancel = "idle" /\ parent \in {"queued", "running"}
        /\ cancel' = "commit"
        /\ UNCHANGED parent
     \/ /\ cancel = "commit"
        /\ cancel' = "done"
        /\ parent' = "cancelled"
  /\ UNCHANGED <<dag, pc, deleted>> /\ UNCHANGED waveVars

DeleteWorkflow ==
  /\ ~deleted
  /\ deleted' = TRUE
  /\ UNCHANGED <<dag, cancel, parent, pc>> /\ UNCHANGED waveVars

Over == pc \in {"done", "dead"} /\ UNCHANGED vars

EngineStep == \/ Load \/ StartWave \/ PoolEnds \/ Finish
              \/ \E n \in Nodes : Collect(n) \/ CollectRaises(n)

Next == \/ EngineStep
        \/ \E n \in Nodes : StartNode(n) \/ CreateRaises(n) \/ AttemptEnds(n) \/ AttemptRaises(n)
        \/ OwnRaises \/ CancelParent \/ DeleteWorkflow \/ Over

Spec == Init /\ [][Next]_vars

(* Threads are scheduled, and every attempt ends (scripts are assumed to   *)
(* end: ScriptRuns states when they do).                                   *)
Fairness == /\ WF_vars(EngineStep)
            /\ \A n \in Nodes : WF_vars(StartNode(n)) /\ WF_vars(AttemptEnds(n))

FairSpec == Spec /\ Fairness

-----------------------------------------------------------------------------
(* Invariants *)

TypeOK ==
  /\ dag \in Dags
  /\ parent \in {"queued", "running"} \cup Terminal
  /\ cancel \in {"idle", "commit", "done"}
  /\ pc \in {"load", "wave", "collect", "raise", "done", "dead"}
  /\ wave \subseteq dag.nodes
  /\ node \in [Nodes -> {"idle", "submitted", "running", "raised"} \cup Outcome]
  /\ attempts \in [Nodes -> Nat]
  /\ completed \in [Nodes -> {"none"} \cup Outcome]
  /\ nextReady \subseteq dag.nodes
  /\ hadFailure \in BOOLEAN
  /\ deleted \in BOOLEAN
  /\ raises \in 0..MaxRaises

Started == {n \in Nodes : attempts[n] > 0}

(* A node runs once with its retries and no more, although it may be       *)
(* released by several predecessors, in one wave or in several.            *)
AttemptsBounded == \A n \in Nodes : attempts[n] <= Retry[n] + 1

(* A join runs only when all of its predecessors have completed.           *)
JoinAll == \A n \in Started : Predecessors(dag, n) \subseteq Completed

(* A node other than a root runs only if an edge from a predecessor        *)
(* admitted the outcome of that predecessor.                               *)
Fired(n) ==
  \E e \in dag.edges : e.to = n /\ completed[e.from] # "none" /\ Admits(e, completed[e.from])

FiredByEdge == \A n \in Started \ Roots(dag) : Fired(n)

(* No join is forgotten, in whatever order its predecessors complete: when *)
(* the workflow is done, every node whose predecessors all completed and   *)
(* whose edges all admit their outcomes has run.                           *)
Due(n) ==
  \A e \in dag.edges : e.to = n => completed[e.from] # "none" /\ Admits(e, completed[e.from])

NoNodeForgotten == pc = "done" => \A n \in dag.nodes : Due(n) => completed[n] # "none"

(* The final status says whether a node failed, and no thread of the       *)
(* workflow is left when it is written.                                    *)
StatusFaithful ==
  pc = "done" =>
    /\ parent = "cancelled" \/ (parent = "success" <=> \A n \in Nodes : completed[n] # "failure")
    /\ \A n \in Nodes : node[n] = IF completed[n] = "none" THEN "idle" ELSE completed[n]

(* A workflow that was loaded ends with a final status, whatever its graph *)
(* is, unless an exception, of a node or of its own last transaction, ends  *)
(* its thread: then the parent stays RUNNING, and nothing but the clean-up  *)
(* of the next start of the server closes it.                               *)
WorkflowEnds ==
  (pc = "wave") ~> (parent \in Terminal \/ (pc = "dead" /\ raises < MaxRaises))

(* The inductive invariant behind AttemptsBounded, JoinAll and FiredByEdge. *)
(* A node has been released if it is ready or was submitted: then all its   *)
(* predecessors have completed, so that no later completion releases it     *)
(* again, and it was fired by an edge unless it is a root.                  *)
Chosen == {n \in Nodes : n \in nextReady \/ node[n] # "idle"}

EngineInv ==
  /\ pc = "load" => Chosen = {}
  /\ \A n \in nextReady : node[n] = "idle"
  /\ \A n \in Nodes : node[n] \in {"idle", "submitted"} => attempts[n] = 0
  /\ \A n \in Nodes : completed[n] # "none" => node[n] = completed[n]
  /\ \A n \in Chosen : Predecessors(dag, n) \subseteq Completed
  /\ \A n \in Chosen \ Roots(dag) : Fired(n)
  /\ AttemptsBounded

(* The inductive invariant behind NoNodeForgotten and StatusFaithful, on   *)
(* top of EngineInv: between two waves, and when the workflow is done, a    *)
(* node is idle or its outcome was collected; while the futures of a wave   *)
(* are collected, the nodes that are neither belong to the wave.            *)
Settled == \A n \in Nodes : node[n] = IF completed[n] = "none" THEN "idle" ELSE completed[n]

WaveInv ==
  /\ pc \in {"load", "wave", "done"} => Settled
  /\ pc = "collect" => \A n \in Nodes \ wave : node[n] # "idle" => completed[n] # "none"
  /\ pc = "done" => nextReady = {}

(* A node is due as soon as the last of its predecessors is collected, and  *)
(* it is chosen in that same step.                                          *)
DueInv == pc \in {"wave", "collect", "done"} => \A n \in dag.nodes : Due(n) => n \in Chosen

FailureInv ==
  /\ hadFailure <=> \E n \in Nodes : completed[n] = "failure"
  /\ pc = "done" => parent = "cancelled" \/ parent = (IF hadFailure THEN "failed" ELSE "success")

OutcomeInv == WaveInv /\ DueInv /\ FailureInv
=============================================================================
