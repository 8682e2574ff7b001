-------------------------- MODULE ScriptRunsProofs --------------------------
(***************************************************************************)
(* Proofs about ScriptRuns, for any sets of runs and requests and any      *)
(* bounds on the environment: type correctness, and the safety of the      *)
(* process registry, of the processes and of the recorded outcomes.        *)
(***************************************************************************)
EXTENDS ScriptRuns, TLAPS

LEMMA InitTypeOK == Init => TypeOK
<1> SUFFICES ASSUME Init PROVE TypeOK OBVIOUS
<1>1. row \in [Runs -> Row] BY DEF Init, Row, ExitCode
<1>2. proc \in [Runs -> Proc] BY DEF Init, Proc, ExitCode
<1>3. cancel \in [CancelReqs -> [pc: CancelPc, run: Runs, stamp: BOOLEAN]]
  <2>1. \A r \in Runs : [pc |-> "idle", run |-> r, stamp |-> FALSE]
                           \in [pc: CancelPc, run: Runs, stamp: BOOLEAN]
    BY DEF CancelPc
  <2>2. {[pc |-> "idle", run |-> r, stamp |-> FALSE] : r \in Runs}
          \subseteq [pc: CancelPc, run: Runs, stamp: BOOLEAN]
    BY <2>1
  <2>3. QED BY <2>2 DEF Init
<1>4. budget \in [crashes: Nat, dbFaults: Nat, cliCancels: Nat, deletes: Nat]
  BY BoundsAssumption DEF Init, BoundsAssumption
<1>5. server \in Server
  BY DEF Init, Server
<1>6. QED BY <1>1, <1>2, <1>3, <1>4, <1>5 DEF Init, TypeOK, WorkerPc

(* What the writes to a row, and to a process, keep. *)
LEMMA GotoType ==
  ASSUME worker \in [Runs -> WorkerPc], NEW r \in Runs, NEW pc \in WorkerPc, Goto(r, pc)
  PROVE  worker' \in [Runs -> WorkerPc]
  BY DEF Goto

LEMMA RowType ==
  ASSUME row \in [Runs -> Row], NEW r \in Runs, NEW s \in Status,
         NEW f \in BOOLEAN, NEW e \in ExitCode
  PROVE  /\ [row EXCEPT ![r].status = s] \in [Runs -> Row]
         /\ [row EXCEPT ![r] = [@ EXCEPT !.status = s, !.started = f]] \in [Runs -> Row]
         /\ [row EXCEPT ![r] = [@ EXCEPT !.status = s, !.finished = f]] \in [Runs -> Row]
         /\ [row EXCEPT ![r] = [@ EXCEPT !.status = s, !.finished = f, !.exit = e]] \in [Runs -> Row]
         /\ [row EXCEPT ![r].script = f] \in [Runs -> Row]
  BY DEF Row

LEMMA ProcType ==
  ASSUME proc \in [Runs -> Proc], NEW r \in Runs, NEW c \in ExitCode,
         NEW s \in {"none", "running", "signalled", "exited"}
  PROVE  /\ [proc EXCEPT ![r].state = s] \in [Runs -> Proc]
         /\ [proc EXCEPT ![r] = [state |-> s, code |-> c]] \in [Runs -> Proc]
         /\ Killed(r) \in [Runs -> Proc]
         /\ proc[r].code \in ExitCode
  BY DEF Proc, Killed, ExitCode

(* A step of a thread keeps the types. *)
LEMMA WorkerTypeOK ==
  ASSUME TypeOK, NEW r \in Runs, WorkerStep(r) PROVE TypeOK'
<1>1. TypeOK /\ UNCHANGED <<trigger, queue, cancel, server, budget>>
  BY DEF WorkerStep, Load, Spawn, Register, Wait, KillTimedOut, Unregister, CheckCancelled,
         FinishRun, Notify, Publish
<1>2. /\ row \in [Runs -> Row] /\ worker \in [Runs -> WorkerPc] /\ proc \in [Runs -> Proc]
      /\ row[r].status \in {"absent"} \cup Status
  BY DEF TypeOK, Row
<1>3. row' \in [Runs -> Row]
  <2>1. CASE Load(r)
    <3>1. "running" \in Status /\ "null" \in ExitCode
      BY DEF Status, ExitCode
    <3>2. [row EXCEPT ![r] = [@ EXCEPT !.status = "running", !.started = TRUE]] \in [Runs -> Row]
      BY <1>2, <3>1, RowType
    <3>3. QED BY <2>1, <3>2, <1>2 DEF Load
  <2>2. CASE FinishRun(r)
    <3>1. proc[r].code \in ExitCode
      BY <1>2 DEF Proc
    <3>2. /\ {"timed_out", "cancelled", "success", "failed"} \subseteq Status
          /\ {"nonzero", proc[r].code} \subseteq ExitCode
          /\ {"alertReturn", "alertPublish"} \subseteq WorkerPc
      BY <3>1 DEF Status, Terminal, ExitCode, WorkerPc, Executing
    <3>3. PICK s \in Status, e \in ExitCode, pc \in WorkerPc : Finish(r, s, e, pc)
      BY <2>2, <3>2 DEF FinishRun
    <3>4. [row EXCEPT ![r] = [@ EXCEPT !.status = s, !.finished = TRUE, !.exit = e]] \in [Runs -> Row]
      BY <1>2, RowType
    <3>5. QED BY <3>3, <3>4 DEF Finish
  <2>3. CASE UNCHANGED row
    BY <2>3, <1>2
  <2>4. QED BY <2>1, <2>2, <2>3 DEF WorkerStep, Spawn, Register, Wait, KillTimedOut, Unregister,
                                   CheckCancelled, Notify, Publish
<1>4. worker' \in [Runs -> WorkerPc]
  <2>1. PICK pc \in WorkerPc : Goto(r, pc)
    BY DEF WorkerStep, Load, Spawn, Register, Wait, KillTimedOut, Unregister, CheckCancelled,
           FinishRun, Finish, Notify, Publish, WorkerPc, Executing, Registered, Ended
  <2>2. QED BY <2>1, <1>2, GotoType
<1>5. proc' \in [Runs -> Proc]
  <2>1. CASE Spawn(r)
    <3>1. [proc EXCEPT ![r].state = "running"] \in [Runs -> Proc]
      BY <1>2 DEF Proc
    <3>2. QED BY <2>1, <3>1, <1>2 DEF Spawn
  <2>2. CASE KillTimedOut(r)
    <3>1. Killed(r) \in [Runs -> Proc]
      BY <1>2, ProcType DEF ExitCode
    <3>2. QED BY <2>2, <3>1 DEF KillTimedOut
  <2>3. CASE UNCHANGED proc
    BY <2>3, <1>2
  <2>4. QED BY <2>1, <2>2, <2>3 DEF WorkerStep, Load, Register, Wait, Unregister,
                                   CheckCancelled, FinishRun, Notify, Publish
<1>6. live' \subseteq Runs
  BY DEF TypeOK, WorkerStep, Load, Spawn, Register, Wait, KillTimedOut, Unregister,
         CheckCancelled, FinishRun, Notify, Publish
<1>7. alerts' \subseteq Runs \X ReportedAs /\ signalled' \subseteq Runs
  <2>1. CASE Notify(r) BY <2>1, <1>2 DEF Notify, ReportedAs, TypeOK
  <2>2. CASE Publish(r) BY <2>2 DEF Publish, TypeOK
  <2>3. CASE UNCHANGED <<alerts, signalled>> BY <2>3 DEF TypeOK
  <2>4. QED BY <2>1, <2>2, <2>3 DEF WorkerStep, Load, Spawn, Register, Wait, KillTimedOut,
                                   Unregister, CheckCancelled, FinishRun
<1>8. QED BY <1>1, <1>3, <1>4, <1>5, <1>6, <1>7 DEF TypeOK

(* Reads of the step of a handler, and what it writes. *)
LEMMA CancelTypeOK ==
  ASSUME TypeOK, NEW c \in CancelReqs, CancelStep(c) PROVE TypeOK'
<1> DEFINE r == cancel[c].run
<1>1. TypeOK /\ UNCHANGED <<trigger, queue, worker, live, alerts, signalled, server, budget>>
  BY DEF CancelStep, CancelRead, CancelCommit, CancelLookup, CancelTerminate, CancelGrace
<1>2. /\ row \in [Runs -> Row] /\ proc \in [Runs -> Proc]
      /\ cancel \in [CancelReqs -> [pc: CancelPc, run: Runs, stamp: BOOLEAN]]
      /\ r \in Runs
  BY DEF TypeOK
<1>3. row' \in [Runs -> Row]
  <2>1. CASE CancelCommit(c)
    <3>1. "cancelled" \in Status /\ "null" \in ExitCode
      BY DEF Status, Terminal, ExitCode
    <3>2. (row[r].finished \/ cancel[c].stamp) \in BOOLEAN
      OBVIOUS
    <3>3. \A f \in BOOLEAN :
            [row EXCEPT ![r] = [@ EXCEPT !.status = "cancelled", !.finished = f]] \in [Runs -> Row]
      BY <1>2, <3>1, RowType
    <3>4. QED BY <2>1, <3>2, <3>3 DEF CancelCommit
  <2>2. CASE UNCHANGED row
    BY <2>2, <1>2
  <2>3. QED BY <2>1, <2>2 DEF CancelStep, CancelRead, CancelLookup, CancelTerminate, CancelGrace
<1>4. proc' \in [Runs -> Proc]
  <2>1. CASE CancelTerminate(c)
    <3>1. [proc EXCEPT ![r].state = "signalled"] \in [Runs -> Proc]
      BY <1>2 DEF Proc
    <3>2. QED BY <2>1, <3>1, <1>2 DEF CancelTerminate
  <2>2. CASE CancelGrace(c)
    <3>1. Killed(r) \in [Runs -> Proc]
      BY <1>2, ProcType DEF ExitCode
    <3>2. QED BY <2>2, <3>1 DEF CancelGrace
  <2>3. CASE UNCHANGED proc
    BY <2>3, <1>2
  <2>4. QED BY <2>1, <2>2, <2>3 DEF CancelStep, CancelRead, CancelCommit, CancelLookup
<1>5. cancel' \in [CancelReqs -> [pc: CancelPc, run: Runs, stamp: BOOLEAN]]
  <2>1. CASE CancelRead(c)
    <3>1. (~row[r].finished) \in BOOLEAN
      OBVIOUS
    <3>2. \A f \in BOOLEAN : [cancel EXCEPT ![c] = [@ EXCEPT !.pc = "commit", !.stamp = f]]
                               \in [CancelReqs -> [pc: CancelPc, run: Runs, stamp: BOOLEAN]]
      BY <1>2 DEF CancelPc
    <3>3. QED BY <2>1, <3>1, <3>2 DEF CancelRead
  <2>2. CASE \E pc \in CancelPc : CancelGoto(c, pc)
    BY <2>2, <1>2 DEF CancelGoto
  <2>3. {"lookup", "terminate", "grace", "done"} \subseteq CancelPc
    BY DEF CancelPc
  <2>4. QED BY <2>1, <2>2, <2>3 DEF CancelStep, CancelCommit, CancelLookup, CancelTerminate,
                                   CancelGrace
<1>6. QED BY <1>1, <1>3, <1>4, <1>5 DEF TypeOK

(* Everything else: triggers, the pool, failures and the command line. *)
LEMMA TriggerTypeOK ==
  ASSUME TypeOK, NEW r \in Runs, TriggerStep(r) \/ PickUp PROVE TypeOK'
<1>1. TypeOK /\ UNCHANGED <<proc, live, cancel, alerts, signalled, server, budget>>
  BY DEF TriggerStep, CommitThenSubmit, SubmitCommitted, SubmitFlushed, CommitFlushed,
         CliTrigger, PickUp
<1>2. row \in [Runs -> Row] /\ queue \in Seq(ServerRuns) /\ worker \in [Runs -> WorkerPc]
  BY DEF TypeOK
<1>3. row' \in [Runs -> Row]
  <2>1. CASE CommitQueued(r)
    <3>1. "queued" \in Status /\ TRUE \in BOOLEAN /\ "null" \in ExitCode
      BY DEF Status, ExitCode
    <3>2. [row EXCEPT ![r].status = "queued"] \in [Runs -> Row]
      BY <1>2, <3>1, RowType
    <3>3. QED BY <2>1, <3>2 DEF CommitQueued
  <2>2. CASE UNCHANGED row
    BY <2>2, <1>2
  <2>3. QED BY <2>1, <2>2 DEF TriggerStep, CommitThenSubmit, SubmitCommitted, SubmitFlushed,
                              CommitFlushed, CliTrigger, PickUp
<1>4. queue' \in Seq(ServerRuns) /\ (PickUp => Head(queue) \in ServerRuns)
  <2>1. CASE PickUp
    BY <2>1, <1>2 DEF PickUp
  <2>2. CASE r \in ServerRuns /\ queue' = Append(queue, r) /\ ~PickUp
    BY <2>2, <1>2
  <2>3. CASE UNCHANGED queue /\ ~PickUp
    BY <2>3, <1>2
  <2>4. QED BY <2>1, <2>2, <2>3, RunsAssumption
            DEF TriggerStep, CommitThenSubmit, SubmitCommitted, SubmitFlushed, CommitFlushed,
                CliTrigger, RunsAssumption, ServerRuns
<1>5. worker' \in [Runs -> WorkerPc]
  BY <1>2, <1>4 DEF TriggerStep, CommitThenSubmit, SubmitCommitted, SubmitFlushed, CommitFlushed,
                    CliTrigger, PickUp, ServerRuns, WorkerPc, Executing
<1>6. trigger' \in [Runs -> {"idle", "pending", "done"}]
  BY DEF TypeOK, TriggerStep, CommitThenSubmit, SubmitCommitted, SubmitFlushed, CommitFlushed,
         CliTrigger, PickUp
<1>7. QED BY <1>1, <1>3, <1>4, <1>5, <1>6 DEF TypeOK

LEMMA EnvironmentTypeOK ==
  ASSUME TypeOK, NEW r \in Runs,
         DbFault(r) \/ ProcExit(r) \/ CliCancel(r) \/ DeleteScript(r)
  PROVE  TypeOK'
<1>1. CASE DbFault(r)
  <2>1. PICK pc \in WorkerPc : Goto(r, pc)
    BY <1>1 DEF DbFault, WorkerPc, Executing, Ended
  <2>2. worker' \in [Runs -> WorkerPc]
    BY <2>1, GotoType DEF TypeOK
  <2>3. budget' \in [crashes: Nat, dbFaults: Nat, cliCancels: Nat, deletes: Nat]
    <3>1. budget \in [crashes: Nat, dbFaults: Nat, cliCancels: Nat, deletes: Nat]
      BY DEF TypeOK
    <3>2. budget.dbFaults > 0 /\ budget' = [budget EXCEPT !.dbFaults = @ - 1]
      BY <1>1 DEF DbFault
    <3>3. QED BY <3>1, <3>2
  <2>4. alerts' \subseteq Runs \X ReportedAs
    BY <1>1 DEF DbFault, ReportedAs, TypeOK
  <2>5. QED BY <1>1, <2>2, <2>3, <2>4 DEF DbFault, TypeOK
<1>2. CASE ProcExit(r)
  <2>1. proc' \in [Runs -> Proc]
    BY <1>2 DEF ProcExit, TypeOK, Proc, ExitCode
  <2>2. QED BY <1>2, <2>1 DEF ProcExit, TypeOK
<1>3. CASE CliCancel(r)
  <2>1. "cancelled" \in Status /\ TRUE \in BOOLEAN /\ "null" \in ExitCode
    BY DEF Status, Terminal, ExitCode
  <2>2. row \in [Runs -> Row]
    BY DEF TypeOK
  <2>3. [row EXCEPT ![r].status = "cancelled"] \in [Runs -> Row]
    BY <2>1, <2>2, RowType
  <2>4. budget' \in [crashes: Nat, dbFaults: Nat, cliCancels: Nat, deletes: Nat]
    BY <1>3 DEF CliCancel, TypeOK
  <2>5. QED BY <1>3, <2>3, <2>4 DEF CliCancel, TypeOK
<1>4. CASE DeleteScript(r)
  <2>1. "queued" \in Status /\ "null" \in ExitCode
    BY DEF Status, ExitCode
  <2>2. row \in [Runs -> Row]
    BY DEF TypeOK
  <2>3. [row EXCEPT ![r].script = FALSE] \in [Runs -> Row]
    BY <2>1, <2>2, RowType
  <2>4. budget' \in [crashes: Nat, dbFaults: Nat, cliCancels: Nat, deletes: Nat]
    BY <1>4 DEF DeleteScript, TypeOK
  <2>5. QED BY <1>4, <2>3, <2>4 DEF DeleteScript, TypeOK
<1>5. QED BY <1>1, <1>2, <1>3, <1>4

LEMMA CrashTypeOK == ASSUME TypeOK, Crash PROVE TypeOK'
<1>1. worker' \in [Runs -> WorkerPc] /\ trigger' \in [Runs -> {"idle", "pending", "done"}]
  BY DEF Crash, TypeOK, WorkerPc, Ended
<1>2. cancel' \in [CancelReqs -> [pc: CancelPc, run: Runs, stamp: BOOLEAN]]
  BY DEF Crash, TypeOK, CancelPc
<1>3. budget' \in [crashes: Nat, dbFaults: Nat, cliCancels: Nat, deletes: Nat]
  <2>1. budget \in [crashes: Nat, dbFaults: Nat, cliCancels: Nat, deletes: Nat]
    BY DEF TypeOK
  <2>2. budget.crashes > 0 /\ budget' = [budget EXCEPT !.crashes = @ - 1]
    BY DEF Crash
  <2>3. QED BY <2>1, <2>2
<1>4. /\ row' \in [Runs -> Row] /\ proc' \in [Runs -> Proc] /\ live' \subseteq Runs
      /\ alerts' \subseteq Runs \X ReportedAs /\ signalled' \subseteq Runs
  BY DEF Crash, TypeOK
<1>7. server' \in Server
  BY DEF Crash, TypeOK, Server
<1>5. queue' \in Seq(ServerRuns)
  BY DEF Crash
<1>8. QED BY <1>1, <1>2, <1>3, <1>4, <1>5, <1>7 DEF TypeOK

LEMMA StartTypeOK == ASSUME TypeOK, Start \/ CleanUpRead \/ CleanUpCommit PROVE TypeOK'
<1>1. row \in [Runs -> Row] /\ server \in Server
  BY DEF TypeOK
<1>2. row' \in [Runs -> Row]
  <2>1. \A r \in Runs : [row[r] EXCEPT !.status = "failed", !.finished = TRUE, !.exit = "nonzero"] \in Row
    BY <1>1 DEF Row, Status, Terminal, ExitCode
  <2>2. CASE CleanUpCommit
    BY <1>1, <2>1, <2>2 DEF CleanUpCommit
  <2>3. QED BY <1>1, <2>2 DEF Start, CleanUpRead
<1>3. server' \in Server
  <2>1. CASE CleanUpRead
    <3>1. \A x, y \in SUBSET Runs : [phase |-> "cleaning", stale |-> x, overtaken |-> y] \in Server
      BY DEF Server
    <3>2. server.overtaken \subseteq Runs
      BY <1>1 DEF Server
    <3>3. QED BY <2>1, <3>1, <3>2 DEF CleanUpRead
  <2>2. CASE Start \/ CleanUpCommit
    BY <1>1, <2>2 DEF Start, CleanUpCommit, Server
  <2>3. QED BY <2>1, <2>2
<1>4. UNCHANGED <<trigger, queue, worker, proc, live, cancel, alerts, signalled, budget>>
  BY DEF Start, CleanUpRead, CleanUpCommit
<1>5. QED BY <1>2, <1>3, <1>4 DEF TypeOK

(* One step of the program keeps the types. *)
LEMMA TypeStays == ASSUME TypeOK, [Next]_vars PROVE TypeOK'
<1>1. CASE UNCHANGED vars
  BY <1>1 DEF vars, TypeOK
<1>2. CASE PickUp
  <2>1. CASE Runs = {}
    BY <1>2, <2>1 DEF PickUp, TypeOK, ServerRuns
  <2>2. QED BY <1>2, <2>1, TriggerTypeOK
<1>3. QED BY <1>1, <1>2, TriggerTypeOK, WorkerTypeOK, CancelTypeOK, EnvironmentTypeOK,
             CrashTypeOK, StartTypeOK DEF Next, Quiet

(* Every reachable state is well typed: in particular no code path submits *)
(* the task of a CLI run to the server, and an alert never reports SUCCESS. *)
THEOREM TypeCorrect == Spec => []TypeOK
<1>1. TypeOK /\ [Next]_vars => TypeOK'
  BY TypeStays
<1>2. QED BY InitTypeOK, <1>1, PTL DEF Spec

-----------------------------------------------------------------------------
(* What the inductive invariant implies. *)
LEMMA InvImplies == Inv => NoOrphanProcess /\ RegistryExact /\ OutcomeFaithful
<1> SUFFICES ASSUME Inv PROVE NoOrphanProcess /\ RegistryExact /\ OutcomeFaithful OBVIOUS
<1>1. NoOrphanProcess
  BY DEF Inv, ProcInv, NoOrphanProcess
<1>2. RegistryExact
  BY DEF Inv, RegistryInv, RegistryExact, Registered
<1>3. QED BY <1>1, <1>2 DEF Inv

LEMMA InitInv == Init => Inv
<1> SUFFICES ASSUME Init PROVE Inv OBVIOUS
<1>1. QueueInv BY DEF Init, QueueInv, Submitted
<1>2. RegistryInv BY DEF Init, RegistryInv, Registered
<1>3. ProcInv BY DEF Init, ProcInv, Alive
<1>4. OutcomeFaithful BY DEF Init, OutcomeFaithful
<1>5. QED BY <1>1, <1>2, <1>3, <1>4 DEF Inv

(* A thread moves only from one place outside the queue to another. *)
LEMMA WorkerMoves ==
  ASSUME TypeOK, NEW r \in Runs, WorkerStep(r) \/ DbFault(r)
  PROVE  /\ worker[r] \notin {"idle"}
         /\ \E pc \in WorkerPc \ {"idle"} : Goto(r, pc)
         /\ UNCHANGED <<queue, trigger>>
<1>1. \E pc \in WorkerPc \ {"idle"} : Goto(r, pc)
  BY DEF WorkerStep, Load, Spawn, Register, Wait, KillTimedOut, Unregister, CheckCancelled,
         FinishRun, Finish, Notify, Publish, DbFault, WorkerPc, Executing, Registered, Ended
<1>2. QED
  BY <1>1 DEF WorkerStep, Load, Spawn, Register, Wait, KillTimedOut, Unregister, CheckCancelled,
              FinishRun, Notify, Publish, DbFault

(* The queue holds each submitted task once, and only tasks that have not  *)
(* been started.                                                           *)
LEMMA QueuePreserved ==
  ASSUME TypeOK, QueueInv, [Next]_vars PROVE QueueInv'
<1>1. /\ queue \in Seq(ServerRuns) /\ worker \in [Runs -> WorkerPc]
      /\ trigger \in [Runs -> {"idle", "pending", "done"}]
  BY DEF TypeOK
<1>2. CASE UNCHANGED <<queue, worker, trigger>>
  BY <1>2 DEF QueueInv, Submitted
<1>3. ASSUME NEW r \in Runs, WorkerStep(r) \/ DbFault(r) PROVE QueueInv'
  <2>1. PICK pc \in WorkerPc \ {"idle"} : Goto(r, pc)
    BY <1>3, WorkerMoves
  <2>2. worker[r] # "idle" /\ UNCHANGED <<queue, trigger>>
    BY <1>3, WorkerMoves
  <2>3. QED BY <1>1, <2>1, <2>2 DEF QueueInv, Submitted, Goto, ServerRuns
<1>4. ASSUME NEW r \in Runs, TriggerStep(r) PROVE QueueInv'
  <2>1. CASE SubmitCommitted(r) \/ SubmitFlushed(r)
    <3>1. /\ r \in ServerRuns /\ queue' = Append(queue, r) /\ UNCHANGED worker
          /\ ~Submitted(r) /\ Submitted(r)' /\ \A q \in Runs \ {r} : Submitted(q)' = Submitted(q)
      BY <2>1, <1>1, RunsAssumption
         DEF SubmitCommitted, SubmitFlushed, Submitted, ServerRuns, RunsAssumption
    <3>2. worker[r] = "idle" /\ \A i \in 1..Len(queue) : queue[i] # r
      BY <3>1 DEF QueueInv, ServerRuns
    <3>3. /\ Len(queue') = Len(queue) + 1 /\ queue'[Len(queue) + 1] = r
          /\ \A i \in 1..Len(queue) : queue'[i] = queue[i] /\ queue[i] \in Runs
      BY <3>1, <1>1 DEF ServerRuns
    <3>4. QED BY <3>1, <3>2, <3>3, <1>1 DEF QueueInv
  <2>2. CASE CommitThenSubmit(r) \/ CommitFlushed(r) \/ CliTrigger(r)
    <3>1. UNCHANGED queue
      BY <2>2 DEF CommitThenSubmit, CommitFlushed, CliTrigger
    <3>2. \A q \in Runs : Submitted(q) => Submitted(q)'
      BY <2>2, <1>1, RunsAssumption
         DEF CommitThenSubmit, CommitFlushed, CliTrigger, Submitted, ServerRuns, RunsAssumption
    <3>3. \A q \in Runs : worker'[q] = worker[q] \/ (q = r /\ r \in CliRuns /\ Submitted(r)')
      BY <2>2, <1>1, RunsAssumption
         DEF CommitThenSubmit, CommitFlushed, CliTrigger, Submitted, RunsAssumption
    <3>4. \A i \in 1..Len(queue) : queue[i] \in Runs \ CliRuns
      BY <1>1 DEF ServerRuns
    <3>5. QED BY <3>1, <3>2, <3>3, <3>4 DEF QueueInv
  <2>3. QED BY <1>4, <2>1, <2>2 DEF TriggerStep
<1>5. CASE PickUp
  <2>1. /\ queue # <<>> /\ queue' = Tail(queue) /\ UNCHANGED trigger
        /\ worker' = [worker EXCEPT ![queue[1]] = "load"]
    BY <1>5, <1>1 DEF PickUp
  <2>2. /\ Len(queue) >= 1 /\ queue[1] \in Runs /\ Len(queue') = Len(queue) - 1
        /\ \A i \in 1..Len(queue') : queue'[i] = queue[i + 1] /\ queue[i + 1] \in Runs
    BY <2>1, <1>1 DEF ServerRuns
  <2>3. \A i \in 1..Len(queue') : queue[i + 1] # queue[1]
    BY <2>2, <1>1 DEF QueueInv
  <2>4. \A i, j \in 1..Len(queue') : queue'[i] = queue'[j] => i = j
    BY <2>2, <1>1 DEF QueueInv
  <2>5. \A i \in 1..Len(queue') : worker'[queue'[i]] = "idle" /\ Submitted(queue'[i])
    BY <2>1, <2>2, <2>3, <1>1 DEF QueueInv
  <2>6. \A r \in Runs : worker'[r] # "idle" => Submitted(r)
    BY <2>1, <2>2, <1>1 DEF QueueInv
  <2>7. QED BY <2>1, <2>4, <2>5, <2>6 DEF QueueInv, Submitted
<1>6. CASE Crash
  <2>1. queue' = <<>>
    BY <1>6 DEF Crash
  <2>2. \A r \in Runs : worker'[r] # "idle" => Submitted(r)'
    BY <1>6, <1>1 DEF Crash, QueueInv, Submitted, Lost
  <2>3. QED BY <2>1, <2>2 DEF QueueInv
<1>7. QED
  BY <1>2, <1>3, <1>4, <1>5, <1>6
     DEF Next, vars, Quiet, ProcExit, CliCancel, DeleteScript, CancelStep, CancelRead, CancelCommit,
         CancelLookup, CancelTerminate, CancelGrace, Start, CleanUpRead, CleanUpCommit

(* The registry holds the runs whose threads are between its two calls. *)
LEMMA RegistryPreserved ==
  ASSUME TypeOK, QueueInv, RegistryInv, [Next]_vars PROVE RegistryInv'
<1>1. /\ queue \in Seq(ServerRuns) /\ worker \in [Runs -> WorkerPc]
      /\ trigger \in [Runs -> {"idle", "pending", "done"}]
  BY DEF TypeOK
<1>2. CASE UNCHANGED <<worker, live>>
  BY <1>2 DEF RegistryInv
<1>3. ASSUME NEW r \in Runs, WorkerStep(r) \/ DbFault(r) PROVE RegistryInv'
  BY <1>1, <1>3 DEF WorkerStep, Load, Spawn, Register, Wait, KillTimedOut, Unregister,
                    CheckCancelled, FinishRun, Finish, Notify, Publish, DbFault, Goto,
                    RegistryInv, Registered
<1>4. ASSUME NEW r \in CliRuns, CliTrigger(r) PROVE RegistryInv'
  <2>1. r \in Runs /\ worker[r] = "idle"
    BY <1>4, RunsAssumption DEF CliTrigger, QueueInv, Submitted, RunsAssumption
  <2>2. QED BY <1>1, <1>4, <2>1 DEF CliTrigger, RegistryInv, Registered
<1>5. CASE PickUp
  <2>1. queue[1] \in Runs /\ Head(queue) = queue[1] /\ worker[queue[1]] = "idle"
    BY <1>5, <1>1 DEF PickUp, QueueInv, ServerRuns
  <2>2. QED BY <1>1, <1>5, <2>1 DEF PickUp, RegistryInv, Registered
<1>6. CASE Crash
  BY <1>6, <1>1, RunsAssumption
     DEF Crash, RegistryInv, Registered, Lost, ServerRuns, Ended, QueueInv, Submitted, RunsAssumption
<1>7. QED
  BY <1>2, <1>3, <1>4, <1>5, <1>6
     DEF Next, vars, Quiet, ProcExit, CliCancel, DeleteScript, CancelStep, CancelRead, CancelCommit,
         CancelLookup, CancelTerminate, CancelGrace, Start, CleanUpRead, CleanUpCommit, TriggerStep, CommitThenSubmit,
         SubmitCommitted, SubmitFlushed, CommitFlushed, CliTrigger

(* The position of a thread tells what has become of its process. *)
LEMMA ProcPreserved ==
  ASSUME TypeOK, QueueInv, ProcInv, [Next]_vars PROVE ProcInv'
<1>1. /\ queue \in Seq(ServerRuns) /\ worker \in [Runs -> WorkerPc] /\ proc \in [Runs -> Proc]
      /\ trigger \in [Runs -> {"idle", "pending", "done"}]
      /\ \A c \in CancelReqs : cancel[c].run \in Runs
  BY DEF TypeOK
<1>2. CASE UNCHANGED <<worker, proc>>
  BY <1>2 DEF ProcInv, Alive
<1>3. ASSUME NEW r \in Runs, WorkerStep(r) \/ DbFault(r) PROVE ProcInv'
  <2>1. CASE Load(r)           BY <2>1, <1>1 DEF Load, Goto, ProcInv, Alive
  <2>2. CASE Spawn(r)          BY <2>2, <1>1 DEF Spawn, Goto, ProcInv, Alive, Proc
  <2>3. CASE Register(r)       BY <2>3, <1>1 DEF Register, Goto, ProcInv, Alive
  <2>4. CASE Wait(r)           BY <2>4, <1>1 DEF Wait, Goto, ProcInv, Alive, Proc
  <2>5. CASE KillTimedOut(r)   BY <2>5, <1>1 DEF KillTimedOut, Killed, Goto, ProcInv, Alive, Proc
  <2>6. CASE Unregister(r)     BY <2>6, <1>1 DEF Unregister, Goto, ProcInv, Alive
  <2>7. CASE CheckCancelled(r) BY <2>7, <1>1 DEF CheckCancelled, Goto, ProcInv, Alive
  <2>8. CASE FinishRun(r)      BY <2>8, <1>1 DEF FinishRun, Finish, Goto, ProcInv, Alive
  <2>9. CASE Notify(r)         BY <2>9, <1>1 DEF Notify, Goto, ProcInv, Alive
  <2>10. CASE Publish(r)       BY <2>10, <1>1 DEF Publish, Goto, ProcInv, Alive
  <2>11. CASE DbFault(r)       BY <2>11, <1>1 DEF DbFault, Goto, ProcInv, Alive
  <2>12. QED BY <1>3, <2>1, <2>2, <2>3, <2>4, <2>5, <2>6, <2>7, <2>8, <2>9, <2>10, <2>11
             DEF WorkerStep
<1>4. ASSUME NEW r \in Runs, ProcExit(r) PROVE ProcInv'
  BY <1>4, <1>1 DEF ProcExit, ProcInv, Alive
<1>5. ASSUME NEW c \in CancelReqs, CancelTerminate(c) \/ CancelGrace(c) PROVE ProcInv'
  BY <1>5, <1>1 DEF CancelTerminate, CancelGrace, Killed, ProcInv, Alive, Proc
<1>6. ASSUME NEW r \in CliRuns, CliTrigger(r) PROVE ProcInv'
  <2>1. r \in Runs /\ worker[r] = "idle"
    BY <1>6, RunsAssumption DEF CliTrigger, QueueInv, Submitted, RunsAssumption
  <2>2. QED BY <1>1, <1>6, <2>1 DEF CliTrigger, ProcInv, Alive
<1>7. CASE PickUp
  <2>1. queue[1] \in Runs /\ Head(queue) = queue[1] /\ worker[queue[1]] = "idle"
    BY <1>7, <1>1 DEF PickUp, QueueInv, ServerRuns
  <2>2. QED BY <1>1, <1>7, <2>1 DEF PickUp, ProcInv, Alive
<1>8. CASE Crash
  BY <1>8, <1>1 DEF Crash, ProcInv, Alive
<1>9. QED
  BY <1>2, <1>3, <1>4, <1>5, <1>6, <1>7, <1>8
     DEF Next, vars, Quiet, CliCancel, DeleteScript, CancelStep, CancelRead, CancelCommit,
         CancelLookup, Start, CleanUpRead, CleanUpCommit, TriggerStep, CommitThenSubmit, SubmitCommitted, SubmitFlushed,
         CommitFlushed, CliTrigger

LEMMA FinishEffect ==
  ASSUME row \in [Runs -> Row], NEW r \in Runs, NEW s, NEW e, NEW pc, Finish(r, s, e, pc)
  PROVE  row'[r].status = s
  BY DEF Finish, Row

(* A process that has exited keeps its exit code, so that a row that says  *)
(* SUCCESS or TIMED_OUT stays true.                                        *)
LEMMA OutcomePreserved ==
  ASSUME TypeOK, ProcInv, OutcomeFaithful, [Next]_vars PROVE OutcomeFaithful'
<1>1. /\ worker \in [Runs -> WorkerPc] /\ proc \in [Runs -> Proc] /\ row \in [Runs -> Row]
      /\ \A c \in CancelReqs : cancel[c].run \in Runs
  BY DEF TypeOK
<1>2. \A r \in Runs : proc[r].state = "exited" => proc'[r] = proc[r]
  <2>1. ASSUME NEW r \in Runs, Spawn(r) PROVE proc[r].state = "none"
    BY <2>1 DEF Spawn, ProcInv
  <2>2. QED
    BY <1>1, <2>1
       DEF Next, vars, Quiet, TriggerStep, CommitThenSubmit, SubmitCommitted, SubmitFlushed,
           CommitFlushed, CliTrigger, PickUp, WorkerStep, Load, Spawn, Register, Wait, KillTimedOut,
           Unregister, CheckCancelled, FinishRun, Notify, Publish, DbFault, ProcExit, CliCancel,
           DeleteScript, CancelStep, CancelRead, CancelCommit, CancelLookup, CancelTerminate,
           CancelGrace, Crash, Start, CleanUpRead, CleanUpCommit, Killed, Alive
<1>3. CASE \A r \in Runs : \/ row'[r].status = row[r].status
                           \/ row'[r].status \notin {"success", "timed_out"}
  BY <1>1, <1>2, <1>3 DEF OutcomeFaithful
<1>4. ASSUME NEW r \in Runs, FinishRun(r) PROVE OutcomeFaithful'
  <2>1. \A q \in Runs \ {r} : row'[q] = row[q]
    BY <1>1, <1>4 DEF FinishRun, Finish
  <2>2. proc' = proc
    BY <1>4 DEF FinishRun
  <2>3. CASE worker[r] = "finTimeout" /\ Finish(r, "timed_out", "nonzero", "alertReturn")
    <3>1. row'[r].status = "timed_out"
      BY <1>1, <2>3, FinishEffect
    <3>2. QED BY <2>1, <2>2, <2>3, <3>1 DEF OutcomeFaithful, ProcInv
  <2>4. CASE /\ worker[r] = "finExit"
             /\ Finish(r, IF proc[r].code = "zero" THEN "success" ELSE "failed", proc[r].code,
                       "alertPublish")
    <3>1. row'[r].status = IF proc[r].code = "zero" THEN "success" ELSE "failed"
      BY <1>1, <2>4, FinishEffect
    <3>2. proc[r].state = "exited" /\ proc[r] = [state |-> proc[r].state, code |-> proc[r].code]
      BY <1>1, <2>4 DEF ProcInv, Proc
    <3>3. QED BY <2>1, <2>2, <3>1, <3>2 DEF OutcomeFaithful
  <2>5. CASE \E s \in {"cancelled", "failed"} : \E e, pc : Finish(r, s, e, pc)
    <3>1. row'[r].status \in {"cancelled", "failed"}
      BY <1>1, <2>5, FinishEffect
    <3>2. QED BY <2>1, <2>2, <3>1 DEF OutcomeFaithful
  <2>6. QED BY <1>4, <2>3, <2>4, <2>5 DEF FinishRun
<1>5. QED
  <2>1. CASE UNCHANGED row
    BY <2>1, <1>3
  <2>2. ASSUME NEW r \in Runs, CommitQueued(r) \/ Load(r) \/ CliCancel(r) \/ DeleteScript(r)
        PROVE  OutcomeFaithful'
    <3>1. \/ row' = [row EXCEPT ![r] = [@ EXCEPT !.status = "running", !.started = TRUE]]
          \/ \E st \in {"queued", "cancelled"} : row' = [row EXCEPT ![r].status = st]
          \/ row' = [row EXCEPT ![r].script = FALSE]
          \/ row' = row
      BY <2>2 DEF CommitQueued, Load, CliCancel, DeleteScript
    <3>2. \A q \in Runs \ {r} : row'[q] = row[q]
      BY <1>1, <3>1
    <3>3. \/ row'[r].status = row[r].status
          \/ row'[r].status \in {"queued", "running", "cancelled"}
      <4>1. CASE row' = [row EXCEPT ![r] = [@ EXCEPT !.status = "running", !.started = TRUE]]
        BY <1>1, <4>1 DEF Row
      <4>2. ASSUME NEW st \in {"queued", "cancelled"}, row' = [row EXCEPT ![r].status = st]
            PROVE  row'[r].status = st
        BY <1>1, <4>2 DEF Row
      <4>3. CASE row' = [row EXCEPT ![r].script = FALSE]
        BY <1>1, <4>3 DEF Row
      <4>4. QED BY <3>1, <4>1, <4>2, <4>3
    <3>4. QED BY <1>3, <3>2, <3>3
  <2>3. ASSUME NEW c \in CancelReqs, CancelCommit(c) PROVE OutcomeFaithful'
    BY <1>1, <1>3, <2>3 DEF CancelCommit, Row
  <2>4. CASE CleanUpCommit
    BY <1>1, <1>3, <2>4 DEF CleanUpCommit, Row
  <2>5. QED
    BY <1>4, <2>1, <2>2, <2>3, <2>4
       DEF Next, vars, Quiet, TriggerStep, CommitThenSubmit, SubmitCommitted, SubmitFlushed,
           CommitFlushed, CliTrigger, PickUp, WorkerStep, Spawn, Register, Wait, KillTimedOut,
           Unregister, CheckCancelled, Notify, Publish, DbFault, ProcExit, CancelStep, CancelRead,
           CancelLookup, CancelTerminate, CancelGrace, Crash, Start, CleanUpRead

(* The inductive invariant holds in every reachable state. *)
THEOREM InvariantHolds == Spec => []Inv
<1>1. TypeOK /\ Inv /\ [Next]_vars => Inv'
  BY QueuePreserved, RegistryPreserved, ProcPreserved, OutcomePreserved DEF Inv
<1>2. QED BY InitInv, TypeCorrect, <1>1, PTL DEF Spec

(* A thread that has left execute_script leaves no process behind. *)
THEOREM NoOrphans == Spec => []NoOrphanProcess
BY InvariantHolds, InvImplies, PTL

(* kill_run finds the process of every run whose thread waits for it, and  *)
(* finds no process whose thread has left execute_script.                  *)
THEOREM RegistryIsExact == Spec => []RegistryExact
BY InvariantHolds, InvImplies, PTL

(* SUCCESS is recorded only for a process that exited with zero, TIMED_OUT *)
(* only for a script with a timeout whose process is gone.                 *)
THEOREM OutcomesAreFaithful == Spec => []OutcomeFaithful
BY InvariantHolds, InvImplies, PTL

-----------------------------------------------------------------------------
(* How one step may change the status of a row: each way with where the    *)
(* thread of the run is, and what the trigger and the server do.           *)
Queues(r) ==
  /\ row'[r].status = "queued" /\ NotCommitted(r)
  /\ ~NotCommitted(r)' /\ UNCHANGED <<worker, server, budget, alerts, cancel>>

Starts(r) ==
  /\ row'[r].status = "running" /\ worker[r] = "load" /\ worker'[r] = "spawn"
  /\ row[r].status # "absent" /\ UNCHANGED <<trigger, server, budget, alerts, cancel>>

Cancels(r) ==
  /\ row'[r].status = "cancelled" /\ UNCHANGED <<trigger, worker, server, alerts>>
  /\ \/ row[r].status # "absent"
     \/ \E c \in CancelReqs : cancel[c].pc = "commit" /\ cancel[c].run = r

Closes(r) ==
  /\ row'[r].status = "failed" /\ r \in server.stale /\ CleanUpCommit
  /\ UNCHANGED <<trigger, worker, budget, alerts, cancel>>

Outcomes(r) ==
  /\ row'[r].status \in Terminal
  /\ worker[r] \in {"finTimeout", "finCancelled", "finExit", "finError"}
  /\ row'[r].status = "success" => worker[r] = "finExit"
  /\ worker'[r] \in {"alertReturn", "alertPublish"}
  /\ UNCHANGED <<trigger, server, budget, alerts, cancel>>

(* A write to the row of one run leaves the others alone. *)
LEMMA StatusWritten ==
  ASSUME row \in [Runs -> Row], NEW q \in Runs, NEW r \in Runs, NEW s, NEW f, NEW e
  PROVE  /\ [row EXCEPT ![q].status = s][r].status = IF r = q THEN s ELSE row[r].status
         /\ [row EXCEPT ![q] = [@ EXCEPT !.status = s, !.started = f]][r].status
              = IF r = q THEN s ELSE row[r].status
         /\ [row EXCEPT ![q] = [@ EXCEPT !.status = s, !.finished = f]][r].status
              = IF r = q THEN s ELSE row[r].status
         /\ [row EXCEPT ![q] = [@ EXCEPT !.status = s, !.finished = f, !.exit = e]][r].status
              = IF r = q THEN s ELSE row[r].status
         /\ [row EXCEPT ![q].script = f][r].status = row[r].status
<1>1. row[r] \in Row /\ row[q] \in Row
  OBVIOUS
<1>2. CASE r # q
  BY <1>2
<1>3. CASE r = q
  BY <1>1, <1>3 DEF Row
<1>4. QED BY <1>2, <1>3

LEMMA StatusStep ==
  ASSUME TypeOK, [Next]_vars, NEW r \in Runs
  PROVE  \/ row'[r].status = row[r].status
         \/ Queues(r) \/ Starts(r) \/ Cancels(r) \/ Closes(r) \/ Outcomes(r)
<1>1. /\ row \in [Runs -> Row] /\ worker \in [Runs -> WorkerPc]
      /\ trigger \in [Runs -> {"idle", "pending", "done"}]
      /\ \A c \in CancelReqs : cancel[c].run \in Runs
  BY DEF TypeOK
<1>2. CASE UNCHANGED row
  BY <1>2
<1>3. ASSUME NEW q \in Runs, TriggerStep(q), CommitQueued(q)
      PROVE  row'[r].status = row[r].status \/ Queues(r)
  <2>1. row'[r].status = IF r = q THEN "queued" ELSE row[r].status
    BY <1>1, <1>3, StatusWritten DEF CommitQueued
  <2>2. CASE r = q /\ row' # row
    <3>1. /\ NotCommitted(r) /\ ~NotCommitted(r)'
          /\ UNCHANGED <<worker, server, budget, alerts, cancel>>
      <4>1. /\ UNCHANGED <<worker, server, budget, alerts, cancel>>
            /\ \/ q \notin RestRuns /\ trigger[q] = "idle" /\ trigger' = [trigger EXCEPT ![q] = "pending"]
               \/ q \in RestRuns /\ trigger[q] = "pending" /\ trigger' = [trigger EXCEPT ![q] = "done"]
        BY <1>3, <2>2, RunsAssumption
           DEF TriggerStep, CommitThenSubmit, SubmitCommitted, SubmitFlushed, CommitFlushed,
               CliTrigger, RunsAssumption, ServerRuns
      <4>2. QED BY <1>1, <2>2, <4>1 DEF NotCommitted
    <3>2. QED BY <2>1, <2>2, <3>1 DEF Queues
  <2>3. QED BY <2>1, <2>2
<1>4. ASSUME NEW q \in Runs, Load(q) PROVE row'[r].status = row[r].status \/ Starts(r)
  <2>1. CASE row' = [row EXCEPT ![q] = [@ EXCEPT !.status = "running", !.started = TRUE]]
             /\ row[q].status # "absent" /\ Goto(q, "spawn")
    <3>1. row'[r].status = IF r = q THEN "running" ELSE row[r].status
      BY <1>1, <2>1, StatusWritten
    <3>2. QED BY <1>1, <1>4, <2>1, <3>1 DEF Load, Goto, Starts
  <2>2. QED BY <1>4, <2>1 DEF Load
<1>5. ASSUME NEW q \in Runs, FinishRun(q) PROVE row'[r].status = row[r].status \/ Outcomes(r)
  <2>1. ASSUME NEW s \in Terminal, NEW e, NEW pc \in {"alertReturn", "alertPublish"},
               Finish(q, s, e, pc), s = "success" => worker[q] = "finExit"
        PROVE  row'[r].status = row[r].status \/ Outcomes(r)
    <3>1. row'[r].status = IF r = q THEN s ELSE row[r].status
      BY <1>1, <2>1, StatusWritten DEF Finish
    <3>2. worker' = [worker EXCEPT ![q] = pc]
      BY <2>1 DEF Finish, Goto
    <3>3. QED BY <1>1, <1>5, <2>1, <3>1, <3>2 DEF FinishRun, Outcomes
  <2>2. {"timed_out", "cancelled", "success", "failed"} = Terminal
    BY DEF Terminal
  <2>3. CASE worker[q] = "finExit"
    BY <1>5, <2>1, <2>2, <2>3 DEF FinishRun
  <2>4. QED BY <1>5, <2>1, <2>2, <2>3 DEF FinishRun
<1>6. ASSUME NEW c \in CancelReqs, CancelCommit(c) PROVE row'[r].status = row[r].status \/ Cancels(r)
  <2>1. row'[r].status = IF r = cancel[c].run THEN "cancelled" ELSE row[r].status
    BY <1>1, <1>6, StatusWritten DEF CancelCommit
  <2>2. QED BY <1>6, <2>1 DEF CancelCommit, Cancels
<1>7. ASSUME NEW q \in Runs, CliCancel(q) PROVE row'[r].status = row[r].status \/ Cancels(r)
  <2>1. row'[r].status = IF r = q THEN "cancelled" ELSE row[r].status
    BY <1>1, <1>7, StatusWritten DEF CliCancel
  <2>2. QED BY <1>7, <2>1 DEF CliCancel, Cancels
<1>8. ASSUME NEW q \in Runs, DeleteScript(q) PROVE row'[r].status = row[r].status
  BY <1>1, <1>8, StatusWritten DEF DeleteScript
<1>9. CASE CleanUpCommit
  <2>1. CASE r \in server.stale
    <3>1. row'[r].status = "failed"
      BY <1>1, <1>9, <2>1 DEF CleanUpCommit, Row
    <3>2. QED BY <1>9, <2>1, <3>1 DEF CleanUpCommit, Closes
  <2>2. QED BY <1>9, <2>1 DEF CleanUpCommit
<1>10. QED
  <2>1. ASSUME NEW q \in Runs, TriggerStep(q) PROVE CommitQueued(q) \/ UNCHANGED row
    BY <2>1 DEF TriggerStep, CommitThenSubmit, SubmitCommitted, SubmitFlushed, CommitFlushed, CliTrigger
  <2>2. ASSUME NEW q \in Runs, WorkerStep(q) PROVE Load(q) \/ FinishRun(q) \/ UNCHANGED row
    BY <2>2 DEF WorkerStep, Spawn, Register, Wait, KillTimedOut, Unregister, CheckCancelled,
                Notify, Publish
  <2>3. ASSUME NEW c \in CancelReqs, CancelStep(c) PROVE CancelCommit(c) \/ UNCHANGED row
    BY <2>3 DEF CancelStep, CancelRead, CancelLookup, CancelTerminate, CancelGrace
  <2>4. QED
    BY <1>2, <1>3, <1>4, <1>5, <1>6, <1>7, <1>8, <1>9, <2>1, <2>2, <2>3
       DEF Next, vars, Quiet, PickUp, DbFault, ProcExit, Crash, Start, CleanUpRead

(* finished_at is never taken back. *)
LEMMA FinishedStays ==
  ASSUME TypeOK, [Next]_vars, NEW r \in Runs, row[r].finished
  PROVE  row'[r].finished
<1>1. row \in [Runs -> Row] /\ \A c \in CancelReqs : cancel[c].run \in Runs
  BY DEF TypeOK
<1>2. CASE UNCHANGED row
  BY <1>2
<1>3. ASSUME NEW q \in Runs, CommitQueued(q) \/ Load(q) \/ CliCancel(q) \/ DeleteScript(q)
      PROVE  row'[r].finished
  <2>1. CASE CommitQueued(q)
    BY <1>1, <2>1 DEF CommitQueued, Row
  <2>2. CASE Load(q)
    BY <1>1, <2>2 DEF Load, Row
  <2>3. CASE CliCancel(q)
    BY <1>1, <2>3 DEF CliCancel, Row
  <2>4. CASE DeleteScript(q)
    BY <1>1, <2>4 DEF DeleteScript, Row
  <2>5. QED BY <1>3, <2>1, <2>2, <2>3, <2>4
<1>4. ASSUME NEW q \in Runs, FinishRun(q) PROVE row'[r].finished
  <2>1. ASSUME NEW s, NEW e, NEW pc, Finish(q, s, e, pc) PROVE row'[r].finished
    BY <1>1, <2>1 DEF Finish, Row
  <2>2. QED BY <1>4, <2>1 DEF FinishRun
<1>5. ASSUME NEW c \in CancelReqs, CancelCommit(c) PROVE row'[r].finished
  BY <1>1, <1>5 DEF CancelCommit, Row
<1>6. CASE CleanUpCommit
  BY <1>1, <1>6 DEF CleanUpCommit, Row
<1>7. QED
  <2>1. ASSUME NEW q \in Runs, TriggerStep(q) PROVE CommitQueued(q) \/ UNCHANGED row
    BY <2>1 DEF TriggerStep, CommitThenSubmit, SubmitCommitted, SubmitFlushed, CommitFlushed, CliTrigger
  <2>2. ASSUME NEW q \in Runs, WorkerStep(q) PROVE Load(q) \/ FinishRun(q) \/ UNCHANGED row
    BY <2>2 DEF WorkerStep, Spawn, Register, Wait, KillTimedOut, Unregister, CheckCancelled,
                Notify, Publish
  <2>3. ASSUME NEW c \in CancelReqs, CancelStep(c) PROVE CancelCommit(c) \/ UNCHANGED row
    BY <2>3 DEF CancelStep, CancelRead, CancelLookup, CancelTerminate, CancelGrace
  <2>4. QED
    BY <1>2, <1>3, <1>4, <1>5, <1>6, <2>1, <2>2, <2>3
       DEF Next, vars, Quiet, PickUp, DbFault, ProcExit, Crash, Start, CleanUpRead

(* The server starts in three steps and goes down in one. *)
LEMMA ServerMoves ==
  ASSUME TypeOK, [Next]_vars
  PROVE  \/ UNCHANGED server
         \/ /\ Crash /\ server'.phase = "down" /\ server'.stale = {}
            /\ server'.overtaken = server.overtaken
         \/ /\ Start /\ server.phase = "down" /\ server'.phase = "starting"
            /\ server'.stale = server.stale /\ server'.overtaken = server.overtaken
         \/ /\ CleanUpRead /\ server.phase = "starting" /\ server'.phase = "cleaning"
            /\ \A r \in server'.stale : r \in Runs /\ Stale(r)
            /\ server.overtaken \subseteq server'.overtaken
         \/ /\ CleanUpCommit /\ server.phase = "cleaning" /\ server'.phase = "up"
            /\ server'.stale = {} /\ server'.overtaken = server.overtaken
<1>1. server \in Server
  BY DEF TypeOK
<1>2. CASE Crash \/ Start \/ CleanUpCommit
  BY <1>1, <1>2 DEF Crash, Start, CleanUpCommit, Server
<1>3. CASE CleanUpRead
  <2>1. /\ server.phase = "starting" /\ server'.phase = "cleaning"
        /\ server'.stale = {r \in Runs : Stale(r)}
    BY <1>3 DEF CleanUpRead
  <2>2. server.overtaken \subseteq server'.overtaken
    BY <1>3 DEF CleanUpRead
  <2>3. QED BY <1>3, <2>1, <2>2
<1>4. CASE UNCHANGED server
  BY <1>4
<1>5. QED
  BY <1>2, <1>3, <1>4
     DEF Next, vars, Quiet, TriggerStep, CommitThenSubmit, SubmitCommitted, SubmitFlushed,
         CommitFlushed, CliTrigger, PickUp, WorkerStep, Load, Spawn, Register, Wait, KillTimedOut,
         Unregister, CheckCancelled, FinishRun, Notify, Publish, DbFault, ProcExit, CliCancel,
         DeleteScript, CancelStep, CancelRead, CancelCommit, CancelLookup, CancelTerminate,
         CancelGrace

(* A handler goes forward, and none begins before the server lets it. *)
LEMMA TriggerMoves ==
  ASSUME TypeOK, [Next]_vars, NEW r \in Runs
  PROVE  \/ trigger'[r] = trigger[r]
         \/ trigger[r] = "idle" /\ trigger'[r] = "pending" /\ (r \in ServerRuns => ~CannotFire(r))
         \/ trigger[r] = "pending" /\ trigger'[r] = "done"
<1>1. trigger \in [Runs -> {"idle", "pending", "done"}]
  BY DEF TypeOK
<1>2. ASSUME NEW q \in Runs, TriggerStep(q)
      PROVE  \/ trigger[q] = "idle" /\ trigger' = [trigger EXCEPT ![q] = "pending"]
                /\ (q \in ServerRuns => ~CannotFire(q))
             \/ trigger[q] = "pending" /\ trigger' = [trigger EXCEPT ![q] = "done"]
  BY <1>2, RunsAssumption
     DEF TriggerStep, CommitThenSubmit, SubmitCommitted, SubmitFlushed, CommitFlushed, CliTrigger,
         ServerRuns, CannotFire, Serving, RunsAssumption
<1>3. ASSUME NEW q \in Runs, TriggerStep(q)
      PROVE  \/ trigger'[r] = trigger[r]
             \/ trigger[r] = "idle" /\ trigger'[r] = "pending" /\ (r \in ServerRuns => ~CannotFire(r))
             \/ trigger[r] = "pending" /\ trigger'[r] = "done"
  BY <1>1, <1>2, <1>3
<1>4. CASE Crash
  BY <1>1, <1>4 DEF Crash
<1>5. CASE UNCHANGED trigger
  BY <1>5
<1>6. QED
  BY <1>3, <1>4, <1>5
     DEF Next, vars, Quiet, PickUp, WorkerStep, Load, Spawn, Register, Wait, KillTimedOut, Unregister,
         CheckCancelled, FinishRun, Notify, Publish, DbFault, ProcExit, CliCancel, DeleteScript,
         CancelStep, CancelRead, CancelCommit, CancelLookup, CancelTerminate, CancelGrace, Start, CleanUpRead, CleanUpCommit

(* What moves the thread of a run: it is started, takes a step, or dies.   *)
Begins(r) ==
  /\ worker[r] = "idle" /\ worker'[r] = "load" /\ (r \in ServerRuns => trigger[r] # "idle")
  /\ UNCHANGED <<row, alerts, server, budget>>

LEMMA ThreadMoves ==
  ASSUME TypeOK, QueueInv, [Next]_vars, NEW r \in Runs
  PROVE  \/ worker'[r] = worker[r]
         \/ Begins(r) \/ WorkerStep(r) \/ DbFault(r)
         \/ Crash /\ Lost(r) /\ worker'[r] = "lost"
<1>1. /\ queue \in Seq(ServerRuns) /\ worker \in [Runs -> WorkerPc]
  BY DEF TypeOK
<1>2. ASSUME NEW q \in Runs, q # r, WorkerStep(q) \/ DbFault(q) PROVE worker'[r] = worker[r]
  <2>1. PICK pc \in WorkerPc \ {"idle"} : Goto(q, pc)
    BY <1>2, WorkerMoves
  <2>2. QED BY <1>1, <1>2, <2>1 DEF Goto
<1>3. CASE PickUp
  <2>1. queue[1] \in ServerRuns /\ Head(queue) = queue[1]
        /\ worker[queue[1]] = "idle" /\ Submitted(queue[1])
    BY <1>1, <1>3 DEF PickUp, QueueInv
  <2>2. queue[1] \in Runs /\ trigger[queue[1]] # "idle"
    BY <2>1 DEF ServerRuns, Submitted
  <2>3. QED BY <1>1, <1>3, <2>1, <2>2 DEF PickUp, Begins
<1>4. ASSUME NEW q \in Runs, TriggerStep(q) PROVE worker'[r] = worker[r] \/ Begins(r)
  <2>1. CASE CliTrigger(q) /\ trigger[q] = "pending"
    <3>1. q \in CliRuns /\ q \notin RestRuns /\ worker[q] = "idle"
      BY <2>1, RunsAssumption DEF CliTrigger, QueueInv, Submitted, RunsAssumption
    <3>2. worker' = [worker EXCEPT ![q] = "load"] /\ UNCHANGED <<row, alerts, server, budget>>
      BY <2>1 DEF CliTrigger
    <3>3. QED BY <1>1, <3>1, <3>2 DEF Begins, ServerRuns
  <2>2. QED BY <1>4, <2>1 DEF TriggerStep, CommitThenSubmit, SubmitCommitted, SubmitFlushed,
                              CommitFlushed, CliTrigger
<1>5. CASE Crash
  BY <1>5 DEF Crash
<1>6. QED
  BY <1>2, <1>3, <1>4, <1>5
     DEF Next, vars, Quiet, ProcExit, CliCancel, DeleteScript, CancelStep, CancelRead, CancelCommit,
         CancelLookup, CancelTerminate, CancelGrace, Start, CleanUpRead, CleanUpCommit

LEMMA InitRecordInv == Init => RecordInv
<1> SUFFICES ASSUME Init PROVE RecordInv OBVIOUS
<1>1. \A r \in Runs : /\ row[r].status = "absent" /\ trigger[r] = "idle"
                      /\ worker[r] = "idle" /\ proc[r].state = "none"
  BY DEF Init
<1>2. /\ server = [phase |-> "down", stale |-> {}, overtaken |-> {}]
      /\ \A c \in CancelReqs : cancel[c].pc = "idle"
  BY DEF Init
<1>3. TriggerInv BY <1>1, <1>2 DEF TriggerInv
<1>4. StatusInv BY <1>1 DEF StatusInv, Reported, Executing, Registered
<1>5. AlertInv BY <1>1 DEF AlertInv
<1>6. NoStaleRow BY <1>1 DEF NoStaleRow
<1>7. CleanUpInv BY <1>2 DEF CleanUpInv
<1>8. QED BY <1>3, <1>4, <1>5, <1>6, <1>7 DEF RecordInv

(* There is no row before its handler commits it, the handlers of lost     *)
(* runs have died, and a server that is down executes nothing.             *)
LEMMA TriggerPreserved ==
  ASSUME TypeOK, QueueInv, TriggerInv, StatusInv, CleanUpInv, [Next]_vars PROVE TriggerInv'
<1>1. /\ server \in Server
      /\ trigger \in [Runs -> {"idle", "pending", "done"}]
      /\ \A c \in CancelReqs : cancel[c].run \in Runs
      /\ cancel \in [CancelReqs -> [pc: CancelPc, run: Runs, stamp: BOOLEAN]]
  BY DEF TypeOK
<1>2. ASSUME NEW r \in Runs, NotCommitted(r)' PROVE row'[r].status = "absent"
  <2>1. NotCommitted(r)
    BY <1>1, <1>2, TriggerMoves DEF NotCommitted
  <2>2. row[r].status = "absent"
    BY <2>1 DEF TriggerInv
  <2>3. \A c \in CancelReqs : ~(cancel[c].pc = "commit" /\ cancel[c].run = r)
    BY <2>2 DEF TriggerInv
  <2>4. worker[r] \notin {"finTimeout", "finCancelled", "finExit", "finError"}
    <3>1. CASE r \notin RestRuns
      BY <3>1, <2>1 DEF NotCommitted, QueueInv, Submitted
    <3>2. CASE r \in RestRuns
      <4>1. r \in ServerRuns \ server.overtaken
        BY <3>2, RunsAssumption DEF RunsAssumption, CleanUpInv, ServerRuns
      <4>2. QED BY <4>1, <2>2 DEF StatusInv, Executing, Reported
    <3>3. QED BY <3>1, <3>2
  <2>5. r \notin server.stale
    BY <2>1 DEF CleanUpInv
  <2>6. QED BY <1>2, <2>2, <2>3, <2>4, <2>5, StatusStep DEF Queues, Starts, Cancels, Closes, Outcomes
<1>3. ASSUME NEW r \in Runs, worker'[r] = "lost" PROVE trigger'[r] = "done"
  <2>1. CASE worker[r] = "lost"
    BY <2>1, <1>1, TriggerMoves DEF TriggerInv
  <2>2. CASE Crash /\ Lost(r)
    BY <2>2, <1>1 DEF Crash, Lost
  <2>3. ASSUME WorkerStep(r) \/ DbFault(r) PROVE FALSE
    <3>1. worker \in [Runs -> WorkerPc]
      BY DEF TypeOK
    <3>2. QED BY <1>3, <2>3, <3>1
              DEF WorkerStep, Load, Spawn, Register, Wait, KillTimedOut, Unregister, CheckCancelled,
                  FinishRun, Finish, Notify, Publish, DbFault, Goto
  <2>4. QED BY <1>3, <2>1, <2>2, <2>3, ThreadMoves DEF Begins
<1>4. ASSUME NEW r \in ServerRuns, CannotFire(r)'
      PROVE  worker'[r] \in Ended \/ trigger'[r] = "idle"
  <2>0. r \in Runs
    BY DEF ServerRuns
  <2>1. CASE Crash
    BY <2>0, <2>1, <1>1 DEF Crash, Lost, Ended
  <2>2. CASE ~Crash
    <3>1. CannotFire(r)
      BY <1>4, <2>2, ServerMoves DEF CannotFire, Serving
    <3>2. CASE trigger[r] = "idle"
      BY <2>0, <3>1, <3>2, TriggerMoves
    <3>3. CASE worker[r] \in Ended /\ trigger[r] # "idle"
      <4>1. ~WorkerStep(r) /\ ~DbFault(r)
        BY <3>3 DEF WorkerStep, Load, Spawn, Register, Wait, KillTimedOut, Unregister,
                    CheckCancelled, FinishRun, Notify, Publish, DbFault, Ended
      <4>2. QED BY <2>0, <2>2, <3>3, <4>1, ThreadMoves DEF Begins, Ended
    <3>4. QED BY <2>0, <3>1, <3>2, <3>3 DEF TriggerInv
  <2>3. QED BY <2>1, <2>2
<1>5. ASSUME NEW c \in CancelReqs, cancel'[c].pc = "commit" PROVE row'[cancel'[c].run].status # "absent"
  <2>1. cancel'[c].run = cancel[c].run /\ row[cancel[c].run].status # "absent"
    <3>1. CASE cancel'[c] = cancel[c]
      BY <3>1, <1>5 DEF TriggerInv
    <3>2. CASE CancelRead(c)
      BY <3>2, <1>1 DEF CancelRead
    <3>3. ASSUME NEW d \in CancelReqs, CancelStep(d), ~CancelRead(d) PROVE cancel'[c] = cancel[c]
      BY <3>3, <1>1, <1>5
         DEF CancelStep, CancelCommit, CancelLookup, CancelTerminate, CancelGrace, CancelGoto
    <3>4. ASSUME NEW d \in CancelReqs, CancelRead(d), d # c PROVE cancel'[c] = cancel[c]
      BY <3>4, <1>1 DEF CancelRead
    <3>5. CASE Crash
      BY <3>5, <1>1, <1>5 DEF Crash
    <3>6. CASE UNCHANGED cancel
      BY <3>6, <1>5 DEF TriggerInv
    <3>7. QED
      BY <3>1, <3>2, <3>3, <3>4, <3>5, <3>6
         DEF Next, vars, Quiet, TriggerStep, CommitThenSubmit, SubmitCommitted, SubmitFlushed,
             CommitFlushed, CliTrigger, PickUp, WorkerStep, Load, Spawn, Register, Wait, KillTimedOut,
             Unregister, CheckCancelled, FinishRun, Notify, Publish, DbFault, ProcExit, CliCancel,
             DeleteScript, Start, CleanUpRead, CleanUpCommit
  <2>2. QED
    BY <1>1, <2>1, StatusStep DEF Queues, Starts, Cancels, Closes, Outcomes, Terminal
<1>6. QED BY <1>2, <1>3, <1>4, <1>5 DEF TriggerInv

(* What is in a row follows from where the thread of the run is. *)
LEMMA StatusPreserved ==
  ASSUME TypeOK, QueueInv, TriggerInv, StatusInv, CleanUpInv, [Next]_vars PROVE StatusInv'
<1> SUFFICES ASSUME NEW r \in Runs
             PROVE  /\ worker'[r] \in Reported => row'[r].status \in Terminal
                    /\ r \in ServerRuns \ server'.overtaken =>
                         /\ worker'[r] \in {"idle", "load"}
                              => row'[r].status \in {"absent", "queued", "cancelled"}
                         /\ worker'[r] \in Executing \ ({"load"} \cup Reported)
                              => row'[r].status \in {"running", "cancelled"}
  BY DEF StatusInv
<1>0. r \in ServerRuns \ server'.overtaken => r \in ServerRuns \ server.overtaken
  BY ServerMoves
<1>1. worker \in [Runs -> WorkerPc]
  BY DEF TypeOK
<1>2. CASE worker'[r] = worker[r]
  <2>1. CASE row'[r].status = row[r].status
    BY <1>0, <1>2, <2>1 DEF StatusInv
  <2>2. CASE Queues(r)
    <3>1. row[r].status = "absent"
      BY <2>2 DEF Queues, TriggerInv
    <3>2. QED BY <1>0, <1>2, <2>2, <3>1 DEF Queues, StatusInv, Terminal
  <2>3. CASE Cancels(r)
    BY <2>3 DEF Cancels, Terminal
  <2>4. CASE Closes(r)
    <3>1. r \in ServerRuns \ server.overtaken => worker[r] \in {"dead", "lost"}
      BY <2>4 DEF Closes, CleanUpInv
    <3>2. QED BY <1>0, <1>2, <2>4, <3>1 DEF Closes, Terminal, Executing, Registered
  <2>5. QED BY <1>2, <2>1, <2>2, <2>3, <2>4, StatusStep DEF Starts, Outcomes
<1>3. CASE Begins(r)
  BY <1>0, <1>3 DEF Begins, StatusInv, Reported, Executing, Registered
<1>4. CASE WorkerStep(r)
  <2>1. CASE Load(r) \/ FinishRun(r)
    <3>1. worker'[r] # worker[r]
      BY <1>1, <2>1 DEF Load, FinishRun, Finish, Goto
    <3>2. CASE row'[r].status = row[r].status
      <4>1. CASE Load(r)
        <5>1. worker'[r] = "spawn" => row'[r].status = "running"
          <6>1. HAVE worker'[r] = "spawn"
          <6>2. row' = [row EXCEPT ![r] = [@ EXCEPT !.status = "running", !.started = TRUE]]
            BY <1>1, <4>1, <6>1 DEF Load, Goto
          <6>3. QED BY <6>2 DEF TypeOK, Row
        <5>2. worker'[r] \in {"spawn", "dead"}
          BY <1>1, <4>1 DEF Load, Goto
        <5>3. QED BY <5>1, <5>2 DEF Reported, Executing, Registered
      <4>2. CASE FinishRun(r)
        <5>1. row'[r].status \in Terminal
          <6>1. row \in [Runs -> Row]
            BY DEF TypeOK
          <6>2. ASSUME NEW s \in Terminal, NEW e, NEW pc, Finish(r, s, e, pc)
                PROVE  row'[r].status \in Terminal
            BY <6>1, <6>2, FinishEffect
          <6>3. QED BY <4>2, <6>2 DEF FinishRun, Terminal
        <5>2. worker'[r] \in {"alertReturn", "alertPublish"}
          BY <1>1, <4>2 DEF FinishRun, Finish, Goto
        <5>3. QED BY <5>1, <5>2 DEF Reported, Executing, Registered
      <4>3. QED BY <2>1, <4>1, <4>2
    <3>3. CASE Starts(r)
      BY <3>3 DEF Starts, Reported, Executing, Registered
    <3>4. CASE Outcomes(r)
      BY <3>4 DEF Outcomes, Reported, Executing, Registered
    <3>5. QED BY <3>1, <3>2, <3>3, <3>4, StatusStep DEF Queues, Cancels, Closes
  <2>2. CASE ~Load(r) /\ ~FinishRun(r)
    <3>1. row' = row
      BY <1>4, <2>2 DEF WorkerStep, Spawn, Register, Wait, KillTimedOut, Unregister,
                        CheckCancelled, Notify, Publish
    <3>2. \/ worker[r] \in Reported /\ worker'[r] \in Reported
          \/ /\ worker[r] \in Executing \ ({"load"} \cup Reported)
             /\ worker'[r] \in Executing \ ({"load"} \cup Reported)
      BY <1>1, <1>4, <2>2 DEF WorkerStep, Spawn, Register, Wait, KillTimedOut, Unregister,
                        CheckCancelled, Notify, Publish, Goto, Reported, Executing, Registered
    <3>3. QED BY <1>0, <3>1, <3>2 DEF StatusInv, Reported, Executing, Registered
  <2>3. QED BY <2>1, <2>2
<1>5. CASE DbFault(r)
  <2>1. row' = row
    BY <1>5 DEF DbFault
  <2>2. \/ worker[r] \in Reported /\ worker'[r] \in Reported
        \/ worker[r] \in Executing \ ({"load"} \cup Reported) /\ worker'[r] = "except"
        \/ worker'[r] = "dead"
    BY <1>1, <1>5 DEF DbFault, Goto, Reported, Executing, Registered
  <2>3. QED BY <1>0, <2>1, <2>2 DEF StatusInv, Reported, Executing, Registered
<1>6. CASE worker'[r] = "lost"
  BY <1>6 DEF Reported, Executing, Registered
<1>7. QED BY <1>2, <1>3, <1>4, <1>5, <1>6, ThreadMoves

(* A failure that was recorded stays the one that was reported. *)
LEMMA AlertPreserved ==
  ASSUME TypeOK, QueueInv, TriggerInv, StatusInv, AlertInv, CleanUpInv, [Next]_vars
  PROVE  AlertInv'
<1>1. worker \in [Runs -> WorkerPc]
  BY DEF TypeOK
<1>2. alerts \subseteq alerts'
  <2>1. ASSUME NEW r \in Runs, WorkerStep(r) \/ DbFault(r) PROVE alerts \subseteq alerts'
    BY <2>1 DEF WorkerStep, Load, Spawn, Register, Wait, KillTimedOut, Unregister, CheckCancelled,
                FinishRun, Notify, Publish, DbFault
  <2>2. QED
    BY <2>1
       DEF Next, vars, Quiet, TriggerStep, CommitThenSubmit, SubmitCommitted, SubmitFlushed,
           CommitFlushed, CliTrigger, PickUp, ProcExit, CancelStep, CancelRead, CancelCommit,
           CancelLookup, CancelTerminate, CancelGrace, CliCancel, DeleteScript, Crash, Start, CleanUpRead, CleanUpCommit
<1>3. ASSUME NEW r \in Runs \ server'.overtaken, worker'[r] \in {"publish", "done"},
             row'[r].status \in {"failed", "timed_out"}
      PROVE  \E s \in {row'[r].status, "logged"} : <<r, s>> \in alerts'
  <2>1. CASE worker'[r] = worker[r]
    <3>1. row[r].status \in Terminal
      BY <1>3, <2>1 DEF StatusInv, Reported
    <3>2. row'[r].status = row[r].status
      <4>1. ~NotCommitted(r) /\ r \notin server.stale
        BY <1>3, <2>1, <3>1, ServerMoves DEF TriggerInv, CleanUpInv, Terminal
      <4>2. QED BY <1>3, <2>1, <3>1, <4>1, StatusStep
                DEF Queues, Starts, Cancels, Closes, Outcomes, Terminal
    <3>3. \E s \in {row[r].status, "logged"} : <<r, s>> \in alerts
      BY <1>3, <2>1, <3>2, ServerMoves DEF AlertInv
    <3>4. QED BY <1>2, <3>2, <3>3
  <2>2. CASE Notify(r)
    BY <1>3, <2>2 DEF Notify
  <2>3. CASE Publish(r)
    <3>1. worker[r] = "publish" /\ row' = row
      BY <2>3 DEF Publish
    <3>2. QED BY <1>2, <1>3, <3>1, ServerMoves DEF AlertInv
  <2>4. CASE DbFault(r)
    <3>1. worker[r] \in {"alertReturn", "alertPublish"}
      BY <1>1, <1>3, <2>4 DEF DbFault, Goto
    <3>2. QED BY <2>4, <3>1 DEF DbFault
  <2>5. ASSUME WorkerStep(r), ~Notify(r), ~Publish(r), worker'[r] # worker[r] PROVE FALSE
    BY <1>1, <1>3, <2>5
       DEF WorkerStep, Load, Spawn, Register, Wait, KillTimedOut, Unregister, CheckCancelled,
           FinishRun, Finish, Goto
  <2>6. QED BY <1>3, <2>1, <2>2, <2>3, <2>4, <2>5, ThreadMoves DEF Begins
<1>4. QED BY <1>3 DEF AlertInv

(* A run that was lost keeps its status until the clean-up or a cancel. *)
LEMMA LostStays ==
  ASSUME TypeOK, QueueInv, TriggerInv, [Next]_vars, NEW r \in Runs,
         server'.phase # "down", worker'[r] = "lost"
  PROVE  /\ worker[r] = "lost" /\ ~NotCommitted(r)
         /\ row'[r].status = row[r].status \/ Cancels(r) \/ Closes(r)
<1>1. worker \in [Runs -> WorkerPc] /\ server \in Server
  BY DEF TypeOK
<1>2. worker[r] = "lost"
  <2>1. ASSUME WorkerStep(r) \/ DbFault(r) PROVE worker'[r] # "lost"
    BY <1>1, <2>1
       DEF WorkerStep, Load, Spawn, Register, Wait, KillTimedOut, Unregister, CheckCancelled,
           FinishRun, Finish, Notify, Publish, DbFault, Goto
  <2>2. ~Crash
    BY <1>1 DEF Crash, Server
  <2>3. QED BY <2>1, <2>2, ThreadMoves DEF Begins
<1>3. ~NotCommitted(r)
  BY <1>2 DEF TriggerInv, NotCommitted
<1>4. QED BY <1>2, <1>3, StatusStep DEF Queues, Starts, Outcomes

(* The clean-up of a start closes what a crash left and overtakes no run   *)
(* but those of the command line and of the scheduler.                     *)
LEMMA CleanUpPreserved ==
  ASSUME TypeOK, QueueInv, TriggerInv, StatusInv, CleanUpInv, [Next]_vars PROVE CleanUpInv'
<1>1. /\ server \in Server /\ row \in [Runs -> Row] /\ worker \in [Runs -> WorkerPc]
      /\ trigger \in [Runs -> {"idle", "pending", "done"}]
  BY DEF TypeOK
<1>2. CASE CleanUpRead
  <2> DEFINE stale == {r \in Runs : Stale(r)}
  <2>1. /\ server.phase = "starting" /\ UNCHANGED <<row, worker, trigger>>
        /\ server'.phase = "cleaning" /\ server'.stale = stale
        /\ server'.overtaken = server.overtaken \cup {r \in stale : worker[r] \notin Ended}
    BY <1>2 DEF CleanUpRead
  <2>2. ASSUME NEW r \in stale PROVE ~NotCommitted(r) /\ worker[r] # "done"
    BY DEF Stale, TriggerInv, StatusInv, Reported, Terminal
  <2>3. ASSUME NEW r \in stale, worker[r] \notin Ended PROVE r \in CliRuns \cup ScheduledRuns
    <3>1. CASE r \in ServerRuns \ ScheduledRuns
      BY <2>1, <2>2, <2>3, <3>1 DEF TriggerInv, CannotFire, Serving, NotCommitted
    <3>2. QED BY <3>1 DEF ServerRuns
  <2>4. server'.overtaken \subseteq CliRuns \cup ScheduledRuns
    BY <2>1, <2>3 DEF CleanUpInv
  <2>5. ASSUME NEW r \in stale
        PROVE  /\ ~NotCommitted(r)'
               /\ r \notin server'.overtaken => /\ worker'[r] \in {"dead", "lost"}
                                                /\ row'[r].status \in {"queued", "running", "cancelled"}
    BY <2>1, <2>2 DEF Stale, Ended, NotCommitted
  <2>6. \A r \in Runs : Stale(r)' => r \in stale
    BY <2>1 DEF Stale
  <2>7. QED BY <2>1, <2>4, <2>5, <2>6 DEF CleanUpInv
<1>3. CASE Crash \/ Start \/ CleanUpCommit
  <2>1. /\ server'.stale = {} /\ server'.phase # "cleaning"
        /\ server'.overtaken = server.overtaken
    BY <1>1, <1>3 DEF Crash, Start, CleanUpCommit, CleanUpInv, Server
  <2>2. QED BY <2>1 DEF CleanUpInv
<1>4. CASE UNCHANGED server /\ ~CleanUpCommit /\ ~Crash
  <2>1. ASSUME NEW r \in server.stale
        PROVE  /\ server.phase = "cleaning" /\ ~NotCommitted(r)'
               /\ r \notin server.overtaken => /\ worker'[r] \in {"dead", "lost"}
                                               /\ row'[r].status \in {"queued", "running", "cancelled"}
    <3>1. r \in Runs /\ server.phase = "cleaning" /\ ~NotCommitted(r)
      BY <1>1 DEF CleanUpInv, Server
    <3>2. ~NotCommitted(r)'
      BY <1>1, <3>1, TriggerMoves DEF NotCommitted
    <3>3. ASSUME r \notin server.overtaken
          PROVE  worker'[r] \in {"dead", "lost"} /\ row'[r].status \in {"queued", "running", "cancelled"}
      <4>1. worker[r] \in {"dead", "lost"} /\ row[r].status \in {"queued", "running", "cancelled"}
        BY <3>3 DEF CleanUpInv
      <4>2. ~WorkerStep(r) /\ ~DbFault(r)
        BY <4>1 DEF WorkerStep, Load, Spawn, Register, Wait, KillTimedOut, Unregister,
                    CheckCancelled, FinishRun, Notify, Publish, DbFault
      <4>3. worker'[r] = worker[r]
        BY <1>4, <3>1, <4>1, <4>2, ThreadMoves DEF Begins
      <4>4. QED BY <1>4, <3>1, <4>1, <4>3, StatusStep DEF Queues, Starts, Cancels, Closes, Outcomes
    <3>4. QED BY <3>1, <3>2, <3>3
  <2>2. ASSUME NEW r \in Runs, server.phase = "cleaning", worker'[r] = "lost", Stale(r)'
        PROVE  r \in server.stale
    <3>1. worker[r] = "lost" /\ (row'[r].status = row[r].status \/ Cancels(r) \/ Closes(r))
      BY <1>4, <2>2, LostStays
    <3>2. Stale(r)
      BY <1>4, <2>2, <3>1, FinishedStays DEF Stale, Cancels, Closes
    <3>3. QED BY <2>2, <3>1, <3>2 DEF CleanUpInv
  <2>3. QED BY <1>4, <2>1, <2>2 DEF CleanUpInv
<1>5. QED BY <1>2, <1>3, <1>4, ServerMoves

(* What a crash left behind is closed by the next start, and stays closed. *)
LEMMA StalePreserved ==
  ASSUME TypeOK, QueueInv, TriggerInv, CleanUpInv, NoStaleRow, [Next]_vars PROVE NoStaleRow'
<1> SUFFICES ASSUME NEW r \in Runs, Serving', worker'[r] = "lost",
                    row'[r].status \in {"queued", "running"}
             PROVE  row'[r].finished
  BY DEF NoStaleRow
<1>1. row \in [Runs -> Row] /\ server \in Server
  BY DEF TypeOK
<1>2. worker[r] = "lost" /\ row'[r].status = row[r].status
  BY LostStays DEF Serving, Cancels, Closes
<1>3. CASE Serving
  <2>1. row[r].finished
    BY <1>2, <1>3 DEF NoStaleRow
  <2>2. QED BY <2>1, FinishedStays
<1>4. CASE ~Serving
  <2>1. CleanUpCommit
    BY <1>4, ServerMoves DEF Serving
  <2>2. r \notin server.stale
    BY <1>1, <2>1 DEF CleanUpCommit, Row
  <2>3. row'[r] = row[r] /\ server.phase = "cleaning"
    BY <2>1, <2>2 DEF CleanUpCommit
  <2>4. ~Stale(r)
    BY <1>2, <2>2, <2>3 DEF CleanUpInv
  <2>5. QED BY <2>3, <2>4 DEF Stale
<1>5. QED BY <1>3, <1>4

(* The second inductive invariant holds in every reachable state. *)
THEOREM RecordsHold == Spec => []RecordInv
<1>1. TypeOK /\ QueueInv /\ RecordInv /\ [Next]_vars => RecordInv'
  BY TriggerPreserved, StatusPreserved, AlertPreserved, CleanUpPreserved, StalePreserved
     DEF RecordInv
<1>2. Inv => QueueInv
  BY DEF Inv
<1>3. QED BY InitRecordInv, TypeCorrect, InvariantHolds, <1>1, <1>2, PTL DEF Spec

(* A thread that recorded a failure or a timeout has reported it, whatever *)
(* is written between its write and the dispatcher's read, or the          *)
(* dispatcher failed and the log says so.                                  *)
THEOREM FailuresAreAlerted == Spec => []FailureAlerted
<1>1. RecordInv => FailureAlerted
  BY DEF RecordInv, AlertInv, FailureAlerted
<1>2. QED BY <1>1, RecordsHold, PTL

(* Once the server serves requests again, every run that died with it has  *)
(* an end, and no handler undoes that.                                     *)
THEOREM NoRowStaysStale == Spec => []NoStaleRow
<1>1. RecordInv => NoStaleRow
  BY DEF RecordInv
<1>2. QED BY <1>1, RecordsHold, PTL

(* After a thread or the clean-up of a start has recorded an outcome, only *)
(* a cancel replaces it, but for a run the scheduler fired before the      *)
(* clean-up, while its thread or the clean-up is still to write.           *)
THEOREM OutcomeIsDecidedOnce == Spec => OneOutcome
<1> DEFINE Decided == \A r \in ServerRuns :
                        row[r].status \in Terminal \ {"cancelled"} /\ ~Contested(r)
                          => row'[r].status \in {row[r].status, "cancelled"}
<1>1. TypeOK /\ RecordInv /\ [Next]_vars => [Decided]_vars
  <2> SUFFICES ASSUME TypeOK, RecordInv, [Next]_vars, NEW r \in ServerRuns,
                      row[r].status \in Terminal \ {"cancelled"}, ~Contested(r)
               PROVE  row'[r].status \in {row[r].status, "cancelled"}
    OBVIOUS
  <2>1. r \in Runs
    BY DEF ServerRuns
  <2>2. ~NotCommitted(r)
    BY <2>1 DEF RecordInv, TriggerInv, Terminal
  <2>3. /\ worker[r] \notin {"load", "finTimeout", "finCancelled", "finExit", "finError"}
        /\ r \notin server.stale
    <3>1. CASE r \in server.overtaken
      <4>1. r \in ScheduledRuns
        BY <3>1 DEF RecordInv, CleanUpInv, ServerRuns
      <4>2. QED BY <3>1, <4>1 DEF Contested, Ended
    <3>2. CASE r \notin server.overtaken
      BY <2>1, <3>2 DEF RecordInv, StatusInv, CleanUpInv, Terminal, Executing, Reported
    <3>3. QED BY <3>1, <3>2
  <2>4. QED
    BY <2>1, <2>2, <2>3, StatusStep DEF Queues, Starts, Cancels, Closes, Outcomes, Terminal
<1>2. QED BY <1>1, TypeCorrect, RecordsHold, PTL DEF Spec, OneOutcome

-----------------------------------------------------------------------------
(* What a cancel that came while the script executed leaves behind: as     *)
(* long as the thread has not looked, the row says so; and a thread that   *)
(* has looked is not on the way on which SUCCESS is recorded.              *)
Stuck(r) ==
  /\ worker[r] \notin {"idle", "load", "finExit"}
  /\ InScript(r) => row[r].status = "cancelled" /\ r \notin server.stale
  /\ row[r].status # "success"

LEMMA StuckStays ==
  ASSUME TypeOK, QueueInv, TriggerInv, [Next]_vars, NEW r \in Runs, Stuck(r)
  PROVE  Stuck(r)'
<1>1. worker \in [Runs -> WorkerPc] /\ server \in Server
  BY DEF TypeOK
<1>2. row'[r].status # "success"
  BY StatusStep DEF Stuck, Queues, Starts, Cancels, Closes, Outcomes
<1>3. CASE worker'[r] = worker[r]
  <2>1. ASSUME InScript(r) PROVE row'[r].status = "cancelled" /\ r \notin server'.stale
    <3>1. row[r].status = "cancelled" /\ r \notin server.stale
      BY <2>1 DEF Stuck
    <3>2. ~NotCommitted(r)
      BY <3>1 DEF TriggerInv
    <3>3. r \notin server'.stale
      BY <3>1, ServerMoves DEF Stale
    <3>4. QED
      BY <1>3, <2>1, <3>1, <3>2, <3>3, StatusStep
         DEF Queues, Starts, Cancels, Closes, Outcomes, InScript
  <2>2. QED BY <1>2, <1>3, <2>1 DEF Stuck, InScript
<1>4. CASE WorkerStep(r)
  <2>1. CASE FinishRun(r)
    BY <1>1, <1>2, <2>1 DEF FinishRun, Finish, Goto, Stuck, InScript
  <2>2. CASE ~FinishRun(r)
    <3>1. ~Load(r)
      BY DEF Load, Stuck
    <3>2. row' = row /\ server' = server
      BY <1>4, <2>2, <3>1 DEF WorkerStep, Spawn, Register, Wait, KillTimedOut, Unregister,
                              CheckCancelled, Notify, Publish
    <3>3. QED
      BY <1>1, <1>4, <2>2, <3>1, <3>2
         DEF WorkerStep, Spawn, Register, Wait, KillTimedOut, Unregister, CheckCancelled, Notify,
             Publish, Goto, Stuck, InScript
  <2>3. QED BY <2>1, <2>2
<1>5. CASE DbFault(r)
  BY <1>1, <1>2, <1>5 DEF DbFault, Goto, Stuck, InScript
<1>6. CASE worker'[r] = "lost"
  BY <1>2, <1>6 DEF Stuck, InScript
<1>7. QED BY <1>3, <1>4, <1>5, <1>6, ThreadMoves DEF Begins, Stuck

(* A cancel that reaches the row while the script executes is never turned *)
(* into SUCCESS, whatever the script returns and whichever transaction     *)
(* fails afterwards.                                                       *)
THEOREM CancelIsKept == Spec => CancelSticks
<1>1. ASSUME NEW r \in Runs
      PROVE  Spec => [](row[r].status = "cancelled" /\ InScript(r) /\ r \notin server.stale
                          => [](row[r].status # "success"))
  <2>1. row[r].status = "cancelled" /\ InScript(r) /\ r \notin server.stale => Stuck(r)
    BY DEF Stuck, InScript
  <2>2. TypeOK /\ Inv /\ RecordInv /\ [Next]_vars /\ Stuck(r) => Stuck(r)'
    BY StuckStays DEF Inv, RecordInv
  <2>3. Stuck(r) => row[r].status # "success"
    BY DEF Stuck
  <2>4. QED BY <2>1, <2>2, <2>3, TypeCorrect, InvariantHolds, RecordsHold, PTL DEF Spec
<1>2. QED BY <1>1 DEF CancelSticks

-----------------------------------------------------------------------------
(* The tasks of the pool, as ScriptRuns has them. *)
Over(r)  == worker[r] \in Ended
Finished == {r \in ServerRuns : Over(r)}

(* A step of a thread that stays within execute_script, or leaves it. *)
LEMMA ThreadInPool ==
  ASSUME TypeOK, QueueInv, NEW r \in Runs, WorkerStep(r) \/ DbFault(r)
  PROVE  /\ UNCHANGED queue
         /\ \/ Busy' = Busy /\ Finished' = Finished
            \/ /\ r \in Busy
               /\ Busy' = Busy \ {r}
               /\ Finished' = Finished \cup {r}
<1>1. worker \in [Runs -> WorkerPc] /\ ServerRuns \subseteq Runs
  BY DEF TypeOK, ServerRuns
<1>2. PICK pc \in WorkerPc \ {"idle"} : Goto(r, pc)
  BY WorkerMoves
<1>3. worker[r] \in Executing /\ pc \in Executing \cup Ended /\ UNCHANGED queue
  <2>1. worker[r] \in Executing
    BY DEF WorkerStep, Load, Spawn, Register, Wait, KillTimedOut, Unregister, CheckCancelled,
           FinishRun, Notify, Publish, DbFault, Executing, Registered
  <2>2. QED BY <2>1, <1>2, WorkerMoves DEF WorkerPc
<1>4. Executing \cap Ended = {}
  BY DEF Executing, Registered, Ended
<1>5. CASE pc \in Executing \/ r \notin ServerRuns
  BY <1>1, <1>2, <1>3, <1>4, <1>5 DEF Goto, Busy, Finished, Over
<1>6. CASE pc \in Ended /\ r \in ServerRuns
  BY <1>1, <1>2, <1>3, <1>4, <1>6 DEF Goto, Busy, Finished, Over
<1>7. QED BY <1>3, <1>5, <1>6

(* Every step of the program is a step of the pool or none. *)
LEMMA PoolStep ==
  ASSUME TypeOK, QueueInv, [Next]_vars PROVE [Pool!Next]_(Pool!vars)
<1>1. /\ queue \in Seq(ServerRuns) /\ worker \in [Runs -> WorkerPc] /\ ServerRuns \subseteq Runs
      /\ trigger \in [Runs -> {"idle", "pending", "done"}]
  BY DEF TypeOK, ServerRuns
<1>2. Finished = {r \in ServerRuns : worker[r] \in Ended}
  BY DEF Finished, Over
<1>3. CASE UNCHANGED <<queue, worker>>
  BY <1>3 DEF Pool!vars, Busy
<1>4. ASSUME NEW r \in ServerRuns, ~Submitted(r), queue' = Append(queue, r), UNCHANGED worker
      PROVE  Pool!Submit(r)
  <2>1. worker[r] = "idle" /\ \A i \in 1..Len(queue) : queue[i] # r
    BY <1>1, <1>4 DEF QueueInv
  <2>2. r \notin Pool!Range(queue)
    BY <1>1, <2>1 DEF Pool!Range
  <2>3. r \notin Busy /\ r \notin {q \in ServerRuns : worker[q] \in Ended}
    BY <2>1 DEF Busy, Executing, Registered, Ended
  <2>4. UNCHANGED Busy
    BY <1>4 DEF Busy
  <2>5. QED BY <1>4, <2>2, <2>3, <2>4 DEF Pool!Submit
<1>5. ASSUME NEW r \in Runs, TriggerStep(r)
      PROVE  \/ UNCHANGED <<queue, worker>>
             \/ r \in ServerRuns /\ ~Submitted(r) /\ queue' = Append(queue, r) /\ UNCHANGED worker
             \/ CliTrigger(r) /\ trigger[r] = "pending" /\ worker' = [worker EXCEPT ![r] = "load"]
  BY <1>5, RunsAssumption
     DEF TriggerStep, CommitThenSubmit, SubmitCommitted, SubmitFlushed, CommitFlushed, CliTrigger,
         Submitted, ServerRuns, RunsAssumption
<1>6. ASSUME NEW r \in Runs, CliTrigger(r), worker' = [worker EXCEPT ![r] = "load"]
      PROVE  UNCHANGED Pool!vars
  <2>1. UNCHANGED queue /\ r \notin ServerRuns
    BY <1>6 DEF CliTrigger, ServerRuns
  <2>2. \A q \in ServerRuns : worker'[q] = worker[q]
    BY <1>1, <1>6, <2>1
  <2>3. QED BY <2>1, <2>2 DEF Pool!vars, Busy
<1>7. CASE PickUp
  <2>1. queue[1] \in ServerRuns /\ Head(queue) = queue[1] /\ worker[queue[1]] = "idle"
    BY <1>1, <1>7 DEF PickUp, QueueInv
  <2>2. worker' = [worker EXCEPT ![queue[1]] = "load"]
    BY <1>7, <2>1 DEF PickUp
  <2>3. Busy' = Busy \cup {queue[1]}
    BY <1>1, <2>1, <2>2 DEF Busy, Executing
  <2>4. Finished' = Finished
    BY <1>1, <2>1, <2>2 DEF Finished, Over, Ended
  <2>5. Pool!Cardinality(Busy) = Cardinality(Busy)
    BY DEF Pool!Cardinality, Cardinality
  <2>6. Pool!Start
    BY <1>2, <1>7, <2>1, <2>3, <2>4, <2>5 DEF PickUp, Pool!Start, Finished, Over
  <2>7. QED BY <2>6 DEF Pool!Next
<1>8. ASSUME NEW r \in Runs, WorkerStep(r) \/ DbFault(r) PROVE [Pool!Next]_(Pool!vars)
  <2>1. CASE Busy' = Busy /\ Finished' = Finished
    BY <1>8, <2>1, ThreadInPool DEF Pool!vars, Finished, Over
  <2>2. CASE r \in Busy /\ Busy' = Busy \ {r} /\ Finished' = Finished \cup {r}
    <3>1. r \in ServerRuns
      BY <2>2 DEF Busy
    <3>2. QED BY <1>8, <2>2, <3>1, ThreadInPool DEF Pool!Next, Pool!End, Finished, Over
  <2>3. QED BY <1>8, <2>1, <2>2, ThreadInPool
<1>9. CASE Crash
  <2> DEFINE lost == {r \in ServerRuns : Lost(r)}
  <2>1. lost \in SUBSET ServerRuns
    OBVIOUS
  <2>2. Pool!Range(queue) \subseteq lost
    <3>1. ASSUME NEW i \in 1..Len(queue) PROVE queue[i] \in lost
      BY <1>1, <3>1 DEF QueueInv, Submitted, Lost, Ended
    <3>2. QED BY <1>1, <3>1 DEF Pool!Range
  <2>3. Busy \subseteq lost
    <3>1. ASSUME NEW r \in Busy PROVE r \in lost
      <4>1. r \in ServerRuns /\ worker[r] \in Executing
        BY DEF Busy
      <4>2. worker[r] # "idle" /\ worker[r] \notin Ended
        BY <4>1 DEF Executing, Registered, Ended
      <4>3. trigger[r] # "idle"
        BY <1>1, <4>1, <4>2 DEF QueueInv, Submitted
      <4>4. QED BY <4>1, <4>2, <4>3 DEF Lost
    <3>2. QED BY <3>1
  <2>4. \A r \in ServerRuns : worker'[r] = IF Lost(r) THEN "lost" ELSE worker[r]
    BY <1>1, <1>9 DEF Crash
  <2>5. Busy' = {}
    <3>1. \A r \in ServerRuns : worker'[r] \notin Executing
      BY <2>3, <2>4 DEF Busy, Executing, Registered
    <3>2. QED BY <3>1 DEF Busy
  <2>6. Finished' = Finished \cup lost
    BY <2>4 DEF Finished, Over, Ended
  <2>7. queue' = <<>>
    BY <1>9 DEF Crash
  <2>8. Pool!Crash
    BY <2>1, <2>2, <2>3, <2>5, <2>6, <2>7 DEF Pool!Crash, Finished, Over
  <2>9. QED BY <2>8 DEF Pool!Next
<1>10. ASSUME NEW r \in Runs, TriggerStep(r) PROVE [Pool!Next]_(Pool!vars)
  BY <1>3, <1>4, <1>5, <1>6, <1>10 DEF Pool!Next
<1>11. QED
  BY <1>3, <1>7, <1>8, <1>9, <1>10
     DEF Next, vars, Quiet, ProcExit, CliCancel, DeleteScript, CancelStep, CancelRead, CancelCommit,
         CancelLookup, CancelTerminate, CancelGrace, Start, CleanUpRead, CleanUpCommit

(* The tasks of the server are started in the order of their submission,   *)
(* each once, and never more than Concurrency at a time, across crashes.   *)
THEOREM PoolIsImplemented == Spec => PoolSpec
<1>1. Init => Pool!Init
  <2> SUFFICES ASSUME Init PROVE Pool!Init OBVIOUS
  <2>1. \A r \in ServerRuns : worker[r] = "idle"
    BY DEF Init, ServerRuns
  <2>2. Busy = {} /\ {r \in ServerRuns : worker[r] \in Ended} = {}
    BY <2>1 DEF Busy, Executing, Registered, Ended
  <2>3. QED BY <2>2 DEF Init, Pool!Init
<1>2. TypeOK /\ Inv /\ [Next]_vars => [Pool!Next]_(Pool!vars)
  BY PoolStep DEF Inv
<1>3. QED BY <1>1, <1>2, TypeCorrect, InvariantHolds, PTL DEF Spec, PoolSpec, Pool!Spec

-----------------------------------------------------------------------------
(* When nobody cancels, no row says CANCELLED. *)
NoCancels == CancelReqs = {} /\ MaxCliCancels = 0

Uncancelled ==
  /\ budget.cliCancels = 0
  /\ \A r \in Runs : row[r].status # "cancelled" /\ worker[r] # "finCancelled"

LEMMA UncancelledStays ==
  ASSUME NoCancels, TypeOK, QueueInv, Uncancelled, [Next]_vars PROVE Uncancelled'
<1>1. /\ row \in [Runs -> Row] /\ worker \in [Runs -> WorkerPc]
      /\ budget \in [crashes: Nat, dbFaults: Nat, cliCancels: Nat, deletes: Nat]
  BY DEF TypeOK
<1>2. ASSUME NEW r \in Runs PROVE ~CliCancel(r)
  BY DEF CliCancel, Uncancelled
<1>3. budget'.cliCancels = 0
  <2>1. ASSUME UNCHANGED budget PROVE budget'.cliCancels = 0
    BY <2>1 DEF Uncancelled
  <2>2. ASSUME NEW r \in Runs, DbFault(r) \/ DeleteScript(r) PROVE budget'.cliCancels = 0
    BY <1>1, <2>2 DEF DbFault, DeleteScript, Uncancelled
  <2>3. ASSUME Crash PROVE budget'.cliCancels = 0
    BY <1>1, <2>3 DEF Crash, Uncancelled
  <2>4. QED
    BY <1>2, <2>1, <2>2, <2>3
       DEF Next, vars, Quiet, TriggerStep, CommitThenSubmit, SubmitCommitted, SubmitFlushed,
           CommitFlushed, CliTrigger, PickUp, WorkerStep, Load, Spawn, Register, Wait, KillTimedOut,
           Unregister, CheckCancelled, FinishRun, Notify, Publish, ProcExit, CancelStep, CancelRead,
           CancelCommit, CancelLookup, CancelTerminate, CancelGrace, Start, CleanUpRead, CleanUpCommit
<1>4. ASSUME NEW r \in Runs PROVE worker'[r] # "finCancelled"
  <2>1. ASSUME WorkerStep(r) \/ DbFault(r) PROVE worker'[r] # "finCancelled"
    BY <1>1, <2>1
       DEF WorkerStep, Load, Spawn, Register, Wait, KillTimedOut, Unregister, CheckCancelled,
           FinishRun, Finish, Notify, Publish, DbFault, Goto, Uncancelled
  <2>2. QED BY <2>1, ThreadMoves DEF Begins, Uncancelled
<1>5. ASSUME NEW r \in Runs PROVE row'[r].status # "cancelled"
  <2>1. CASE UNCHANGED row
    BY <2>1 DEF Uncancelled
  <2>2. ASSUME NEW q \in Runs, CommitQueued(q) \/ Load(q) \/ DeleteScript(q)
        PROVE  row'[r].status # "cancelled"
    <3>1. CASE CommitQueued(q) BY <1>1, <3>1 DEF CommitQueued, Row, Uncancelled
    <3>2. CASE Load(q)         BY <1>1, <3>2 DEF Load, Row, Uncancelled
    <3>3. CASE DeleteScript(q) BY <1>1, <3>3 DEF DeleteScript, Row, Uncancelled
    <3>4. QED BY <2>2, <3>1, <3>2, <3>3
  <2>3. ASSUME NEW q \in Runs, FinishRun(q) PROVE row'[r].status # "cancelled"
    <3>1. ASSUME NEW s, s # "cancelled", NEW e, NEW pc, Finish(q, s, e, pc)
          PROVE  row'[r].status # "cancelled"
      BY <1>1, <3>1 DEF Finish, Row, Uncancelled
    <3>2. QED BY <2>3, <3>1 DEF FinishRun, Uncancelled
  <2>4. CASE CleanUpCommit
    BY <1>1, <2>4 DEF CleanUpCommit, Row, Uncancelled
  <2>5. ASSUME NEW q \in Runs, TriggerStep(q) PROVE CommitQueued(q) \/ UNCHANGED row
    BY <2>5 DEF TriggerStep, CommitThenSubmit, SubmitCommitted, SubmitFlushed, CommitFlushed, CliTrigger
  <2>6. ASSUME NEW q \in Runs, WorkerStep(q) PROVE Load(q) \/ FinishRun(q) \/ UNCHANGED row
    BY <2>6 DEF WorkerStep, Spawn, Register, Wait, KillTimedOut, Unregister, CheckCancelled,
                Notify, Publish
  <2>7. QED
    BY <1>2, <2>1, <2>2, <2>3, <2>4, <2>5, <2>6
       DEF NoCancels, Next, vars, Quiet, PickUp, DbFault, ProcExit, Crash, Start, CleanUpRead
<1>6. QED BY <1>3, <1>4, <1>5 DEF Uncancelled

(* The rows, as the documentation's life of a run sees them. *)
Statuses == [r \in WebRuns |-> row[r].status]
Stamps   == [r \in WebRuns |-> row[r].finished]

LEMMA LifecycleStep ==
  ASSUME NoCancels, TypeOK, QueueInv, RecordInv, Uncancelled, [Next]_vars
  PROVE  [Lifecycle!Next]_(Lifecycle!vars)
<1>1. /\ row \in [Runs -> Row] /\ row' \in [Runs -> Row] /\ worker \in [Runs -> WorkerPc]
      /\ CancelReqs = {} /\ WebRuns \subseteq ServerRuns \ server.overtaken /\ WebRuns \subseteq Runs
  <2>1. TypeOK'
    BY TypeStays
  <2>2. QED BY <2>1 DEF TypeOK, NoCancels, ServerRuns, WebRuns, RecordInv, CleanUpInv
<1>2. CASE Statuses' = Statuses /\ Stamps' = Stamps
  BY <1>2 DEF Lifecycle!vars, Statuses, Stamps
<1>3. ASSUME NEW r \in WebRuns, TriggerStep(r), CommitQueued(r), row' # row PROVE Lifecycle!Create(r)
  <2>1. NotCommitted(r)
    BY <1>1, <1>3 DEF TriggerStep, CommitThenSubmit, SubmitCommitted, SubmitFlushed, CommitFlushed,
                      CliTrigger, NotCommitted, ServerRuns
  <2>2. Statuses[r] = "absent"
    BY <1>1, <2>1 DEF RecordInv, TriggerInv, Statuses
  <2>3. Statuses' = [Statuses EXCEPT ![r] = "queued"]
    BY <1>1, <1>3 DEF CommitQueued, Statuses, Row
  <2>4. Stamps' = Stamps
    BY <1>1, <1>3 DEF CommitQueued, Stamps, Row
  <2>5. QED BY <2>2, <2>3, <2>4 DEF Lifecycle!Create, Statuses, Stamps
<1>4. ASSUME NEW r \in WebRuns, Load(r), row' # row PROVE Lifecycle!Start(r)
  <2>1. row' = [row EXCEPT ![r] = [@ EXCEPT !.status = "running", !.started = TRUE]]
    BY <1>4 DEF Load
  <2>2. Statuses[r] = "queued"
    BY <1>1, <1>4 DEF Load, RecordInv, StatusInv, Uncancelled, Statuses
  <2>3. Statuses' = [Statuses EXCEPT ![r] = "running"]
    BY <1>1, <2>1 DEF Statuses, Row
  <2>4. Stamps' = Stamps
    BY <1>1, <2>1 DEF Stamps, Row
  <2>5. QED BY <2>2, <2>3, <2>4 DEF Lifecycle!Start, Statuses, Stamps
<1>5. ASSUME \A r \in WebRuns : \/ row'[r].status = row[r].status /\ row'[r].finished = row[r].finished
                             \/ /\ row[r].status \in {"queued", "running"}
                                /\ row'[r].status \in Terminal /\ row'[r].finished
      PROVE  Lifecycle!End
  <2>1. Statuses' \in [WebRuns -> {"absent", "queued", "running"} \cup Lifecycle!Outcome]
    BY <1>1 DEF Statuses, Row, Status, Terminal, Lifecycle!Outcome
  <2>2. Stamps' \in [WebRuns -> BOOLEAN]
    BY <1>1 DEF Stamps, Row
  <2>3. \A r \in WebRuns : Lifecycle!Ends(r) \/ Lifecycle!Keeps(r)
    BY <1>5 DEF Lifecycle!Ends, Lifecycle!Keeps, Lifecycle!Outcome, Terminal
  <2>4. QED BY <2>1, <2>2, <2>3 DEF Lifecycle!End, Statuses, Stamps
<1>6. ASSUME NEW r \in WebRuns, FinishRun(r) PROVE Lifecycle!End
  <2>1. row[r].status = "running"
    BY <1>1, <1>6 DEF FinishRun, RecordInv, StatusInv, Uncancelled, Executing, Reported
  <2>2. ASSUME NEW s \in Terminal, NEW e, NEW pc, Finish(r, s, e, pc) PROVE Lifecycle!End
    <3>1. \A q \in Runs \ {r} : row'[q] = row[q]
      BY <1>1, <2>2 DEF Finish
    <3>2. row'[r].status = s /\ row'[r].finished
      BY <1>1, <2>2 DEF Finish, Row
    <3>3. \A q \in WebRuns : q # r => row'[q] = row[q]
      BY <1>1, <3>1
    <3>4. QED BY <1>5, <2>1, <3>2, <3>3
  <2>3. QED BY <1>6, <2>2 DEF FinishRun, Terminal
<1>7. CASE CleanUpCommit
  <2>1. ASSUME NEW r \in WebRuns
        PROVE  \/ row'[r].status = row[r].status /\ row'[r].finished = row[r].finished
               \/ /\ row[r].status \in {"queued", "running"}
                  /\ row'[r].status \in Terminal /\ row'[r].finished
    <3>1. CASE r \in server.stale
      <4>1. row[r].status \in {"queued", "running"}
        BY <1>1, <3>1 DEF RecordInv, CleanUpInv, Uncancelled
      <4>2. row'[r].status = "failed" /\ row'[r].finished
        BY <1>1, <1>7, <3>1 DEF CleanUpCommit, Row
      <4>3. QED BY <4>1, <4>2 DEF Terminal
    <3>2. CASE r \notin server.stale
      BY <1>1, <1>7, <3>2 DEF CleanUpCommit
    <3>3. QED BY <3>1, <3>2
  <2>2. QED BY <1>5, <2>1 DEF Lifecycle!Next
<1>8. ASSUME NEW r \in Runs, DeleteScript(r) PROVE Statuses' = Statuses /\ Stamps' = Stamps
  BY <1>1, <1>8 DEF DeleteScript, Statuses, Stamps, Row
<1>9. ASSUME UNCHANGED row PROVE Statuses' = Statuses /\ Stamps' = Stamps
  BY <1>9 DEF Statuses, Stamps
<1>10. ASSUME NEW r \in Runs \ WebRuns, CommitQueued(r) \/ Load(r) \/ FinishRun(r)
       PROVE  Statuses' = Statuses /\ Stamps' = Stamps
  <2>1. \A q \in WebRuns : row'[q] = row[q]
    BY <1>1, <1>10 DEF CommitQueued, Load, FinishRun, Finish
  <2>2. QED BY <2>1 DEF Statuses, Stamps
<1>11. QED
  <2>1. ASSUME NEW q \in Runs, TriggerStep(q) PROVE CommitQueued(q) \/ UNCHANGED row
    BY <2>1 DEF TriggerStep, CommitThenSubmit, SubmitCommitted, SubmitFlushed, CommitFlushed, CliTrigger
  <2>2. ASSUME NEW q \in Runs, WorkerStep(q) PROVE Load(q) \/ FinishRun(q) \/ UNCHANGED row
    BY <2>2 DEF WorkerStep, Spawn, Register, Wait, KillTimedOut, Unregister, CheckCancelled,
                Notify, Publish
  <2>3. ASSUME NEW q \in Runs PROVE ~CliCancel(q)
    BY DEF CliCancel, Uncancelled
  <2>4. \/ UNCHANGED row \/ CleanUpCommit
        \/ \E r \in Runs : \/ (TriggerStep(r) /\ CommitQueued(r)) \/ Load(r) \/ FinishRun(r)
                           \/ DeleteScript(r)
    BY <1>1, <2>1, <2>2, <2>3
       DEF Next, vars, Quiet, PickUp, DbFault, ProcExit, Crash, Start, CleanUpRead
  <2>5. ASSUME NEW r \in Runs, (TriggerStep(r) /\ CommitQueued(r)) \/ Load(r) \/ FinishRun(r)
        PROVE  [Lifecycle!Next]_(Lifecycle!vars)
    <3>1. CASE r \in WebRuns
      BY <1>2, <1>3, <1>4, <1>6, <1>9, <2>5, <3>1 DEF Lifecycle!Next
    <3>2. CASE r \notin WebRuns
      BY <1>2, <1>10, <2>5, <3>2
    <3>3. QED BY <3>1, <3>2
  <2>6. QED
    BY <1>2, <1>7, <1>8, <1>9, <2>4, <2>5

(* When nobody cancels, every run that was started through the pages or    *)
(* the REST interface lives the life the documentation gives it, across    *)
(* crashes of the server, clean-ups and failing transactions.              *)
THEOREM LifecycleIsImplemented ==
  ASSUME CancelReqs = {}, MaxCliCancels = 0
  PROVE  Spec => LifecycleSpec
<1>1. NoCancels
  BY DEF NoCancels
<1>2. Init => Lifecycle!Init
  <2> SUFFICES ASSUME Init PROVE Lifecycle!Init OBVIOUS
  <2>1. \A r \in WebRuns : row[r].status = "absent" /\ row[r].finished = FALSE
    BY DEF Init, WebRuns, ServerRuns
  <2>2. QED BY <2>1 DEF Lifecycle!Init
<1>3. Init => Uncancelled
  BY <1>1 DEF Init, Uncancelled, NoCancels
<1>4. TypeOK /\ Inv /\ Uncancelled /\ [Next]_vars => Uncancelled'
  BY <1>1, UncancelledStays DEF Inv
<1>5. TypeOK /\ Inv /\ RecordInv /\ Uncancelled /\ [Next]_vars => [Lifecycle!Next]_(Lifecycle!vars)
  BY <1>1, LifecycleStep DEF Inv
<1>6. QED
  BY <1>2, <1>3, <1>4, <1>5, TypeCorrect, InvariantHolds, RecordsHold, PTL
     DEF Spec, LifecycleSpec, Lifecycle!Spec
=============================================================================
