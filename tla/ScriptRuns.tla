----------------------------- MODULE ScriptRuns -----------------------------
(***************************************************************************)
(* The life of a script run: the HTTP, scheduler and CLI code that creates *)
(* its row and submits its task, the thread pool of the server, the steps  *)
(* of execute_script in a pool thread, the operating-system process, the   *)
(* registry of live processes, the cancel handlers, the notification that  *)
(* follows a run, and what a crash of the server and the clean-up of its   *)
(* next start do to all of them.                                           *)
(*                                                                         *)
(* One action is one step that other threads can observe: a committed      *)
(* database transaction, an operation on the registry under its lock, or a *)
(* call on the process.  Exit codes are abstracted to zero and nonzero.    *)
(*                                                                         *)
(* A definition named A_Slip is the definition A that follows it with a    *)
(* plausible slip in the code; no action uses it.  It is there to show     *)
(* that a property would notice the slip.                                  *)
(***************************************************************************)
EXTENDS Naturals, FiniteSets, Sequences

CONSTANTS
  Runs,          \* rows of the table "runs", each with a script of its own
  RestRuns,      \* those triggered by POST /api/scripts/{id}/run
  ScheduledRuns, \* those fired by the scheduler
  CliRuns,       \* those executed by "scriptmgr script run", in its own process
  TimedRuns,     \* those whose script has timeout_sec # 0
  EndlessRuns,   \* those whose script never ends unless it is signalled
  CancelReqs,    \* requests to a cancel handler of the server
  Concurrency,   \* worker_concurrency of the server's pool
  MaxCrashes, MaxDbFaults, MaxCliCancels, MaxDeletes   \* bounds on the environment

ASSUME RunsAssumption == /\ RestRuns \subseteq Runs
                         /\ CliRuns \subseteq Runs \ RestRuns
                         /\ ScheduledRuns \subseteq Runs \ (RestRuns \cup CliRuns)
                         /\ TimedRuns \subseteq Runs
                         /\ EndlessRuns \subseteq Runs

ASSUME ConcurrencyAssumption == Concurrency \in Nat \ {0}

ASSUME BoundsAssumption == /\ MaxCrashes \in Nat
                           /\ MaxDbFaults \in Nat
                           /\ MaxCliCancels \in Nat
                           /\ MaxDeletes \in Nat

VARIABLES
  row,        \* the committed row of each run
  trigger,    \* how far the code that creates the run has come
  queue,      \* the work queue of the server's ThreadPoolExecutor
  worker,     \* where the thread that executes the run is in execute_script
  proc,       \* the process of the run
  live,       \* keys of _live_procs, of the process that executes the run
  cancel,     \* the cancel handlers of the server
  alerts,     \* notifications: pairs of a run and the status reported, or "logged"
  signalled,  \* runs for which "__done__" was published
  server,     \* how far the server's start has come, see Server below
  budget      \* what the environment may still do

vars == <<row, trigger, queue, worker, proc, live, cancel, alerts, signalled, server, budget>>

-----------------------------------------------------------------------------
(* Shapes of the state *)

Terminal == {"success", "failed", "cancelled", "timed_out"}
Status   == {"queued", "running"} \cup Terminal
ReportedAs == {"logged"} \cup (Status \ {"success"})
ExitCode == {"null", "zero", "nonzero"}

Row == [status: {"absent"} \cup Status, started: BOOLEAN, finished: BOOLEAN,
        exit: ExitCode, script: BOOLEAN]

Proc == [state: {"none", "running", "signalled", "exited"}, code: ExitCode]

Registered == {"wait", "kill", "reap", "join"}   \* between _register_proc and _unregister_proc
Executing  == {"load", "spawn", "register", "check", "except", "finTimeout", "finCancelled",
               "finExit", "finError", "alertReturn", "alertPublish", "publish"} \cup Registered
Ended      == {"done", "dead", "lost"}           \* returned, raised, killed with the server
WorkerPc   == {"idle"} \cup Executing \cup Ended

CancelPc == {"idle", "commit", "lookup", "terminate", "grace", "done"}

(* "stale" holds the rows that _cleanup_stale_runs of this start has read  *)
(* and not yet written.  "overtaken" records, for the properties only, the *)
(* runs that some clean-up took for stale although their task was still to *)
(* come or under way.                                                      *)
Server == [phase: {"down", "starting", "cleaning", "up"}, stale: SUBSET Runs,
           overtaken: SUBSET Runs]

ServerRuns == Runs \ CliRuns
Busy       == {r \in ServerRuns : worker[r] \in Executing}
Serving    == server.phase = "up"
Alive(r)   == proc[r].state \in {"running", "signalled"}

Init ==
  /\ row = [r \in Runs |-> [status |-> "absent", started |-> FALSE, finished |-> FALSE,
                            exit |-> "null", script |-> TRUE]]
  /\ trigger = [r \in Runs |-> "idle"]
  /\ queue = <<>>
  /\ worker = [r \in Runs |-> "idle"]
  /\ proc = [r \in Runs |-> [state |-> "none", code |-> "null"]]
  /\ live = {}
  /\ cancel \in [CancelReqs -> {[pc |-> "idle", run |-> r, stamp |-> FALSE] : r \in Runs}]
  /\ alerts = {}
  /\ signalled = {}
  /\ server = [phase |-> "down", stale |-> {}, overtaken |-> {}]
  /\ budget = [crashes |-> MaxCrashes, dbFaults |-> MaxDbFaults,
               cliCancels |-> MaxCliCancels, deletes |-> MaxDeletes]

-----------------------------------------------------------------------------
(* Creating a run and submitting its task *)

CommitQueued(r) == row' = [row EXCEPT ![r].status = "queued"]

(* The web interface and the scheduler commit the row first; the scheduler *)
(* runs as soon as the process does, before the server has cleaned up ...  *)
CommitThenSubmit(r) ==
  /\ r \in ServerRuns \ RestRuns /\ trigger[r] = "idle"
  /\ IF r \in ScheduledRuns THEN server.phase # "down" ELSE Serving
  /\ CommitQueued(r)
  /\ trigger' = [trigger EXCEPT ![r] = "pending"]
  /\ UNCHANGED <<queue, worker, proc, live, cancel, alerts, signalled, server, budget>>

(* ... and submit the task afterwards. *)
SubmitCommitted(r) ==
  /\ r \in ServerRuns \ RestRuns /\ trigger[r] = "pending"
  /\ queue' = Append(queue, r)
  /\ trigger' = [trigger EXCEPT ![r] = "done"]
  /\ UNCHANGED <<row, worker, proc, live, cancel, alerts, signalled, server, budget>>

(* The REST handler submits the task of a row it has only flushed; the     *)
(* session of the request commits when the handler has returned.           *)
SubmitFlushed(r) ==
  /\ r \in RestRuns /\ Serving /\ trigger[r] = "idle"
  /\ queue' = Append(queue, r)
  /\ trigger' = [trigger EXCEPT ![r] = "pending"]
  /\ UNCHANGED <<row, worker, proc, live, cancel, alerts, signalled, server, budget>>

CommitFlushed(r) ==
  /\ r \in RestRuns /\ trigger[r] = "pending"
  /\ CommitQueued(r)
  /\ trigger' = [trigger EXCEPT ![r] = "done"]
  /\ UNCHANGED <<queue, worker, proc, live, cancel, alerts, signalled, server, budget>>

(* The command line commits the row and executes it in a pool of its own   *)
(* process, which has no other task.                                       *)
CliTrigger(r) ==
  /\ r \in CliRuns
  /\ \/ /\ trigger[r] = "idle"
        /\ CommitQueued(r)
        /\ trigger' = [trigger EXCEPT ![r] = "pending"]
        /\ UNCHANGED worker
     \/ /\ trigger[r] = "pending"
        /\ trigger' = [trigger EXCEPT ![r] = "done"]
        /\ worker' = [worker EXCEPT ![r] = "load"]
        /\ UNCHANGED row
  /\ UNCHANGED <<queue, proc, live, cancel, alerts, signalled, server, budget>>

PickUp_NoLimit ==
  /\ queue # <<>>
  /\ worker' = [worker EXCEPT ![Head(queue)] = "load"]
  /\ queue' = Tail(queue)
  /\ UNCHANGED <<row, trigger, proc, live, cancel, alerts, signalled, server, budget>>

(* A pool thread takes the oldest task; the pool has Concurrency threads. *)
PickUp ==
  /\ queue # <<>> /\ Cardinality(Busy) < Concurrency
  /\ worker' = [worker EXCEPT ![Head(queue)] = "load"]
  /\ queue' = Tail(queue)
  /\ UNCHANGED <<row, trigger, proc, live, cancel, alerts, signalled, server, budget>>

-----------------------------------------------------------------------------
(* execute_script in the thread of run r *)

Goto(r, pc) == worker' = [worker EXCEPT ![r] = pc]

(* Reads the row and its script, marks the run RUNNING whatever its status *)
(* was; raises when the row or the script is missing.                      *)
Load(r) ==
  /\ worker[r] = "load"
  /\ IF row[r].status = "absent" \/ ~row[r].script
     THEN Goto(r, "dead") /\ UNCHANGED row
     ELSE Goto(r, "spawn") /\ row' = [row EXCEPT ![r] = [@ EXCEPT !.status = "running", !.started = TRUE]]
  /\ UNCHANGED <<trigger, queue, proc, live, cancel, alerts, signalled, server, budget>>

(* Popen, which may raise *)
Spawn(r) ==
  /\ worker[r] = "spawn"
  /\ \/ Goto(r, "register") /\ proc' = [proc EXCEPT ![r].state = "running"]
     \/ Goto(r, "except") /\ UNCHANGED proc
  /\ UNCHANGED <<row, trigger, queue, live, cancel, alerts, signalled, server, budget>>

Register(r) ==
  /\ worker[r] = "register"
  /\ live' = live \cup {r}
  /\ Goto(r, "wait")
  /\ UNCHANGED <<row, trigger, queue, proc, cancel, alerts, signalled, server, budget>>

Wait_NoTimeout(r) ==
  /\ worker[r] = "wait"
  /\ ~Alive(r) /\ Goto(r, "join")
  /\ UNCHANGED <<row, trigger, queue, proc, live, cancel, alerts, signalled, server, budget>>

(* proc.wait(timeout) returns, or raises TimeoutExpired *)
Wait(r) ==
  /\ worker[r] = "wait"
  /\ \/ ~Alive(r) /\ Goto(r, "join")
     \/ r \in TimedRuns /\ Alive(r) /\ Goto(r, "kill")
  /\ UNCHANGED <<row, trigger, queue, proc, live, cancel, alerts, signalled, server, budget>>

(* A process dies of the signal unless it has already exited. *)
Killed(r) == IF Alive(r) THEN [proc EXCEPT ![r] = [state |-> "exited", code |-> "nonzero"]]
                         ELSE proc

KillTimedOut_Terminate(r) ==
  /\ worker[r] = "kill"
  /\ proc' = IF Alive(r) THEN [proc EXCEPT ![r].state = "signalled"] ELSE proc
  /\ Goto(r, "reap")
  /\ UNCHANGED <<row, trigger, queue, live, cancel, alerts, signalled, server, budget>>

KillTimedOut(r) ==
  /\ worker[r] = "kill"
  /\ proc' = Killed(r)
  /\ Goto(r, "reap")
  /\ UNCHANGED <<row, trigger, queue, live, cancel, alerts, signalled, server, budget>>

Unregister_NotOnTimeout(r) ==
  /\ \/ worker[r] = "reap" /\ Goto(r, "finTimeout") /\ UNCHANGED live
     \/ worker[r] = "join" /\ Goto(r, "check") /\ live' = live \ {r}
     \/ worker[r] = "except" /\ Goto(r, "finError") /\ live' = live \ {r}
  /\ UNCHANGED <<row, trigger, queue, proc, cancel, alerts, signalled, server, budget>>

Unregister(r) ==
  /\ \/ worker[r] = "reap" /\ Goto(r, "finTimeout")
     \/ worker[r] = "join" /\ Goto(r, "check")
     \/ worker[r] = "except" /\ Goto(r, "finError")
  /\ live' = live \ {r}
  /\ UNCHANGED <<row, trigger, queue, proc, cancel, alerts, signalled, server, budget>>

CheckCancelled_Missing(r) ==
  /\ worker[r] = "check" /\ Goto(r, "finExit")
  /\ UNCHANGED <<row, trigger, queue, proc, live, cancel, alerts, signalled, server, budget>>

CheckCancelled(r) ==
  /\ worker[r] = "check"
  /\ Goto(r, IF row[r].status = "cancelled" THEN "finCancelled" ELSE "finExit")
  /\ UNCHANGED <<row, trigger, queue, proc, live, cancel, alerts, signalled, server, budget>>

Finish_NoStamp(r, status, exit, next) ==
  /\ row' = [row EXCEPT ![r] = [@ EXCEPT !.status = status, !.exit = exit]]
  /\ Goto(r, next)

Finish_Unreported(r, status, exit, next) ==
  /\ row' = [row EXCEPT ![r] = [@ EXCEPT !.status = status, !.finished = TRUE, !.exit = exit]]
  /\ Goto(r, "done")

Finish(r, status, exit, next) ==
  /\ row' = [row EXCEPT ![r] = [@ EXCEPT !.status = status, !.finished = TRUE, !.exit = exit]]
  /\ Goto(r, next)

FinishRun_ErrorIsZero(r) ==
  /\ \/ worker[r] = "finTimeout" /\ Finish(r, "timed_out", "nonzero", "alertReturn")
     \/ worker[r] = "finCancelled" /\ Finish(r, "cancelled", proc[r].code, "alertReturn")
     \/ /\ worker[r] \in {"finExit", "finError"}
        /\ Finish(r, IF proc[r].code = "nonzero" THEN "failed" ELSE "success", proc[r].code,
                  "alertPublish")
  /\ UNCHANGED <<trigger, queue, proc, live, cancel, alerts, signalled, server, budget>>

(* _finish_run overwrites the status, from each of the four places that call it *)
FinishRun(r) ==
  /\ \/ worker[r] = "finTimeout" /\ Finish(r, "timed_out", "nonzero", "alertReturn")
     \/ worker[r] = "finCancelled" /\ Finish(r, "cancelled", proc[r].code, "alertReturn")
     \/ /\ worker[r] = "finExit"
        /\ Finish(r, IF proc[r].code = "zero" THEN "success" ELSE "failed", proc[r].code,
                  "alertPublish")
     \/ worker[r] = "finError" /\ Finish(r, "failed", "nonzero", "alertPublish")
  /\ UNCHANGED <<trigger, queue, proc, live, cancel, alerts, signalled, server, budget>>

Notify_Always(r) ==
  /\ alerts' = alerts \cup {<<r, row[r].status>>}
  /\ \/ worker[r] = "alertReturn" /\ Goto(r, "done")
     \/ worker[r] = "alertPublish" /\ Goto(r, "publish")
  /\ UNCHANGED <<row, trigger, queue, proc, live, cancel, signalled, server, budget>>

(* The dispatcher reads the row again and reports any status but SUCCESS. *)
Notify(r) ==
  /\ alerts' = IF row[r].status \in {"absent", "success"} THEN alerts
               ELSE alerts \cup {<<r, row[r].status>>}
  /\ \/ worker[r] = "alertReturn" /\ Goto(r, "done")
     \/ worker[r] = "alertPublish" /\ Goto(r, "publish")
  /\ UNCHANGED <<row, trigger, queue, proc, live, cancel, signalled, server, budget>>

Publish(r) ==
  /\ worker[r] = "publish"
  /\ signalled' = signalled \cup {r}
  /\ Goto(r, "done")
  /\ UNCHANGED <<row, trigger, queue, proc, live, cancel, alerts, server, budget>>

WorkerStep(r) ==
  \/ Load(r) \/ Spawn(r) \/ Register(r) \/ Wait(r) \/ KillTimedOut(r)
  \/ Unregister(r) \/ CheckCancelled(r) \/ FinishRun(r) \/ Notify(r) \/ Publish(r)

DbFault_AlertRaises(r) ==
  /\ budget.dbFaults > 0
  /\ budget' = [budget EXCEPT !.dbFaults = @ - 1]
  /\ \/ worker[r] \in {"load", "finExit", "finError", "alertPublish"} /\ Goto(r, "dead")
     \/ worker[r] \in {"check", "finTimeout", "finCancelled", "alertReturn"} /\ Goto(r, "except")
  /\ UNCHANGED <<row, trigger, queue, proc, live, cancel, alerts, signalled, server>>

(* A transaction of the thread fails ("database is locked").  Inside the   *)
(* try block the exception is handled as an execution error, outside it    *)
(* the task raises; a failing notification is only logged.                 *)
DbFault(r) ==
  /\ budget.dbFaults > 0
  /\ budget' = [budget EXCEPT !.dbFaults = @ - 1]
  /\ \/ worker[r] \in {"load", "finExit", "finError"} /\ Goto(r, "dead")
     \/ worker[r] \in {"check", "finTimeout", "finCancelled"} /\ Goto(r, "except")
     \/ worker[r] = "alertReturn" /\ Goto(r, "done")
     \/ worker[r] = "alertPublish" /\ Goto(r, "publish")
  /\ alerts' = IF worker[r] \in {"alertReturn", "alertPublish"} THEN alerts \cup {<<r, "logged">>}
               ELSE alerts
  /\ UNCHANGED <<row, trigger, queue, proc, live, cancel, signalled, server>>

(* The process exits: on its own, or because of SIGTERM (with any code). *)
ProcExit(r) ==
  /\ \/ proc[r].state = "running" /\ r \notin EndlessRuns
     \/ proc[r].state = "signalled"
  /\ \E code \in {"zero", "nonzero"} :
       proc' = [proc EXCEPT ![r] = [state |-> "exited", code |-> code]]
  /\ UNCHANGED <<row, trigger, queue, worker, live, cancel, alerts, signalled, server, budget>>

-----------------------------------------------------------------------------
(* Cancelling a run.  The handler reads the row and refuses unless it is   *)
(* QUEUED or RUNNING; it writes CANCELLED, and finished_at when it was     *)
(* NULL at the read, in a later statement.                                 *)

CancelGoto(c, pc) == cancel' = [cancel EXCEPT ![c].pc = pc]

CancelRead(c) ==
  /\ Serving /\ cancel[c].pc = "idle" /\ row[cancel[c].run].status \in {"queued", "running"}
  /\ cancel' = [cancel EXCEPT ![c] = [@ EXCEPT !.pc = "commit",
                                               !.stamp = ~row[cancel[c].run].finished]]
  /\ UNCHANGED <<row, trigger, queue, worker, proc, live, alerts, signalled, server, budget>>

CancelCommit(c) ==
  LET r == cancel[c].run IN
  /\ cancel[c].pc = "commit"
  /\ row' = [row EXCEPT ![r] = [@ EXCEPT !.status = "cancelled",
                                         !.finished = row[r].finished \/ cancel[c].stamp]]
  /\ CancelGoto(c, "lookup")
  /\ UNCHANGED <<trigger, queue, worker, proc, live, alerts, signalled, server, budget>>

(* kill_run looks into the registry of the server's process. *)
CancelLookup(c) ==
  /\ cancel[c].pc = "lookup"
  /\ CancelGoto(c, IF cancel[c].run \in live \ CliRuns THEN "terminate" ELSE "done")
  /\ UNCHANGED <<row, trigger, queue, worker, proc, live, alerts, signalled, server, budget>>

CancelTerminate(c) ==
  LET r == cancel[c].run IN
  /\ cancel[c].pc = "terminate"
  /\ proc' = IF Alive(r) THEN [proc EXCEPT ![r].state = "signalled"] ELSE proc
  /\ CancelGoto(c, "grace")
  /\ UNCHANGED <<row, trigger, queue, worker, live, alerts, signalled, server, budget>>

CancelGrace_NoKill(c) ==
  /\ cancel[c].pc = "grace"
  /\ CancelGoto(c, "done")
  /\ UNCHANGED <<row, trigger, queue, worker, proc, live, alerts, signalled, server, budget>>

(* The process exited within the five seconds, or it is killed after them. *)
CancelGrace(c) ==
  /\ cancel[c].pc = "grace"
  /\ proc' = Killed(cancel[c].run)
  /\ CancelGoto(c, "done")
  /\ UNCHANGED <<row, trigger, queue, worker, live, alerts, signalled, server, budget>>

CancelStep(c) == \/ CancelRead(c) \/ CancelCommit(c) \/ CancelLookup(c)
                 \/ CancelTerminate(c) \/ CancelGrace(c)

(* "scriptmgr run cancel" writes the status and nothing else. *)
CliCancel(r) ==
  /\ budget.cliCancels > 0 /\ row[r].status # "absent"
  /\ row' = [row EXCEPT ![r].status = "cancelled"]
  /\ budget' = [budget EXCEPT !.cliCancels = @ - 1]
  /\ UNCHANGED <<trigger, queue, worker, proc, live, cancel, alerts, signalled, server>>

(* Deleting a script leaves its runs, with script_id NULL. *)
DeleteScript(r) ==
  /\ budget.deletes > 0 /\ Serving /\ row[r].status # "absent" /\ row[r].script
  /\ row' = [row EXCEPT ![r].script = FALSE]
  /\ budget' = [budget EXCEPT !.deletes = @ - 1]
  /\ UNCHANGED <<trigger, queue, worker, proc, live, cancel, alerts, signalled, server>>

-----------------------------------------------------------------------------
(* The server crashes and starts again.  Its threads, its queue, its       *)
(* registry, its handlers and open transactions are gone; the processes it *)
(* had started live on, and so do the processes of the command line.       *)

Lost(r) == r \in ServerRuns /\ trigger[r] # "idle" /\ worker[r] \notin Ended

Crash ==
  /\ server.phase # "down" /\ budget.crashes > 0
  /\ server' = [server EXCEPT !.phase = "down", !.stale = {}]
  /\ budget' = [budget EXCEPT !.crashes = @ - 1]
  /\ queue' = <<>>
  /\ trigger' = [r \in Runs |-> IF r \in ServerRuns /\ trigger[r] = "pending" THEN "done" ELSE trigger[r]]
  /\ worker' = [r \in Runs |-> IF Lost(r) THEN "lost" ELSE worker[r]]
  /\ live' = live \cap CliRuns
  /\ cancel' = [c \in CancelReqs |->
                  IF cancel[c].pc = "idle" THEN cancel[c] ELSE [cancel[c] EXCEPT !.pc = "done"]]
  /\ UNCHANGED <<row, proc, alerts, signalled>>

Stale_NotQueued(r) == row[r].status = "running" /\ ~row[r].finished

Stale(r) == row[r].status \in {"queued", "running"} /\ ~row[r].finished

(* "serve" and the service start the scheduler, then the web server ...    *)
Start ==
  /\ server.phase = "down"
  /\ server' = [server EXCEPT !.phase = "starting"]
  /\ UNCHANGED <<row, trigger, queue, worker, proc, live, cancel, alerts, signalled, budget>>

(* ... which, before it serves a request, reads the rows that look as if a *)
(* crash had left them ...                                                 *)
CleanUpRead ==
  LET stale == {r \in Runs : Stale(r)} IN
  /\ server.phase = "starting"
  /\ server' = [phase |-> "cleaning", stale |-> stale,
                overtaken |-> server.overtaken \cup {r \in stale : worker[r] \notin Ended}]
  /\ UNCHANGED <<row, trigger, queue, worker, proc, live, cancel, alerts, signalled, budget>>

(* ... and closes them, whatever they have become.  (A row without an end  *)
(* has no exit code yet.)                                                  *)
CleanUpCommit ==
  /\ server.phase = "cleaning"
  /\ row' = [r \in Runs |->
               IF r \in server.stale
               THEN [row[r] EXCEPT !.status = "failed", !.finished = TRUE, !.exit = "nonzero"]
               ELSE row[r]]
  /\ server' = [server EXCEPT !.phase = "up", !.stale = {}]
  /\ UNCHANGED <<trigger, queue, worker, proc, live, cancel, alerts, signalled, budget>>

-----------------------------------------------------------------------------

TriggerStep(r) == \/ CommitThenSubmit(r) \/ SubmitCommitted(r)
                  \/ SubmitFlushed(r) \/ CommitFlushed(r) \/ CliTrigger(r)

(* Nothing is left to do but to wait for scripts that never end: every     *)
(* other task has ended, or waits because such scripts hold all threads.   *)
Quiet ==
  /\ Serving /\ \A r \in Runs : trigger[r] = "done"
  /\ \A r \in Runs : \/ worker[r] \in Ended \cup {"idle"}
                     \/ worker[r] = "wait" /\ Alive(r)
  /\ queue = <<>> \/ Cardinality(Busy) = Concurrency
  /\ UNCHANGED vars

Next ==
  \/ \E r \in Runs : \/ TriggerStep(r) \/ WorkerStep(r) \/ DbFault(r) \/ ProcExit(r)
                     \/ CliCancel(r) \/ DeleteScript(r)
  \/ PickUp
  \/ \E c \in CancelReqs : CancelStep(c)
  \/ Crash \/ Start \/ CleanUpRead \/ CleanUpCommit
  \/ Quiet

Spec == Init /\ [][Next]_vars

(* Threads of the pool, of the CLI and of the request handlers are         *)
(* scheduled; a script that can end does end, an endless one may ignore    *)
(* SIGTERM; nobody has to trigger a run or ask for a cancel, and the       *)
(* environment need not fail.                                              *)
Fairness ==
  /\ \A r \in Runs : /\ WF_vars(SubmitCommitted(r)) /\ WF_vars(CommitFlushed(r))
                     /\ WF_vars(trigger[r] = "pending" /\ CliTrigger(r))
                     /\ WF_vars(WorkerStep(r))
                     /\ WF_vars(r \notin EndlessRuns /\ ProcExit(r))
  /\ WF_vars(PickUp)
  /\ \A c \in CancelReqs : WF_vars(cancel[c].pc # "idle" /\ CancelStep(c))
  /\ WF_vars(Start) /\ WF_vars(CleanUpRead) /\ WF_vars(CleanUpCommit)

FairSpec == Spec /\ Fairness

-----------------------------------------------------------------------------
(* Invariants *)

TypeOK ==
  /\ row \in [Runs -> Row]
  /\ trigger \in [Runs -> {"idle", "pending", "done"}]
  /\ queue \in Seq(ServerRuns)
  /\ worker \in [Runs -> WorkerPc]
  /\ proc \in [Runs -> Proc]
  /\ live \subseteq Runs
  /\ cancel \in [CancelReqs -> [pc: CancelPc, run: Runs, stamp: BOOLEAN]]
  /\ alerts \subseteq Runs \X ReportedAs
  /\ signalled \subseteq Runs
  /\ server \in Server
  /\ budget \in [crashes: Nat, dbFaults: Nat, cliCancels: Nat, deletes: Nat]

(* A thread that has left execute_script, by a return or by an exception,  *)
(* leaves no process of its run behind: the timeout path kills, the others *)
(* wait.  Only a crash of the server leaves processes without a thread.    *)
NoOrphanProcess == \A r \in Runs : worker[r] \in {"done", "dead"} => ~Alive(r)

(* The registry of live processes is exact: kill_run finds the process of  *)
(* every run whose thread is waiting for it, and no entry outlives its     *)
(* thread, whichever path the thread takes out of execute_script.          *)
RegistryExact ==
  /\ \A r \in Runs : worker[r] = "wait" => r \in live
  /\ \A r \in live : worker[r] \in Registered

(* The row agrees with what the operating system saw: SUCCESS only after   *)
(* the process has exited with zero, TIMED_OUT only for a script with a    *)
(* timeout and after its process is gone.                                  *)
OutcomeFaithful ==
  \A r \in Runs :
    /\ row[r].status = "success" => proc[r] = [state |-> "exited", code |-> "zero"]
    /\ row[r].status = "timed_out" => r \in TimedRuns /\ proc[r].state = "exited"

(* The handler that finished a run as FAILED or TIMED_OUT has reported it, *)
(* although the dispatcher reads the row a second time and a cancel may    *)
(* write it between; or the dispatcher itself failed, which was logged.    *)
(* (The clean-up of a start reports nothing: the runs it overtook are out.) *)
FailureAlerted ==
  \A r \in Runs \ server.overtaken :
    worker[r] = "done" /\ row[r].status \in {"failed", "timed_out"}
      => \E s \in {row[r].status, "logged"} : <<r, s>> \in alerts

(* Once the server serves requests again, no run whose thread died with it *)
(* is QUEUED or RUNNING without an end: _cleanup_stale_runs has closed it, *)
(* and the handlers that died with the server can not undo that.           *)
NoStaleRow ==
  \A r \in Runs :
    Serving /\ worker[r] = "lost" /\ row[r].status \in {"queued", "running"} => row[r].finished

(* The inductive invariant behind NoOrphanProcess, RegistryExact and       *)
(* OutcomeFaithful.  A task waits in the queue at most once and before its *)
(* thread starts; the registry holds the runs whose thread is between      *)
(* _register_proc and _unregister_proc; and the position of a thread tells *)
(* what has become of the process it started.                              *)
Submitted(r) == IF r \in RestRuns THEN trigger[r] # "idle" ELSE trigger[r] = "done"

QueueInv ==
  /\ \A i, j \in 1..Len(queue) : queue[i] = queue[j] => i = j
  /\ \A i \in 1..Len(queue) : worker[queue[i]] = "idle" /\ Submitted(queue[i])
  /\ \A r \in Runs : worker[r] # "idle" => Submitted(r)

RegistryInv == live = {r \in Runs : worker[r] \in Registered}

ProcInv ==
  \A r \in Runs :
    /\ worker[r] \in {"idle", "load", "spawn"} => proc[r].state = "none"
    /\ worker[r] \in {"register", "wait", "kill"} => proc[r].state # "none"
    /\ worker[r] \in {"reap", "join", "check", "finTimeout", "finCancelled", "finExit"}
         => proc[r].state = "exited"
    /\ worker[r] \in {"except", "finError", "alertReturn", "alertPublish", "publish", "done", "dead"}
         => ~Alive(r)
    /\ worker[r] \in {"kill", "reap", "finTimeout"} => r \in TimedRuns

Inv == QueueInv /\ RegistryInv /\ ProcInv /\ OutcomeFaithful

(* The inductive invariant behind FailureAlerted, NoStaleRow and the       *)
(* action properties below.  There is no row before its handler commits    *)
(* it, and a handler of a run that was lost has died too; until the server *)
(* serves requests it executes nothing but runs of the scheduler; what is  *)
(* in the row follows from where the thread of the run is, unless it was   *)
(* overtaken, or belongs to the command line, which can cancel any run; a  *)
(* failure that was recorded stays the one that was reported; and the      *)
(* clean-up of a start closes what a crash left, and overtakes no run but  *)
(* those of the command line and of the scheduler.                         *)
NotCommitted(r) == trigger[r] = "idle" \/ (r \in RestRuns /\ trigger[r] = "pending")

CannotFire(r) == ~Serving /\ (r \in ScheduledRuns => server.phase = "down")

TriggerInv ==
  /\ \A r \in Runs : /\ NotCommitted(r) => row[r].status = "absent"
                     /\ worker[r] = "lost" => trigger[r] = "done"
                     /\ r \in ServerRuns /\ CannotFire(r)
                          => worker[r] \in Ended \/ trigger[r] = "idle"
  /\ \A c \in CancelReqs : cancel[c].pc = "commit" => row[cancel[c].run].status # "absent"

Reported == {"alertReturn", "alertPublish", "publish", "done"}   \* after _finish_run

StatusInv ==
  \A r \in Runs :
    /\ worker[r] \in Reported => row[r].status \in Terminal
    /\ r \in ServerRuns \ server.overtaken =>
         /\ worker[r] \in {"idle", "load"} => row[r].status \in {"absent", "queued", "cancelled"}
         /\ worker[r] \in Executing \ ({"load"} \cup Reported)
              => row[r].status \in {"running", "cancelled"}

AlertInv ==
  \A r \in Runs \ server.overtaken :
    worker[r] \in {"publish", "done"} /\ row[r].status \in {"failed", "timed_out"}
      => \E s \in {row[r].status, "logged"} : <<r, s>> \in alerts

CleanUpInv ==
  /\ server.overtaken \subseteq CliRuns \cup ScheduledRuns
  /\ \A r \in server.stale :
       /\ server.phase = "cleaning" /\ ~NotCommitted(r)
       /\ r \notin server.overtaken => /\ worker[r] \in {"dead", "lost"}
                                       /\ row[r].status \in {"queued", "running", "cancelled"}
  /\ server.phase = "cleaning"
       => \A r \in Runs : worker[r] = "lost" /\ Stale(r) => r \in server.stale

RecordInv == TriggerInv /\ StatusInv /\ AlertInv /\ CleanUpInv /\ NoStaleRow

-----------------------------------------------------------------------------
(* Properties of behaviours *)

InScript(r) == worker[r] \in {"spawn", "register", "wait", "join", "check"}

(* A cancel that reaches the row between the start of the script and the   *)
(* thread's check is never turned into SUCCESS, however the script ends    *)
(* and whatever fails afterwards; unless a clean-up that has read the row  *)
(* before is still to overwrite it.                                        *)
CancelSticks ==
  \A r \in Runs : [](row[r].status = "cancelled" /\ InScript(r) /\ r \notin server.stale
                       => [](row[r].status # "success"))

(* A cancel handler that looks up a process its thread is waiting for ends *)
(* the run, even when the script would never end and ignores SIGTERM.      *)
CancelStopsRun ==
  \A c \in CancelReqs : \A r \in ServerRuns :
    (cancel[c].pc = "lookup" /\ cancel[c].run = r /\ worker[r] = "wait" /\ row[r].status = "cancelled")
      ~> (worker[r] \in Ended /\ row[r].status \in {"cancelled", "timed_out", "failed"})

(* Every run the server commits before it submits it ends, and its row     *)
(* says so, even if the server crashes: unless its task raised, or a       *)
(* script without a timeout never ends.                                    *)
CommittedRunSettles ==
  \A r \in ServerRuns \ RestRuns :
    (trigger[r] = "pending")
      ~> (worker[r] = "dead" \/ (row[r].status \in Terminal /\ row[r].finished))

(* The outcome of a run is decided once: after a thread or the clean-up of *)
(* a start has written it, only a cancel may replace it, never a second    *)
(* outcome, whichever transaction fails and wherever a crash falls.  The   *)
(* one exception is a run that the scheduler fired before the clean-up of  *)
(* the same start, and only until its thread and the clean-up are through. *)
Contested(r) == /\ r \in ScheduledRuns \cap server.overtaken
                /\ worker[r] \notin Ended \/ r \in server.stale

OneOutcome ==
  [][\A r \in ServerRuns :
       row[r].status \in Terminal \ {"cancelled"} /\ ~Contested(r)
         => row'[r].status \in {row[r].status, "cancelled"}]_vars

(* The tasks of the server's pool are started in order, once, and no more  *)
(* than Concurrency at a time.                                             *)
Pool == INSTANCE TaskPool WITH
          Tasks <- ServerRuns, pending <- queue, executing <- Busy,
          ended <- {r \in ServerRuns : worker[r] \in Ended}
PoolSpec == Pool!Spec

(* Without cancels the row of a run that was started through the server's  *)
(* pages or its REST interface goes through the life that                  *)
(* docs/architecture.md gives it.                                          *)
WebRuns == ServerRuns \ ScheduledRuns

Lifecycle == INSTANCE RunLifecycle WITH
               Runs <- WebRuns,
               status <- [r \in WebRuns |-> row[r].status],
               finished <- [r \in WebRuns |-> row[r].finished]
LifecycleSpec == Lifecycle!Spec

-----------------------------------------------------------------------------
(* What the documentation says of the program and the code does not do *)

(* help.html: a client of the REST interface polls a run until it is over; *)
(* but its task may start before the row exists.                           *)
RestRunSettles ==
  \A r \in RestRuns : (trigger[r] = "done") ~> (row[r].status \in Terminal)
=============================================================================
