# A formal model of ScriptManager

TLA+ modules, TLC configurations and TLAPS proofs for the program in `src/`: a
server that keeps scripts, runs and workflows in a database, executes them as
operating-system processes and shows their logs while they run. Paths below are
relative to `src/src/scriptmgr/` unless they begin with `src/`.

## 1. The system

| Component | State | Operations | Speaks to |
|---|---|---|---|
| **Run executor** `executor/runner.py`, `runtime.py`, `tasks.py` | rows of `runs`; `_live_procs`; the thread pool with its queue | `delay`, `execute_script`, `_finish_run`, `kill_run` | database, processes, log buffer, log hub, notifications |
| **Triggers and cancels** `api/routers/scripts.py`, `runs.py`, `api/ui.py`, `cli/main.py` | rows of `runs` | run a script, cancel a run, delete a script | executor through `delay` and `kill_run`; the command line has a pool and a registry of its own |
| **Startup clean-up** `api/__init__.py` | rows of `runs` | `_cleanup_stale_runs` | database only |
| **Notifications** `notifications/` | none | `dispatch_run_notification` reads the row again | called by `_finish_run` |
| **Workflow engine** `workflows/engine.py`, `dag.py` | the parent's row, the waves | `execute_workflow`, `_run_dag`, `_run_node` | executes `execute_script` in the pool of each wave |
| **Log buffer** `executor/runner.py` | `_buf`, `_timer`, rows of `run_logs` | `add`, `close`, `_timed_flush` | called by two readers, the run's thread and timers |
| **Log hub and stream** `executor/log_hub.py`, `api/websocket.py` | `_subs`, a bounded queue per client | `publish`, `subscribe`, `unsubscribe`, the WebSocket handler | threads to the event loop by `call_soon_threadsafe` |
| **Scheduler** `scheduler/apscheduler.py`, `api/routers/schedules.py`, `api/ui.py` | rows of `schedules`; APScheduler's jobs in a database of its own | create, enable, disable, delete, reload, `_fire`, retention | executor through `delay` |
| **Retention** `scheduler/apscheduler.py` | rows of `runs` and `run_logs` | the nightly sweep | none; frees ids that later runs get |
| **Catalogue** `core/models.py`, `core/db.py`, `api/routers/`, `api/ui.py`, `cli/main.py` | groups, scripts, workflows, schedules, services, runs and the references between them | create, update, delete with cascades, `db reset` | executor reads scripts and graphs |
| **Celery path** `executor/celery_app.py`, `tasks.py`, `service/main_service.py` | a broker's queue, the tasks registered in each process | send, receive, late acknowledgement | the same `execute_script` |
| **Always-on services** `service/always_on.py`, `api/routers/services.py` | the wrapper's two threads, rows of `services` | restart loop, heartbeat, the page | wrapper to server by HTTP |
| **Dashboard cache**, settings, schemas, installer, file browser, pages | none of the program's own, or a cache of two seconds | | |

What is hard in it, and what makes each part correct:

* **Executor, triggers, cancels.** A row is written by the handler that
  creates it, the pool thread that executes it, any number of cancel handlers,
  the command line in another process, and the clean-up of the next start, each
  with a read and a later write. A run must be executed at most once, leave no
  process behind, be found by `kill_run` while its process lives, and end with
  an outcome that agrees with the process and is decided once; every run ends;
  failures are reported; a crash leaves no run that looks alive.
* **Workflow engine.** Nodes complete in any order, and the completion of the
  last predecessor releases a join. Each node runs at most once with its
  retries, after all its predecessors, and only if fired by an edge; none is
  forgotten; the parent's status tells whether one failed. Graphs are stored as
  the builder sends them, and may be cyclic or have edges to missing nodes.
* **Log buffer.** Batches are drained under a lock and written after it;
  cancelling a timer that has fired does nothing; on a timeout nobody waits for
  the readers. No line may be lost or written twice.
* **Log stream.** A client subscribes, then replays the table, then forwards.
  Live lines arrive in order, once, all of them, and the stream ends.
* **Scheduler.** A schedule's row and its job are in two databases that change
  in separate steps, by handlers that change the job first, the row first, or
  the row alone; a crash may fall between; the start reads, registers and prunes;
  jobs fire meanwhile; ids are used again. Jobs are those of the enabled rows,
  and a disabled schedule stops running.
* **Retention.** A thread knows its run by the id of a row, the sweep deletes
  rows by the age of a stamp that others may have written, and SQLite gives the
  id of a deleted last row to the next run. A thread must find its own row when
  it ends, and a workflow's row must not go before those of its nodes.
* **Catalogue.** SQLite does not enforce foreign keys here; a deletion reads
  what it will delete, later what it will set to NULL, later writes both, and
  other requests commit in between. No reference may be left pointing at an id
  that is given away again, and no required reference may become NULL.
* **Celery path.** A task is executed by a process in which it is registered.
* **Always-on services.** Heartbeats are refused, lost, answered late, and
  answered for a row that was replaced meanwhile. The page must show a tended
  service alive and a dead one stale, within a time one can state.

## 2. The modules

| Module | Models | Extends |
|---|---|---|
| `ScriptRuns` | executor, triggers, cancels, clean-up, which notifications are sent | |
| `TaskPool` | abstract: what the thread pool promises | |
| `RunLifecycle` | abstract: the life of a run in `src/docs/architecture.md` | |
| `ScriptRunsProofs` | its theorems | `ScriptRuns`, `TLAPS` |
| `Dag` | the graph and its traversals | |
| `WorkflowEngine` | one execution of a workflow | `Dag` |
| `WorkflowEngineProofs` | its theorems | `WorkflowEngine`, `TLAPS` |
| `LogBuffer` | readers, buffer, timers, the end of a run as the log sees it | |
| `LogBufferProofs` | its theorems | `LogBuffer`, `TLAPS` |
| `LogStream` | log hub and WebSocket handlers composed with the buffer | `LogBuffer` |
| `LogStreamProofs` | its theorems | `LogStream`, `LogBufferProofs`, `TLAPS` |
| `Scheduler` | schedule rows and APScheduler's jobs, the handlers of both, the start, firing | |
| `SchedulerProofs` | its theorems | `Scheduler`, `TLAPS` |
| `Retention` | who owns a row of `runs`: triggers, threads, cancels, restarts, the sweep, ids used again | |
| `RetentionProofs` | its theorems | `Retention`, `TLAPS` |
| `Catalogue` | rows of six tables and the references between them, every handler that writes one, deletions step by step | |
| `CatalogueProofs` | its theorems | `Catalogue`, `TLAPS` |
| `AlwaysOn` | wrappers, heartbeats, the table `services`, what the page shows, in discrete time | |
| `AlwaysOnProofs` | its theorems | `AlwaysOn`, `TLAPS` |
| `CeleryMode` | where tasks are registered, the broker's queue, the worker | |
| `MC*` | instances for TLC | |

A definition named `A_Slip` (`Finish_NoStamp`, `Released_OfThisNode`, ...) is
the definition `A` with one plausible mistake in the code. No action uses it;
each stands for a change of the code that the property it belongs to refutes.

### ScriptRuns

`row` is the committed row of each run, `trigger` the progress of the code that
creates it, `queue` the pool's work queue, `worker[r]` the program counter of
the thread in `execute_script`, `proc[r]` the process, `live` the keys of
`_live_procs`, `cancel[c]` the program counter of a cancel handler with the
`finished_at` it read. One action is one step others can observe: a committed
transaction, an operation on the registry under its lock, a call on the process.

The two ways to create a run are kept apart, because they differ in order:
`CommitThenSubmit`/`SubmitCommitted` (web interface, scheduler) and
`SubmitFlushed`/`CommitFlushed` (`POST /api/scripts/{id}/run`, which submits
inside a transaction that commits when the handler has returned). `CliTrigger`
executes in the command line's process, whose registry the server cannot see.
`Load` marks the run RUNNING whatever its status was. `Wait` returns, or times
out; `KillTimedOut`, `Unregister`, `CheckCancelled`, `FinishRun`, `Notify` and
`Publish` follow the four ways out of `execute_script`. `DbFault` makes any
transaction of the thread fail: inside the `try` block that becomes an execution
error, outside it the task raises, in the notification it is logged, which `alerts`
keeps too. `Crash` takes threads, queue, registry, handlers and open
transactions but not the processes.

`server` is how far the start has come. `serve` starts the scheduler
(`cli/main.py:56`) before the web server runs `_cleanup_stale_runs`
(`api/__init__.py:29`), so a scheduled run (`ScheduledRuns`) may be committed,
submitted and executed from `Start` on, everything else only once the server is
up. The clean-up is two steps, `CleanUpRead` and `CleanUpCommit`, as other
writers may come between; what it has read and not yet written is
`server.stale`. It closes whatever it has read, also a run that executes.
`server.overtaken` is history, for the properties only: the runs that some
clean-up read while their task was to come or under way.

### WorkflowEngine

`node[n]` is where `_run_node` is, `attempts[n]` counts the runs it created,
`wave` is the set submitted to the pool of this wave, `completed` and
`nextReady` are the engine's own. `Collect` is one turn of the loop over
`as_completed`, `PoolEnds` the exit of the `with` block, which waits for every
thread. `execute_script` is reduced to its result: zero, not zero, or an
exception; `AttemptRaises` keeps the difference between the first attempt (in a
`try` block) and retries (not), and `OwnRaises` is a failure of the first or the
last transaction of `execute_workflow`, which writes nothing. `CancelParent` and `DeleteWorkflow` are the
requests that reach the execution.

### LogBuffer and LogStream

Lines are pairs of the logging thread and a number. `batch[w]` and `flushing`
hold the batches drained but not yet written; `timer` is what `_timer` refers to,
`stray` counts timers still waiting that it no longer refers to, `waking` those
that have fired and wait for the lock. `how` is the way the run ends: `exit` and
`cancelled` after the readers were joined, `timeout` without, `error` from the
`except` clause.

`LogStream` adds the subscribers, the callbacks on the event loop (`loop`), the
bounded queues and the handlers. `since[c]` remembers what was logged when a
client subscribed. A client that left is noticed at the next send. The end of the
stream is recognised by its text (`IsEnd`, `websocket.py:47`), and `says` are the
lines of the script that read `__done__` too: any set of lines, chosen at the
start, within the bound `Sayable`.

### Scheduler

`row` is the table `schedules`, reduced to the trigger that `_build_trigger`
makes of a schedule (one of `Triggers`, none for a manual schedule, an exception
for an invalid expression) and `enabled`; `job` is APScheduler's store;
`server`, `loaded` and `todo` are where the start is, its `enabled_ids` and the
schedules it has still to register; `req[q]` is a handler with the copy of the
row its session holds; `fire[i]` is where `_fire` is.

The orders differ by handler, and are kept: REST changes the job and commits the
row when it has returned (`CreateFlushed`, `EnableRead`, `DisableRead`, the steps
of `remove_schedule` and `add_schedule`, `CommitCreate`, `CommitEnabled`,
`CommitDelete`); the forms for creating and editing commit first (`WebCreate`,
`WebEdit`, `Refresh`); toggling, deleting in the web interface, and the command
line, whose own scheduler never runs, change the row alone (`RowOnly`).
`CheckJob` and `RemoveJob` are the two calls of `remove_schedule`, between which
a date's job may fire. `Start`, `Load`, `RegisterLoaded` and `Prune` are
`start_scheduler`: the job store runs from the first of them. `Fire` and
`Misfire` are APScheduler's, modelled from how the code calls it: one firing of a
job at a time, a date's job leaves the store, one that is too late is dropped.

Three variables are history. `drifted` holds the ids for which somebody changed
only one of the two databases, or of which two handlers met; a handler that is
`alone` from its first read to its end repairs its id. `late[i]` counts the runs
queued since the schedule was last enabled.

### Retention

A run has a number, its order of creation, beside the id of its row, so that the
model can tell a run from another that was given the same id. `row[i]` keeps
whether the status is live (`open`), the stamp `finished_at` as a time (0 is
NULL), the parent's id as the engine wrote it, and, for the model only, the run
it was created for (`of`). `logs[i]` is whose threads wrote lines under the id,
`boss[r]` the workflow's run a node's run was created by. `Flows` are the runs
of a workflow, `CliRuns` those executed in a command's process, which a restart
of the server does not end. `Start`, `Log`, `End` and `Fail` are the thread's
writes, by id; `Cancel` and `CliCancel` the handlers; `Restart` is the start of
the server as `serve` orders it (`cli/main.py:56`), scheduler first, and
`CleanUp` is `_cleanup_stale_runs`, before which runs may have been created and
the sweep may have come. `Sweep` is `_run_log_retention` with any cutoff
up to now. `touched` is history: the runs that somebody stamped while their
thread was at work, or whose row a displaced thread wrote.

### Catalogue

`rows[t]` are the ids in table `t`, `ref[c][i]` what column `c` of row `i` holds.
`Schema` is the list of foreign keys of `core/models.py`, each with whether it is
required and whether the relationship cascades. A deletion has three steps:
`Load` is `db.delete`, which reads the rows that go along (`Doomed`: from a group
to its scripts to their schedules), `Gather` the flush, which reads the rows
whose reference is to be NULL, `Commit` or `Rollback` the transaction, refused
where a required column would become NULL or where a row it updates is gone.
The forms of the web interface write whatever id they are sent. `bound` is
history: the references that were written while their target existed and nobody
was deleting it; only those can be expected to hold.

### AlwaysOn

`wrapper[n]` holds the main loop of the generated script (about to start the
script, running it, waiting after a failure, dead), the heartbeat thread, a
daemon that dies with it, and that thread's timer. `requests` are the heartbeats
the server is handling: `heartbeat` reads the row by name as the request arrives
and writes it by id when it commits (`Heartbeat`, `Mark`), at most `Slow` later.
`Tick` is the passing of one unit of time; timers count down and ages count up
to the value from which they no longer matter, so time itself is unbounded.
A new row gets the id after the largest (`Register`), whether or not a smaller one is free. An interval
of 0 stands for a negative one, which nothing checks (`cli/main.py:524`):
`time.sleep` raises and the heartbeat thread ends, the main loop goes on.
`Alive` is the test in the script of `services.html`, which compares the age of
the last mark with a fixed limit. `calm` and `gone` are history: how long all
that a heartbeat needs has been there, and how long no main loop has tended a
service; `by` is whose heartbeat marked a row.

### CeleryMode

`handles` are the processes that have called `_get_celery_handles`, which is
where the two tasks are registered; only `delay` calls it. The broker keeps a
message until it is acknowledged at the end of the task, so that the death of
the worker (`Die`) delivers it again. Celery itself is external.

## 3. What is checked

| Run | Instance | Shows |
|---|---|---|
| `races` | a scheduled run of an endless script with a timeout and a REST run, one pool thread, two symmetric cancel requests, one command-line cancel, one failing transaction, one crash, and so two starts with their clean-ups; 2.46 million states | `NoOrphanProcess`, `RegistryExact`, `OutcomeFaithful`, `FailureAlerted`, `NoStaleRow`, `OneOutcome`, and that tasks implement `TaskPool` (`PoolSpec`) |
| `lifecycle` | a web run of an endless script with a timeout, a scheduled run, one pool thread, a crash, a failing transaction, a deleted script | the row of the web run implements `RunLifecycle` when nothing is cancelled; `CommittedRunSettles` for both |
| `cancel` | an endless script without a timeout on the server, one with a timeout on the command line, two requests | `CancelStopsRun`: a cancel that finds the process ends the run; `CancelSticks`: a cancel seen while the script executes is never turned into SUCCESS |
| `graphs` | all 64 acyclic graphs over three nodes with each condition on each edge, nine diamonds, four graphs that are cyclic or dangling; a retry, an exception (of an attempt, or of the workflow's own first or last transaction), a wave pool of two; 152 thousand states | `AttemptsBounded`, `JoinAll`, `FiredByEdge`, `NoNodeForgotten`, `StatusFaithful`, `WorkflowEnds` |
| `batches` | two pipes with two lines and one line, a threshold of two, one failing transaction | `EachLineOnce`, `BufferWatched`, `LinesWritten` |
| `live` | one pipe with two lines, the first of which may read `__done__`, one client, a queue of two and a backlog of one; 1.7 million states | `LiveInOrder`, `LiveComplete`, `StreamEnds` |
| `schedules` | one id that is used again, a cron and a date trigger, two symmetric requests, two stops of the server; 1.5 million states | `InSync`, `AtMostOneLateRun`, `OnlyInvalidBlocks` |
| `retention` | three runs, one of a workflow with nodes and one of a command, three times, any number of cancels, restarts and sweeps; 650 thousand states | `OwnRow`, `NoAdoption`, `FamilyKept` |
| `catalogue` | two groups (one may be the other's parent), two scripts, one row of each other table, three rows in all, one deletion at a time among all other requests | the required columns in `TypeOK`, `TargetsKept` |
| `services` | a wrapper with a short, a long or a negative interval and a service without one, three ids, a server that stops and one that is slow; 4.1 million states | `AliveShown`, `StaleShown` |
| `v_*` | the smallest instances | the two disagreements of section 5 |

**Why the bounds are enough to be interesting.** One pool thread with two tasks
makes a task wait while the other is cancelled, times out or raises; two cancel
requests race with each other and with the timeout; one crash falls between any
two steps of anyone, those of a start included. The scheduled run is fired before,
between or after the steps of the clean-up. Three nodes give chains, fan-outs and joins with all
conditions, the diamonds a join behind a fan-out, and two threads per wave make
completion order free. A threshold of two with three lines and the closing line
fills the buffer and leaves a rest; a queue of two overflows, a backlog of one cuts, and a first line that reads
`__done__` has one behind it.
In `schedules` one id is enough for two handlers to meet on it, for a deleted
schedule's job to be inherited by the next one, and for a start to follow each way
of drifting; two stops let a start fail half-way and follow another.
Three runs are a workflow and two nodes, or a run whose id two later ones
inherit; three times put a stamp before, at and after a cutoff, and an
inherited id before and after the second sweep. Three rows are a chain from a
group over a script to its schedule, and a pair of tables with a third row that
takes over a freed id; deletions that meet each other are left to the proof,
which has any number of them. In `services` a round of the short
interval is shorter than the limit and one of the long interval is not, a
request may outlast the wrapper's patience, a second row lets a late mark
hit a row that took over an id, and a third id lets a new row come after a gap.
`MaxId`, `MaxStops`, `MaxCrashes`, `MaxDbFaults`, `MaxCliCancels`, `MaxDeletes`, `MaxRaises`,
`MaxRuns`, `MaxTime`, `MaxRows`, `Room`, `MaxDeaths`, `Lines` and `Sayable` bound what the environment may do; no other counter grows. The budgets
are guards of the environment's actions only. `Quiet` and `Over` are the states
in which the system may stop: a deadlock anywhere else would be reported, and
`Quiet` allows only endless scripts that hold the threads they run in.

**Fairness** is weak and per thread: every pool thread, request handler that has
begun, timer, transaction, callback of the event loop and the server's start with
its clean-up goes on; a script that can end does end, a reader sees the end of its
pipe; an endless script may ignore SIGTERM for ever. `live` needs less, that of
the event loop and of the publication of the end (`LoopFairSpec`). `v_celery`
assumes that a worker is started, that the request that created a run sends its
task, that the broker delivers and that a script ends. Nothing forces a user to
ask for anything or the environment to fail. All of this is the server's: in a
command's process the timers and the readers are daemon threads, which end with
the process, so that `LinesWritten` says nothing of a run that timed out there. No
strong fairness is needed: whatever is enabled for a thread stays enabled until
that thread moves, but for `PickUp`, which is disabled only by itself and by a
crash. `Retention`, `Catalogue` and `AlwaysOn` have safety properties only; in
`AlwaysOn` what must happen in time is said by `Tick`, which waits for whatever
is due (the server commits within `Slow`, a heartbeat thread wakes on time).

**Refinement.** `PoolSpec` maps `queue`, the set of busy threads and the ended
runs to `TaskPool`: order of submission, at most once, at most `Concurrency`.
`LifecycleSpec` maps the status and stamp of each run that was triggered over the
web (`WebRuns`) to `RunLifecycle`. It holds without cancels only, and not of runs
the scheduler creates: a cancel, or a clean-up that comes after the run was fired,
takes the code out of that life cycle (section 5).
`LogStream` shares the variables of `LogBuffer` and adds guards and steps of its
own; each of its behaviours is one of the buffer's (`BufferIsImplemented`). All
three are proved (section 4).

## 4. What is proved

For every value of the constants: any number of runs, cancels, crashes, faults,
threads, any graphs and retry counts, any number of pipes, lines and clients
(a finite number, since `publish` copies the list of subscribers), rows, concurrent
deletions, services, and any intervals and limits. Every invariant, every action
property and every refinement that a passing run checks is a theorem, and so is
`CancelSticks`; each strengthening below was an invariant of a TLC run before it
was proved.

* `ScriptRunsProofs`: `TypeCorrect`, `InvariantHolds`, `NoOrphans`,
  `RegistryIsExact`, `OutcomesAreFaithful`. None of the three safety invariants
  is inductive. `Inv` adds that a task waits in the queue at most once and only
  while its thread is idle (or a second thread could start the same run), that
  `live` is exactly the set of runs whose thread is between registering and
  unregistering, and for each position of a thread what its process is doing.

  `FailuresAreAlerted`, `NoRowStaysStale`, `OutcomeIsDecidedOnce`, `CancelIsKept`
  are about the rows and rest on a second invariant, `RecordInv` (`RecordsHold`).
  Its difficulty is that a row has many writers. `StatusStep` lists the ways in
  which one step changes a status, each with where the thread is then;
  `TriggerInv` says that a row not yet committed has no thread that went on after a
  crash, so that no handler revives what the clean-up closed; `StatusInv`
  that a thread which has finished left an outcome and one at work finds RUNNING
  or CANCELLED. So a second outcome would have to be written by a thread that has
  written one. That fails for a run which a clean-up overtook, and `CleanUpInv` says
  which those can be: runs of the scheduler or of a command, never one of the
  web interface; any other row a clean-up has read belongs to a thread that is gone,
  and still has no end. `OutcomeIsDecidedOnce` exempts an overtaken run of the scheduler
  (`Contested`) only until its thread and the clean-up are through. `CancelIsKept` follows a run from the cancel on: as long as the
  thread is in the script it can still see the cancel, and the paths it can take
  from there (`Stuck`) avoid the one write of SUCCESS.

  `PoolIsImplemented`, `LifecycleIsImplemented`: every step of `ScriptRuns` is a
  step of `TaskPool`, or leaves its variables alone, and the same for
  `RunLifecycle` for the runs of the web where nobody cancels, whatever the
  scheduler and the commands do beside them. The pool's
  limit is kept although a crash loses threads in mid-task, because lost tasks
  count as ended in the same step.
* `WorkflowEngineProofs`: `TypeCorrect`, `EngineInvariant`, `NodesRunOnce`,
  `JoinsWait`, `NodesAreFired`. The code has no set of started nodes; that a node
  is not released twice follows from an order of events: it is released when its
  last predecessor completes, and no node completes twice. `EngineInv` says so:
  every chosen node (ready or submitted) has only completed predecessors, so the
  completion of one of them cannot be yet to come. This holds in cyclic graphs too.

  `EveryDueNodeRan` and `FinalStatusIsFaithful` need the other direction,
  `OutcomeInv`: a node becomes due with the completion of the last of its
  predecessors, and the turn of the loop that collects that one chooses it
  (`DueInv`); between waves nothing is at work and whatever ran was collected
  (`WaveInv`, `Settled`); and `hadFailure` is set exactly when a collected node
  failed (`FailureInv`).
* `LogBufferProofs`: `BufferTypeCorrect`, `LinesAreWatched`: lines in the
  buffer always have a timer, whichever timer resets the reference. `LinesAreHeldOnce`:
  that each line is in exactly one place is a count over an unbounded number of
  batches, so `LinesInv` says it with sets: the lines logged are those held
  anywhere, no sequence repeats one, and no two places share one. `ThreadInv` says
  which thread may hold a batch; without it a drained batch could be overwritten
  by the next.
* `LogStreamProofs`: `BufferIsImplemented`: the hub and its clients never disturb
  the buffer, so what is proved of the buffer holds of the composition.
  `StreamTypeCorrect` (no queue holds more than its size), `LinesComeInOrder`,
  `LinesAreComplete`. A message passes through the event loop, the client's queue and
  its socket, and `StreamInv` treats the three as one pipe for each client: ordered
  by thread and number from end to end (`PipeOrdered`), within what was
  published since the client subscribed (`PipeBounds`), and without a hole
  unless the queue overflowed (`PipeComplete`); a handler that ended by itself met
  the runner's end, or a line that reads like it (`Session`). `Published` lags one line behind
  `logged` while a thread is inside `_log`. The end of the stream comes after all
  lines because the thread of a run joins the readers before it publishes it, which
  `ThreadInv` gives. Order and gaps are stated with quantifiers over positions,
  not with `SelectSeq`, which takes an operator and cannot be reasoned about here.

* `SchedulerProofs`: `TypeCorrect`, `LateRunsBounded`, `JobsInSync`,
  `InvalidExpressionsBlock`. `InSync` speaks of moments when no handler is at
  work; the invariant behind it, `SyncInv`, says what is known meanwhile. A
  handler that is alone holds the committed row, or its row does not exist yet
  (`AloneInv`); what it knows of the job depends on how far it has come. Of a
  start, the ids loaded are the enabled ones and those registered have their
  job (`StartInv`), and no handler is at work before the server is up
  (`ReqInv`). A step of the running server disturbs one id only (`LocalStep`), so
  each handler's step is a fact about its own id. `LateInv` bounds late runs: a
  firing that read an enabled row is the only one that can queue a run after
  it, and one job does not fire twice at a time.

* `RetentionProofs`: `TypeCorrect`, `RowsOwned`, `NeverAdopted`,
  `FamiliesTogether`. That a thread owns its row is not inductive: the sweep
  might take it. `OwnOpen` adds that the row has no stamp while nobody touched
  it, so that no cutoff reaches it. For a workflow and its nodes the invariant
  orders stamps: `Stamps` says that a node's run is never stamped after its
  workflow's, so whatever cutoff takes the workflow takes the node. It rests on
  `NodesInside` (a workflow's thread is at work while a node's is, since a wave
  waits for its threads) and on `Settled` (a thread that has ended left a stamp,
  or a closed status, or died with the server, with its workflow, and waits for
  the clean-up, which stamps both). `Below` (a node's id is larger than its
  parent's) keeps the parent's id from being given away under a node.
* `CatalogueProofs`: `TypeCorrect`, `ReferencesWhole`. `PlansCover` says of every
  deletion under way what it will do to each reference to a doomed row: a cascade
  has already doomed the referring row, and after `Gather` every other one will be
  set to NULL. That two levels of cascade are all there are is `DoomedIsClosed`, a fact
  about `Schema`.
* `AlwaysOnProofs`: `TypeCorrect`, `AliveInTime`, `StaleInTime`, for any number of
  ids with any gaps between them, and any intervals. `OnTheWay` says that
  the next mark of a settled service will be in time: either from where the
  heartbeat thread is (`Ahead`: what is left of its timer, the interval if it
  still waits, and the server's delay), or from a request under way; an interval
  does not change while a service is settled (`EveryKept`). `LateBeats`
  says the opposite of a dead service: what the server still handles was posted
  before the loop was gone, so that age and absence differ by `Slow` at most.

The assumptions are those named `...Assumption` in the modules; TLC evaluates
them in the runs. What is model-checked only is what must eventually happen:
`CommittedRunSettles`, `CancelStopsRun`, `WorkflowEnds`, `LinesWritten` and
`StreamEnds`. They need fairness and ENABLED, which are beyond the prover. The
two properties of the `v_*` runs are false of the code (section 5).

## 5. Where the code and its documentation disagree

Each has a run in which TLC finds the behaviour:

1. `v_rest`: a run triggered over REST may stay QUEUED for ever, because its
   task starts before its row is committed (`routers/scripts.py:70`).
2. `v_celery`: a worker process never registers the tasks it is sent, because
   `_get_celery_handles` is called by `delay` only (`tasks.py:53`); it discards
   the message and the run stays QUEUED. `src/docs/index.html:531` says "Celery
   task enqueued → Worker picks up". With the handles built at the start of the
   worker the property of that run holds.

Seen while modelling, and without a run of their own.

*Runs.* A run cancelled while QUEUED is executed all the same (`runner.py:244`),
RUNNING with a stamp, and is skipped by the clean-up after a crash
(`api/__init__.py:62`);
an exception of a retry leaves a workflow's parent RUNNING until the next start
(`engine.py:117`), and so does one of the last transaction (`engine.py:39`); a graph
without a root, as a cycle is, is a SUCCESS in which nothing ran; a cancel handler that read
RUNNING overwrites an outcome written meanwhile (`runs.py:62`); a cancel between
the commit of RUNNING and the registration of the process kills nothing
(`runner.py:273`); a reader thread that cannot be started (`runner.py:282`) leads to
the `except` clause, which unregisters the process and does not kill it
(`runner.py:311`); runs closed by the clean-up are not reported; under `serve` the
scheduler starts before the clean-up (`cli/main.py:56`, `api/__init__.py:29`), so a
run it fires in between is closed as FAILED while it executes, and its thread
overwrites that, also with SUCCESS (`server.overtaken` in `ScriptRuns`, `touched` in
`Retention`); a
cancel of a workflow does not stop its waves, and its final status overwrites
the cancel (`engine.py:42`); a wave's pool ignores the configured
concurrency (`engine.py:61`); a workflow's own failure sends no notification; a
node's `timeout_sec` is stored and never read; lines may be written after the run is finished
(`runner.py:317` says they are flushed before); a join of two "on success" edges
runs although one predecessor failed, if the failing one completes first
(`engine.py:74`); a log stream opened after the end of a run, or of a run that
timed out or was cancelled, never ends (`websocket.py:45`, `runner.py:294`); a line
`__done__` that the script itself prints ends the stream, and what follows is not
sent (`websocket.py:47`), while the page closes and reloads at such a line even
when it is replayed (`run_detail.html:127`), though `help.html:476` has it signal
that the run finished; a late client may see a line
twice, or miss one that was drained but not yet committed when it read the
backlog; a client that left is forgotten only when a message comes.

*Retention.* A run cancelled while QUEUED, or closed by the clean-up while a
command executes it, has a stamp while it executes; if it executes for longer
than the retention the sweep deletes its row and logs, the id may be given to
the next run, and the outcome, the logs and a cancel of the one then land on the
other (`apscheduler.py:124`). A run that nothing but the command's cancel closed has
no stamp and is never swept.

*Catalogue.* Foreign keys are declared and not enforced (`core/db.py` sets no
`PRAGMA foreign_keys`). A form may name a group or a script that does not exist,
and a reference written while its target is being deleted dangles, and refers
to whatever row is given that id next. A group that has a workflow, and a script
that has a service, cannot be deleted: the reference is required and not
cascaded, and the request is rolled back with an error (`models.py:115`, `172`).
Deleting a workflow leaves its schedules enabled and without a target
(`models.py:100`). Deleting a group or a script keeps its runs, with
`script_id` NULL; `src/src/scriptmgr/api/web/templates/help.html:102` has it
delete the run history. The ids of scripts inside a workflow's graph are not
references and stay; the script that is given such an id next is executed
in place of the deleted one.

*Always-on services.* The page's limit does not know the interval: a wrapper
with an interval near or above it is shown stale while it lives. A heartbeat that is
handled while its service is deleted and another takes over the id marks the
other. The status itself is never taken back (`services.py:36`); only the page
ages it. A wrapper whose interpreter cannot be started ends, with its heartbeat
thread, and waits for NSSM. A negative `--heartbeat` is accepted
(`cli/main.py:524`): the service sends one heartbeat and is shown stale from then
on, though its script runs.

*Schedules.* A schedule with an invalid expression, which the forms of the web
interface store before they parse it, keeps the server from starting
(`apscheduler.py:77`, `ui.py:429` and `455`). Toggling in the web interface, and the command line, do not touch
the job: an enabled schedule may have none, a disabled one keeps firing without
effect until the next start (`ui.py:464`). A job left behind is inherited by the
next schedule with the same id; if that one is manual it fires all the same, and
no start removes it, since its id is enabled (`apscheduler.py:87`). A schedule
created as disabled over REST has a job (`schedules.py:34`). Requests that enable
and disable at once may leave an enabled row without a job. An edit during which
a date's job fires registers no new job (`apscheduler.py:204`). A `continuous`
schedule fires by the clock and not after completion (`apscheduler.py:148`;
`help.html:197` has "Re-run 10s after completing"). A date that fired is
registered again by a restart within the 300 seconds of grace.

*The polling fallback* (not modelled). `_stream_via_polling` reads the rows before
the status of the run (`websocket.py:98`, `107`), so the last batch and the end
of a run that are committed between the two reads give a client `__done__`
without the last lines. Only the Celery mode falls back, and only when the
`redis` package is missing (`websocket.py:63`); the docstring (`websocket.py:6`)
has both modes fall back when their primary channel is unavailable.

## 6. Abstractions

* Exit codes are zero or not; times are only their order; a line's text, a
  script's command and a notification's content are left out.
* A committed transaction is one step, and a failed one leaves no trace. Failures
  of transactions in request handlers are left out: the request fails and
  nothing else happens.
* `log_hub.publish` is one step (copying the subscribers and scheduling the
  callbacks); a subscription between the two parts is one after both. Count and
  rows of the backlog are one read.
* A pool or reader thread that fails to start, a grandchild that holds a pipe
  open, and graceful shutdown are left out; `Crash` covers the death of the process,
  and that of a start whose clean-up meets a locked database.
* Several properties name the cases in which the code does not have them, and say
  nothing of those. `CommittedRunSettles` leaves out a task that raised;
  `CancelSticks` and `CancelStopsRun` a cancel before the script starts, one after
  the thread has looked for it, and one that finds no process; `OneOutcome`,
  `FailureAlerted` and `LifecycleSpec` what a clean-up overtook; `NoStaleRow` a row
  with a stamp; `StatusFaithful` a workflow that was cancelled; `WorkflowEnds` one
  whose thread an exception ended; `LiveComplete` what follows a line that reads
  `__done__`; `InSync` the ids that `drifted`; `TargetsKept` what is not `bound`;
  `OwnRow`, `NoAdoption` and `FamilyKept` what was `touched`, and `FamilyKept` a
  cancelled workflow or node; `StaleShown` a row that bears another service's mark.
  Section 5 says what the code does there.
* `WorkflowEngine` abstracts `execute_script` to its result; `ScriptRuns` shows
  which results there are. The REST trigger of workflows, which also submits
  before it commits, is not modelled (`v_rest` shows the same for scripts).

* In `Scheduler`, reading and committing a row in `schedules_toggle`, and in the
  deletes, is one step, and so is the pruning; a request
  that waits for SQLite's lock waits until it gets it; triggers have no clock: a
  job may fire whenever it is in the store.

* In `Retention` each handler's read and write is one step (`ScriptRuns` has them
  apart), retries are further nodes, and the clock is only the order of stamps.
* In `Catalogue` a row is its references: names and their uniqueness, paths and
  settings are left out, and so is a group made its own parent, on whose deletion
  SQLAlchemy reports a cycle. One run has one deletion at a time; the proof has
  any number. Two requests that insert at once take turns, as SQLite makes them.
* In `AlwaysOn` a server that is up commits every heartbeat it accepted: a
  heartbeat that meets a locked database is left out, and so are scripts that post
  heartbeats of their own (`help.html` describes it) and the choice of a port. An
  interval of exactly zero seconds is one of one unit of time.
* In `CeleryMode` a task is executed or discarded; `ScriptRuns` has its steps.

Not modelled: `_build_command` (a choice of the interpreter by file name and
settings, without state), malformed stored graphs (an exception before the
first wave; the row stays QUEUED until the next start), graceful shutdown,
Redis and the polling fallback of the stream.
Not worth a model: the dashboard cache (its staleness is a matter of real
time), settings, schemas, installer, file browser and pages, which keep no state.

## 7. Plan

Done, in this order: `ScriptRuns` with its two abstractions, `WorkflowEngine`
with `Dag`, `LogBuffer`, `LogStream`, `Scheduler`, `Catalogue`, `Retention`,
`AlwaysOn`, `CeleryMode`, and theorems about each but `CeleryMode`, which has
only the run that shows a disagreement.

Next theorems, by importance:

1. What the liveness properties need of safety: that a thread of `ScriptRuns`
   that has not ended always has a step or waits for its process, and that a
   node of a wave always has one (the absence of deadlock, as invariants).
2. A measure that every step of a run decreases between its submission and its
   end, which bounds the steps of a run without fairness.
3. That a line lost from sight belongs to a failed transaction of its own batch.

Next models: redelivery in `CeleryMode` composed with the steps of
`execute_script` (a run executed twice), once the worker can execute one; and
`_build_command` as an operator, against a reference definition.
