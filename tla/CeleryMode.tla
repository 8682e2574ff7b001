----------------------------- MODULE CeleryMode -----------------------------
(***************************************************************************)
(* The distributed mode: a run's task goes through a broker to a worker,   *)
(* a process of its own that executes the tasks registered in it.  A       *)
(* process registers them when it builds its handles, and it builds them   *)
(* as it sends its first task.                                             *)
(*                                                                         *)
(* The broker keeps what was sent to it until the worker acknowledges it,  *)
(* at the end of the task (task_acks_late).  Celery and the broker are     *)
(* external; a worker discards a message whose task it does not know.      *)
(***************************************************************************)
EXTENDS Naturals

CONSTANTS
  Runs,        \* runs of scripts
  MaxDeaths    \* bound on the deaths of the worker

VARIABLES
  status,   \* the status of each run's row, "none" before there is one
  sent,     \* the runs whose task was sent
  handles,  \* the processes that have built their handles
  worker,   \* whether the worker is up
  queue,    \* the runs whose task the broker keeps
  busy,     \* those among them that the worker executes
  deaths    \* how often the worker has died

vars == <<status, sent, handles, worker, queue, busy, deaths>>

Init ==
  /\ status = [r \in Runs |-> "none"]
  /\ sent = {}
  /\ handles = {}
  /\ worker = "off"
  /\ queue = {}
  /\ busy = {}
  /\ deaths = 0

(* The worker imports celery_app and, for its "include", the module tasks; *)
(* neither builds the handles.                                             *)
BeginWorker ==
  /\ worker = "off"
  /\ worker' = "up"
  /\ UNCHANGED <<status, sent, handles, queue, busy, deaths>>

(* The service starts a worker once; the command starts one at any time.   *)
StartWorker   == deaths = 0 /\ BeginWorker
WorkerCommand == BeginWorker

Create(r) ==
  /\ status[r] = "none"
  /\ status' = [status EXCEPT ![r] = "queued"]
  /\ UNCHANGED <<sent, handles, worker, queue, busy, deaths>>

(* _get_celery_handles, in the process p                                   *)
BuildHandles(p) == handles' = handles \cup {p}

(* run_script_task.delay, in the server or in a command's process          *)
Delay(r) ==
  /\ status[r] = "queued" /\ r \notin sent
  /\ \E p \in {"server", "command"} : BuildHandles(p)
  /\ sent' = sent \cup {r}
  /\ queue' = queue \cup {r}
  /\ UNCHANGED <<status, worker, busy, deaths>>

(* A message reaches the worker.                                           *)
Receive(r) ==
  /\ worker = "up" /\ r \in queue \ busy
  /\ IF "worker" \in handles
       THEN /\ busy' = busy \cup {r}
            /\ status' = [status EXCEPT ![r] = "running"]
            /\ UNCHANGED queue
       ELSE /\ queue' = queue \ {r}
            /\ UNCHANGED <<status, busy>>
  /\ UNCHANGED <<sent, handles, worker, deaths>>

(* _run_script returns and its message is acknowledged.                    *)
Return(r) ==
  /\ r \in busy
  /\ status' = [status EXCEPT ![r] = "over"]
  /\ queue' = queue \ {r}
  /\ busy' = busy \ {r}
  /\ UNCHANGED <<sent, handles, worker, deaths>>

Die ==
  /\ worker = "up" /\ deaths < MaxDeaths
  /\ worker' = "off"
  /\ handles' = handles \ {"worker"}
  /\ busy' = {}
  /\ deaths' = deaths + 1
  /\ UNCHANGED <<status, sent, queue>>

Next == \/ StartWorker \/ WorkerCommand \/ Die
        \/ \E r \in Runs : Create(r) \/ Delay(r) \/ Receive(r) \/ Return(r)

Spec == Init /\ [][Next]_vars

(* The worker is started, the request that created a run goes on to send   *)
(* its task, the broker delivers, and a script ends.                       *)
FairSpec == /\ Spec /\ WF_vars(WorkerCommand)
            /\ \A r \in Runs : WF_vars(Delay(r)) /\ WF_vars(Receive(r)) /\ WF_vars(Return(r))

(* A run that was created is executed by the worker:                       *)
(* src/docs/index.html:531, "Celery task enqueued -> Worker picks up",     *)
(* followed by "status: RUNNING".                                          *)
WorkerPicksUp == \A r \in Runs : status[r] = "queued" ~> status[r] # "queued"
=============================================================================
