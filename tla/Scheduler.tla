------------------------------ MODULE Scheduler ------------------------------
(***************************************************************************)
(* Schedules: the table "schedules", the jobs that APScheduler keeps in a  *)
(* database of its own, the handlers that change the one, the other or     *)
(* both, the start of the scheduler, which brings them together again, and *)
(* the jobs that fire meanwhile.                                           *)
(*                                                                         *)
(* One action is one committed transaction, one call of the scheduler, or  *)
(* one read of a row.  A schedule is reduced to what its trigger is built  *)
(* from.                                                                   *)
(*                                                                         *)
(* A definition named A_Slip is the definition A that follows it with a    *)
(* plausible slip in the code; no action uses it.                          *)
(***************************************************************************)
EXTENDS Naturals, FiniteSets

CONSTANTS
  MaxId,       \* the largest id of a schedule
  Triggers,    \* what a cron, interval, date or continuous trigger is built from
  OneShot,     \* those of type date: their job is removed when it fires
  Requests,    \* requests of the server's handlers
  MaxStops     \* bound on the crashes and shutdowns of the server

ASSUME IdAssumption == MaxId \in Nat \ {0}
ASSUME TriggerAssumption == /\ OneShot \subseteq Triggers
                            /\ {"none", "manual", "invalid"} \cap Triggers = {}
ASSUME StopsAssumption == MaxStops \in Nat

VARIABLES
  row,      \* the committed rows of the table "schedules"
  job,      \* the trigger of each job "schedule_<id>" in the job store
  server,   \* the start of the scheduler, and of the server with it
  loaded,   \* enabled_ids of the start
  todo,     \* the triggers of the schedules the start has still to register
  req,      \* the handlers of the server, each with the copy of the row it holds
  fire,     \* where _fire is for each job
  late,     \* runs queued for each schedule since it was last enabled
  drifted,  \* ids of which only one of the two databases was changed
  stops     \* times the server may still stop

vars == <<row, job, server, loaded, todo, req, fire, late, drifted, stops>>

-----------------------------------------------------------------------------
(* Shapes of the state *)

Ids == 1..MaxId

(* A manual schedule has no trigger; an invalid expression raises.         *)
Exprs  == Triggers \cup {"manual", "invalid"}
Row    == [expr: Exprs \cup {"none"}, enabled: BOOLEAN]
NoRow  == [expr |-> "none", enabled |-> FALSE]

Op  == {"none", "create", "enable", "disable", "delete", "webCreate", "webEdit"}
Req == [op: Op, id: Ids, expr: Exprs \cup {"none"}, on: BOOLEAN, alone: BOOLEAN,
        pc: {"idle", "refresh", "check", "remove", "register", "commit"}]
NoReq == [op |-> "none", id |-> 1, expr |-> "none", on |-> FALSE, alone |-> TRUE, pc |-> "idle"]

Exists(i)   == row[i].expr # "none"
InFlight(q) == req[q].pc # "idle"
BusyIds     == {req[q].id : q \in {p \in Requests : InFlight(p)}}

(* SQLite gives a new row the id after the largest one: that of a deleted  *)
(* row may be used again.                                                  *)
Fresh(i) == /\ ~Exists(i)
            /\ \A j \in Ids : Exists(j) => j < i
            /\ i > 1 => Exists(i - 1)

(* A row that is flushed and not committed locks the database.             *)
Unlocked == \A q \in Requests : ~(InFlight(q) /\ req[q].op = "create")

Init ==
  /\ row = [i \in Ids |-> NoRow]
  /\ job = [i \in Ids |-> "none"]
  /\ server = "down"
  /\ loaded = {}
  /\ todo = [i \in Ids |-> "none"]
  /\ req = [q \in Requests |-> NoReq]
  /\ fire = [i \in Ids |-> "idle"]
  /\ late = [i \in Ids |-> 0]
  /\ drifted = {}
  /\ stops = MaxStops

SetRow(i, r) ==
  /\ row' = [row EXCEPT ![i] = r]
  /\ late' = [late EXCEPT ![i] = IF r.enabled THEN 0 ELSE @]

-----------------------------------------------------------------------------
(* Handlers of the server: how they begin *)

(* A handler begins; it is alone while no other one is at work on the same *)
(* schedule and nobody else changes the row.                               *)
Disturbed(i) == [q \in Requests |-> IF InFlight(q) /\ req[q].id = i
                                      THEN [req[q] EXCEPT !.alone = FALSE] ELSE req[q]]

Begin(q, op, i, expr, on, pc) ==
  /\ server = "up" /\ ~InFlight(q)
  /\ req' = [Disturbed(i) EXCEPT ![q] = [op |-> op, id |-> i, expr |-> expr, on |-> on,
                                         alone |-> i \notin BusyIds, pc |-> pc]]
  /\ UNCHANGED <<job, server, loaded, todo, fire, drifted, stops>>

(* POST /api/schedules flushes the row, registers the job and commits when *)
(* the handler has returned.                                               *)
CreateFlushed(q) ==
  /\ Unlocked
  /\ \E i \in Ids, expr \in Exprs, on \in BOOLEAN :
        Fresh(i) /\ Begin(q, "create", i, expr, on, "register")
  /\ UNCHANGED <<row, late>>

(* PATCH .../enable and .../disable and DELETE read the row, change the    *)
(* job and commit the row last.                                            *)
EnableRead(q) ==
  /\ \E i \in Ids : Exists(i) /\ Begin(q, "enable", i, row[i].expr, row[i].enabled, "register")
  /\ UNCHANGED <<row, late>>

DisableRead(q) ==
  /\ \E i \in Ids, op \in {"disable", "delete"} :
        Exists(i) /\ Begin(q, op, i, row[i].expr, row[i].enabled, "check")
  /\ UNCHANGED <<row, late>>

(* The forms of the web interface commit the row first.                    *)
WebCreate(q) ==
  /\ Unlocked
  /\ \E i \in Ids, expr \in Exprs :
        /\ Fresh(i)
        /\ Begin(q, "webCreate", i, expr, TRUE, "refresh")
        /\ SetRow(i, [expr |-> expr, enabled |-> TRUE])

WebEdit(q) ==
  /\ Unlocked
  /\ \E i \in Ids, expr \in Exprs :
        /\ Exists(i)
        /\ Begin(q, "webEdit", i, expr, row[i].enabled, "refresh")
        /\ SetRow(i, [row[i] EXCEPT !.expr = expr])

-----------------------------------------------------------------------------
(* Handlers of the server: how they go on *)

Step(q, pc) == req' = [req EXCEPT ![q].pc = pc]
Leave(q)    == req' = [req EXCEPT ![q] = NoReq]

(* A handler that was alone and went through leaves row and job in step,   *)
(* whatever they were before; one that raises does not repair anything.    *)
Finish(q) == /\ Leave(q)
             /\ drifted' = IF req[q].alone THEN drifted \ {req[q].id}
                                           ELSE drifted \cup {req[q].id}
Quit(q)   == /\ Leave(q)
             /\ drifted' = IF req[q].alone THEN drifted ELSE drifted \cup {req[q].id}

Refresh(q) ==
  LET r == row[req[q].id] IN
  /\ req[q].pc = "refresh"
  /\ \/ /\ Exists(req[q].id)
        /\ req' = [req EXCEPT ![q].expr = r.expr, ![q].on = r.enabled,
                              ![q].pc = IF req[q].op = "webEdit" THEN "check" ELSE "register"]
        /\ UNCHANGED drifted
     \/ ~Exists(req[q].id) /\ Quit(q)
  /\ UNCHANGED <<row, job, server, loaded, todo, fire, late, stops>>

(* remove_schedule: get_job, then remove_job, which raises when the job    *)
(* has gone meanwhile.  An edit has then committed a row for which no job  *)
(* will be registered.                                                     *)
Removed(q) ==
  IF req[q].op # "webEdit" THEN Step(q, "commit") /\ UNCHANGED drifted
  ELSE IF req[q].on THEN Step(q, "register") /\ UNCHANGED drifted
  ELSE Finish(q)

CheckJob(q) ==
  /\ req[q].pc = "check"
  /\ IF job[req[q].id] = "none" THEN Removed(q) ELSE Step(q, "remove") /\ UNCHANGED drifted
  /\ UNCHANGED <<row, job, server, loaded, todo, fire, late, stops>>

RemoveJob(q) ==
  LET i == req[q].id IN
  /\ req[q].pc = "remove"
  /\ \/ job[i] # "none" /\ Removed(q)
     \/ job[i] = "none" /\ req[q].op # "webEdit" /\ Quit(q)
     \/ /\ job[i] = "none" /\ req[q].op = "webEdit"
        /\ Leave(q) /\ drifted' = drifted \cup {i}
  /\ job' = [job EXCEPT ![i] = "none"]
  /\ UNCHANGED <<row, server, loaded, todo, fire, late, stops>>

(* add_schedule.  For a manual schedule it does nothing, so that a job     *)
(* which a deleted schedule left behind under the same id stays; for an    *)
(* invalid expression it raises: after the commit in the web interface,    *)
(* before it in REST, where the row is rolled back.                        *)
InRest(q)   == req[q].op \in {"create", "enable"}
ToCommit(q) == InRest(q) /\ Step(q, "commit") /\ UNCHANGED drifted

Register_Unchecked(q) ==
  /\ req[q].pc = "register"
  /\ job' = [job EXCEPT ![req[q].id] = req[q].expr]
  /\ ToCommit(q) \/ (~InRest(q) /\ Finish(q))
  /\ UNCHANGED <<row, server, loaded, todo, fire, late, stops>>
Register(q) ==
  /\ req[q].pc = "register"
  /\ \/ /\ req[q].expr \in Triggers
        /\ job' = [job EXCEPT ![req[q].id] = req[q].expr]
        /\ ToCommit(q) \/ (~InRest(q) /\ Finish(q))
     \/ /\ req[q].expr = "manual"
        /\ UNCHANGED job
        /\ ToCommit(q) \/ (~InRest(q) /\ Quit(q))
     \/ /\ req[q].expr = "invalid"
        /\ UNCHANGED job
        /\ Quit(q)
  /\ UNCHANGED <<row, server, loaded, todo, fire, late, stops>>

(* The session of a REST request commits.  A schedule created as disabled  *)
(* has a job all the same, and so may a manual one with the id of a        *)
(* deleted schedule.                                                       *)
CommitCreate(q) ==
  LET i == req[q].id IN
  /\ req[q].op = "create" /\ req[q].pc = "commit"
  /\ SetRow(i, [expr |-> req[q].expr, enabled |-> req[q].on])
  /\ IF req[q].expr = "manual" THEN Quit(q)
     ELSE IF req[q].on THEN Finish(q)
     ELSE Leave(q) /\ drifted' = drifted \cup {i}
  /\ UNCHANGED <<job, server, loaded, todo, fire, stops>>

(* An attribute that keeps the value it had is not written, and the update *)
(* of a row that has gone raises.                                          *)
CommitEnabled(q) ==
  LET i == req[q].id
      on == req[q].op = "enable"
      written == req[q].on # on IN
  /\ req[q].op \in {"enable", "disable"} /\ req[q].pc = "commit"
  /\ Unlocked
  /\ IF written /\ Exists(i) THEN SetRow(i, [row[i] EXCEPT !.enabled = on])
                            ELSE UNCHANGED <<row, late>>
  /\ IF (written /\ ~Exists(i)) \/ (on /\ req[q].expr = "manual") THEN Quit(q) ELSE Finish(q)
  /\ UNCHANGED <<job, server, loaded, todo, fire, stops>>

CommitDelete(q) ==
  /\ req[q].op = "delete" /\ req[q].pc = "commit"
  /\ Unlocked
  /\ SetRow(req[q].id, NoRow)
  /\ Finish(q)
  /\ UNCHANGED <<job, server, loaded, todo, fire, stops>>

HandlerStep(q) == \/ Refresh(q) \/ CheckJob(q) \/ RemoveJob(q) \/ Register(q)
                  \/ CommitCreate(q) \/ CommitEnabled(q) \/ CommitDelete(q)

-----------------------------------------------------------------------------
(* Changes of the row alone *)

RowOnly(i, r) ==
  /\ Unlocked
  /\ SetRow(i, r)
  /\ req' = Disturbed(i)
  /\ drifted' = drifted \cup {i}
  /\ UNCHANGED <<job, server, loaded, todo, fire, stops>>

WebToggle(i) == server = "up" /\ Exists(i) /\ RowOnly(i, [row[i] EXCEPT !.enabled = ~@])

(* The web interface, the command line and the deletion of the script      *)
(* delete the row.                                                         *)
DeleteRow(i) == Exists(i) /\ RowOnly(i, NoRow)

(* The scheduler of the command line's process never runs: a job added to  *)
(* it is forgotten when the process ends, but an invalid expression raises.*)
CliAdd(i) == \E expr \in Exprs \ {"invalid"} :
                Fresh(i) /\ RowOnly(i, [expr |-> expr, enabled |-> TRUE])

-----------------------------------------------------------------------------
(* The start of the scheduler *)

Start ==
  /\ server = "down"
  /\ server' = "load"
  /\ UNCHANGED <<row, job, loaded, todo, req, fire, late, drifted, stops>>

(* _reload_all_schedules reads the rows of the enabled schedules ...       *)
Load_AllSchedules ==
  /\ server = "load"
  /\ server' = "register"
  /\ loaded' = {i \in Ids : row[i].enabled}
  /\ todo' = [i \in Ids |-> row[i].expr]
  /\ drifted' = {}
  /\ UNCHANGED <<row, job, req, fire, late, stops>>
Load ==
  /\ server = "load"
  /\ server' = "register"
  /\ loaded' = {i \in Ids : row[i].enabled}
  /\ todo' = [i \in Ids |-> IF row[i].enabled THEN row[i].expr ELSE "none"]
  /\ drifted' = {i \in Ids : row[i] = [expr |-> "manual", enabled |-> TRUE] /\ job[i] # "none"}
  /\ UNCHANGED <<row, job, req, fire, late, stops>>

(* ... registers each of them: an invalid expression ends the start ...    *)
RegisterLoaded(i) ==
  /\ server = "register"
  /\ todo[i] # "none" /\ \A j \in Ids : todo[j] # "none" => i <= j
  /\ IF todo[i] = "invalid"
       THEN /\ server' = "down"
            /\ loaded' = {} /\ todo' = [j \in Ids |-> "none"]
            /\ fire' = [j \in Ids |-> "idle"]
            /\ UNCHANGED job
       ELSE /\ job' = IF todo[i] = "manual" THEN job ELSE [job EXCEPT ![i] = todo[i]]
            /\ todo' = [todo EXCEPT ![i] = "none"]
            /\ UNCHANGED <<server, loaded, fire>>
  /\ UNCHANGED <<row, req, late, drifted, stops>>

(* ... and removes the jobs of all others.                                 *)
Prune_OfExisting ==
  /\ server = "register" /\ \A i \in Ids : todo[i] = "none"
  /\ job' = [i \in Ids |-> IF Exists(i) THEN job[i] ELSE "none"]
  /\ server' = "up" /\ loaded' = {}
  /\ UNCHANGED <<row, todo, req, fire, late, drifted, stops>>
Prune ==
  /\ server = "register" /\ \A i \in Ids : todo[i] = "none"
  /\ job' = [i \in Ids |-> IF i \in loaded THEN job[i] ELSE "none"]
  /\ server' = "up" /\ loaded' = {}
  /\ UNCHANGED <<row, todo, req, fire, late, drifted, stops>>

(* A crash, or a shutdown that waits for nothing: threads and handlers are *)
(* gone, and with them what they have not committed.                       *)
Stop ==
  /\ server # "down" /\ stops > 0
  /\ server' = "down"
  /\ loaded' = {} /\ todo' = [i \in Ids |-> "none"]
  /\ req' = [q \in Requests |-> NoReq]
  /\ fire' = [i \in Ids |-> "idle"]
  /\ stops' = stops - 1
  /\ UNCHANGED <<row, job, late, drifted>>

-----------------------------------------------------------------------------
(* Jobs that fire *)

(* The scheduler's thread: a job fires from the start on, not more than    *)
(* once at a time; that of a date leaves the store.                        *)
Fire(i) ==
  /\ server # "down" /\ job[i] # "none" /\ fire[i] = "idle"
  /\ fire' = [fire EXCEPT ![i] = "read"]
  /\ job' = IF job[i] \in OneShot THEN [job EXCEPT ![i] = "none"] ELSE job
  /\ UNCHANGED <<row, server, loaded, todo, req, late, drifted, stops>>

(* A date that passed too long ago is dropped.                             *)
Misfire(i) ==
  /\ server # "down" /\ job[i] \in OneShot
  /\ job' = [job EXCEPT ![i] = "none"]
  /\ UNCHANGED <<row, server, loaded, todo, req, fire, late, drifted, stops>>

(* _fire reads the schedule and does nothing if it is not enabled.         *)
FireReads_AnyRow(i) ==
  /\ fire[i] = "read"
  /\ fire' = [fire EXCEPT ![i] = IF Exists(i) THEN "insert" ELSE "idle"]
  /\ UNCHANGED <<row, job, server, loaded, todo, req, late, drifted, stops>>
FireReads(i) ==
  /\ fire[i] = "read"
  /\ fire' = [fire EXCEPT ![i] = IF row[i].enabled THEN "insert" ELSE "idle"]
  /\ UNCHANGED <<row, job, server, loaded, todo, req, late, drifted, stops>>

(* It commits the QUEUED run; the run's own module submits it from here.   *)
FireInserts(i) ==
  /\ fire[i] = "insert" /\ Unlocked
  /\ fire' = [fire EXCEPT ![i] = "idle"]
  /\ late' = [late EXCEPT ![i] = IF row[i].enabled THEN 0 ELSE @ + 1]
  /\ UNCHANGED <<row, job, server, loaded, todo, req, drifted, stops>>

-----------------------------------------------------------------------------
Next ==
  \/ \E q \in Requests : \/ CreateFlushed(q) \/ EnableRead(q) \/ DisableRead(q)
                         \/ WebCreate(q) \/ WebEdit(q) \/ HandlerStep(q)
  \/ \E i \in Ids : \/ WebToggle(i) \/ DeleteRow(i) \/ CliAdd(i) \/ RegisterLoaded(i)
                    \/ Fire(i) \/ Misfire(i) \/ FireReads(i) \/ FireInserts(i)
  \/ Start \/ Load \/ Prune \/ Stop

Spec == Init /\ [][Next]_vars

-----------------------------------------------------------------------------
(* Properties *)

TypeOK ==
  /\ row \in [Ids -> Row]
  /\ job \in [Ids -> Triggers \cup {"none"}]
  /\ server \in {"down", "load", "register", "up"}
  /\ loaded \subseteq Ids
  /\ todo \in [Ids -> Exprs \cup {"none"}]
  /\ req \in [Requests -> Req]
  /\ fire \in [Ids -> {"idle", "read", "insert"}]
  /\ late \in [Ids -> Nat]
  /\ drifted \subseteq Ids
  /\ stops \in Nat

(* While the server is up, exactly the enabled schedules have a job, and   *)
(* it has their trigger, whatever the earlier sessions left behind: except *)
(* where a handler is at work, where the row was changed alone, or where   *)
(* two handlers met.  A handler that runs alone repairs what had drifted.  *)
Expected(i) ==
  IF ~row[i].enabled \/ row[i].expr \notin Triggers THEN {"none"}
  ELSE {row[i].expr} \cup (IF row[i].expr \in OneShot THEN {"none"} ELSE {})

InSync == server = "up" => \A i \in Ids \ (drifted \cup BusyIds) : job[i] \in Expected(i)

(* The invariant behind InSync.  A handler that is alone knows the row;    *)
(* what it knows of the job depends on how far it has come, and on whether *)
(* the schedule had drifted before.                                        *)
Fits(i, expr) == job[i] \in {expr} \cup (IF expr \in OneShot THEN {"none"} ELSE {})

PcOf(op) ==
  CASE op = "create"    -> {"register", "commit"}
    [] op = "enable"    -> {"register", "commit"}
    [] op = "disable"   -> {"check", "remove", "commit"}
    [] op = "delete"    -> {"check", "remove", "commit"}
    [] op = "webCreate" -> {"refresh", "register"}
    [] op = "webEdit"   -> {"refresh", "check", "remove", "register"}
    [] OTHER            -> {}

RowInv == \A i \in Ids : row[i].enabled => Exists(i)

ReqInv ==
  /\ \A q \in Requests :
       InFlight(q) => /\ server = "up" /\ req[q].pc \in PcOf(req[q].op)
                      /\ req[q].op = "create" => req[q].expr # "none"
  /\ \A p, q \in Requests :
       p # q /\ InFlight(p) /\ InFlight(q) /\ req[p].id = req[q].id => ~req[p].alone
  /\ \A p, q \in Requests :
       InFlight(p) /\ InFlight(q) /\ req[p].op = "create" /\ req[q].op = "create" => p = q

AloneInv(q) ==
  LET r == req[q]  i == r.id  free == i \notin drifted IN
  /\ IF r.op = "create" THEN ~Exists(i)
     ELSE Exists(i) /\ row[i] = [expr |-> r.expr, enabled |-> r.on]
  /\ r.op \in {"create", "webCreate"} /\ r.pc # "commit" /\ free => job[i] = "none"
  /\ r.op = "webCreate" => r.on
  /\ r.op = "webEdit" /\ r.pc = "register" => job[i] = "none" /\ r.on
  /\ r.op = "enable" /\ r.pc = "register" /\ free => job[i] \in Expected(i)
  /\ r.op \in {"disable", "delete"} /\ r.pc # "commit" /\ free => job[i] \in Expected(i)
  /\ r.op \in {"disable", "delete"} /\ r.pc = "commit" => job[i] = "none"
  /\ InRest(q) /\ r.pc = "commit" =>
       \/ r.expr \in Triggers /\ Fits(i, r.expr)
       \/ r.expr = "manual" /\ (free => job[i] = "none")

StartInv ==
  server = "register" =>
    \A i \in Ids \ drifted :
      /\ i \in loaded <=> row[i].enabled
      /\ todo[i] # "none" => i \in loaded /\ todo[i] = row[i].expr
      /\ i \in loaded /\ todo[i] \in {"none", "manual"} => job[i] \in Expected(i)

SyncInv ==
  /\ RowInv /\ ReqInv
  /\ \A q \in Requests : InFlight(q) /\ req[q].alone => AloneInv(q)
  /\ StartInv
  /\ InSync

(* After a schedule was disabled or deleted, at most one more run of it is *)
(* queued, that of a firing which had read the row before: although its    *)
(* job may stay, fire again and be loaded by later starts.                 *)
AtMostOneLateRun == \A i \in Ids : late[i] <= 1

LateInv ==
  \A i \in Ids :
    /\ late[i] \in {0, 1}
    /\ row[i].enabled \/ fire[i] = "insert" => late[i] = 0

(* A start that fails on its own does so because of an enabled schedule    *)
(* with an invalid expression, or one that the command line deleted while  *)
(* the start went on.  A disabled schedule never stands in the way.        *)
OnlyInvalidBlocks ==
  [][server # "down" /\ server' = "down" /\ stops' = stops
       => \E i \in Ids : i \in drifted \/ row[i] = [expr |-> "invalid", enabled |-> TRUE]]_vars
=============================================================================
