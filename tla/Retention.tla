------------------------------ MODULE Retention ------------------------------
(***************************************************************************)
(* Who owns a row of the table "runs".  The thread that executes a run     *)
(* holds nothing but its id; the nightly sweep deletes rows by the age of  *)
(* finished_at, and SQLite gives the id of the last row, once deleted, to  *)
(* the next run.  A run has a number of its own here, in order of          *)
(* creation, beside the id of its row.                                     *)
(*                                                                         *)
(* One action is one committed transaction.  The clock is coarse: only the *)
(* order of time stamps counts, and 0 is NULL.  A definition named A_Slip  *)
(* is the definition A that follows it with a plausible slip in the code;  *)
(* no action uses it.                                                      *)
(***************************************************************************)
EXTENDS Naturals

CONSTANTS
  MaxRuns,    \* bound on the runs ever created
  Flows,      \* those of a workflow
  CliRuns,    \* those executed by the process of a command
  MaxTime     \* bound on the clock

ASSUME RunsAssumption == /\ MaxRuns \in Nat \ {0}
                         /\ Flows \subseteq 1..MaxRuns
                         /\ CliRuns \subseteq 1..MaxRuns
ASSUME TimeAssumption == MaxTime \in Nat \ {0}

VARIABLES
  row,      \* the row of each id; "of" is the run it was created for, 0 where there is none
  logs,     \* the runs whose threads wrote lines into run_logs under each id
  id,       \* the id each run was given
  boss,     \* the run of the workflow that created it as a node, or 0
  thread,   \* where the thread of each run is
  touched,  \* runs stamped by others while their thread was at work, or written by a thread
            \* that had lost its own row
  cleaned,  \* whether the clean-up of the server's last start is over
  now       \* the clock

vars == <<row, logs, id, boss, thread, touched, cleaned, now>>

Runs  == 1..MaxRuns
Ids   == 1..MaxRuns
Times == 1..MaxTime

NoRow == [of |-> 0, open |-> FALSE, fin |-> 0, parent |-> 0]
Rows  == [of: 0..MaxRuns, open: BOOLEAN, fin: 0..MaxTime, parent: 0..MaxRuns]

Exists(i) == row[i].of # 0
Active(r) == thread[r] \in {"queued", "busy"}

Init ==
  /\ row = [i \in Ids |-> NoRow]
  /\ logs = [i \in Ids |-> {}]
  /\ id = [r \in Runs |-> 0]
  /\ boss = [r \in Runs |-> 0]
  /\ thread = [r \in Runs |-> "none"]
  /\ touched = {}
  /\ cleaned = TRUE
  /\ now = 1

-----------------------------------------------------------------------------
(* A run is created *)

(* SQLite gives a new row the id after the largest one.                    *)
Fresh(i) == (\A j \in Ids : Exists(j) => j < i) /\ (i > 1 => Exists(i - 1))

Insert(r, i, b) ==
  /\ thread[r] = "none" /\ \A s \in Runs : s < r => thread[s] # "none"
  /\ Fresh(i)
  /\ row' = [row EXCEPT ![i] = [of |-> r, open |-> TRUE, fin |-> 0,
                                parent |-> IF b = 0 THEN 0 ELSE id[b]]]
  /\ id' = [id EXCEPT ![r] = i]
  /\ boss' = [boss EXCEPT ![r] = b]
  /\ thread' = [thread EXCEPT ![r] = "queued"]
  /\ UNCHANGED <<logs, touched, cleaned, now>>

(* By hand, by a schedule, or by a command, which executes it itself.      *)
Create(r) == \E i \in Ids : Insert(r, i, 0)

(* The engine creates the run of a node, which executes in the process of  *)
(* its workflow; it writes the parent's id as it was given it.             *)
CreateNode(r) ==
  \E b \in Flows, i \in Ids :
     thread[b] = "busy" /\ (b \in CliRuns <=> r \in CliRuns) /\ Insert(r, i, b)

-----------------------------------------------------------------------------
(* Its thread *)

Goto(r, pc) == thread' = [thread EXCEPT ![r] = pc]

(* The run whose row a thread finds under its id, if it is not its own.    *)
Misled(r) == {row[id[r]].of} \ {0, r}

(* The row is marked RUNNING whatever its status was, and an earlier       *)
(* finished_at is kept.  The task raises when the row, the script or the   *)
(* workflow is gone.                                                       *)
Start(r) ==
  /\ thread[r] = "queued"
  /\ \/ Goto(r, "raised") /\ UNCHANGED <<row, touched>>
     \/ /\ Exists(id[r]) /\ Goto(r, "busy")
        /\ row' = [row EXCEPT ![id[r]].open = TRUE]
        /\ touched' = touched \cup Misled(r)
  /\ UNCHANGED <<logs, id, boss, cleaned, now>>

(* The log buffer flushes lines, which name the run by its id.             *)
Log(r) ==
  /\ thread[r] = "busy" /\ r \notin Flows
  /\ logs' = [logs EXCEPT ![id[r]] = @ \cup {r}]
  /\ UNCHANGED <<row, id, boss, thread, touched, cleaned, now>>

(* The engine leaves a wave when the threads of all its nodes have ended.  *)
NodesOver(r) == \A c \in Runs : boss[c] = r => ~Active(c)

End_NoWait(r) ==
  /\ thread[r] = "busy" /\ Goto(r, "over")
  /\ row' = IF Exists(id[r]) THEN [row EXCEPT ![id[r]].open = FALSE, ![id[r]].fin = now] ELSE row
  /\ touched' = touched \cup Misled(r)
  /\ UNCHANGED <<logs, id, boss, cleaned, now>>

End_LocalTime(r) ==
  /\ thread[r] = "busy" /\ NodesOver(r) /\ Goto(r, "over")
  /\ row' = IF Exists(id[r]) THEN [row EXCEPT ![id[r]].open = FALSE, ![id[r]].fin = now + 1] ELSE row
  /\ touched' = touched \cup Misled(r)
  /\ UNCHANGED <<logs, id, boss, cleaned, now>>

(* The outcome is written into the row of that id, if there is one.        *)
End(r) ==
  /\ thread[r] = "busy" /\ NodesOver(r) /\ Goto(r, "over")
  /\ row' = IF Exists(id[r]) THEN [row EXCEPT ![id[r]].open = FALSE, ![id[r]].fin = now] ELSE row
  /\ touched' = touched \cup Misled(r)
  /\ UNCHANGED <<logs, id, boss, cleaned, now>>

(* An exception of the database leaves the row as it is.                   *)
Fail(r) ==
  /\ thread[r] = "busy" /\ NodesOver(r) /\ Goto(r, "raised")
  /\ UNCHANGED <<row, logs, id, boss, touched, cleaned, now>>

-----------------------------------------------------------------------------
(* Others that write the row *)

(* The server's cancel handlers stamp a run that is QUEUED or RUNNING; it  *)
(* answers no request before its start is over.                            *)
Cancel(i) ==
  /\ cleaned /\ Exists(i) /\ row[i].open
  /\ row' = [row EXCEPT ![i].open = FALSE, ![i].fin = IF @ = 0 THEN now ELSE @]
  /\ touched' = IF Active(row[i].of) THEN touched \cup {row[i].of} ELSE touched
  /\ UNCHANGED <<logs, id, boss, thread, cleaned, now>>

(* The command writes the status and no stamp.                             *)
CliCancel(i) ==
  /\ Exists(i)
  /\ row' = [row EXCEPT ![i].open = FALSE]
  /\ UNCHANGED <<logs, id, boss, thread, touched, cleaned, now>>

(* The server's threads are gone, and it is started again.  Under "serve"  *)
(* the scheduler is the first to start: runs are created and executed, and *)
(* the sweep may come, before the clean-up.                                *)
Restart ==
  /\ thread' = [r \in Runs |-> IF Active(r) /\ r \notin CliRuns THEN "over" ELSE thread[r]]
  /\ cleaned' = FALSE
  /\ UNCHANGED <<row, logs, id, boss, touched, now>>

(* The clean-up closes every run that is QUEUED or RUNNING, with one stamp *)
(* for all: also those of a command and those that were just created.      *)
Stale(i) == Exists(i) /\ row[i].open /\ row[i].fin = 0

CleanUp ==
  /\ ~cleaned /\ cleaned' = TRUE
  /\ row' = [i \in Ids |-> IF Stale(i) THEN [row[i] EXCEPT !.open = FALSE, !.fin = now] ELSE row[i]]
  /\ touched' = touched \cup {r \in Runs : Active(r) /\ \E i \in Ids : Stale(i) /\ row[i].of = r}
  /\ UNCHANGED <<logs, id, boss, thread, now>>

Expired_NullIsOld(i, cutoff) == Exists(i) /\ row[i].fin < cutoff
Expired(i, cutoff) == Exists(i) /\ row[i].fin # 0 /\ row[i].fin < cutoff

(* The retention sweep, with the logs of the rows it deletes.              *)
Sweep ==
  /\ \E cutoff \in 1..now :
        /\ row'  = [i \in Ids |-> IF Expired(i, cutoff) THEN NoRow ELSE row[i]]
        /\ logs' = [i \in Ids |-> IF Expired(i, cutoff) THEN {} ELSE logs[i]]
  /\ UNCHANGED <<id, boss, thread, touched, cleaned, now>>

Tick ==
  /\ now < MaxTime /\ now' = now + 1
  /\ UNCHANGED <<row, logs, id, boss, thread, touched, cleaned>>

Next ==
  \/ \E r \in Runs : Create(r) \/ CreateNode(r) \/ Start(r) \/ Log(r) \/ End(r) \/ Fail(r)
  \/ \E i \in Ids : Cancel(i) \/ CliCancel(i)
  \/ Restart \/ CleanUp \/ Sweep \/ Tick

Spec == Init /\ [][Next]_vars

-----------------------------------------------------------------------------
(* Properties *)

(* Every variable has its shape, and no stamp lies in the future.          *)
TypeOK ==
  /\ row \in [Ids -> Rows]
  /\ logs \in [Ids -> SUBSET Runs]
  /\ id \in [Runs -> 0..MaxRuns]
  /\ boss \in [Runs -> 0..MaxRuns]
  /\ thread \in [Runs -> {"none", "queued", "busy", "over", "raised"}]
  /\ touched \subseteq Runs
  /\ cleaned \in BOOLEAN
  /\ now \in Times
  /\ \A i \in Ids : row[i].fin <= now

(* A thread whose run nobody else has stamped still owns the row of its id *)
(* when it comes to write its outcome there, and the log of a run holds    *)
(* lines of its own thread only, unless a displaced thread wrote them.     *)
OwnRow ==
  /\ \A r \in Runs \ touched : Active(r) => row[id[r]].of = r
  /\ \A i \in Ids : Exists(i) => logs[i] \subseteq {row[i].of} \cup touched

(* The row that a node's run names as its parent, if there is one, is that *)
(* of the workflow that created it, also after the sweep has freed ids.    *)
NoAdoption ==
  \A i \in Ids :
     LET b == boss[row[i].of]  p == row[i].parent
     IN  Exists(i) /\ p # 0 /\ Exists(p) => row[p].of = b \/ b \in touched

(* The sweep never deletes a workflow's run and leaves that of a node      *)
(* behind, unless the node's thread raised, its row was never stamped, or  *)
(* somebody else stamped one of the two.                                   *)
FamilyKept ==
  \A i \in Ids :
     LET c == row[i].of
     IN  /\ Exists(i) /\ boss[c] # 0 /\ {c, boss[c]} \cap touched = {}
         /\ thread[c] # "raised" /\ (Active(c) \/ row[i].fin # 0)
         => row[id[boss[c]]].of = boss[c]
=============================================================================
