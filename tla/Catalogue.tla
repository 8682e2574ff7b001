------------------------------ MODULE Catalogue ------------------------------
(***************************************************************************)
(* The catalogue: groups, scripts, workflows, schedules, services, and the *)
(* runs that point at them.  SQLite is opened without                      *)
(* "PRAGMA foreign_keys", so that nothing but SQLAlchemy's unit of work    *)
(* keeps references whole: db.delete(row) reads the rows that go with it   *)
(* (cascade="all, delete-orphan"), the flush reads those whose reference   *)
(* is to be set to NULL, and one transaction then writes what was read.    *)
(* Other requests may commit between any two of these three steps.         *)
(*                                                                         *)
(* A row is its id and its references.  A definition named A_Slip is the   *)
(* definition A that follows it with a plausible slip in the code; no      *)
(* action uses it.                                                         *)
(***************************************************************************)
EXTENDS Naturals, FiniteSets

CONSTANTS
  MaxId,      \* bound on ids
  Room,       \* bound on the ids of each table's rows, and on those a request may name
  MaxRows,    \* bound on the rows of all tables together
  Requests    \* requests that delete something

Tables == {"groups", "scripts", "workflows", "schedules", "services", "runs"}
Ids    == 1..MaxId
Refs   == 0..MaxId        \* 0 is NULL

ASSUME IdAssumption   == MaxId \in Nat \ {0}
ASSUME RoomAssumption == Room \in [Tables -> Ids] /\ MaxRows \in Nat

(* A foreign key: the table it is in, the table it points to, whether it   *)
(* is NOT NULL, and whether its rows are deleted with their target.        *)
Key(of, to, required, cascade) ==
  [of |-> of, to |-> to, required |-> required, cascade |-> cascade]

Schema ==
  [parent           |-> Key("groups",    "groups",    FALSE, FALSE),
   scriptGroup      |-> Key("scripts",   "groups",    TRUE,  TRUE),
   workflowGroup    |-> Key("workflows", "groups",    TRUE,  FALSE),
   scheduleScript   |-> Key("schedules", "scripts",   FALSE, TRUE),
   scheduleWorkflow |-> Key("schedules", "workflows", FALSE, FALSE),
   serviceScript    |-> Key("services",  "scripts",   TRUE,  FALSE),
   runScript        |-> Key("runs",      "scripts",   FALSE, FALSE),
   runWorkflow      |-> Key("runs",      "workflows", FALSE, FALSE)]

Columns == {"parent", "scriptGroup", "workflowGroup", "scheduleScript",
            "scheduleWorkflow", "serviceScript", "runScript", "runWorkflow"}

VARIABLES
  rows,     \* the ids of each table's rows
  ref,      \* ref[c][i]: what column c of row i holds
  del,      \* what each deleting request has read
  bound     \* bound[c]: rows whose reference c was written while its target was there for good

vars == <<rows, ref, del, bound>>

NoRows == [t \in Tables |-> {}]
NoRefs == [c \in Columns |-> {}]
Idle   == [pc |-> "idle", doomed |-> NoRows, nulled |-> NoRefs]
Plans  == [pc: {"idle", "loaded", "gathered"},
           doomed: [Tables -> SUBSET Ids], nulled: [Columns -> SUBSET Ids]]

Init ==
  /\ rows = NoRows
  /\ ref = [c \in Columns |-> [i \in Ids |-> 0]]
  /\ del = [q \in Requests |-> Idle]
  /\ bound = NoRefs

-----------------------------------------------------------------------------
(* Writing one row *)

(* The ids that a request may name, of a row or of none.                   *)
Named(t) == 1..Room[t]

(* A target that exists and that nobody is deleting.                       *)
ThereForGood(t, x) == x \in rows[t] /\ \A q \in Requests : x \notin del[q].doomed[t]

(* SQLite gives a new row the id after the largest one: the id of a        *)
(* deleted row may be used again.                                          *)
Fresh(t, i) ==
  /\ i \in Named(t)
  /\ \A j \in rows[t] : j < i
  /\ i > 1 => i - 1 \in rows[t]
  /\ Cardinality(UNION {{t2} \X rows[t2] : t2 \in Tables}) < MaxRows

(* The columns of val are written in row i.  The handlers of the web       *)
(* interface do not look whether what they name exists.                    *)
Write(i, val) ==
  /\ ref' = [c \in Columns |-> IF c \in DOMAIN val THEN [ref[c] EXCEPT ![i] = val[c]] ELSE ref[c]]
  /\ bound' = [c \in Columns |->
                 CASE c \notin DOMAIN val                  -> bound[c]
                   [] c \in DOMAIN val /\ ThereForGood(Schema[c].to, val[c]) -> bound[c] \cup {i}
                   [] OTHER                                -> bound[c] \ {i}]
  /\ UNCHANGED del

Insert(t, val) ==
  \E i \in Ids : Fresh(t, i) /\ rows' = [rows EXCEPT ![t] = @ \cup {i}] /\ Write(i, val)

Update(t, i, val) == i \in rows[t] /\ UNCHANGED rows /\ Write(i, val)

-----------------------------------------------------------------------------
(* Handlers that create or change a row *)

(* A group that is made its own parent is left out.                        *)
CreateGroup == \E g \in Named("groups") \cup {0} :
                  ~Fresh("groups", g) /\ Insert("groups", [parent |-> g])
AddScript   == \E g \in Named("groups") : Insert("scripts", [scriptGroup |-> g])
AddWorkflow == \E g \in Named("groups") : Insert("workflows", [workflowGroup |-> g])
AddSchedule == \E s \in Named("scripts") \cup {0}, w \in Named("workflows") \cup {0} :
                  Insert("schedules", [scheduleScript |-> s, scheduleWorkflow |-> w])

(* services.script_id is unique: a second service for a script is refused. *)
RegisterService ==
  \E s \in Named("scripts") :
     /\ \A i \in rows["services"] : ref["serviceScript"][i] # s
     /\ Insert("services", [serviceScript |-> s])

(* By hand, by the command line, or as a node of a workflow.               *)
TriggerScript   == \E s \in Named("scripts") : Insert("runs", [runScript |-> s, runWorkflow |-> 0])
TriggerWorkflow == \E w \in Named("workflows") : Insert("runs", [runScript |-> 0, runWorkflow |-> w])

FireSchedule ==
  \E i \in rows["schedules"] :
     Insert("runs", [runScript   |-> ref["scheduleScript"][i],
                     runWorkflow |-> ref["scheduleWorkflow"][i]])

UpdateGroup    == \E i \in Ids : \E g \in (Named("groups") \cup {0}) \ {i} :
                     Update("groups", i, [parent |-> g])
UpdateScript   == \E i \in Ids, g \in Named("groups") : Update("scripts", i, [scriptGroup |-> g])
UpdateWorkflow == \E i \in Ids, g \in Named("groups") : Update("workflows", i, [workflowGroup |-> g])
EditSchedule   ==
  \E i \in Ids, s \in Named("scripts") \cup {0}, w \in Named("workflows") \cup {0} :
     Update("schedules", i, [scheduleScript |-> s, scheduleWorkflow |-> w])

(* The command `db reset` drops every table and creates it again.          *)
Reset == rows' = NoRows /\ ref' = [c \in Columns |-> [i \in Ids |-> 0]]
         /\ bound' = NoRefs /\ UNCHANGED del

-----------------------------------------------------------------------------
(* Deleting a row and what hangs on it *)

(* Rows that a cascade deletes with those of D.                            *)
Owned(D) ==
  [t \in Tables |->
     D[t] \cup {i \in rows[t] : \E c \in Columns : /\ Schema[c].of = t /\ Schema[c].cascade
                                                   /\ ref[c][i] \in D[Schema[c].to]}]

(* A group owns scripts and a script owns schedules: two levels are all.   *)
Doomed_OneLevel(t, i) == Owned([NoRows EXCEPT ![t] = {i}])
Doomed(t, i) == Owned(Owned([NoRows EXCEPT ![t] = {i}]))

(* Rows that stay and point, by a key without cascade, at a row of D.      *)
Orphans(D) ==
  [c \in Columns |-> {i \in rows[Schema[c].of] \ D[Schema[c].of] :
                         ~Schema[c].cascade /\ ref[c][i] \in D[Schema[c].to]}]

(* db.delete(row), after db.get has found the row.                         *)
Load(q, t) ==
  /\ del[q].pc = "idle"
  /\ \E i \in rows[t] :
        del' = [del EXCEPT ![q] = [Idle EXCEPT !.pc = "loaded", !.doomed = Doomed(t, i)]]
  /\ UNCHANGED <<rows, ref, bound>>

DeleteGroup(q)    == Load(q, "groups")
DeleteScript(q)   == Load(q, "scripts")
DeleteWorkflow(q) == Load(q, "workflows")
DeleteSchedule(q) == Load(q, "schedules")
DeleteService(q)  == Load(q, "services")

Delete(q) == \/ DeleteGroup(q) \/ DeleteScript(q) \/ DeleteWorkflow(q)
             \/ DeleteSchedule(q) \/ DeleteService(q)

(* The flush, before its transaction.                                      *)
Gather(q) ==
  /\ del[q].pc = "loaded"
  /\ del' = [del EXCEPT ![q].pc = "gathered", ![q].nulled = Orphans(del[q].doomed)]
  /\ UNCHANGED <<rows, ref, bound>>

(* The database refuses NULL in a required column, and SQLAlchemy raises   *)
(* for an UPDATE that finds no row; a DELETE that finds none only warns.   *)
Refused_Never(q) == FALSE
Refused(q) ==
  \E c \in Columns : \/ Schema[c].required /\ del[q].nulled[c] # {}
                     \/ ~(del[q].nulled[c] \subseteq rows[Schema[c].of])

Commit(q) ==
  /\ del[q].pc = "gathered" /\ ~Refused(q)
  /\ rows' = [t \in Tables |-> rows[t] \ del[q].doomed[t]]
  /\ ref' = [c \in Columns |-> [i \in Ids |->
               IF i \in del[q].nulled[c] \cup del[q].doomed[Schema[c].of] THEN 0 ELSE ref[c][i]]]
  /\ bound' = [c \in Columns |-> bound[c] \ (del[q].nulled[c] \cup del[q].doomed[Schema[c].of])]
  /\ del' = [del EXCEPT ![q] = Idle]

Rollback(q) ==
  /\ del[q].pc = "gathered" /\ Refused(q)
  /\ del' = [del EXCEPT ![q] = Idle]
  /\ UNCHANGED <<rows, ref, bound>>

Next ==
  \/ CreateGroup \/ AddScript \/ AddWorkflow \/ AddSchedule \/ RegisterService
  \/ TriggerScript \/ TriggerWorkflow \/ FireSchedule
  \/ UpdateGroup \/ UpdateScript \/ UpdateWorkflow \/ EditSchedule \/ Reset
  \/ \E q \in Requests : Delete(q) \/ Gather(q) \/ Commit(q) \/ Rollback(q)

Spec == Init /\ [][Next]_vars

-----------------------------------------------------------------------------
(* Properties *)

(* Every variable has its shape, and no row of a committed table has NULL  *)
(* in a required column, whatever was deleted around it.                   *)
TypeOK ==
  /\ rows \in [Tables -> SUBSET Ids]
  /\ ref \in [Columns -> [Ids -> Refs]]
  /\ del \in [Requests -> Plans]
  /\ bound \in [Columns -> SUBSET Ids]
  /\ \A c \in Columns : Schema[c].required => \A i \in rows[Schema[c].of] : ref[c][i] # 0

(* A reference that was written while its target existed and nobody was    *)
(* deleting it never dangles: the target is there, or else the deletion    *)
(* has taken the row along or has set the reference to NULL.  Otherwise a  *)
(* new row that is given the id of the deleted one would inherit its       *)
(* schedules, its runs or its service.                                     *)
TargetsKept ==
  \A c \in Columns : \A i \in bound[c] :
     i \in rows[Schema[c].of] /\ ref[c][i] \in rows[Schema[c].to]
=============================================================================
