--------------------------- MODULE CatalogueProofs ---------------------------
(***************************************************************************)
(* What is proved of the module Catalogue, for any number of rows and of   *)
(* requests that delete at the same time.                                  *)
(***************************************************************************)
EXTENDS Catalogue, TLAPS

(* A plan takes along every row that a cascade binds to what it deletes    *)
(* and, once it is gathered, sets every other such reference to NULL.      *)
PlansCover ==
  \A q \in Requests, c \in Columns : \A i \in bound[c] :
     ref[c][i] \in del[q].doomed[Schema[c].to] =>
        /\ Schema[c].cascade => i \in del[q].doomed[Schema[c].of]
        /\ del[q].pc = "gathered" => i \in del[q].nulled[c] \cup del[q].doomed[Schema[c].of]

(* The inductive invariant.                                                *)
IInv == TypeOK /\ TargetsKept /\ PlansCover

-----------------------------------------------------------------------------
(* The schema and the plans *)

LEMMA SchemaValues ==
  /\ Schema["parent"]           = Key("groups",    "groups",    FALSE, FALSE)
  /\ Schema["scriptGroup"]      = Key("scripts",   "groups",    TRUE,  TRUE)
  /\ Schema["workflowGroup"]    = Key("workflows", "groups",    TRUE,  FALSE)
  /\ Schema["scheduleScript"]   = Key("schedules", "scripts",   FALSE, TRUE)
  /\ Schema["scheduleWorkflow"] = Key("schedules", "workflows", FALSE, FALSE)
  /\ Schema["serviceScript"]    = Key("services",  "scripts",   TRUE,  FALSE)
  /\ Schema["runScript"]        = Key("runs",      "scripts",   FALSE, FALSE)
  /\ Schema["runWorkflow"]      = Key("runs",      "workflows", FALSE, FALSE)
  BY DEF Schema

LEMMA SchemaTypes ==
  \A c \in Columns : /\ Schema[c].of \in Tables /\ Schema[c].to \in Tables
                     /\ Schema[c].required \in BOOLEAN /\ Schema[c].cascade \in BOOLEAN
<1> DEFINE Keys == [of: Tables, to: Tables, required: BOOLEAN, cascade: BOOLEAN]
<1>1. \A s, u \in Tables, r, d \in BOOLEAN : Key(s, u, r, d) \in Keys
  BY DEF Key
<1>2. {"groups", "scripts", "workflows", "schedules", "services", "runs"} \subseteq Tables
  BY DEF Tables
<1> HIDE DEF Keys
<1>3. \A c \in Columns : Schema[c] \in Keys
  BY <1>1, <1>2, SchemaValues DEF Columns
<1> QED BY <1>3 DEF Keys

LEMMA IdleTypes == Idle \in Plans /\ NoRows \in [Tables -> SUBSET Ids] /\ NoRefs \in [Columns -> SUBSET Ids]
  BY DEF Idle, Plans, NoRows, NoRefs

LEMMA PlanTypes ==
  ASSUME TypeOK, NEW q \in Requests
  PROVE  /\ del[q] \in Plans
         /\ del[q].doomed \in [Tables -> SUBSET Ids]
         /\ del[q].nulled \in [Columns -> SUBSET Ids]
  BY DEF TypeOK, Plans

LEMMA OwnedTypes ==
  ASSUME TypeOK, NEW D \in [Tables -> SUBSET Ids]
  PROVE  Owned(D) \in [Tables -> SUBSET Ids]
  BY DEF TypeOK, Owned

LEMMA DoomedTypes ==
  ASSUME TypeOK, NEW t \in Tables, NEW i \in rows[t]
  PROVE  /\ [NoRows EXCEPT ![t] = {i}] \in [Tables -> SUBSET Ids]
         /\ Doomed(t, i) \in [Tables -> SUBSET Ids]
<1>1. [NoRows EXCEPT ![t] = {i}] \in [Tables -> SUBSET Ids]
  BY DEF TypeOK, NoRows
<1> QED BY <1>1, OwnedTypes DEF Doomed

(* Two levels of ownership are closed: no table owns groups, scripts are   *)
(* owned by groups only and schedules own nothing.                         *)
LEMMA DoomedIsClosed ==
  ASSUME TypeOK, NEW t \in Tables, NEW k \in rows[t],
         NEW c \in Columns, Schema[c].cascade,
         NEW i \in rows[Schema[c].of], ref[c][i] \in Doomed(t, k)[Schema[c].to]
  PROVE  i \in Doomed(t, k)[Schema[c].of]
<1> DEFINE D0 == [NoRows EXCEPT ![t] = {k}]
           D1 == Owned(D0)
<1>4. Doomed(t, k) = Owned(D1)
  BY DEF Doomed
<1>1. D0 \in [Tables -> SUBSET Ids] /\ D1 \in [Tables -> SUBSET Ids]
  BY DoomedTypes, OwnedTypes
<1>a. \A d \in Columns : Schema[d].cascade =>
         \/ d = "scriptGroup" /\ Schema[d].of = "scripts" /\ Schema[d].to = "groups"
         \/ d = "scheduleScript" /\ Schema[d].of = "schedules" /\ Schema[d].to = "scripts"
  BY SchemaValues DEF Columns, Key
<1>b. "scriptGroup" \in Columns /\ "scheduleScript" \in Columns
      /\ "groups" \in Tables /\ "scripts" \in Tables /\ "schedules" \in Tables
  BY DEF Columns, Tables
<1> HIDE DEF D0
<1>2. D1["groups"] = D0["groups"] /\ Owned(D1)["groups"] = D0["groups"]
  BY <1>a, <1>b DEF Owned
<1>3. Owned(D1)["scripts"] = D1["scripts"]
  BY <1>1, <1>2, <1>a, <1>b DEF Owned
<1> HIDE DEF D1
<1>5. c = "scriptGroup" \/ c = "scheduleScript"
  BY <1>a
<1>6. CASE c = "scriptGroup"
  <2>1. i \in rows["scripts"] /\ ref["scriptGroup"][i] \in D1["groups"]
    BY <1>2, <1>4, <1>6, <1>a
  <2> QED BY <2>1, <1>4, <1>6, <1>a, <1>b DEF Owned
<1>7. CASE c = "scheduleScript"
  <2>1. i \in rows["schedules"] /\ ref["scheduleScript"][i] \in D1["scripts"]
    BY <1>3, <1>4, <1>7, <1>a
  <2> QED BY <2>1, <1>4, <1>7, <1>a, <1>b DEF Owned
<1> QED BY <1>5, <1>6, <1>7

-----------------------------------------------------------------------------
(* Creating and changing rows *)

(* Writing a row of table t, with all its required columns, keeps the      *)
(* invariant: a reference counts as bound only outside of every plan.      *)
LEMMA WriteKeeps ==
  ASSUME IInv, NEW t \in Tables, NEW i \in Ids, NEW D \in SUBSET Columns, NEW val \in [D -> Refs],
         \A c \in D : Schema[c].of = t,
         \A c \in Columns : Schema[c].required /\ Schema[c].of = t => c \in D /\ val[c] # 0,
         rows' = [rows EXCEPT ![t] = @ \cup {i}],
         Write(i, val)
  PROVE  IInv'
<1>1. rows' \in [Tables -> SUBSET Ids] /\ del' = del
  BY DEF IInv, TypeOK, Write
<1>2. \A u \in Tables : rows[u] \subseteq rows'[u] /\ (u # t => rows'[u] = rows[u])
  BY DEF IInv, TypeOK
<1>3. i \in rows'[t] /\ rows'[t] = rows[t] \cup {i}
  BY DEF IInv, TypeOK
<1>4. /\ \A c \in D : ref'[c] = [ref[c] EXCEPT ![i] = val[c]]
      /\ \A c \in Columns \ D : ref'[c] = ref[c]
      /\ ref' \in [Columns -> [Ids -> Refs]]
  BY DEF Write, IInv, TypeOK
<1>5. /\ \A c \in D : bound'[c] = IF ThereForGood(Schema[c].to, val[c])
                                    THEN bound[c] \cup {i} ELSE bound[c] \ {i}
      /\ \A c \in Columns \ D : bound'[c] = bound[c]
  BY DEF Write
<1>6. bound' \in [Columns -> SUBSET Ids]
  <2>1. bound' = [c \in Columns |-> bound'[c]]
    BY DEF Write
  <2>2. ASSUME NEW c \in Columns PROVE bound'[c] \subseteq Ids
    <3>1. bound[c] \subseteq Ids
      BY DEF IInv, TypeOK
    <3>2. \A P : (IF P THEN bound[c] \cup {i} ELSE bound[c] \ {i}) \subseteq Ids
      BY <3>1
    <3>3. CASE c \in D
      BY <3>2, <3>3, <1>5, Zenon
    <3>4. CASE c \notin D
      BY <3>1, <3>4, <1>5
    <3> QED BY <3>3, <3>4
  <2> QED BY <2>1, <2>2
<1>7. TypeOK'
  <2>1. ASSUME NEW c \in Columns, Schema[c].required, NEW j \in rows'[Schema[c].of]
        PROVE  ref'[c][j] # 0
    <3>1. CASE Schema[c].of = t
      <4>1. c \in D /\ val[c] # 0
        BY <2>1, <3>1
      <4>2. ref'[c] = [ref[c] EXCEPT ![i] = val[c]] /\ ref[c] \in [Ids -> Refs]
        BY <4>1, <1>4 DEF IInv, TypeOK
      <4>3. j = i \/ j \in rows[t]
        BY <2>1, <3>1, <1>3
      <4>4. j \in Ids
        BY <1>1, <2>1, SchemaTypes
      <4>5. j \in rows[t] => ref[c][j] # 0
        BY <2>1, <3>1 DEF IInv, TypeOK
      <4> QED BY <4>1, <4>2, <4>3, <4>4, <4>5
    <3>2. CASE Schema[c].of # t
      BY <2>1, <3>2, <1>2, <1>4, SchemaTypes DEF IInv, TypeOK
    <3> QED BY <3>1, <3>2
  <2> QED BY <2>1, <1>1, <1>4, <1>6 DEF TypeOK, IInv
(* A bound reference is an old one, or the one just written.               *)
<1>8. ASSUME NEW c \in Columns, NEW j \in bound'[c]
      PROVE  \/ j \in bound[c] /\ ref'[c][j] = ref[c][j]
             \/ c \in D /\ j = i /\ ref'[c][j] = val[c] /\ ThereForGood(Schema[c].to, val[c])
  <2>1. CASE c \in D
    <3>1. bound'[c] = IF ThereForGood(Schema[c].to, val[c]) THEN bound[c] \cup {i} ELSE bound[c] \ {i}
      BY <2>1, <1>5
    <3>2. ref'[c] = [ref[c] EXCEPT ![i] = val[c]] /\ ref[c] \in [Ids -> Refs]
      BY <2>1, <1>4 DEF IInv, TypeOK
    <3>3. j \in Ids
      BY <1>6, <1>8
    <3> QED BY <2>1, <1>8, <3>1, <3>2, <3>3
  <2>2. CASE c \notin D
    BY <2>2, <1>8, <1>4, <1>5
  <2> QED BY <2>1, <2>2
<1>9. TargetsKept'
  BY <1>8, <1>2, <1>3, SchemaTypes DEF TargetsKept, IInv, ThereForGood
<1>10. PlansCover'
  BY <1>8, <1>1 DEF PlansCover, IInv, ThereForGood
<1> QED BY <1>7, <1>9, <1>10 DEF IInv

LEMMA InsertKeeps ==
  ASSUME IInv, NEW t \in Tables, NEW D \in SUBSET Columns, NEW val \in [D -> Refs],
         \A c \in D : Schema[c].of = t,
         \A c \in Columns : Schema[c].required /\ Schema[c].of = t => c \in D /\ val[c] # 0,
         Insert(t, val)
  PROVE  IInv'
  BY WriteKeeps DEF Insert

LEMMA UpdateKeeps ==
  ASSUME IInv, NEW t \in Tables, NEW i \in Ids, NEW D \in SUBSET Columns, NEW val \in [D -> Refs],
         \A c \in D : Schema[c].of = t,
         \A c \in Columns : Schema[c].required /\ Schema[c].of = t => c \in D /\ val[c] # 0,
         Update(t, i, val)
  PROVE  IInv'
<1>1. rows' = [rows EXCEPT ![t] = @ \cup {i}]
  BY DEF Update, IInv, TypeOK
<1> QED BY <1>1, WriteKeeps DEF Update

LEMMA NullRef == 0 \in Refs
  BY IdAssumption DEF Refs

LEMMA NamedTypes == \A t \in Tables : Named(t) \subseteq Ids /\ Ids \subseteq Refs /\ 0 \in Refs /\ 0 \notin Ids
  BY IdAssumption, RoomAssumption DEF Named, Ids, Refs

(* Every handler that creates or changes a row writes all of its required  *)
(* columns.                                                                *)
LEMMA CreatesKeep ==
  ASSUME IInv, CreateGroup \/ AddScript \/ AddWorkflow \/ AddSchedule \/ RegisterService
  PROVE  IInv'
<1>1. CASE CreateGroup
  <2>1. PICK g \in Refs : Insert("groups", [parent |-> g])
    BY <1>1, NamedTypes DEF CreateGroup, Tables
  <2> DEFINE val == [parent |-> g]
  <2>2. val \in [{"parent"} -> Refs]
    OBVIOUS
  <2>3. Insert("groups", val)
    BY <2>1
  <2> HIDE DEF val
  <2> QED BY <2>2, <2>3, InsertKeeps, SchemaValues DEF Columns, Key, Tables
<1>2. CASE AddScript
  <2>1. PICK g \in Refs : g # 0 /\ Insert("scripts", [scriptGroup |-> g])
    BY <1>2, NamedTypes DEF AddScript, Tables
  <2> DEFINE val == [scriptGroup |-> g]
  <2>2. val \in [{"scriptGroup"} -> Refs] /\ val["scriptGroup"] # 0
    BY <2>1
  <2>3. Insert("scripts", val)
    BY <2>1
  <2> HIDE DEF val
  <2> QED BY <2>2, <2>3, InsertKeeps, SchemaValues DEF Columns, Key, Tables
<1>3. CASE AddWorkflow
  <2>1. PICK g \in Refs : g # 0 /\ Insert("workflows", [workflowGroup |-> g])
    BY <1>3, NamedTypes DEF AddWorkflow, Tables
  <2> DEFINE val == [workflowGroup |-> g]
  <2>2. val \in [{"workflowGroup"} -> Refs] /\ val["workflowGroup"] # 0
    BY <2>1
  <2>3. Insert("workflows", val)
    BY <2>1
  <2> HIDE DEF val
  <2> QED BY <2>2, <2>3, InsertKeeps, SchemaValues DEF Columns, Key, Tables
<1>4. CASE AddSchedule
  <2>1. PICK s, w \in Refs : Insert("schedules", [scheduleScript |-> s, scheduleWorkflow |-> w])
    BY <1>4, NamedTypes DEF AddSchedule, Tables
  <2> DEFINE val == [scheduleScript |-> s, scheduleWorkflow |-> w]
  <2>2. val \in [{"scheduleScript", "scheduleWorkflow"} -> Refs]
    OBVIOUS
  <2>3. Insert("schedules", val)
    BY <2>1
  <2> HIDE DEF val
  <2> QED BY <2>2, <2>3, InsertKeeps, SchemaValues DEF Columns, Key, Tables
<1>5. CASE RegisterService
  <2>1. PICK s \in Refs : s # 0 /\ Insert("services", [serviceScript |-> s])
    BY <1>5, NamedTypes DEF RegisterService, Tables
  <2> DEFINE val == [serviceScript |-> s]
  <2>2. val \in [{"serviceScript"} -> Refs] /\ val["serviceScript"] # 0
    BY <2>1
  <2>3. Insert("services", val)
    BY <2>1
  <2> HIDE DEF val
  <2> QED BY <2>2, <2>3, InsertKeeps, SchemaValues DEF Columns, Key, Tables
<1> QED BY <1>1, <1>2, <1>3, <1>4, <1>5

LEMMA TriggersKeep ==
  ASSUME IInv, TriggerScript \/ TriggerWorkflow \/ FireSchedule
  PROVE  IInv'
<1>1. PICK s, w \in Refs : Insert("runs", [runScript |-> s, runWorkflow |-> w])
  <2>1. CASE TriggerScript
    BY <2>1, NamedTypes DEF TriggerScript, Tables
  <2>2. CASE TriggerWorkflow
    BY <2>2, NamedTypes DEF TriggerWorkflow, Tables
  <2>3. CASE FireSchedule
    <3>1. \A i \in rows["schedules"] : ref["scheduleScript"][i] \in Refs /\ ref["scheduleWorkflow"][i] \in Refs
      BY DEF IInv, TypeOK, Tables, Columns
    <3> QED BY <2>3, <3>1 DEF FireSchedule
  <2> QED BY <2>1, <2>2, <2>3
<1> DEFINE val == [runScript |-> s, runWorkflow |-> w]
<1>2. val \in [{"runScript", "runWorkflow"} -> Refs]
  OBVIOUS
<1>3. Insert("runs", val)
  BY <1>1
<1> HIDE DEF val
<1> QED BY <1>2, <1>3, InsertKeeps, SchemaValues DEF Columns, Key, Tables

LEMMA UpdatesKeep ==
  ASSUME IInv, UpdateGroup \/ UpdateScript \/ UpdateWorkflow \/ EditSchedule
  PROVE  IInv'
<1>1. CASE UpdateGroup
  <2>1. PICK i \in Ids, g \in Refs : Update("groups", i, [parent |-> g])
    BY <1>1, NamedTypes DEF UpdateGroup, Tables
  <2> DEFINE val == [parent |-> g]
  <2>2. val \in [{"parent"} -> Refs]
    OBVIOUS
  <2>3. Update("groups", i, val)
    BY <2>1
  <2> HIDE DEF val
  <2> QED BY <2>2, <2>3, UpdateKeeps, SchemaValues DEF Columns, Key, Tables
<1>2. CASE UpdateScript
  <2>1. PICK i \in Ids, g \in Refs : g # 0 /\ Update("scripts", i, [scriptGroup |-> g])
    BY <1>2, NamedTypes DEF UpdateScript, Tables
  <2> DEFINE val == [scriptGroup |-> g]
  <2>2. val \in [{"scriptGroup"} -> Refs] /\ val["scriptGroup"] # 0
    BY <2>1
  <2>3. Update("scripts", i, val)
    BY <2>1
  <2> HIDE DEF val
  <2> QED BY <2>2, <2>3, UpdateKeeps, SchemaValues DEF Columns, Key, Tables
<1>3. CASE UpdateWorkflow
  <2>1. PICK i \in Ids, g \in Refs : g # 0 /\ Update("workflows", i, [workflowGroup |-> g])
    BY <1>3, NamedTypes DEF UpdateWorkflow, Tables
  <2> DEFINE val == [workflowGroup |-> g]
  <2>2. val \in [{"workflowGroup"} -> Refs] /\ val["workflowGroup"] # 0
    BY <2>1
  <2>3. Update("workflows", i, val)
    BY <2>1
  <2> HIDE DEF val
  <2> QED BY <2>2, <2>3, UpdateKeeps, SchemaValues DEF Columns, Key, Tables
<1>4. CASE EditSchedule
  <2>1. PICK i \in Ids, s, w \in Refs :
           Update("schedules", i, [scheduleScript |-> s, scheduleWorkflow |-> w])
    BY <1>4, NamedTypes DEF EditSchedule, Tables
  <2> DEFINE val == [scheduleScript |-> s, scheduleWorkflow |-> w]
  <2>2. val \in [{"scheduleScript", "scheduleWorkflow"} -> Refs]
    OBVIOUS
  <2>3. Update("schedules", i, val)
    BY <2>1
  <2> HIDE DEF val
  <2> QED BY <2>2, <2>3, UpdateKeeps, SchemaValues DEF Columns, Key, Tables
<1> QED BY <1>1, <1>2, <1>3, <1>4

-----------------------------------------------------------------------------
(* Deleting *)

LEMMA ResetKeeps ==
  ASSUME IInv, Reset
  PROVE  IInv'
<1>1. 0 \in Refs
  BY NullRef
<1>2. \A t \in Tables : rows'[t] = {}
  BY DEF Reset, NoRows
<1>3. \A c \in Columns : bound'[c] = {}
  BY DEF Reset, NoRefs
<1>4. TypeOK'
  BY <1>1, <1>2, IdleTypes, SchemaTypes DEF Reset, IInv, TypeOK
<1> QED BY <1>3, <1>4 DEF IInv, TargetsKept, PlansCover

(* The plan of a new deletion takes along what the deleted rows own.       *)
LEMMA DeleteKeeps ==
  ASSUME IInv, NEW q \in Requests, Delete(q)
  PROVE  IInv'
<1>0. PICK t \in Tables : Load(q, t)
  BY DEF Delete, DeleteGroup, DeleteScript, DeleteWorkflow, DeleteSchedule, DeleteService, Tables
<1>1. PICK k \in Ids :
         /\ k \in rows[t]
         /\ del' = [del EXCEPT ![q] = [Idle EXCEPT !.pc = "loaded", !.doomed = Doomed(t, k)]]
  BY <1>0 DEF Load, IInv, TypeOK
<1> DEFINE plan == [Idle EXCEPT !.pc = "loaded", !.doomed = Doomed(t, k)]
<1>2. Doomed(t, k) \in [Tables -> SUBSET Ids]
  BY <1>1, DoomedTypes DEF IInv
<1>3. plan \in Plans /\ plan.doomed = Doomed(t, k) /\ plan.pc = "loaded"
  BY <1>2, IdleTypes DEF Plans, Idle
<1>4. del' = [del EXCEPT ![q] = plan] /\ UNCHANGED <<rows, ref, bound>>
  BY <1>0, <1>1 DEF Load
<1> HIDE DEF plan
<1>5. TypeOK'
  BY <1>3, <1>4 DEF IInv, TypeOK
<1>6. TargetsKept'
  BY <1>4 DEF IInv, TargetsKept
<1>7. PlansCover'
  <2> SUFFICES ASSUME NEW r \in Requests, NEW c \in Columns, NEW i \in bound[c],
                      ref[c][i] \in del'[r].doomed[Schema[c].to]
               PROVE  /\ Schema[c].cascade => i \in del'[r].doomed[Schema[c].of]
                      /\ del'[r].pc = "gathered" =>
                           i \in del'[r].nulled[c] \cup del'[r].doomed[Schema[c].of]
    BY <1>4 DEF PlansCover
  <2>1. CASE r = q
    <3>1. del'[r] = plan
      BY <2>1, <1>4 DEF IInv, TypeOK
    <3>2. Schema[c].cascade => i \in Doomed(t, k)[Schema[c].of]
      BY <3>1, <1>1, <1>3, DoomedIsClosed DEF IInv, TargetsKept
    <3> QED BY <3>1, <3>2, <1>3
  <2>2. CASE r # q
    <3>1. del'[r] = del[r]
      BY <2>2, <1>4 DEF IInv, TypeOK
    <3> QED BY <3>1 DEF IInv, PlansCover
  <2> QED BY <2>1, <2>2
<1> QED BY <1>5, <1>6, <1>7 DEF IInv

LEMMA GatherKeeps ==
  ASSUME IInv, NEW q \in Requests, Gather(q)
  PROVE  IInv'
<1> DEFINE plan == [del[q] EXCEPT !.pc = "gathered", !.nulled = Orphans(del[q].doomed)]
<1>1. del[q] \in Plans /\ del[q].doomed \in [Tables -> SUBSET Ids]
  BY PlanTypes DEF IInv
<1>2. Orphans(del[q].doomed) \in [Columns -> SUBSET Ids]
  BY <1>1, SchemaTypes DEF Orphans, IInv, TypeOK
<1>3. plan \in Plans /\ plan.doomed = del[q].doomed /\ plan.nulled = Orphans(del[q].doomed)
  BY <1>1, <1>2 DEF Plans
<1>4. del' = [del EXCEPT ![q] = plan] /\ UNCHANGED <<rows, ref, bound>>
  BY DEF Gather, IInv, TypeOK
<1> HIDE DEF plan
<1>5. TypeOK'
  BY <1>3, <1>4 DEF IInv, TypeOK
<1>6. TargetsKept'
  BY <1>4 DEF IInv, TargetsKept
<1>7. PlansCover'
  <2> SUFFICES ASSUME NEW r \in Requests, NEW c \in Columns, NEW i \in bound[c],
                      ref[c][i] \in del'[r].doomed[Schema[c].to]
               PROVE  /\ Schema[c].cascade => i \in del'[r].doomed[Schema[c].of]
                      /\ del'[r].pc = "gathered" =>
                           i \in del'[r].nulled[c] \cup del'[r].doomed[Schema[c].of]
    BY <1>4 DEF PlansCover
  <2>1. CASE r = q
    <3>1. del'[r] = plan
      BY <2>1, <1>4 DEF IInv, TypeOK
    <3>2. Schema[c].cascade => i \in del[q].doomed[Schema[c].of]
      BY <3>1, <1>3 DEF IInv, PlansCover
    <3>3. i \in rows[Schema[c].of]
      BY DEF IInv, TargetsKept
    <3>4. ~Schema[c].cascade => i \in Orphans(del[q].doomed)[c] \cup del[q].doomed[Schema[c].of]
      BY <3>1, <3>3, <1>3 DEF Orphans
    <3> QED BY <3>1, <3>2, <3>4, <1>3
  <2>2. CASE r # q
    <3>1. del'[r] = del[r]
      BY <2>2, <1>4 DEF IInv, TypeOK
    <3> QED BY <3>1 DEF IInv, PlansCover
  <2> QED BY <2>1, <2>2
<1> QED BY <1>5, <1>6, <1>7 DEF IInv

(* What the transaction leaves bound it has not changed, and its target is *)
(* not among the rows that go.                                             *)
LEMMA CommitKeeps ==
  ASSUME IInv, NEW q \in Requests, Commit(q)
  PROVE  IInv'
<1> DEFINE D == del[q].doomed
           N == del[q].nulled
<1>1. D \in [Tables -> SUBSET Ids] /\ N \in [Columns -> SUBSET Ids]
  BY PlanTypes DEF IInv
<1>2. /\ \A t \in Tables : rows'[t] = rows[t] \ D[t]
      /\ rows' \in [Tables -> SUBSET Ids]
  BY DEF Commit, IInv, TypeOK
<1>3. \A c \in Columns, i \in Ids :
         ref'[c][i] = IF i \in N[c] \cup D[Schema[c].of] THEN 0 ELSE ref[c][i]
  BY DEF Commit
<1>4. \A c \in Columns : bound'[c] = bound[c] \ (N[c] \cup D[Schema[c].of])
  BY DEF Commit
<1>5. del' = [del EXCEPT ![q] = Idle] /\ del[q].pc = "gathered"
  BY DEF Commit
<1>6. \A c \in Columns : Schema[c].required => N[c] = {}
  BY DEF Commit, Refused
<1>a. ref' \in [Columns -> [Ids -> Refs]] /\ bound' \in [Columns -> SUBSET Ids]
  <2>1. \A c \in Columns, i \in Ids : ref[c][i] \in Refs
    BY DEF IInv, TypeOK
  <2>2. ref' \in [Columns -> [Ids -> Refs]]
    BY <2>1, NullRef DEF Commit
  <2>3. \A c \in Columns : bound[c] \in SUBSET Ids
    BY DEF IInv, TypeOK
  <2>4. bound' \in [Columns -> SUBSET Ids]
    BY <2>3 DEF Commit
  <2> QED BY <2>2, <2>4
<1> HIDE DEF D, N
<1>7. TypeOK'
  <2>1. ASSUME NEW c \in Columns, Schema[c].required, NEW i \in rows'[Schema[c].of]
        PROVE  ref'[c][i] # 0
    <3>1. i \in rows[Schema[c].of] /\ i \notin D[Schema[c].of] /\ i \in Ids
      BY <2>1, <1>2, SchemaTypes
    <3>2. ref[c][i] # 0
      BY <3>1, <2>1 DEF IInv, TypeOK
    <3> QED BY <3>1, <3>2, <2>1, <1>3, <1>6
  <2>2. del' \in [Requests -> Plans]
    BY <1>5, IdleTypes DEF IInv, TypeOK
  <2> QED BY <2>1, <2>2, <1>2, <1>a DEF TypeOK
<1>8. ASSUME NEW c \in Columns, NEW i \in bound'[c]
      PROVE  i \in bound[c] /\ i \in Ids /\ i \notin D[Schema[c].of] /\ i \notin N[c]
             /\ ref'[c][i] = ref[c][i]
  BY <1>8, <1>3, <1>4, <1>a
<1>9. TargetsKept'
  <2> SUFFICES ASSUME NEW c \in Columns, NEW i \in bound'[c]
               PROVE  i \in rows'[Schema[c].of] /\ ref'[c][i] \in rows'[Schema[c].to]
    BY DEF TargetsKept
  <2>1. i \in rows[Schema[c].of] /\ ref[c][i] \in rows[Schema[c].to]
    BY <1>8 DEF IInv, TargetsKept
  <2>2. ref[c][i] \notin D[Schema[c].to]
    BY <1>5, <1>8 DEF IInv, PlansCover, D, N
  <2> QED BY <2>1, <2>2, <1>2, <1>8, SchemaTypes
<1>10. PlansCover'
  <2> SUFFICES ASSUME NEW r \in Requests, NEW c \in Columns, NEW i \in bound'[c],
                      ref'[c][i] \in del'[r].doomed[Schema[c].to]
               PROVE  /\ Schema[c].cascade => i \in del'[r].doomed[Schema[c].of]
                      /\ del'[r].pc = "gathered" =>
                           i \in del'[r].nulled[c] \cup del'[r].doomed[Schema[c].of]
    BY DEF PlansCover
  <2>1. r # q
    BY <1>5, SchemaTypes DEF Idle, NoRows, IInv, TypeOK
  <2>2. del'[r] = del[r]
    BY <2>1, <1>5 DEF IInv, TypeOK
  <2> QED BY <2>2, <1>8 DEF IInv, PlansCover
<1> QED BY <1>7, <1>9, <1>10 DEF IInv

LEMMA RollbackKeeps ==
  ASSUME IInv, NEW q \in Requests, Rollback(q)
  PROVE  IInv'
<1>1. del' = [del EXCEPT ![q] = Idle] /\ UNCHANGED <<rows, ref, bound>>
  BY DEF Rollback
<1>2. \A r \in Requests : del'[r] = del[r] \/ del'[r] = Idle
  BY <1>1 DEF IInv, TypeOK
<1>3. TypeOK'
  BY <1>1, IdleTypes DEF IInv, TypeOK
<1>4. TargetsKept'
  BY <1>1 DEF IInv, TargetsKept
<1>5. \A t \in Tables : Idle.doomed[t] = {}
  BY DEF Idle, NoRows
<1>6. PlansCover'
  BY <1>1, <1>2, <1>5, SchemaTypes DEF IInv, PlansCover
<1> QED BY <1>3, <1>4, <1>6 DEF IInv

-----------------------------------------------------------------------------
(* The theorems *)

LEMMA InitKept ==
  ASSUME Init
  PROVE  IInv
<1>1. \A c \in Columns : bound[c] = {}
  BY DEF Init, NoRefs
<1>2. \A t \in Tables : rows[t] = {}
  BY DEF Init, NoRows
<1>3. TypeOK
  BY <1>2, IdleTypes, NamedTypes, SchemaTypes DEF Init, TypeOK
<1> QED BY <1>1, <1>3 DEF IInv, TargetsKept, PlansCover

LEMMA NextKept ==
  ASSUME IInv, [Next]_vars
  PROVE  IInv'
<1>1. CASE UNCHANGED vars
  BY <1>1 DEF vars, IInv, TypeOK, TargetsKept, PlansCover
<1>2. CASE Next
  BY <1>2, CreatesKeep, TriggersKeep, UpdatesKeep, ResetKeeps, DeleteKeeps, GatherKeeps,
     CommitKeeps, RollbackKeeps DEF Next
<1> QED BY <1>1, <1>2

(* Every state has its shape and no required column is ever NULL.          *)
THEOREM TypeCorrect == Spec => []TypeOK
<1>1. Init => IInv
  BY InitKept
<1>2. IInv /\ [Next]_vars => IInv'
  BY NextKept
<1>3. IInv => TypeOK
  BY DEF IInv
<1> QED BY <1>1, <1>2, <1>3, PTL DEF Spec

(* However many deletions are under way and whatever else is written       *)
(* between their steps, a reference that was bound never dangles.          *)
THEOREM ReferencesWhole == Spec => []TargetsKept
<1>1. Init => IInv
  BY InitKept
<1>2. IInv /\ [Next]_vars => IInv'
  BY NextKept
<1>3. IInv => TargetsKept
  BY DEF IInv
<1> QED BY <1>1, <1>2, <1>3, PTL DEF Spec
=============================================================================
