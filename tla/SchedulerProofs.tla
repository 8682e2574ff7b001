--------------------------- MODULE SchedulerProofs ---------------------------
(***************************************************************************)
(* What is proved of the module Scheduler, for any number of schedules,    *)
(* triggers, requests, restarts and crashes.                               *)
(***************************************************************************)
EXTENDS Scheduler, TLAPS

-----------------------------------------------------------------------------
(* Types *)

(* Writing one row keeps the shape of the table and of the counters.       *)
LEMMA RowTypes ==
  ASSUME TypeOK, NEW i \in Ids, NEW r \in Row, SetRow(i, r)
  PROVE  /\ row' \in [Ids -> Row]
         /\ late' \in [Ids -> Nat]
  BY DEF TypeOK, SetRow

LEMMA RequestTypes ==
  ASSUME TypeOK, NEW i \in Ids
  PROVE  Disturbed(i) \in [Requests -> Req]
<1>1. \A q \in Requests : [req[q] EXCEPT !.alone = FALSE] \in Req
  BY DEF TypeOK, Req
<1> QED BY <1>1 DEF TypeOK, Disturbed

LEMMA BeginTypes ==
  ASSUME TypeOK, NEW q \in Requests, NEW op \in Op, NEW i \in Ids, NEW expr \in Exprs \cup {"none"},
         NEW on \in BOOLEAN, NEW pc \in {"refresh", "check", "register"}, Begin(q, op, i, expr, on, pc)
  PROVE  /\ req' \in [Requests -> Req]
         /\ UNCHANGED <<job, server, loaded, todo, fire, drifted, stops>>
<1>1. (i \notin BusyIds) \in BOOLEAN
  OBVIOUS
<1>2. [op |-> op, id |-> i, expr |-> expr, on |-> on, alone |-> i \notin BusyIds, pc |-> pc] \in Req
  BY <1>1, Zenon DEF Req
<1>3. Disturbed(i) \in [Requests -> Req]
  BY RequestTypes
<1> QED BY <1>2, <1>3 DEF Begin

(* A handler that ends, or goes on, keeps the shape of the requests.       *)
LEMMA HandlerTypes ==
  ASSUME TypeOK, NEW q \in Requests
  PROVE  /\ \A pc \in {"remove", "register", "commit"} : Step(q, pc) => req' \in [Requests -> Req]
         /\ Finish(q) \/ Quit(q) => req' \in [Requests -> Req] /\ drifted' \subseteq Ids
         /\ Leave(q) => req' \in [Requests -> Req]
<1>1. /\ req[q] \in Req /\ req[q].id \in Ids
  BY DEF TypeOK, Req
<1>2. NoReq \in Req
  BY IdAssumption DEF NoReq, Req, Op, Ids
<1>3. \A pc \in {"remove", "register", "commit"} : [req[q] EXCEPT !.pc = pc] \in Req
  BY <1>1 DEF Req
<1>4. Leave(q) => req' \in [Requests -> Req]
  BY <1>2 DEF Leave, TypeOK
<1>5. \A pc \in {"remove", "register", "commit"} : Step(q, pc) => req' \in [Requests -> Req]
  BY <1>3 DEF Step, TypeOK
<1>6. Finish(q) \/ Quit(q) => drifted' \subseteq Ids
  BY <1>1 DEF Finish, Quit, TypeOK
<1> QED BY <1>4, <1>5, <1>6 DEF Finish, Quit

(* Every state has the declared shape.                                     *)
THEOREM TypeCorrect == Spec => []TypeOK
<1>1. Init => TypeOK
  <2>1. NoReq \in Req
    BY IdAssumption DEF NoReq, Req, Op, Ids
  <2>2. NoRow \in Row
    BY DEF NoRow, Row
  <2> QED BY <2>1, <2>2, StopsAssumption DEF Init, TypeOK
<1>2. TypeOK /\ [Next]_vars => TypeOK'
  <2> SUFFICES ASSUME TypeOK, [Next]_vars PROVE TypeOK'
    OBVIOUS
  <2> USE DEF TypeOK
  <2>1. ASSUME NEW q \in Requests, CreateFlushed(q) PROVE TypeOK'
    <3> PICK i \in Ids, expr \in Exprs, on \in BOOLEAN : Begin(q, "create", i, expr, on, "register")
      BY <2>1 DEF CreateFlushed
    <3> "create" \in Op
      BY DEF Op
    <3>1. req' \in [Requests -> Req] /\ UNCHANGED <<job, server, loaded, todo, fire, drifted, stops>>
      BY BeginTypes
    <3> QED BY <2>1, <3>1 DEF CreateFlushed
  <2>2. ASSUME NEW q \in Requests, EnableRead(q) PROVE TypeOK'
    <3> PICK i \in Ids : Begin(q, "enable", i, row[i].expr, row[i].enabled, "register")
      BY <2>2 DEF EnableRead
    <3> "enable" \in Op /\ row[i].expr \in Exprs \cup {"none"} /\ row[i].enabled \in BOOLEAN
      BY DEF Op, Row
    <3>1. req' \in [Requests -> Req] /\ UNCHANGED <<job, server, loaded, todo, fire, drifted, stops>>
      BY BeginTypes
    <3> QED BY <2>2, <3>1 DEF EnableRead
  <2>3. ASSUME NEW q \in Requests, DisableRead(q) PROVE TypeOK'
    <3> PICK i \in Ids, op \in {"disable", "delete"} :
               Begin(q, op, i, row[i].expr, row[i].enabled, "check")
      BY <2>3 DEF DisableRead
    <3> op \in Op /\ row[i].expr \in Exprs \cup {"none"} /\ row[i].enabled \in BOOLEAN
      BY DEF Op, Row
    <3>1. req' \in [Requests -> Req] /\ UNCHANGED <<job, server, loaded, todo, fire, drifted, stops>>
      BY BeginTypes
    <3> QED BY <2>3, <3>1 DEF DisableRead
  <2>4. ASSUME NEW q \in Requests, WebCreate(q) PROVE TypeOK'
    <3> PICK i \in Ids, expr \in Exprs : /\ Begin(q, "webCreate", i, expr, TRUE, "refresh")
                                         /\ SetRow(i, [expr |-> expr, enabled |-> TRUE])
      BY <2>4 DEF WebCreate
    <3> "webCreate" \in Op /\ [expr |-> expr, enabled |-> TRUE] \in Row
      BY DEF Op, Row
    <3>1. req' \in [Requests -> Req] /\ UNCHANGED <<job, server, loaded, todo, fire, drifted, stops>>
      BY BeginTypes
    <3> QED BY <3>1, RowTypes
  <2>5. ASSUME NEW q \in Requests, WebEdit(q) PROVE TypeOK'
    <3> PICK i \in Ids, expr \in Exprs : /\ Begin(q, "webEdit", i, expr, row[i].enabled, "refresh")
                                         /\ SetRow(i, [row[i] EXCEPT !.expr = expr])
      BY <2>5 DEF WebEdit
    <3> "webEdit" \in Op /\ row[i].enabled \in BOOLEAN /\ [row[i] EXCEPT !.expr = expr] \in Row
      BY DEF Op, Row
    <3>1. req' \in [Requests -> Req] /\ UNCHANGED <<job, server, loaded, todo, fire, drifted, stops>>
      BY BeginTypes
    <3> QED BY <3>1, RowTypes
  <2>6. ASSUME NEW q \in Requests, HandlerStep(q) PROVE TypeOK'
    <3>0. req[q] \in Req /\ req[q].id \in Ids /\ row[req[q].id] \in Row
      BY DEF Req
    <3>1. CASE Refresh(q)
      <4>1. row[req[q].id].expr \in Exprs \cup {"none"} /\ row[req[q].id].enabled \in BOOLEAN
        BY <3>0 DEF Row
      <4>2. \A pc \in {"check", "register"} :
               [req[q] EXCEPT !.expr = row[req[q].id].expr, !.on = row[req[q].id].enabled, !.pc = pc] \in Req
        BY <3>0, <4>1 DEF Req
      <4>3. req' \in [Requests -> Req] /\ drifted' \subseteq Ids
        BY <3>1, <4>2, HandlerTypes DEF Refresh
      <4> QED BY <3>1, <4>3 DEF Refresh
    <3>2. ASSUME Removed(q) PROVE req' \in [Requests -> Req] /\ drifted' \subseteq Ids
      BY <3>2, HandlerTypes DEF Removed
    <3>3. CASE CheckJob(q)
      BY <3>3, <3>2, HandlerTypes DEF CheckJob
    <3>4. CASE RemoveJob(q)
      <4>1. req' \in [Requests -> Req] /\ drifted' \subseteq Ids
        BY <3>4, <3>0, <3>2, HandlerTypes DEF RemoveJob
      <4> QED BY <3>4, <4>1 DEF RemoveJob
    <3>5. CASE Register(q)
      <4>1. req' \in [Requests -> Req] /\ drifted' \subseteq Ids
        BY <3>5, HandlerTypes DEF Register, ToCommit
      <4>2. job' \in [Ids -> Triggers \cup {"none"}]
        BY <3>5, <3>0 DEF Register
      <4> QED BY <3>5, <4>1, <4>2 DEF Register
    <3>6. CASE CommitCreate(q)
      <4>1. [expr |-> req[q].expr, enabled |-> req[q].on] \in Row
        BY <3>0 DEF Req, Row
      <4>2. row' \in [Ids -> Row] /\ late' \in [Ids -> Nat]
        BY <3>6, <3>0, <4>1, RowTypes DEF CommitCreate
      <4>3. req' \in [Requests -> Req] /\ drifted' \subseteq Ids
        BY <3>6, <3>0, HandlerTypes DEF CommitCreate
      <4> QED BY <3>6, <4>2, <4>3 DEF CommitCreate
    <3>7. CASE CommitEnabled(q)
      <4>1. \A on \in BOOLEAN : [row[req[q].id] EXCEPT !.enabled = on] \in Row
        BY <3>0 DEF Row
      <4>2. row' \in [Ids -> Row] /\ late' \in [Ids -> Nat]
        BY <3>7, <3>0, <4>1, RowTypes DEF CommitEnabled
      <4>3. req' \in [Requests -> Req] /\ drifted' \subseteq Ids
        BY <3>7, HandlerTypes DEF CommitEnabled
      <4> QED BY <3>7, <4>2, <4>3 DEF CommitEnabled
    <3>8. CASE CommitDelete(q)
      <4>1. NoRow \in Row
        BY DEF NoRow, Row
      <4>2. row' \in [Ids -> Row] /\ late' \in [Ids -> Nat]
        BY <3>8, <3>0, <4>1, RowTypes DEF CommitDelete
      <4>3. req' \in [Requests -> Req] /\ drifted' \subseteq Ids
        BY <3>8, HandlerTypes DEF CommitDelete
      <4> QED BY <3>8, <4>2, <4>3 DEF CommitDelete
    <3> QED BY <2>6, <3>1, <3>3, <3>4, <3>5, <3>6, <3>7, <3>8 DEF HandlerStep
  <2>7. ASSUME NEW i \in Ids, NEW r \in Row, RowOnly(i, r) PROVE TypeOK'
    <3>1. row' \in [Ids -> Row] /\ late' \in [Ids -> Nat]
      BY <2>7, RowTypes DEF RowOnly
    <3>2. req' \in [Requests -> Req]
      BY <2>7, RequestTypes DEF RowOnly
    <3> QED BY <2>7, <3>1, <3>2 DEF RowOnly
  <2>8. ASSUME NEW i \in Ids, WebToggle(i) \/ DeleteRow(i) \/ CliAdd(i) PROVE TypeOK'
    <3>1. CASE WebToggle(i)
      <4>1. [row[i] EXCEPT !.enabled = ~@] \in Row
        BY DEF Row
      <4> QED BY <3>1, <4>1, <2>7 DEF WebToggle
    <3>2. CASE DeleteRow(i)
      <4>1. NoRow \in Row
        BY DEF NoRow, Row
      <4> QED BY <3>2, <4>1, <2>7 DEF DeleteRow
    <3>3. CASE CliAdd(i)
      <4>1. \A expr \in Exprs : [expr |-> expr, enabled |-> TRUE] \in Row
        BY DEF Row
      <4> QED BY <3>3, <4>1, <2>7 DEF CliAdd
    <3> QED BY <2>8, <3>1, <3>2, <3>3
  <2>9. ASSUME NEW i \in Ids, RegisterLoaded(i) PROVE TypeOK'
    BY <2>9 DEF RegisterLoaded, Exprs
  <2>10. CASE Start
    BY <2>10 DEF Start
  <2>11. CASE Load
    <3>1. \A i \in Ids : row[i].expr \in Exprs \cup {"none"}
      BY DEF Row
    <3> QED BY <2>11, <3>1 DEF Load
  <2>12. CASE Prune
    BY <2>12 DEF Prune
  <2>13. CASE Stop
    <3>1. NoReq \in Req
      BY IdAssumption DEF NoReq, Req, Op, Ids
    <3> QED BY <2>13, <3>1 DEF Stop
  <2>14. ASSUME NEW i \in Ids, Fire(i) \/ Misfire(i) \/ FireReads(i) \/ FireInserts(i) PROVE TypeOK'
    BY <2>14 DEF Fire, Misfire, FireReads, FireInserts
  <2>15. CASE UNCHANGED vars
    BY <2>15 DEF vars
  <2> QED BY <2>1, <2>2, <2>3, <2>4, <2>5, <2>6, <2>8, <2>9, <2>10, <2>11, <2>12, <2>13, <2>14, <2>15 DEF Next
<1> QED BY <1>1, <1>2, PTL DEF Spec
-----------------------------------------------------------------------------
(* Late runs *)

(* Writing a row keeps the invariant: an enabled one resets its counter.   *)
LEMMA LateRow ==
  ASSUME TypeOK, LateInv, NEW i \in Ids, NEW r \in Row, SetRow(i, r), UNCHANGED fire
  PROVE  LateInv'
<1> SUFFICES ASSUME NEW j \in Ids
             PROVE  /\ late'[j] \in {0, 1}
                    /\ row'[j].enabled \/ fire'[j] = "insert" => late'[j] = 0
  BY DEF LateInv
<1>1. CASE j = i
  <2>1. row'[j] = r /\ late'[j] = IF r.enabled THEN 0 ELSE late[j]
    BY <1>1 DEF SetRow, TypeOK
  <2> QED BY <2>1 DEF LateInv
<1>2. CASE j # i
  BY <1>2 DEF SetRow, TypeOK, LateInv
<1> QED BY <1>1, <1>2

(* The invariant holds whenever neither the rows nor the counters change,  *)
(* and no firing gets past its read.                                       *)
LEMMA LateUnchanged ==
  ASSUME TypeOK, TypeOK', LateInv, UNCHANGED <<row, late>>,
         \A i \in Ids : fire'[i] = "insert" => fire[i] = "insert" \/ row[i].enabled
  PROVE  LateInv'
  BY DEF LateInv, TypeOK

(* At most one run of a schedule is queued after it was disabled: a firing *)
(* that is about to queue one has read the schedule while it was enabled,  *)
(* when the counter was zero, and no other firing is under way.            *)
THEOREM LateRunsBounded == Spec => []AtMostOneLateRun
<1>1. Init => LateInv
  BY DEF Init, LateInv, NoRow
<1>2. TypeOK /\ TypeOK' /\ LateInv /\ [Next]_vars => LateInv'
  <2> SUFFICES ASSUME TypeOK, TypeOK', LateInv, [Next]_vars PROVE LateInv'
    OBVIOUS
  <2>1. ASSUME NEW q \in Requests, CreateFlushed(q) \/ EnableRead(q) \/ DisableRead(q) PROVE LateInv'
    <3>1. UNCHANGED <<row, late, fire>>
      BY <2>1 DEF CreateFlushed, EnableRead, DisableRead, Begin
    <3> QED BY <3>1, LateUnchanged
  <2>2. ASSUME NEW q \in Requests, WebCreate(q) PROVE LateInv'
    <3>1. PICK i \in Ids, expr \in Exprs : SetRow(i, [expr |-> expr, enabled |-> TRUE]) /\ UNCHANGED fire
      BY <2>2 DEF WebCreate, Begin
    <3>2. [expr |-> expr, enabled |-> TRUE] \in Row
      BY DEF Row
    <3> QED BY <3>1, <3>2, LateRow
  <2>3. ASSUME NEW q \in Requests, WebEdit(q) PROVE LateInv'
    <3>1. PICK i \in Ids, expr \in Exprs : SetRow(i, [row[i] EXCEPT !.expr = expr]) /\ UNCHANGED fire
      BY <2>3 DEF WebEdit, Begin
    <3>2. [row[i] EXCEPT !.expr = expr] \in Row
      BY DEF Row, TypeOK
    <3> QED BY <3>1, <3>2, LateRow
  <2>4. ASSUME NEW q \in Requests, HandlerStep(q) PROVE LateInv'
    <3>0. req[q] \in Req /\ req[q].id \in Ids /\ row[req[q].id] \in Row
      BY DEF Req, TypeOK
    <3>1. CASE Refresh(q) \/ CheckJob(q) \/ RemoveJob(q) \/ Register(q)
      <4>1. UNCHANGED <<row, late, fire>>
        BY <3>1 DEF Refresh, CheckJob, RemoveJob, Register
      <4> QED BY <4>1, LateUnchanged
    <3>2. CASE CommitCreate(q)
      <4>1. [expr |-> req[q].expr, enabled |-> req[q].on] \in Row
        BY <3>0 DEF Req, Row
      <4> QED BY <3>2, <3>0, <4>1, LateRow DEF CommitCreate
    <3>3. CASE CommitEnabled(q)
      <4>1. \A on \in BOOLEAN : [row[req[q].id] EXCEPT !.enabled = on] \in Row
        BY <3>0 DEF Row
      <4>2. CASE UNCHANGED <<row, late>>
        BY <3>3, <4>2, LateUnchanged DEF CommitEnabled
      <4>3. ASSUME NEW on \in BOOLEAN, SetRow(req[q].id, [row[req[q].id] EXCEPT !.enabled = on]) PROVE LateInv'
        BY <3>3, <3>0, <4>1, <4>3, LateRow DEF CommitEnabled
      <4> QED BY <3>3, <4>2, <4>3 DEF CommitEnabled
    <3>4. CASE CommitDelete(q)
      <4>1. NoRow \in Row
        BY DEF NoRow, Row
      <4> QED BY <3>4, <3>0, <4>1, LateRow DEF CommitDelete
    <3> QED BY <2>4, <3>1, <3>2, <3>3, <3>4 DEF HandlerStep
  <2>5. ASSUME NEW i \in Ids, WebToggle(i) \/ DeleteRow(i) \/ CliAdd(i) PROVE LateInv'
    <3>1. /\ [row[i] EXCEPT !.enabled = ~@] \in Row
          /\ NoRow \in Row
          /\ \A expr \in Exprs : [expr |-> expr, enabled |-> TRUE] \in Row
      BY DEF Row, NoRow, TypeOK
    <3>2. \E r \in Row : SetRow(i, r) /\ UNCHANGED fire
      BY <2>5, <3>1, Zenon DEF WebToggle, DeleteRow, CliAdd, RowOnly
    <3> QED BY <3>2, LateRow
  <2>6. ASSUME NEW i \in Ids, RegisterLoaded(i) PROVE LateInv'
    <3>1. UNCHANGED <<row, late>> /\ \A j \in Ids : fire'[j] = fire[j] \/ fire'[j] = "idle"
      BY <2>6 DEF RegisterLoaded
    <3> QED BY <3>1, LateUnchanged
  <2>7. CASE Start \/ Load \/ Prune
    BY <2>7, LateUnchanged DEF Start, Load, Prune
  <2>8. CASE Stop
    <3>1. UNCHANGED <<row, late>> /\ \A j \in Ids : fire'[j] = "idle"
      BY <2>8 DEF Stop
    <3> QED BY <3>1, LateUnchanged
  <2>9. ASSUME NEW i \in Ids, Fire(i) \/ Misfire(i) \/ FireReads(i) PROVE LateInv'
    <3>1. UNCHANGED <<row, late>> /\ \A j \in Ids : fire'[j] = "insert" => fire[j] = "insert" \/ row[j].enabled
      BY <2>9 DEF Fire, Misfire, FireReads, TypeOK
    <3> QED BY <3>1, LateUnchanged
  <2>10. ASSUME NEW i \in Ids, FireInserts(i) PROVE LateInv'
    <3> SUFFICES ASSUME NEW j \in Ids
                 PROVE  /\ late'[j] \in {0, 1}
                        /\ row'[j].enabled \/ fire'[j] = "insert" => late'[j] = 0
      BY DEF LateInv
    <3>1. CASE j = i
      <4>1. late[j] = 0 /\ fire'[j] = "idle" /\ row'[j] = row[j]
        BY <2>10, <3>1 DEF FireInserts, LateInv, TypeOK
      <4>2. late'[j] = IF row[j].enabled THEN 0 ELSE 1
        BY <2>10, <3>1, <4>1 DEF FireInserts, TypeOK
      <4> QED BY <4>1, <4>2
    <3>2. CASE j # i
      BY <2>10, <3>2 DEF FireInserts, LateInv, TypeOK
    <3> QED BY <3>1, <3>2
  <2>11. CASE UNCHANGED vars
    BY <2>11, LateUnchanged DEF vars
  <2> QED BY <2>1, <2>2, <2>3, <2>4, <2>5, <2>6, <2>7, <2>8, <2>9, <2>10, <2>11 DEF Next
<1>3. LateInv => AtMostOneLateRun
  BY DEF LateInv, AtMostOneLateRun
<1> QED BY <1>1, <1>2, <1>3, TypeCorrect, PTL DEF Spec
-----------------------------------------------------------------------------
(* Rows and requests *)

(* A request that goes on as it began, or ends.                            *)
LEMMA ReqKept ==
  ASSUME TypeOK, ReqInv, NEW q \in Requests, InFlight(q), NEW r \in Req,
         req' = [req EXCEPT ![q] = r], UNCHANGED server,
         \/ r.pc = "idle"
         \/ /\ r.op = req[q].op /\ r.id = req[q].id /\ r.alone = req[q].alone
            /\ r.pc \in PcOf(r.op)
            /\ r.op = "create" => r.expr = req[q].expr
  PROVE  ReqInv'
<1>1. req'[q] = r /\ \A p \in Requests \ {q} : req'[p] = req[p]
  BY DEF TypeOK
<1>2. \A p \in Requests :
        InFlight(p)' =>
          /\ InFlight(p)
          /\ req'[p].op = req[p].op /\ req'[p].id = req[p].id
          /\ req'[p].alone = req[p].alone
          /\ req'[p].pc \in PcOf(req'[p].op)
          /\ req'[p].op = "create" => req'[p].expr = req[p].expr
  BY <1>1 DEF InFlight, ReqInv
<1> QED BY <1>2 DEF ReqInv

LEMMA ReqDisturbed ==
  ASSUME TypeOK, ReqInv, NEW i \in Ids, req' = Disturbed(i), UNCHANGED server
  PROVE  ReqInv'
<1>1. \A p \in Requests :
        /\ req'[p].op = req[p].op /\ req'[p].id = req[p].id
        /\ req'[p].pc = req[p].pc /\ req'[p].expr = req[p].expr
        /\ req'[p].alone => req[p].alone
  BY DEF Disturbed, TypeOK, Req
<1> QED BY <1>1 DEF ReqInv, InFlight

(* A request that begins is alone only if no other is at work on its       *)
(* schedule, and disturbs those that are.                                  *)
LEMMA ReqBegun ==
  ASSUME TypeOK, ReqInv, NEW q \in Requests, NEW op \in Op, NEW i \in Ids, NEW expr, NEW on,
         NEW pc \in {"refresh", "check", "register"}, Begin(q, op, i, expr, on, pc),
         pc \in PcOf(op), op = "create" => Unlocked /\ expr # "none"
  PROVE  ReqInv'
<1>1. /\ req'[q].op = op /\ req'[q].id = i /\ req'[q].pc = pc /\ req'[q].expr = expr
      /\ req'[q].alone = (i \notin BusyIds)
      /\ server' = "up" /\ server = "up" /\ ~InFlight(q)
  BY Zenon DEF Begin, TypeOK, Disturbed
<1>2. \A p \in Requests \ {q} :
        /\ req'[p].op = req[p].op /\ req'[p].id = req[p].id /\ req'[p].pc = req[p].pc
        /\ req'[p].expr = req[p].expr
        /\ req'[p].alone => req[p].alone
        /\ req'[p].alone /\ InFlight(p) => req[p].id # i
  <2> SUFFICES ASSUME NEW p \in Requests \ {q}
               PROVE  /\ req'[p].op = req[p].op /\ req'[p].id = req[p].id /\ req'[p].pc = req[p].pc
                      /\ req'[p].expr = req[p].expr
                      /\ req'[p].alone => req[p].alone
                      /\ req'[p].alone /\ InFlight(p) => req[p].id # i
    OBVIOUS
  <2>1. req'[p] = IF InFlight(p) /\ req[p].id = i THEN [req[p] EXCEPT !.alone = FALSE] ELSE req[p]
    BY Zenon DEF Begin, Disturbed
  <2> QED BY <2>1 DEF TypeOK, Req
<1>3. i \notin BusyIds => \A p \in Requests : InFlight(p) => req[p].id # i
  BY DEF BusyIds
<1>4. op = "create" => \A p \in Requests : InFlight(p) => req[p].op # "create"
  BY DEF Unlocked
<1>5. ASSUME NEW p \in Requests, InFlight(p)'
      PROVE  /\ server' = "up" /\ req'[p].pc \in PcOf(req'[p].op)
             /\ req'[p].op = "create" => req'[p].expr # "none"
  BY <1>1, <1>2, <1>5 DEF InFlight, ReqInv
<1>6. ASSUME NEW p \in Requests, NEW s \in Requests, p # s, InFlight(p)', InFlight(s)',
             req'[p].id = req'[s].id
      PROVE  ~req'[p].alone
  <2>1. CASE p = q
    <3>1. InFlight(s) /\ req[s].id = i
      BY <1>1, <1>2, <1>6, <2>1 DEF InFlight
    <3>2. ~(i \notin BusyIds)
      BY <3>1, <1>3
    <3> QED BY <1>1, <3>2, <2>1
  <2>2. CASE s = q
    BY <1>1, <1>2, <1>6, <2>2 DEF InFlight
  <2>3. CASE p # q /\ s # q
    BY <1>2, <1>6, <2>3 DEF InFlight, ReqInv
  <2> QED BY <2>1, <2>2, <2>3
<1>7. ASSUME NEW p \in Requests, NEW s \in Requests, InFlight(p)', InFlight(s)',
             req'[p].op = "create", req'[s].op = "create"
      PROVE  p = s
  BY <1>1, <1>2, <1>4, <1>7 DEF InFlight, ReqInv
<1> QED BY <1>5, <1>6, <1>7 DEF ReqInv
LEMMA RowKept ==
  ASSUME TypeOK, RowInv, NEW i \in Ids, NEW r \in Row, SetRow(i, r), r.enabled => r.expr # "none"
  PROVE  RowInv'
<1>1. row'[i] = r /\ \A j \in Ids \ {i} : row'[j] = row[j]
  BY DEF SetRow, TypeOK
<1> QED BY <1>1 DEF RowInv, Exists

(* Expressions are none of the words that stand for something else.        *)
LEMMA ExprsAreNotNone == "none" \notin Exprs
  BY TriggerAssumption DEF Exprs

LEMMA RowReqInvariant ==
  ASSUME TypeOK, TypeOK', RowInv, ReqInv, [Next]_vars
  PROVE  RowInv' /\ ReqInv'
<1> USE ExprsAreNotNone
<1>1. ASSUME NEW q \in Requests, CreateFlushed(q) PROVE RowInv' /\ ReqInv'
  <2> PICK i \in Ids, expr \in Exprs, on \in BOOLEAN : Begin(q, "create", i, expr, on, "register")
    BY <1>1 DEF CreateFlushed
  <2>1. "create" \in Op /\ "register" \in PcOf("create")
    BY DEF Op, PcOf
  <2>2. ReqInv'
    BY <1>1, <2>1, ReqBegun DEF CreateFlushed
  <2> QED BY <1>1, <2>2 DEF CreateFlushed, RowInv, Exists
<1>2. ASSUME NEW q \in Requests, EnableRead(q) PROVE RowInv' /\ ReqInv'
  <2> PICK i \in Ids : Begin(q, "enable", i, row[i].expr, row[i].enabled, "register")
    BY <1>2 DEF EnableRead
  <2>1. "enable" \in Op /\ "register" \in PcOf("enable")
    BY DEF Op, PcOf
  <2>2. ReqInv'
    BY <2>1, ReqBegun
  <2> QED BY <1>2, <2>2 DEF EnableRead, RowInv, Exists
<1>3. ASSUME NEW q \in Requests, DisableRead(q) PROVE RowInv' /\ ReqInv'
  <2> PICK i \in Ids, op \in {"disable", "delete"} : Begin(q, op, i, row[i].expr, row[i].enabled, "check")
    BY <1>3 DEF DisableRead
  <2>1. op \in Op /\ op # "create" /\ "check" \in PcOf(op)
    BY DEF Op, PcOf
  <2>2. ReqInv'
    BY <2>1, ReqBegun
  <2> QED BY <1>3, <2>2 DEF DisableRead, RowInv, Exists
<1>4. ASSUME NEW q \in Requests, WebCreate(q) PROVE RowInv' /\ ReqInv'
  <2> PICK i \in Ids, expr \in Exprs : /\ Begin(q, "webCreate", i, expr, TRUE, "refresh")
                                       /\ SetRow(i, [expr |-> expr, enabled |-> TRUE])
    BY <1>4 DEF WebCreate
  <2>1. "webCreate" \in Op /\ "refresh" \in PcOf("webCreate")
    BY DEF Op, PcOf
  <2>2. ReqInv'
    BY <2>1, ReqBegun
  <2>3. [expr |-> expr, enabled |-> TRUE] \in Row
    BY DEF Row
  <2> QED BY <2>2, <2>3, RowKept
<1>5. ASSUME NEW q \in Requests, WebEdit(q) PROVE RowInv' /\ ReqInv'
  <2> PICK i \in Ids, expr \in Exprs : /\ Begin(q, "webEdit", i, expr, row[i].enabled, "refresh")
                                       /\ SetRow(i, [row[i] EXCEPT !.expr = expr])
    BY <1>5 DEF WebEdit
  <2>1. "webEdit" \in Op /\ "refresh" \in PcOf("webEdit")
    BY DEF Op, PcOf
  <2>2. ReqInv'
    BY <2>1, ReqBegun
  <2>3. [row[i] EXCEPT !.expr = expr] \in Row /\ [row[i] EXCEPT !.expr = expr].expr = expr
    BY DEF Row, TypeOK
  <2> QED BY <2>2, <2>3, RowKept
<1>6. ASSUME NEW q \in Requests, HandlerStep(q) PROVE RowInv' /\ ReqInv'
  <2>0. /\ req[q] \in Req /\ req[q].id \in Ids /\ row[req[q].id] \in Row /\ NoReq \in Req
        /\ NoReq.pc = "idle"
    BY IdAssumption DEF Req, TypeOK, NoReq, Op, Ids
  <2>1. InFlight(q) /\ UNCHANGED server
    BY <1>6 DEF HandlerStep, Refresh, CheckJob, RemoveJob, Register, CommitCreate, CommitEnabled,
                CommitDelete, InFlight
  <2>2. req[q].pc \in PcOf(req[q].op)
    BY <2>1 DEF ReqInv
  <2>3. Leave(q) \/ Finish(q) \/ Quit(q) => ReqInv'
    BY <2>0, <2>1, ReqKept DEF Leave, Finish, Quit
  <2>4. ASSUME NEW pc \in {"remove", "register", "commit"}, Step(q, pc), pc \in PcOf(req[q].op)
        PROVE  ReqInv'
    <3>1. [req[q] EXCEPT !.pc = pc] \in Req
      BY <2>0 DEF Req
    <3> DEFINE r == [req[q] EXCEPT !.pc = pc]
    <3>2. /\ r.op = req[q].op /\ r.id = req[q].id /\ r.alone = req[q].alone /\ r.pc = pc
          /\ r.expr = req[q].expr
      BY <2>0 DEF Req
    <3>3. req' = [req EXCEPT ![q] = r]
      BY <2>4 DEF Step
    <3> HIDE DEF r
    <3> QED BY <2>1, <2>4, <3>1, <3>2, <3>3, ReqKept DEF r
  <2>5. CASE Refresh(q)
    <3>1. UNCHANGED row
      BY <2>5 DEF Refresh
    <3>2. CASE Exists(req[q].id)
      <4> DEFINE r == [req[q] EXCEPT !.expr = row[req[q].id].expr, !.on = row[req[q].id].enabled,
                                     !.pc = IF req[q].op = "webEdit" THEN "check" ELSE "register"]
      <4>1. req' = [req EXCEPT ![q] = r]
        BY <2>5, <3>2 DEF Refresh
      <4>2. r.op = req[q].op /\ r.id = req[q].id /\ r.alone = req[q].alone
            /\ r.pc = IF req[q].op = "webEdit" THEN "check" ELSE "register"
        BY <2>0 DEF Req
      <4>3. r.pc \in PcOf(r.op) /\ r.op # "create"
        BY <4>2, <2>2, <2>5 DEF PcOf, Refresh
      <4>4. r \in Req
        BY <2>0 DEF Req, Row
      <4> HIDE DEF r
      <4>5. ReqInv'
        BY <2>1, <4>1, <4>2, <4>3, <4>4, ReqKept
      <4> QED BY <3>1, <4>5 DEF RowInv, Exists
    <3>3. CASE ~Exists(req[q].id)
      <4>1. ReqInv'
        BY <2>5, <3>3, <2>3 DEF Refresh
      <4> QED BY <3>1, <4>1 DEF RowInv, Exists
    <3> QED BY <3>2, <3>3
  <2>6. ASSUME Removed(q), req[q].pc \in {"check", "remove"} PROVE ReqInv'
    <3>1. CASE req[q].op = "webEdit"
      BY <2>6, <3>1, <2>3, <2>4 DEF Removed, PcOf
    <3>2. CASE req[q].op # "webEdit"
      <4>1. "commit" \in PcOf(req[q].op)
        BY <2>6, <3>2, <2>2 DEF PcOf
      <4> QED BY <2>6, <3>2, <4>1, <2>4 DEF Removed
    <3> QED BY <3>1, <3>2
  <2>7. CASE CheckJob(q)
    <3>1. "remove" \in PcOf(req[q].op)
      BY <2>7, <2>2 DEF CheckJob, PcOf
    <3>2. ReqInv'
      BY <2>7, <2>4, <2>6, <3>1 DEF CheckJob
    <3> QED BY <2>7, <3>2 DEF CheckJob, RowInv, Exists
  <2>8. CASE RemoveJob(q)
    <3>1. ReqInv'
      BY <2>8, <2>3, <2>6 DEF RemoveJob
    <3> QED BY <2>8, <3>1 DEF RemoveJob, RowInv, Exists
  <2>9. CASE Register(q)
    <3>1. InRest(q) => "commit" \in PcOf(req[q].op)
      BY DEF InRest, PcOf
    <3>2. ReqInv'
      BY <2>9, <2>3, <2>4, <3>1 DEF Register, ToCommit
    <3> QED BY <2>9, <3>2 DEF Register, RowInv, Exists
  <2>10. CASE CommitCreate(q)
    <3>1. [expr |-> req[q].expr, enabled |-> req[q].on] \in Row /\ req[q].expr # "none"
      BY <2>10, <2>0, <2>1 DEF Req, Row, ReqInv, CommitCreate
    <3>2. ReqInv'
      BY <2>10, <2>3 DEF CommitCreate
    <3> QED BY <2>10, <2>0, <3>1, <3>2, RowKept DEF CommitCreate
  <2>11. CASE CommitEnabled(q)
    <3>1. ReqInv'
      BY <2>11, <2>3 DEF CommitEnabled
    <3>2. CASE UNCHANGED row
      BY <3>1, <3>2 DEF RowInv, Exists
    <3>3. ASSUME NEW on \in BOOLEAN, Exists(req[q].id),
                 SetRow(req[q].id, [row[req[q].id] EXCEPT !.enabled = on])
          PROVE  RowInv'
      <4>1. /\ [row[req[q].id] EXCEPT !.enabled = on] \in Row
            /\ [row[req[q].id] EXCEPT !.enabled = on].expr # "none"
        BY <2>0, <3>3 DEF Row, Exists
      <4> QED BY <2>0, <3>3, <4>1, RowKept
    <3> QED BY <2>11, <3>1, <3>2, <3>3 DEF CommitEnabled
  <2>12. CASE CommitDelete(q)
    <3>1. ReqInv'
      BY <2>12, <2>3 DEF CommitDelete
    <3>2. NoRow \in Row /\ ~NoRow.enabled
      BY DEF NoRow, Row
    <3> QED BY <2>12, <2>0, <3>1, <3>2, RowKept DEF CommitDelete
  <2> QED BY <1>6, <2>5, <2>7, <2>8, <2>9, <2>10, <2>11, <2>12 DEF HandlerStep
<1>7. ASSUME NEW i \in Ids, NEW r \in Row, RowOnly(i, r), r.enabled => r.expr # "none"
      PROVE  RowInv' /\ ReqInv'
  BY <1>7, RowKept, ReqDisturbed DEF RowOnly
<1>8. ASSUME NEW i \in Ids, WebToggle(i) \/ DeleteRow(i) \/ CliAdd(i) PROVE RowInv' /\ ReqInv'
  <2>1. CASE WebToggle(i)
    <3>1. /\ [row[i] EXCEPT !.enabled = ~@] \in Row
          /\ [row[i] EXCEPT !.enabled = ~@].expr = row[i].expr
      BY DEF Row, TypeOK
    <3> QED BY <2>1, <3>1, <1>7 DEF WebToggle, Exists
  <2>2. CASE DeleteRow(i)
    <3>1. NoRow \in Row /\ ~NoRow.enabled
      BY DEF NoRow, Row
    <3> QED BY <2>2, <3>1, <1>7 DEF DeleteRow
  <2>3. CASE CliAdd(i)
    <3>1. \A expr \in Exprs : [expr |-> expr, enabled |-> TRUE] \in Row
      BY DEF Row
    <3> QED BY <2>3, <3>1, <1>7 DEF CliAdd
  <2> QED BY <1>8, <2>1, <2>2, <2>3
<1>9. ASSUME UNCHANGED <<row, req>>, server # "up" \/ server' = "up" PROVE RowInv' /\ ReqInv'
  BY <1>9 DEF RowInv, Exists, ReqInv, InFlight
<1>10. ASSUME NEW i \in Ids, \/ RegisterLoaded(i) \/ Fire(i) \/ Misfire(i)
                            \/ FireReads(i) \/ FireInserts(i)
       PROVE  RowInv' /\ ReqInv'
  BY <1>10, <1>9 DEF RegisterLoaded, Fire, Misfire, FireReads, FireInserts
<1>11. CASE Start \/ Load \/ Prune \/ UNCHANGED vars
  BY <1>11, <1>9 DEF Start, Load, Prune, vars
<1>12. CASE Stop
  <2>1. \A q \in Requests : ~InFlight(q)'
    BY <1>12 DEF Stop, InFlight, NoReq
  <2> QED BY <1>12, <2>1 DEF Stop, RowInv, Exists, ReqInv
<1> QED BY <1>1, <1>2, <1>3, <1>4, <1>5, <1>6, <1>8, <1>10, <1>11, <1>12 DEF Next

-----------------------------------------------------------------------------
(* Rows and jobs in step *)

(* A step of the running server that concerns one schedule: what is known  *)
(* of all others stays.                                                    *)
LEMMA LocalStep ==
  ASSUME TypeOK, TypeOK', SyncInv, RowInv', ReqInv', NEW i \in Ids, server = "up", server' = "up",
         \A j \in Ids \ {i} : row'[j] = row[j] /\ job'[j] = job[j] /\ (j \in drifted' <=> j \in drifted),
         \A p \in Requests : InFlight(p) /\ req[p].id # i => req'[p] = req[p],
         \A p \in Requests : InFlight(p)' /\ req'[p].id # i => req'[p] = req[p],
         \A p \in Requests : InFlight(p)' /\ req'[p].id = i /\ req'[p].alone => AloneInv(p)',
         i \in drifted' \/ i \in BusyIds' \/ job'[i] \in Expected(i)'
  PROVE  SyncInv'
<1>1. ASSUME NEW p \in Requests, InFlight(p)', req'[p].alone PROVE AloneInv(p)'
  <2>1. CASE req'[p].id = i
    BY <1>1, <2>1
  <2>2. CASE req'[p].id # i
    <3>1. req'[p] = req[p] /\ InFlight(p) /\ req[p].alone /\ req[p].id # i /\ req[p].id \in Ids
      BY <1>1, <2>2 DEF InFlight, TypeOK, Req
    <3>2. AloneInv(p)
      BY <3>1 DEF SyncInv
    <3> QED BY <3>1, <3>2 DEF AloneInv, Exists, Expected, Fits, InRest
  <2> QED BY <2>1, <2>2
<1>2. InSync'
  <2> SUFFICES ASSUME NEW j \in Ids, j \notin drifted', j \notin BusyIds' PROVE job'[j] \in Expected(j)'
    BY DEF InSync
  <2>1. CASE j = i
    BY <2>1
  <2>2. CASE j # i
    <3>1. j \notin BusyIds
      BY <2>2 DEF BusyIds, InFlight
    <3>2. job[j] \in Expected(j)
      BY <2>2, <3>1 DEF SyncInv, InSync
    <3> QED BY <2>2, <3>2 DEF Expected
  <2> QED BY <2>1, <2>2
<1>3. StartInv'
  BY DEF StartInv
<1> QED BY <1>1, <1>2, <1>3 DEF SyncInv

LEMMA BeginSync ==
  ASSUME TypeOK, TypeOK', SyncInv, RowInv', ReqInv', NEW q \in Requests, NEW op, NEW i \in Ids, NEW expr,
         NEW on, NEW pc \in {"refresh", "check", "register"}, Begin(q, op, i, expr, on, pc),
         \A j \in Ids \ {i} : row'[j] = row[j],
         i \notin BusyIds => AloneInv(q)'
  PROVE  SyncInv'
<1>1. /\ req'[q].id = i /\ InFlight(q)' /\ ~InFlight(q) /\ server = "up"
      /\ req'[q].alone = (i \notin BusyIds)
      /\ UNCHANGED <<job, server, drifted>>
  BY Zenon DEF Begin, TypeOK, Disturbed, InFlight
<1>2. \A p \in Requests \ {q} :
        req'[p] = IF InFlight(p) /\ req[p].id = i THEN [req[p] EXCEPT !.alone = FALSE] ELSE req[p]
  BY Zenon DEF Begin, Disturbed
<1>3. \A p \in Requests : InFlight(p) /\ req[p].id # i => req'[p] = req[p]
  BY <1>1, <1>2
<1>4. \A p \in Requests \ {q} : req'[p].id = req[p].id /\ req'[p].pc = req[p].pc
  BY <1>2 DEF TypeOK, Req
<1>5. \A p \in Requests : InFlight(p)' /\ req'[p].id # i => req'[p] = req[p]
  BY <1>1, <1>2, <1>4
<1>6. ASSUME NEW p \in Requests, InFlight(p)', req'[p].id = i, req'[p].alone PROVE AloneInv(p)'
  <2>1. CASE p = q
    BY <1>1, <1>6, <2>1
  <2>2. CASE p # q
    <3>1. InFlight(p) /\ req[p].id = i
      BY <1>4, <1>6, <2>2 DEF InFlight
    <3>2. req'[p].alone = FALSE
      BY <1>2, <2>2, <3>1 DEF TypeOK, Req
    <3> QED BY <1>6, <3>2
  <2> QED BY <2>1, <2>2
<1>7. i \in BusyIds'
  BY <1>1 DEF BusyIds
<1> QED BY <1>1, <1>3, <1>5, <1>6, <1>7, LocalStep

(* A handler goes on or ends; only its schedule is touched.                *)
LEMMA HandlerSync ==
  ASSUME TypeOK, TypeOK', SyncInv, RowInv', ReqInv', NEW q \in Requests, InFlight(q), UNCHANGED server,
         NEW i \in Ids, i = req[q].id, NEW r, req' = [req EXCEPT ![q] = r],
         \A j \in Ids \ {i} : row'[j] = row[j] /\ job'[j] = job[j] /\ (j \in drifted' <=> j \in drifted),
         \/ r.pc = "idle" /\ (i \in drifted' \/ job'[i] \in Expected(i)')
         \/ r.pc # "idle" /\ r.id = i /\ r.alone = req[q].alone /\ (req[q].alone => AloneInv(q)')
  PROVE  SyncInv'
<1>1. req'[q] = r /\ \A p \in Requests \ {q} : req'[p] = req[p]
  BY DEF TypeOK
<1>2. server = "up"
  BY DEF SyncInv, ReqInv
<1>3. ASSUME NEW p \in Requests, InFlight(p)', req'[p].id = i, req'[p].alone PROVE AloneInv(p)'
  <2>1. CASE p = q
    BY <1>1, <1>3, <2>1 DEF InFlight
  <2>2. CASE p # q
    BY <1>1, <1>3, <2>2 DEF InFlight, SyncInv, ReqInv
  <2> QED BY <2>1, <2>2
<1>4. i \in drifted' \/ i \in BusyIds' \/ job'[i] \in Expected(i)'
  BY <1>1 DEF BusyIds, InFlight
<1>5. \A p \in Requests : InFlight(p) /\ req[p].id # i => req'[p] = req[p]
  BY <1>1
<1>6. \A p \in Requests : InFlight(p)' /\ req'[p].id # i => req'[p] = req[p]
  BY <1>1 DEF InFlight
<1> QED BY <1>2, <1>3, <1>4, <1>5, <1>6, LocalStep

LEMMA StepSync ==
  ASSUME TypeOK, TypeOK', SyncInv, RowInv', ReqInv', NEW q \in Requests, InFlight(q),
         NEW pc \in {"remove", "register", "commit"}, Step(q, pc), UNCHANGED <<row, server, drifted>>,
         NEW i \in Ids, i = req[q].id, \A j \in Ids \ {i} : job'[j] = job[j],
         req[q].alone => AloneInv(q)'
  PROVE  SyncInv'
<1> DEFINE r == [req[q] EXCEPT !.pc = pc]
<1>1. r.pc # "idle" /\ r.id = i /\ r.alone = req[q].alone /\ req' = [req EXCEPT ![q] = r]
  BY DEF TypeOK, Req, Step
<1> HIDE DEF r
<1> QED BY <1>1, HandlerSync

LEMMA LeaveSync ==
  ASSUME TypeOK, TypeOK', SyncInv, RowInv', ReqInv', NEW q \in Requests, InFlight(q), UNCHANGED server,
         NEW i \in Ids, i = req[q].id,
         \A j \in Ids \ {i} : row'[j] = row[j] /\ job'[j] = job[j],
         \/ Finish(q) /\ (req[q].alone => job'[i] \in Expected(i)')
         \/ Quit(q) /\ (req[q].alone /\ i \notin drifted => job'[i] \in Expected(i)')
         \/ Leave(q) /\ drifted' = drifted \cup {i}
  PROVE  SyncInv'
<1>1. req' = [req EXCEPT ![q] = NoReq] /\ NoReq.pc = "idle"
  BY DEF Finish, Quit, Leave, NoReq
<1>2. /\ \A j \in Ids \ {i} : j \in drifted' <=> j \in drifted
      /\ i \in drifted' \/ job'[i] \in Expected(i)'
  BY DEF Finish, Quit
<1> QED BY <1>1, <1>2, HandlerSync

(* The handlers begin: what a handler that is alone reads is what there is.*)
LEMMA BegunFields ==
  ASSUME TypeOK, SyncInv, NEW q \in Requests, NEW op, NEW i \in Ids, NEW expr, NEW on, NEW pc,
         Begin(q, op, i, expr, on, pc)
  PROVE  /\ req'[q].op = op /\ req'[q].id = i /\ req'[q].expr = expr /\ req'[q].on = on
         /\ req'[q].pc = pc
         /\ job' = job /\ drifted' = drifted
         /\ i \notin BusyIds /\ i \notin drifted => job[i] \in Expected(i)
<1>1. job' = job /\ drifted' = drifted /\ server = "up"
  BY DEF Begin
<1>2. req'[q] = [op |-> op, id |-> i, expr |-> expr, on |-> on, alone |-> i \notin BusyIds, pc |-> pc]
  BY Zenon DEF Begin, TypeOK, Disturbed
<1>3. i \notin BusyIds /\ i \notin drifted => job[i] \in Expected(i)
  BY <1>1, Zenon DEF SyncInv, InSync
<1> QED BY <1>1, <1>2, <1>3

LEMMA BeginningSync ==
  ASSUME TypeOK, TypeOK', SyncInv, RowInv', ReqInv', NEW q \in Requests,
         CreateFlushed(q) \/ EnableRead(q) \/ DisableRead(q) \/ WebCreate(q) \/ WebEdit(q)
  PROVE  SyncInv'
<1> USE ExprsAreNotNone
<1>1. CASE CreateFlushed(q)
  <2>1. PICK i \in Ids, expr \in Exprs, on \in BOOLEAN :
               ~Exists(i) /\ Begin(q, "create", i, expr, on, "register")
    BY <1>1 DEF CreateFlushed, Fresh
  <2>2. /\ req'[q].op = "create" /\ req'[q].id = i /\ req'[q].pc = "register"
        /\ job' = job /\ drifted' = drifted
        /\ i \notin BusyIds /\ i \notin drifted => job[i] \in Expected(i)
    BY <2>1, BegunFields
  <2>3. row' = row
    BY <1>1 DEF CreateFlushed
  <2>4. i \notin BusyIds /\ i \notin drifted => job[i] = "none"
    BY <2>1, <2>2 DEF Exists, Expected
  <2>5. i \notin BusyIds => AloneInv(q)'
    BY <2>1, <2>2, <2>3, <2>4 DEF AloneInv, Exists, InRest
  <2> QED BY <2>1, <2>3, <2>5, BeginSync
<1>2. CASE EnableRead(q)
  <2>1. PICK i \in Ids : Exists(i) /\ Begin(q, "enable", i, row[i].expr, row[i].enabled, "register")
    BY <1>2 DEF EnableRead
  <2>2. /\ req'[q].op = "enable" /\ req'[q].id = i /\ req'[q].pc = "register"
        /\ req'[q].expr = row[i].expr /\ req'[q].on = row[i].enabled
        /\ job' = job /\ drifted' = drifted
        /\ i \notin BusyIds /\ i \notin drifted => job[i] \in Expected(i)
    BY <2>1, BegunFields
  <2>3. row' = row /\ row[i] = [expr |-> row[i].expr, enabled |-> row[i].enabled]
    BY <1>2 DEF EnableRead, TypeOK, Row
  <2>4. i \notin BusyIds => AloneInv(q)'
    BY <2>1, <2>2, <2>3 DEF AloneInv, Exists, Expected, InRest
  <2> QED BY <2>1, <2>3, <2>4, BeginSync
<1>3. CASE DisableRead(q)
  <2>1. PICK i \in Ids, op \in {"disable", "delete"} :
               Exists(i) /\ Begin(q, op, i, row[i].expr, row[i].enabled, "check")
    BY <1>3 DEF DisableRead
  <2>2. /\ req'[q].op = op /\ req'[q].id = i /\ req'[q].pc = "check"
        /\ req'[q].expr = row[i].expr /\ req'[q].on = row[i].enabled
        /\ job' = job /\ drifted' = drifted
        /\ i \notin BusyIds /\ i \notin drifted => job[i] \in Expected(i)
    BY <2>1, BegunFields
  <2>3. row' = row /\ row[i] = [expr |-> row[i].expr, enabled |-> row[i].enabled]
    BY <1>3 DEF DisableRead, TypeOK, Row
  <2>4. i \notin BusyIds => AloneInv(q)'
    BY <2>1, <2>2, <2>3 DEF AloneInv, Exists, Expected, InRest
  <2> QED BY <2>1, <2>3, <2>4, BeginSync
<1>4. CASE WebCreate(q)
  <2>1. PICK i \in Ids, expr \in Exprs : /\ Fresh(i)
                                         /\ Begin(q, "webCreate", i, expr, TRUE, "refresh")
                                         /\ SetRow(i, [expr |-> expr, enabled |-> TRUE])
    BY <1>4 DEF WebCreate
  <2>2. /\ req'[q].op = "webCreate" /\ req'[q].id = i /\ req'[q].pc = "refresh"
        /\ req'[q].expr = expr /\ req'[q].on
        /\ job' = job /\ drifted' = drifted
        /\ i \notin BusyIds /\ i \notin drifted => job[i] \in Expected(i)
    BY <2>1, BegunFields
  <2>3. /\ row'[i] = [expr |-> expr, enabled |-> TRUE]
        /\ \A j \in Ids \ {i} : row'[j] = row[j]
    BY <2>1 DEF SetRow, TypeOK
  <2>4. i \notin BusyIds /\ i \notin drifted => job[i] = "none"
    BY <2>1, <2>2 DEF Fresh, Exists, Expected
  <2>5. i \notin BusyIds => AloneInv(q)'
    BY <2>2, <2>3, <2>4 DEF AloneInv, Exists, InRest, TypeOK, Req
  <2> QED BY <2>1, <2>3, <2>5, BeginSync
<1>5. CASE WebEdit(q)
  <2>1. PICK i \in Ids, expr \in Exprs : /\ Begin(q, "webEdit", i, expr, row[i].enabled, "refresh")
                                         /\ SetRow(i, [row[i] EXCEPT !.expr = expr])
    BY <1>5 DEF WebEdit
  <2>2. /\ req'[q].op = "webEdit" /\ req'[q].id = i /\ req'[q].pc = "refresh"
        /\ req'[q].expr = expr /\ req'[q].on = row[i].enabled
        /\ job' = job /\ drifted' = drifted
        /\ i \notin BusyIds /\ i \notin drifted => job[i] \in Expected(i)
    BY <2>1, BegunFields
  <2>3. /\ row'[i] = [expr |-> expr, enabled |-> row[i].enabled]
        /\ \A j \in Ids \ {i} : row'[j] = row[j]
    BY <2>1 DEF SetRow, TypeOK, Row
  <2>4. i \notin BusyIds => AloneInv(q)'
    BY <2>2, <2>3 DEF AloneInv, Exists, InRest
  <2> QED BY <2>1, <2>3, <2>4, BeginSync
<1> QED BY <1>1, <1>2, <1>3, <1>4, <1>5

(* The handlers go on.  Each lemma is about one of the calls they make.    *)
LEMMA StepFields ==
  ASSUME TypeOK, NEW q \in Requests, NEW pc, Step(q, pc)
  PROVE  /\ req'[q].op = req[q].op /\ req'[q].id = req[q].id /\ req'[q].expr = req[q].expr
         /\ req'[q].on = req[q].on /\ req'[q].pc = pc
BY DEF Step, TypeOK, Req

LEMMA RefreshSync ==
  ASSUME TypeOK, TypeOK', SyncInv, RowInv', ReqInv', NEW q \in Requests, InFlight(q), Refresh(q)
  PROVE  SyncInv'
<1>1. PICK i \in Ids : i = req[q].id
  BY DEF TypeOK, Req
<1>2. /\ req[q].op \in {"webCreate", "webEdit"} /\ req[q].pc = "refresh"
      /\ req[q].alone => AloneInv(q)
      /\ UNCHANGED <<row, job, server>>
  BY DEF SyncInv, ReqInv, PcOf, Refresh
<1>3. CASE Exists(i)
  <2> DEFINE pc == IF req[q].op = "webEdit" THEN "check" ELSE "register"
             r == [req[q] EXCEPT !.expr = row[i].expr, !.on = row[i].enabled, !.pc = pc]
  <2>1. req' = [req EXCEPT ![q] = r] /\ UNCHANGED drifted
    BY <1>1, <1>3 DEF Refresh
  <2>2. /\ r.op = req[q].op /\ r.id = i /\ r.alone = req[q].alone /\ r.expr = row[i].expr
        /\ r.on = row[i].enabled /\ r.pc = pc
    BY <1>1 DEF TypeOK, Req
  <2>3. req'[q] = r /\ row[i] = [expr |-> row[i].expr, enabled |-> row[i].enabled]
    BY <2>1 DEF TypeOK, Row
  <2> HIDE DEF r
  <2>4. req[q].alone => AloneInv(q)'
    BY <1>1, <1>2, <1>3, <2>1, <2>2, <2>3 DEF AloneInv, Exists, InRest
  <2> QED BY <1>1, <1>2, <2>1, <2>2, <2>4, HandlerSync
<1>4. CASE ~Exists(i)
  <2>1. Quit(q)
    BY <1>1, <1>4 DEF Refresh
  <2>2. ~req[q].alone
    BY <1>1, <1>2, <1>4 DEF AloneInv
  <2> QED BY <1>1, <1>2, <2>1, <2>2, LeaveSync
<1> QED BY <1>3, <1>4

LEMMA RemovedSync ==
  ASSUME TypeOK, TypeOK', SyncInv, RowInv', ReqInv', NEW q \in Requests, InFlight(q), Removed(q),
         req[q].op \in {"disable", "delete", "webEdit"},
         NEW i \in Ids, i = req[q].id, job'[i] = "none", \A j \in Ids \ {i} : job'[j] = job[j],
         UNCHANGED <<row, server>>
  PROVE  SyncInv'
<1>1. req[q].alone => AloneInv(q)
  BY DEF SyncInv
<1>2. ASSUME NEW pc \in {"register", "commit"}, Step(q, pc), UNCHANGED drifted,
             pc = "register" => req[q].op = "webEdit" /\ req[q].on,
             pc = "commit" => req[q].op \in {"disable", "delete"}
      PROVE  SyncInv'
  <2>1. /\ req'[q].op = req[q].op /\ req'[q].id = i /\ req'[q].expr = req[q].expr
        /\ req'[q].on = req[q].on /\ req'[q].pc = pc
    BY <1>2, StepFields
  <2>2. req[q].alone => AloneInv(q)'
    BY <1>1, <1>2, <2>1 DEF AloneInv, Exists, InRest
  <2> QED BY <1>2, <2>2, StepSync
<1>3. CASE req[q].op # "webEdit"
  BY <1>2, <1>3 DEF Removed
<1>4. CASE req[q].op = "webEdit" /\ req[q].on
  BY <1>2, <1>4 DEF Removed
<1>5. CASE req[q].op = "webEdit" /\ ~req[q].on
  <2>1. req[q].alone => job'[i] \in Expected(i)'
    BY <1>1, <1>5 DEF AloneInv, Expected
  <2> QED BY <1>5, <2>1, LeaveSync DEF Removed
<1> QED BY <1>3, <1>4, <1>5

LEMMA RemoveScheduleSync ==
  ASSUME TypeOK, TypeOK', SyncInv, RowInv', ReqInv', NEW q \in Requests, InFlight(q),
         CheckJob(q) \/ RemoveJob(q)
  PROVE  SyncInv'
<1>1. PICK i \in Ids : i = req[q].id
  BY DEF TypeOK, Req
<1>2. /\ req[q].op \in {"disable", "delete", "webEdit"} /\ req[q].pc \in {"check", "remove"}
      /\ req[q].alone => AloneInv(q)
      /\ UNCHANGED <<row, server>>
  BY DEF SyncInv, ReqInv, PcOf, CheckJob, RemoveJob
<1>3. CASE CheckJob(q)
  <2>1. job' = job
    BY <1>3 DEF CheckJob
  <2>2. CASE job[i] = "none"
    BY <1>1, <1>2, <1>3, <2>1, <2>2, RemovedSync DEF CheckJob
  <2>3. CASE job[i] # "none"
    <3>1. Step(q, "remove") /\ drifted' = drifted /\ req[q].pc = "check"
      BY <1>1, <1>3, <2>3 DEF CheckJob
    <3>2. /\ req'[q].op = req[q].op /\ req'[q].id = i /\ req'[q].expr = req[q].expr
          /\ req'[q].on = req[q].on /\ req'[q].pc = "remove"
      BY <1>1, <3>1, StepFields
    <3>3. req[q].alone => AloneInv(q)'
      BY <1>1, <1>2, <2>1, <3>1, <3>2 DEF AloneInv, Exists, Expected, InRest
    <3> QED BY <1>1, <1>2, <2>1, <3>1, <3>3, StepSync
  <2> QED BY <2>2, <2>3
<1>4. CASE RemoveJob(q)
  <2>1. job'[i] = "none" /\ \A j \in Ids \ {i} : job'[j] = job[j]
    BY <1>1, <1>4 DEF RemoveJob, TypeOK
  <2>2. CASE Removed(q)
    BY <1>1, <1>2, <2>1, <2>2, RemovedSync
  <2>3. CASE job[i] = "none" /\ req[q].op # "webEdit" /\ Quit(q)
    <3>1. req[q].alone /\ i \notin drifted => job'[i] \in Expected(i)'
      BY <1>1, <1>2, <1>4, <2>1, <2>3 DEF AloneInv, Expected, RemoveJob
    <3> QED BY <1>1, <1>2, <2>1, <2>3, <3>1, LeaveSync
  <2>4. CASE Leave(q) /\ drifted' = drifted \cup {i}
    BY <1>1, <1>2, <2>1, <2>4, LeaveSync
  <2> QED BY <1>1, <1>4, <2>2, <2>3, <2>4 DEF RemoveJob
<1> QED BY <1>3, <1>4

LEMMA RegisterSync ==
  ASSUME TypeOK, TypeOK', SyncInv, RowInv', ReqInv', NEW q \in Requests, InFlight(q), Register(q)
  PROVE  SyncInv'
<1>1. PICK i \in Ids : i = req[q].id
  BY DEF TypeOK, Req
<1>2. /\ req[q].op \in {"create", "enable", "webCreate", "webEdit"} /\ req[q].pc = "register"
      /\ req[q].alone => AloneInv(q)
      /\ UNCHANGED <<row, server>>
  BY DEF SyncInv, ReqInv, PcOf, Register
<1>3. \A j \in Ids \ {i} : job'[j] = job[j]
  BY <1>1 DEF Register, TypeOK
<1>4. ASSUME ToCommit(q),
             \/ req[q].expr \in Triggers /\ job'[i] = req[q].expr
             \/ req[q].expr = "manual" /\ job' = job
      PROVE  SyncInv'
  <2>1. Step(q, "commit") /\ drifted' = drifted /\ req[q].op \in {"create", "enable"}
    BY <1>4 DEF ToCommit, InRest
  <2>2. /\ req'[q].op = req[q].op /\ req'[q].id = i /\ req'[q].expr = req[q].expr
        /\ req'[q].on = req[q].on /\ req'[q].pc = "commit"
    BY <1>1, <2>1, StepFields
  <2>3. req[q].alone /\ req[q].expr = "manual" /\ i \notin drifted => job[i] = "none"
    BY <1>1, <1>2, <2>1, TriggerAssumption DEF AloneInv, Expected
  <2>4. req[q].alone => AloneInv(q)'
    BY <1>1, <1>2, <1>4, <2>1, <2>2, <2>3 DEF AloneInv, Exists, Fits, InRest
  <2> QED BY <1>1, <1>2, <1>3, <2>1, <2>4, StepSync
<1>5. CASE req[q].expr \in Triggers /\ job'[i] = req[q].expr /\ ~InRest(q) /\ Finish(q)
  <2>1. req[q].alone => job'[i] \in Expected(i)'
    BY <1>1, <1>2, <1>5 DEF AloneInv, Expected, InRest
  <2> QED BY <1>1, <1>2, <1>3, <1>5, <2>1, LeaveSync
<1>6. CASE req[q].expr \in {"manual", "invalid"} /\ job' = job /\ Quit(q)
  <2>1. req[q].alone /\ i \notin drifted => job[i] \in Expected(i)
    <3>1. CASE req[q].op = "create"
      BY <1>1, <1>2, <3>1 DEF AloneInv, Expected, SyncInv, RowInv
    <3>2. CASE req[q].op = "enable"
      BY <1>1, <1>2, <3>2 DEF AloneInv
    <3>3. CASE req[q].op \in {"webCreate", "webEdit"}
      BY <1>1, <1>2, <1>6, <3>3, TriggerAssumption DEF AloneInv, Expected
    <3> QED BY <1>2, <3>1, <3>2, <3>3
  <2> QED BY <1>1, <1>2, <1>3, <1>6, <2>1, LeaveSync DEF Expected
<1>7. job' = [job EXCEPT ![i] = req[q].expr] => job'[i] = req[q].expr
  BY DEF TypeOK
<1> QED BY <1>1, <1>4, <1>5, <1>6, <1>7 DEF Register

LEMMA CommitSync ==
  ASSUME TypeOK, TypeOK', SyncInv, RowInv', ReqInv', NEW q \in Requests, InFlight(q),
         CommitCreate(q) \/ CommitEnabled(q) \/ CommitDelete(q)
  PROVE  SyncInv'
<1>1. PICK i \in Ids : i = req[q].id
  BY DEF TypeOK, Req
<1>2. /\ req[q].op \in {"create", "enable", "disable", "delete"} /\ req[q].pc = "commit"
      /\ req[q].alone => AloneInv(q)
      /\ job' = job /\ server' = server
  BY DEF SyncInv, ReqInv, CommitCreate, CommitEnabled, CommitDelete
<1>3. ASSUME NEW r, SetRow(i, r) PROVE row'[i] = r /\ \A j \in Ids \ {i} : row'[j] = row[j]
  BY <1>3 DEF SetRow, TypeOK
<1>4. CASE CommitCreate(q)
  <2>1. /\ req[q].op = "create"
        /\ row'[i] = [expr |-> req[q].expr, enabled |-> req[q].on]
        /\ \A j \in Ids \ {i} : row'[j] = row[j]
    BY <1>1, <1>3, <1>4 DEF CommitCreate
  <2>2. CASE req[q].expr = "manual" /\ Quit(q)
    <3>1. req[q].alone /\ i \notin drifted => job'[i] \in Expected(i)'
      BY <1>1, <1>2, <2>1, <2>2, TriggerAssumption DEF AloneInv, Expected, InRest
    <3> QED BY <1>1, <1>2, <2>1, <2>2, <3>1, LeaveSync
  <2>3. CASE req[q].expr # "manual" /\ req[q].on /\ Finish(q)
    <3>1. req[q].alone => job'[i] \in Expected(i)'
      BY <1>1, <1>2, <2>1, <2>3 DEF AloneInv, Expected, Fits, InRest
    <3> QED BY <1>1, <1>2, <2>1, <2>3, <3>1, LeaveSync
  <2>4. CASE Leave(q) /\ drifted' = drifted \cup {i}
    BY <1>1, <1>2, <2>1, <2>4, LeaveSync
  <2> QED BY <1>1, <1>4, <2>2, <2>3, <2>4 DEF CommitCreate
<1>5. CASE CommitEnabled(q)
  <2> DEFINE on == req[q].op = "enable"
             written == req[q].on # on
  <2>1. /\ req[q].op \in {"enable", "disable"}
        /\ IF written /\ Exists(i) THEN SetRow(i, [row[i] EXCEPT !.enabled = on]) ELSE row' = row
        /\ IF (written /\ ~Exists(i)) \/ (on /\ req[q].expr = "manual") THEN Quit(q) ELSE Finish(q)
    BY <1>1, <1>5 DEF CommitEnabled
  <2>2. \A j \in Ids \ {i} : row'[j] = row[j]
    BY <1>3, <2>1
  <2>3. req[q].alone => /\ row'[i] = [expr |-> req[q].expr, enabled |-> on]
                        /\ row'[i].expr = req[q].expr /\ (row'[i].enabled <=> on)
    BY <1>1, <1>2, <1>3, <2>1 DEF AloneInv, TypeOK, Row, Req
  <2>4. CASE req[q].op = "disable"
    <3>1. req[q].alone => job'[i] \in Expected(i)'
      BY <1>1, <1>2, <2>3, <2>4 DEF AloneInv, Expected
    <3> QED BY <1>1, <1>2, <2>1, <2>2, <3>1, LeaveSync
  <2>5. CASE req[q].op = "enable" /\ req[q].expr = "manual"
    <3>1. req[q].alone /\ i \notin drifted => job'[i] \in Expected(i)'
      BY <1>1, <1>2, <2>3, <2>5, TriggerAssumption DEF AloneInv, Expected, InRest
    <3> QED BY <1>1, <1>2, <2>1, <2>2, <2>5, <3>1, LeaveSync
  <2>6. CASE req[q].op = "enable" /\ req[q].expr # "manual"
    <3>1. req[q].alone => job'[i] \in Expected(i)'
      BY <1>1, <1>2, <2>3, <2>6 DEF AloneInv, Expected, Fits, InRest
    <3> QED BY <1>1, <1>2, <2>1, <2>2, <3>1, LeaveSync
  <2> QED BY <2>1, <2>4, <2>5, <2>6
<1>6. CASE CommitDelete(q)
  <2>1. /\ Finish(q) /\ req[q].op = "delete" /\ row'[i] = NoRow
        /\ \A j \in Ids \ {i} : row'[j] = row[j]
    BY <1>1, <1>3, <1>6 DEF CommitDelete
  <2>2. req[q].alone => job'[i] \in Expected(i)'
    BY <1>1, <1>2, <2>1 DEF AloneInv, Expected, NoRow
  <2> QED BY <1>1, <1>2, <2>1, <2>2, LeaveSync
<1> QED BY <1>4, <1>5, <1>6

(* The other steps.  While the server is not up no handler is at work.     *)
LEMMA DownSync ==
  ASSUME RowInv', ReqInv', StartInv', server' # "up"
  PROVE  SyncInv'
BY DEF SyncInv, ReqInv, InFlight, InSync

LEMMA RowOnlySync ==
  ASSUME TypeOK, TypeOK', SyncInv, RowInv', ReqInv', NEW i \in Ids, NEW r, RowOnly(i, r)
  PROVE  SyncInv'
<1>1. /\ \A j \in Ids \ {i} : row'[j] = row[j]
      /\ job' = job /\ server' = server /\ loaded' = loaded /\ todo' = todo
      /\ drifted' = drifted \cup {i}
  BY DEF RowOnly, SetRow, TypeOK
<1>2. \A p \in Requests :
        req'[p] = IF InFlight(p) /\ req[p].id = i THEN [req[p] EXCEPT !.alone = FALSE] ELSE req[p]
  BY DEF RowOnly, Disturbed
<1>3. CASE server = "up"
  <2>1. \A p \in Requests : InFlight(p) /\ req[p].id # i => req'[p] = req[p]
    BY <1>2
  <2>2. \A p \in Requests : req'[p].id = req[p].id /\ req'[p].pc = req[p].pc
    BY <1>2 DEF TypeOK, Req
  <2>3. \A p \in Requests : InFlight(p)' /\ req'[p].id # i => req'[p] = req[p]
    BY <1>2, <2>2
  <2>4. \A p \in Requests : InFlight(p)' /\ req'[p].id = i => ~req'[p].alone
    BY <1>2, <2>2 DEF InFlight, TypeOK, Req
  <2> QED BY <1>1, <1>3, <2>1, <2>3, <2>4, LocalStep
<1>4. CASE server # "up"
  <2>1. StartInv'
    BY <1>1 DEF SyncInv, StartInv, Expected
  <2> QED BY <1>1, <1>4, <2>1, DownSync
<1> QED BY <1>3, <1>4

LEMMA SyncUnchanged ==
  ASSUME SyncInv, UNCHANGED <<row, job, server, loaded, todo, req, drifted>>
  PROVE  SyncInv'
<1>1. \A q \in Requests : AloneInv(q) => AloneInv(q)'
  BY DEF AloneInv, Exists, Expected, Fits, InRest
<1>2. RowInv' /\ ReqInv' /\ \A q \in Requests : InFlight(q)' = InFlight(q)
  BY DEF SyncInv, RowInv, Exists, ReqInv, InFlight
<1>3. StartInv'
  BY DEF SyncInv, StartInv, Expected
<1>4. InSync'
  BY DEF SyncInv, InSync, Expected, BusyIds, InFlight
<1> QED BY <1>1, <1>2, <1>3, <1>4 DEF SyncInv

(* The job of a date leaves the store: it may always be missing.           *)
LEMMA JobDroppedSync ==
  ASSUME TypeOK, SyncInv, NEW i \in Ids, job[i] \in OneShot, job' = [job EXCEPT ![i] = "none"],
         UNCHANGED <<row, server, loaded, todo, req, drifted>>
  PROVE  SyncInv'
<1>1. job[i] # "none" /\ job'[i] = "none" /\ \A j \in Ids \ {i} : job'[j] = job[j]
  BY TriggerAssumption DEF TypeOK
<1>2. \A j \in Ids : job[j] \in Expected(j) => job'[j] \in Expected(j)'
  BY <1>1 DEF Expected
<1>3. ASSUME NEW q \in Requests, AloneInv(q) PROVE AloneInv(q)'
  <2>1. req[q].id \in Ids
    BY DEF TypeOK, Req
  <2>2. Fits(req[q].id, req[q].expr) => Fits(req[q].id, req[q].expr)'
    BY <1>1, <2>1 DEF Fits
  <2>3. job[req[q].id] = "none" => job'[req[q].id] = "none"
    BY <1>1, <2>1
  <2> QED BY <1>2, <1>3, <2>1, <2>2, <2>3 DEF AloneInv, Exists, InRest, Fits
<1> QED BY <1>2, <1>3 DEF SyncInv, RowInv, Exists, ReqInv, InFlight, StartInv, InSync, BusyIds

(* The start: it leaves behind jobs only for the enabled schedules.        *)
LEMMA StartingSync ==
  ASSUME TypeOK, TypeOK', SyncInv, RowInv', ReqInv',
         Start \/ Load \/ Prune \/ Stop \/ \E i \in Ids : RegisterLoaded(i)
  PROVE  SyncInv'
<1>1. CASE Start \/ Stop
  BY <1>1, DownSync DEF Start, Stop, StartInv
<1>2. CASE Load
  <2> SUFFICES ASSUME NEW j \in Ids \ drifted'
               PROVE  /\ j \in loaded' <=> row[j].enabled
                      /\ todo'[j] # "none" => j \in loaded' /\ todo'[j] = row[j].expr
                      /\ j \in loaded' /\ todo'[j] \in {"none", "manual"} => job[j] \in Expected(j)
    BY <1>2, DownSync DEF Load, StartInv, Expected
  <2>1. row[j] = [expr |-> row[j].expr, enabled |-> row[j].enabled]
    BY DEF TypeOK, Row
  <2>2. row[j].enabled => row[j].expr # "none"
    BY DEF SyncInv, RowInv, Exists
  <2>3. row[j].enabled /\ row[j].expr = "manual" => job[j] = "none"
    BY <1>2, <2>1 DEF Load
  <2> QED BY <1>2, <2>2, <2>3, TriggerAssumption DEF Load, Expected
<1>3. ASSUME NEW i \in Ids, RegisterLoaded(i) PROVE SyncInv'
  <2>1. CASE todo[i] = "invalid"
    BY <1>3, <2>1, DownSync DEF RegisterLoaded, StartInv
  <2>2. CASE todo[i] # "invalid"
    <3>1. /\ job' = IF todo[i] = "manual" THEN job ELSE [job EXCEPT ![i] = todo[i]]
          /\ todo' = [todo EXCEPT ![i] = "none"] /\ todo[i] # "none"
          /\ UNCHANGED <<row, server, loaded, drifted>> /\ server = "register"
      BY <1>3, <2>2 DEF RegisterLoaded
    <3>2. ASSUME NEW j \in Ids \ drifted'
          PROVE  /\ j \in loaded <=> row[j].enabled
                 /\ todo'[j] # "none" => j \in loaded /\ todo'[j] = row[j].expr
                 /\ j \in loaded /\ todo'[j] \in {"none", "manual"} => job'[j] \in Expected(j)
      <4>1. /\ j \in loaded <=> row[j].enabled
            /\ todo[j] # "none" => j \in loaded /\ todo[j] = row[j].expr
            /\ j \in loaded /\ todo[j] \in {"none", "manual"} => job[j] \in Expected(j)
        BY <3>1, <3>2 DEF SyncInv, StartInv
      <4>2. CASE j # i
        <5>1. todo'[j] = todo[j] /\ job'[j] = job[j]
          BY <3>1, <4>2 DEF TypeOK
        <5> QED BY <4>1, <5>1
      <4>3. CASE j = i
        <5>1. todo'[j] = "none" /\ (todo[i] # "manual" => job'[j] = todo[i] /\ todo[i] \in Triggers)
          BY <2>2, <3>1, <4>3 DEF TypeOK, Exprs
        <5>2. todo[i] = "manual" => job'[j] = job[j]
          BY <3>1
        <5> QED BY <3>1, <4>1, <4>3, <5>1, <5>2 DEF Expected
      <4> QED BY <4>2, <4>3
    <3>3. StartInv'
      BY <3>1, <3>2 DEF StartInv, Expected
    <3> QED BY <3>1, <3>3, DownSync
  <2> QED BY <2>1, <2>2
<1>4. CASE Prune
  <2>1. \A q \in Requests : ~InFlight(q)'
    BY <1>4 DEF Prune, SyncInv, ReqInv, InFlight
  <2>2. ASSUME NEW j \in Ids \ drifted PROVE job'[j] \in Expected(j)'
    <3>1. j \in loaded => job[j] \in Expected(j)
      BY <1>4, <2>2 DEF Prune, SyncInv, StartInv
    <3>2. j \notin loaded => ~row[j].enabled
      BY <1>4, <2>2 DEF Prune, SyncInv, StartInv
    <3> QED BY <1>4, <3>1, <3>2 DEF Prune, Expected
  <2> QED BY <1>4, <2>1, <2>2 DEF Prune, SyncInv, StartInv, InSync
<1> QED BY <1>1, <1>2, <1>3, <1>4

(* Every step keeps the invariant behind InSync.                           *)
LEMMA SyncInvariant == Spec => []SyncInv
<1>1. Init => SyncInv
  BY DEF Init, SyncInv, RowInv, NoRow, ReqInv, InFlight, NoReq, StartInv, InSync
<1>2. ASSUME TypeOK, TypeOK', SyncInv, [Next]_vars PROVE SyncInv'
  <2>1. RowInv' /\ ReqInv'
    BY <1>2, RowReqInvariant DEF SyncInv
  <2>2. ASSUME NEW q \in Requests,
               CreateFlushed(q) \/ EnableRead(q) \/ DisableRead(q) \/ WebCreate(q) \/ WebEdit(q)
        PROVE  SyncInv'
    BY <1>2, <2>1, <2>2, BeginningSync
  <2>3. ASSUME NEW q \in Requests, HandlerStep(q) PROVE SyncInv'
    <3>1. InFlight(q)
      BY <2>3 DEF HandlerStep, Refresh, CheckJob, RemoveJob, Register, CommitCreate, CommitEnabled,
                  CommitDelete, InFlight
    <3> QED BY <1>2, <2>1, <2>3, <3>1, RefreshSync, RemoveScheduleSync, RegisterSync, CommitSync
            DEF HandlerStep
  <2>4. ASSUME NEW i \in Ids, WebToggle(i) \/ DeleteRow(i) \/ CliAdd(i) PROVE SyncInv'
    BY <1>2, <2>1, <2>4, RowOnlySync DEF WebToggle, DeleteRow, CliAdd
  <2>5. ASSUME NEW i \in Ids, Fire(i) \/ Misfire(i) PROVE SyncInv'
    BY <1>2, <2>5, JobDroppedSync, SyncUnchanged DEF Fire, Misfire
  <2>6. ASSUME NEW i \in Ids, FireReads(i) \/ FireInserts(i) PROVE SyncInv'
    BY <1>2, <2>6, SyncUnchanged DEF FireReads, FireInserts
  <2>7. CASE Start \/ Load \/ Prune \/ Stop \/ \E i \in Ids : RegisterLoaded(i)
    BY <1>2, <2>1, <2>7, StartingSync
  <2>8. CASE UNCHANGED vars
    BY <1>2, <2>8, SyncUnchanged DEF vars
  <2> QED BY <1>2, <2>2, <2>3, <2>4, <2>5, <2>6, <2>7, <2>8 DEF Next
<1> QED BY <1>1, <1>2, TypeCorrect, PTL DEF Spec

(* While the server is up, exactly the enabled schedules have a job, and   *)
(* it has their trigger, whatever the earlier sessions left behind: except *)
(* where a handler is at work, the row was changed alone, or two handlers  *)
(* met.                                                                    *)
THEOREM JobsInSync == Spec => []InSync
<1>1. SyncInv => InSync
  BY DEF SyncInv
<1> QED BY <1>1, SyncInvariant, PTL

(* A start that fails on its own does so because of an enabled schedule    *)
(* with an invalid expression, or one that was deleted meanwhile: never    *)
(* because of a disabled one.                                              *)
THEOREM InvalidExpressionsBlock == Spec => OnlyInvalidBlocks
<1>1. ASSUME TypeOK, SyncInv, [Next]_vars,
             server # "down" /\ server' = "down" /\ stops' = stops
      PROVE  \E i \in Ids : i \in drifted \/ row[i] = [expr |-> "invalid", enabled |-> TRUE]
  <2>1. CASE Stop
    BY <1>1, <2>1 DEF Stop, TypeOK
  <2>2. ASSUME NEW i \in Ids, RegisterLoaded(i), i \notin drifted
        PROVE  row[i] = [expr |-> "invalid", enabled |-> TRUE]
    <3>1. todo[i] = "invalid" /\ server = "register"
      BY <1>1, <2>2 DEF RegisterLoaded
    <3>2. row[i].enabled /\ row[i].expr = "invalid"
      BY <2>2, <3>1, <1>1 DEF SyncInv, StartInv
    <3> QED BY <1>1, <3>2 DEF TypeOK, Row
  <2>3. ASSUME NEW q \in Requests,
               \/ CreateFlushed(q) \/ EnableRead(q) \/ DisableRead(q) \/ WebCreate(q)
               \/ WebEdit(q) \/ HandlerStep(q)
        PROVE  server' = server
    BY <2>3 DEF CreateFlushed, EnableRead, DisableRead, WebCreate, WebEdit, Begin, HandlerStep,
       Refresh, CheckJob, RemoveJob, Register, CommitCreate, CommitEnabled, CommitDelete
  <2>4. ASSUME NEW i \in Ids,
               \/ WebToggle(i) \/ DeleteRow(i) \/ CliAdd(i)
               \/ Fire(i) \/ Misfire(i) \/ FireReads(i) \/ FireInserts(i)
        PROVE  server' = server
    BY <2>4 DEF WebToggle, DeleteRow, CliAdd, RowOnly, Fire, Misfire, FireReads, FireInserts
  <2>5. ASSUME Start \/ Load \/ Prune PROVE server' # "down"
    BY <2>5 DEF Start, Load, Prune
  <2>6. ~UNCHANGED vars
    BY <1>1 DEF vars
  <2> QED BY <1>1, <2>1, <2>2, <2>3, <2>4, <2>5, <2>6 DEF Next
<1> QED BY <1>1, TypeCorrect, SyncInvariant, PTL DEF Spec, OnlyInvalidBlocks
=============================================================================
