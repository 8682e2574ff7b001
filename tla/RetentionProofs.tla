--------------------------- MODULE RetentionProofs ---------------------------
(***************************************************************************)
(* What is proved of the module Retention, for any number of runs, any     *)
(* workflows among them and any sequence of cancels, restarts and sweeps.  *)
(***************************************************************************)
EXTENDS Retention, TLAPS

(* A row belongs to a run that was given its id.                           *)
Owners == \A i \in Ids : Exists(i) => thread[row[i].of] # "none" /\ id[row[i].of] = i

(* A run that was created has an id; a node's run is created by a workflow *)
(* that executes in the same process.                                      *)
Created ==
  \A r \in Runs : /\ thread[r] # "none" => id[r] # 0
                  /\ boss[r] # 0 => /\ thread[r] # "none" /\ thread[boss[r]] # "none"
                                    /\ (boss[r] \in CliRuns <=> r \in CliRuns)

(* A thread that nobody interfered with owns a row without a stamp.        *)
OwnOpen ==
  \A r \in Runs \ touched : Active(r) => row[id[r]].of = r /\ row[id[r]].fin = 0

OwnLogs == \A i \in Ids : logs[i] \subseteq {row[i].of} \cup touched

(* A node's run has a larger id than its workflow's.                       *)
Below ==
  \A i \in Ids : Exists(i) /\ row[i].parent # 0 /\ boss[row[i].of] \notin touched
                   => row[i].parent < i

(* A workflow is at work while one of its nodes is.                        *)
NodesInside == \A c \in Runs : boss[c] # 0 /\ Active(c) => thread[boss[c]] = "busy"

(* A thread that has ended leaves a stamp, or a status that nobody stamps, *)
(* unless the server died with it and with its workflow, and has not       *)
(* cleaned up since.                                                       *)
Settled ==
  \A i \in Ids :
     LET c == row[i].of
     IN  Exists(i) /\ c \notin touched /\ thread[c] = "over" /\ Stale(i)
           => ~cleaned /\ (boss[c] # 0 => thread[boss[c]] \notin {"queued", "busy"})

(* A node's run is never stamped after its workflow's.                     *)
Stamps ==
  \A i \in Ids :
     LET c == row[i].of  b == boss[c]
     IN  /\ Exists(i) /\ b # 0 /\ {c, b} \cap touched = {}
         /\ thread[c] = "over" /\ (row[i].fin # 0 \/ row[i].open)
         => /\ row[id[b]].of = b
            /\ row[id[b]].fin = 0 \/ (row[i].fin # 0 /\ row[i].fin <= row[id[b]].fin)

(* The inductive invariant.                                                *)
IInv == /\ TypeOK /\ Owners /\ Created /\ OwnOpen /\ OwnLogs /\ Below /\ NoAdoption
        /\ NodesInside /\ Settled /\ Stamps

-----------------------------------------------------------------------------
(* Types *)

LEMMA Ranges ==
  /\ Runs \subseteq 0..MaxRuns /\ Ids \subseteq 0..MaxRuns /\ Runs = Ids
  /\ 0 \notin Runs /\ 0 \in 0..MaxRuns /\ 0 \in 0..MaxTime /\ Runs \subseteq Nat
  /\ \A n \in 0..MaxRuns : n # 0 => n \in Runs
  BY RunsAssumption, TimeAssumption DEF Runs, Ids

LEMMA RowTypes ==
  ASSUME TypeOK, NEW i \in Ids
  PROVE  /\ row[i] \in Rows /\ row[i].of \in 0..MaxRuns /\ row[i].parent \in 0..MaxRuns
         /\ row[i].open \in BOOLEAN /\ row[i].fin \in 0..MaxTime /\ row[i].fin <= now
         /\ Exists(i) => row[i].of \in Runs
<1>1. row[i] \in Rows /\ row[i].fin <= now
  BY DEF TypeOK
<1>2. row[i].of \in 0..MaxRuns /\ row[i].parent \in 0..MaxRuns
      /\ row[i].open \in BOOLEAN /\ row[i].fin \in 0..MaxTime
  BY <1>1 DEF Rows
<1> QED BY <1>1, <1>2, Ranges DEF Exists

LEMMA NowTypes ==
  ASSUME TypeOK
  PROVE  now \in 0..MaxTime /\ now # 0 /\ now \in Nat /\ 0..MaxTime \subseteq Nat
  BY TimeAssumption DEF TypeOK, Times

(* Writing the two columns of one row that any action writes.              *)
LEMMA WriteTypes ==
  ASSUME TypeOK, NEW i \in Ids, NEW o \in BOOLEAN, NEW f \in 0..MaxTime, f <= now,
         row' = [row EXCEPT ![i].open = o, ![i].fin = f], now' = now
  PROVE  /\ row' \in [Ids -> Rows]
         /\ \A j \in Ids : row'[j].fin <= now'
         /\ \A j \in Ids : row'[j].of = row[j].of /\ row'[j].parent = row[j].parent
         /\ \A j \in Ids \ {i} : row'[j] = row[j]
         /\ row'[i].open = o /\ row'[i].fin = f
<1>1. row[i] \in Rows
  BY DEF TypeOK
<1>2. [row[i] EXCEPT !.open = o, !.fin = f] \in Rows
  BY <1>1 DEF Rows
<1>3. row' = [row EXCEPT ![i] = [row[i] EXCEPT !.open = o, !.fin = f]]
  BY DEF TypeOK
<1>4. row'[i] = [row[i] EXCEPT !.open = o, !.fin = f] /\ \A j \in Ids \ {i} : row'[j] = row[j]
  BY <1>3 DEF TypeOK
<1>5. row' \in [Ids -> Rows]
  BY <1>2, <1>3 DEF TypeOK
<1>6. /\ row'[i].of = row[i].of /\ row'[i].parent = row[i].parent
      /\ row'[i].open = o /\ row'[i].fin = f
  <2>1. \A x \in Rows : LET y == [x EXCEPT !.open = o, !.fin = f]
                        IN  y.of = x.of /\ y.parent = x.parent /\ y.open = o /\ y.fin = f
    BY DEF Rows
  <2> QED BY <2>1, <1>1, <1>4
<1> QED BY <1>4, <1>5, <1>6 DEF TypeOK

LEMMA MisledTypes ==
  ASSUME TypeOK, NEW r \in Runs, id[r] \in Ids
  PROVE  Misled(r) \subseteq Runs
  BY RowTypes, Ranges DEF Misled

LEMMA ActiveHasId ==
  ASSUME TypeOK, Created, NEW r \in Runs, thread[r] # "none"
  PROVE  id[r] \in Ids
  BY Ranges DEF TypeOK, Created

-----------------------------------------------------------------------------
(* A run is created *)

LEMMA InsertKeeps ==
  ASSUME IInv, NEW r \in Runs, NEW i \in Ids, NEW b \in 0..MaxRuns, Insert(r, i, b),
         b # 0 => thread[b] = "busy" /\ (b \in CliRuns <=> r \in CliRuns)
  PROVE  IInv'
<1> DEFINE new == [of |-> r, open |-> TRUE, fin |-> 0, parent |-> IF b = 0 THEN 0 ELSE id[b]]
<1>1. b # 0 => b \in Runs /\ id[b] \in Ids /\ b # r
  <2>1. b # 0 => b \in Runs
    BY Ranges
  <2> QED BY <2>1, ActiveHasId DEF IInv, Insert
<1>2. new \in Rows /\ new.of = r /\ new.open = TRUE /\ new.fin = 0
      /\ new.parent = IF b = 0 THEN 0 ELSE id[b]
  BY <1>1, Ranges DEF Rows
<1>3. /\ row' = [row EXCEPT ![i] = new] /\ id' = [id EXCEPT ![r] = i]
      /\ boss' = [boss EXCEPT ![r] = b] /\ thread' = [thread EXCEPT ![r] = "queued"]
      /\ UNCHANGED <<logs, touched, cleaned, now>> /\ thread[r] = "none" /\ Fresh(i)
  BY DEF Insert
<1> HIDE DEF new
<1>4. /\ row'[i] = new /\ \A j \in Ids \ {i} : row'[j] = row[j]
      /\ id'[r] = i /\ boss'[r] = b /\ thread'[r] = "queued"
      /\ \A s \in Runs \ {r} : id'[s] = id[s] /\ boss'[s] = boss[s] /\ thread'[s] = thread[s]
  BY <1>3 DEF IInv, TypeOK
<1>5. ~Exists(i) /\ \A j \in Ids : Exists(j) => j < i
  BY <1>3 DEF Fresh, Ids
(* The rows there were, and their runs, are as before.                     *)
<1>6. \A j \in Ids : Exists(j) => j # i /\ row'[j] = row[j] /\ row[j].of \in Runs \ {r}
  BY <1>3, <1>4, <1>5, RowTypes DEF IInv, Owners
<1>7. \A j \in Ids : Exists(j)' => j = i \/ Exists(j)
  BY <1>4 DEF Exists
<1>8. TypeOK'
  <2>1. row' \in [Ids -> Rows] /\ \A j \in Ids : row'[j].fin <= now
    BY <1>2, <1>3, <1>4, NowTypes DEF IInv, TypeOK
  <2> QED BY <2>1, <1>3, Ranges DEF IInv, TypeOK
<1>9. Owners'
  BY <1>2, <1>4, <1>6, <1>7 DEF IInv, Owners
<1>10. Created'
  <2>1. ASSUME NEW s \in Runs, boss[s] # 0 PROVE boss[s] \in Runs /\ boss[s] # r /\ s # r
    <3>1. boss[s] \in Runs
      BY <2>1, Ranges DEF IInv, TypeOK
    <3> QED BY <2>1, <3>1, <1>3 DEF IInv, Created
  <2>2. ASSUME NEW s \in Runs, thread'[s] # "none" PROVE id'[s] # 0
    BY <2>2, <1>4, Ranges DEF IInv, Created
  <2>3. ASSUME NEW s \in Runs, boss'[s] # 0
        PROVE  /\ thread'[s] # "none" /\ thread'[boss'[s]] # "none"
               /\ (boss'[s] \in CliRuns <=> s \in CliRuns)
    <3>1. CASE s = r
      BY <3>1, <2>3, <1>1, <1>4
    <3>2. CASE s # r
      <4>1. boss'[s] = boss[s] /\ thread'[s] = thread[s] /\ thread'[boss[s]] = thread[boss[s]]
        BY <3>2, <2>1, <2>3, <1>4
      <4> QED BY <4>1, <2>3 DEF IInv, Created
    <3> QED BY <3>1, <3>2
  <2> QED BY <2>2, <2>3 DEF Created
<1>11. OwnOpen'
  <2>1. ASSUME NEW s \in Runs \ touched, s # r, Active(s)
        PROVE  row'[id[s]].of = s /\ row'[id[s]].fin = 0
    <3>1. id[s] \in Ids /\ row[id[s]].of = s /\ row[id[s]].fin = 0
      BY <2>1, ActiveHasId DEF IInv, OwnOpen, Active
    <3> QED BY <3>1, <1>6, Ranges DEF Exists
  <2> QED BY <2>1, <1>2, <1>3, <1>4 DEF OwnOpen, Active
<1>12. OwnLogs'
  <2>1. logs[i] \subseteq touched
    BY <1>5, Ranges DEF IInv, OwnLogs, Exists, TypeOK
  <2> QED BY <2>1, <1>3, <1>4 DEF IInv, OwnLogs
<1>13. \A s \in Runs \ {r} : boss'[s] = boss[s]
  BY <1>4
<1>14. b # 0 /\ b \notin touched => row[id[b]].of = b /\ Exists(id[b]) /\ id[b] # i
  BY <1>1, <1>6, Ranges DEF IInv, OwnOpen, Active, Exists
<1>15. Below'
  <2>1. b # 0 /\ b \notin touched => id[b] < i
    BY <1>1, <1>5, <1>14
  <2> QED BY <2>1, <1>2, <1>3, <1>4, <1>6, <1>7 DEF IInv, Below, Exists
<1>16. NoAdoption'
  <2> SUFFICES ASSUME NEW j \in Ids, Exists(j)', row'[j].parent # 0, Exists(row[j].parent)'
               PROVE  \/ row'[row'[j].parent].of = boss'[row'[j].of]
                      \/ boss'[row'[j].of] \in touched
    BY <1>3 DEF NoAdoption, Exists
  <2>1. CASE j = i
    BY <2>1, <1>1, <1>2, <1>4, <1>14
  <2>2. CASE j # i
    <3>1. Exists(j) /\ row'[j] = row[j] /\ boss'[row[j].of] = boss[row[j].of] /\ row[j].parent \in Ids
      BY <2>2, <1>4, <1>6, <1>7, RowTypes, Ranges DEF IInv
    <3>2. CASE boss[row[j].of] \in touched
      BY <3>1, <3>2
    <3>3. CASE boss[row[j].of] \notin touched
      <4>1. row[j].parent < j /\ j < i
        BY <3>1, <3>3, <1>5 DEF IInv, Below
      <4>2. row[j].parent # i
        BY <4>1, <3>1 DEF Ids
      <4>3. row'[row[j].parent] = row[row[j].parent] /\ Exists(row[j].parent)
        BY <3>1, <4>2, <1>4 DEF Exists
      <4>4. row[row[j].parent].of = boss[row[j].of]
        BY <3>1, <3>3, <4>3 DEF IInv, NoAdoption
      <4> QED BY <3>1, <4>3, <4>4
    <3> QED BY <3>2, <3>3
  <2> QED BY <2>1, <2>2
<1>17. NodesInside'
  <2>1. ASSUME NEW c \in Runs \ {r}, boss[c] # 0, Active(c)
        PROVE  thread'[boss[c]] = "busy"
    <3>1. boss[c] \in Runs /\ thread[boss[c]] = "busy"
      BY <2>1, Ranges DEF IInv, NodesInside, TypeOK
    <3> QED BY <3>1, <1>3, <1>4
  <2> QED BY <2>1, <1>1, <1>4 DEF NodesInside, Active
<1>18. Settled'
  <2> SUFFICES ASSUME NEW j \in Ids, Exists(j)', row'[j].of \notin touched,
                      thread'[row'[j].of] = "over", Stale(j)'
               PROVE  ~cleaned /\ (boss'[row'[j].of] # 0 => thread'[boss'[row'[j].of]] \notin {"queued", "busy"})
    BY <1>3 DEF Settled
  <2>1. j # i /\ Exists(j) /\ row'[j] = row[j] /\ row[j].of \in Runs \ {r} /\ Stale(j)
    BY <1>2, <1>4, <1>6, <1>7 DEF Stale, Exists
  <2>2. /\ boss'[row[j].of] = boss[row[j].of] /\ thread[row[j].of] = "over"
        /\ ~cleaned /\ (boss[row[j].of] # 0 => thread[boss[row[j].of]] \notin {"queued", "busy"})
    BY <2>1, <1>4 DEF IInv, Settled
  <2>3. boss[row[j].of] # 0 => boss[row[j].of] \in Runs \ {r}
    BY <2>1, <1>3, Ranges DEF IInv, Created, TypeOK
  <2> QED BY <2>1, <2>2, <2>3, <1>4
<1>19. Stamps'
  <2> SUFFICES ASSUME NEW j \in Ids, Exists(j)', boss'[row'[j].of] # 0,
                      {row'[j].of, boss'[row'[j].of]} \cap touched = {},
                      thread'[row'[j].of] = "over", row'[j].fin # 0 \/ row'[j].open
               PROVE  LET p == boss'[row'[j].of] IN
                      /\ row'[id'[p]].of = p
                      /\ \/ row'[id'[p]].fin = 0
                         \/ row'[j].fin # 0 /\ row'[j].fin <= row'[id'[p]].fin
    BY <1>3 DEF Stamps, Exists
  <2>1. j # i /\ Exists(j) /\ row'[j] = row[j] /\ row[j].of \in Runs \ {r}
    BY <1>2, <1>4, <1>6, <1>7
  <2>2. boss'[row[j].of] = boss[row[j].of] /\ thread'[row[j].of] = thread[row[j].of]
    BY <2>1, <1>4
  <2> DEFINE p == boss[row[j].of]
  <2>3. p \in Runs /\ thread[p] # "none"
    BY <2>1, <2>2, Ranges DEF IInv, Created, TypeOK
  <2>4. p # r /\ id'[p] = id[p] /\ id[p] \in Ids
    BY <2>3, <1>3, <1>4, ActiveHasId DEF IInv
  <2>5. row[id[p]].of = p /\ (row[id[p]].fin = 0 \/ (row[j].fin # 0 /\ row[j].fin <= row[id[p]].fin))
    BY <2>1, <2>2 DEF IInv, Stamps
  <2>6. Exists(id[p])
    BY <2>3, <2>5, Ranges DEF Exists
  <2> QED BY <2>1, <2>2, <2>4, <2>5, <2>6, <1>6
<1> QED BY <1>8, <1>9, <1>10, <1>11, <1>12, <1>15, <1>16, <1>17, <1>18, <1>19 DEF IInv

-----------------------------------------------------------------------------
(* What every other step leaves alone *)

(* No other step changes whom a row belongs to, or which run created one.  *)
LEMMA FrameKeeps ==
  ASSUME IInv, TypeOK', UNCHANGED <<id, boss>>, touched \subseteq touched',
         \A j \in Ids : Exists(j)' => /\ Exists(j) /\ row'[j].of = row[j].of
                                     /\ row'[j].parent = row[j].parent,
         \A s \in Runs : thread'[s] = "none" <=> thread[s] = "none"
  PROVE  Owners' /\ Created' /\ Below' /\ NoAdoption'
<1>1. \A j \in Ids : Exists(j) => row[j].of \in Runs
  BY RowTypes DEF IInv
<1>2. \A s \in Runs : boss[s] # 0 => boss[s] \in Runs
  BY Ranges DEF IInv, TypeOK
<1>3. Owners'
  BY <1>1 DEF IInv, Owners
<1>4. Created'
  BY <1>2 DEF IInv, Created
<1>5. Below'
  BY DEF IInv, Below
<1>6. NoAdoption'
  <2> SUFFICES ASSUME NEW j \in Ids, Exists(j)', row'[j].parent # 0, Exists(row[j].parent)'
               PROVE  \/ row'[row[j].parent].of = boss[row[j].of]
                      \/ boss[row[j].of] \in touched
    BY DEF NoAdoption, Exists
  <2>1. row[j].parent \in Ids /\ row'[j].parent = row[j].parent
    BY RowTypes, Ranges DEF IInv
  <2>2. Exists(row[j].parent) /\ row'[row[j].parent].of = row[row[j].parent].of
    BY <2>1
  <2> QED BY <2>1, <2>2 DEF IInv, NoAdoption
<1> QED BY <1>3, <1>4, <1>5, <1>6

LEMMA LogsKeep ==
  ASSUME IInv, touched \subseteq touched',
         \A j \in Ids : logs'[j] = {} \/ (logs'[j] = logs[j] /\ row'[j].of = row[j].of)
  PROVE  OwnLogs'
  BY DEF IInv, OwnLogs

(* The columns of row i that a step writes.                                *)
LEMMA OpenTypes ==
  ASSUME TypeOK, NEW i \in Ids, NEW o \in BOOLEAN, row' = [row EXCEPT ![i].open = o], now' = now
  PROVE  /\ row' \in [Ids -> Rows]
         /\ \A j \in Ids : /\ row'[j].fin = row[j].fin /\ row'[j].of = row[j].of
                           /\ row'[j].parent = row[j].parent
         /\ \A j \in Ids \ {i} : row'[j] = row[j]
         /\ row'[i].open = o
<1>1. row' = [row EXCEPT ![i].open = o, ![i].fin = row[i].fin]
  <2>1. \A x \in Rows : [x EXCEPT !.open = o] = [[x EXCEPT !.open = o] EXCEPT !.fin = x.fin]
    BY DEF Rows
  <2> QED BY <2>1 DEF TypeOK
<1>2. row[i].fin \in 0..MaxTime /\ row[i].fin <= now
  BY RowTypes
<1>3. /\ row' \in [Ids -> Rows]
      /\ \A j \in Ids : row'[j].of = row[j].of /\ row'[j].parent = row[j].parent
      /\ \A j \in Ids \ {i} : row'[j] = row[j]
      /\ row'[i].open = o /\ row'[i].fin = row[i].fin
  BY <1>1, <1>2, WriteTypes
<1> QED BY <1>3

(* A row of a run that nobody interfered with is its thread's.             *)
LEMMA OwnsIt ==
  ASSUME IInv, NEW s \in Runs, Active(s), s \notin touched
  PROVE  id[s] \in Ids /\ Exists(id[s]) /\ row[id[s]].of = s /\ row[id[s]].fin = 0
  BY ActiveHasId, Ranges DEF IInv, OwnOpen, Active, Exists

(* Whoever writes a row that is not its own is misled by it.               *)
LEMMA MisledByIt ==
  ASSUME IInv, NEW r \in Runs, Exists(id[r]), row[id[r]].of # r
  PROVE  row[id[r]].of \in Misled(r)
  BY DEF Misled, Exists

LEMMA BossTypes ==
  ASSUME IInv, NEW c \in Runs, boss[c] # 0
  PROVE  /\ boss[c] \in Runs /\ id[boss[c]] \in Ids
         /\ thread[boss[c]] # "none" /\ (boss[c] \in CliRuns <=> c \in CliRuns)
  BY ActiveHasId, Ranges DEF IInv, Created, TypeOK

-----------------------------------------------------------------------------
(* The thread's own steps *)

LEMMA StartKeeps ==
  ASSUME IInv, NEW r \in Runs, Start(r)
  PROVE  IInv'
<1>1. /\ thread[r] = "queued" /\ UNCHANGED <<logs, id, boss, cleaned, now>> /\ id[r] \in Ids
      /\ Misled(r) \subseteq Runs
  BY ActiveHasId, MisledTypes DEF Start, IInv
<1>2. /\ row' \in [Ids -> Rows]
      /\ \A j \in Ids : /\ row'[j].fin = row[j].fin /\ row'[j].of = row[j].of
                        /\ row'[j].parent = row[j].parent
      /\ \A j \in Ids \ {id[r]} : row'[j] = row[j]
  BY <1>1, OpenTypes DEF Start, IInv, TypeOK
<1>3. touched \subseteq touched' /\ touched' \subseteq Runs
  BY <1>1 DEF Start, IInv, TypeOK
<1>4. /\ thread' \in [Runs -> {"none", "queued", "busy", "over", "raised"}]
      /\ thread'[r] \in {"busy", "raised"} /\ \A s \in Runs \ {r} : thread'[s] = thread[s]
  BY DEF Start, Goto, IInv, TypeOK
<1>5. row'[id[r]] = row[id[r]] \/ Misled(r) \subseteq touched'
  BY DEF Start
<1>6. TypeOK'
  BY <1>1, <1>2, <1>3, <1>4 DEF IInv, TypeOK
<1>7. Owners' /\ Created' /\ Below' /\ NoAdoption' /\ OwnLogs'
  BY <1>1, <1>2, <1>3, <1>4, <1>6, FrameKeeps, LogsKeep DEF Exists
<1>8. \A s \in Runs : Active(s)' => Active(s)
  BY <1>1, <1>4 DEF Active
<1>9. OwnOpen'
  BY <1>1, <1>2, <1>3, <1>8, OwnsIt DEF OwnOpen
<1>10. NodesInside'
  <2>1. ASSUME NEW c \in Runs, boss[c] # 0, Active(c)'
        PROVE  thread'[boss[c]] = "busy"
    <3>1. thread[boss[c]] = "busy" /\ boss[c] \in Runs
      BY <2>1, <1>8, BossTypes DEF IInv, NodesInside
    <3> QED BY <3>1, <1>1, <1>4
  <2> QED BY <2>1, <1>1 DEF NodesInside
<1>11. \A j \in Ids : Exists(j)' => Exists(j) /\ row[j].of \in Runs
  BY <1>2, RowTypes DEF Exists, IInv
(* The row of a run that is over is written by a misled thread only.       *)
<1>14. ASSUME NEW j \in Ids, Exists(j)', row'[j].of \notin touched', thread'[row'[j].of] = "over"
      PROVE  /\ Exists(j) /\ row[j].of \in Runs /\ row'[j] = row[j] /\ row[j].of \notin touched
             /\ thread[row[j].of] = "over"
  <2>1. row'[j].of = row[j].of /\ row[j].of # r /\ row[j].of \in Runs /\ Exists(j)
        /\ thread[row[j].of] = "over"
    BY <1>14, <1>2, <1>4, <1>11
  <2>2. row'[j] = row[j]
    <3>1. CASE j = id[r]
      <4>1. row[j].of \in Misled(r)
        BY <3>1, <2>1, MisledByIt
      <4> QED BY <1>14, <4>1, <3>1, <2>1, <1>5
    <3> QED BY <3>1, <1>2
  <2> QED BY <1>14, <2>1, <2>2, <1>3
<1>12. Settled'
  <2> SUFFICES ASSUME NEW j \in Ids, Exists(j)', row'[j].of \notin touched',
                      thread'[row'[j].of] = "over", Stale(j)'
               PROVE  ~cleaned' /\ (boss[row'[j].of] # 0 => thread'[boss[row'[j].of]] \notin {"queued", "busy"})
    BY <1>1 DEF Settled
  <2>1. /\ Exists(j) /\ row[j].of \in Runs /\ row'[j] = row[j] /\ row[j].of \notin touched
        /\ thread[row[j].of] = "over"
    BY <1>14
  <2>2. ~cleaned /\ (boss[row[j].of] # 0 => thread[boss[row[j].of]] \notin {"queued", "busy"})
    BY <2>1 DEF IInv, Settled, Stale, Exists
  <2>3. boss[row[j].of] # 0 => boss[row[j].of] \in Runs
    BY <2>1, BossTypes
  <2>4. \A s \in Runs : thread'[s] \in {"queued", "busy"} => thread[s] \in {"queued", "busy"}
    BY <1>1, <1>4
  <2> QED BY <2>1, <2>2, <2>3, <2>4, <1>1
<1>13. Stamps'
  <2> SUFFICES ASSUME NEW j \in Ids, Exists(j)', boss[row'[j].of] # 0,
                      {row'[j].of, boss[row'[j].of]} \cap touched' = {},
                      thread'[row'[j].of] = "over", row'[j].fin # 0 \/ row'[j].open
               PROVE  LET p == boss[row'[j].of] IN
                      /\ row'[id[p]].of = p
                      /\ \/ row'[id[p]].fin = 0
                         \/ row'[j].fin # 0 /\ row'[j].fin <= row'[id[p]].fin
    BY <1>1 DEF Stamps
  <2>1. Exists(j) /\ thread[row[j].of] = "over" /\ row'[j] = row[j] /\ row[j].of \in Runs
    BY <1>14
  <2>2. id[boss[row[j].of]] \in Ids
    BY <2>1, BossTypes
  <2> QED BY <2>1, <2>2, <1>2, <1>3 DEF IInv, Stamps
<1> QED BY <1>6, <1>7, <1>9, <1>10, <1>12, <1>13 DEF IInv

(* What the end of a thread does to its row, if there is one.              *)
LEMMA EndWrites ==
  ASSUME IInv, NEW r \in Runs, End(r)
  PROVE  /\ row' \in [Ids -> Rows] /\ id[r] \in Ids
         /\ \A j \in Ids : row'[j].fin <= now
         /\ \A j \in Ids : row'[j].of = row[j].of /\ row'[j].parent = row[j].parent
         /\ \A j \in Ids \ {id[r]} : row'[j] = row[j]
         /\ Exists(id[r]) => row'[id[r]].open = FALSE /\ row'[id[r]].fin = now
         /\ ~Exists(id[r]) => row' = row
<1>1. id[r] \in Ids /\ now' = now
  BY ActiveHasId DEF End, IInv
<1>2. now \in 0..MaxTime /\ now <= now
  BY NowTypes DEF IInv
<1>3. CASE Exists(id[r])
  <2>1. row' = [row EXCEPT ![id[r]].open = FALSE, ![id[r]].fin = now]
    BY <1>3 DEF End
  <2>2. /\ row' \in [Ids -> Rows]
        /\ \A j \in Ids : row'[j].fin <= now'
        /\ \A j \in Ids : row'[j].of = row[j].of /\ row'[j].parent = row[j].parent
        /\ \A j \in Ids \ {id[r]} : row'[j] = row[j]
        /\ row'[id[r]].open = FALSE /\ row'[id[r]].fin = now
    <3>1. TypeOK
      BY DEF IInv
    <3> QED BY <2>1, <3>1, <1>1, <1>2, WriteTypes
  <2> QED BY <2>2, <1>1, <1>3
<1>4. CASE ~Exists(id[r])
  <2>1. row' = row
    BY <1>4 DEF End
  <2> QED BY <2>1, <1>1, <1>4 DEF IInv, TypeOK
<1> QED BY <1>1, <1>3, <1>4

LEMMA EndKeeps ==
  ASSUME IInv, NEW r \in Runs, End(r)
  PROVE  IInv'
<1> DEFINE i == id[r]
<1>1. /\ thread[r] = "busy" /\ NodesOver(r) /\ UNCHANGED <<logs, id, boss, cleaned, now>> /\ i \in Ids
      /\ touched' = touched \cup Misled(r) /\ Misled(r) \subseteq Runs
  BY EndWrites, MisledTypes DEF End, IInv
<1>2. /\ row' \in [Ids -> Rows] /\ \A j \in Ids : row'[j].fin <= now
      /\ \A j \in Ids : row'[j].of = row[j].of /\ row'[j].parent = row[j].parent
      /\ \A j \in Ids \ {i} : row'[j] = row[j]
      /\ Exists(i) => row'[i].open = FALSE /\ row'[i].fin = now
      /\ ~Exists(i) => row' = row
  BY EndWrites
<1>3. /\ thread' \in [Runs -> {"none", "queued", "busy", "over", "raised"}]
      /\ thread'[r] = "over" /\ \A s \in Runs \ {r} : thread'[s] = thread[s]
  BY DEF End, Goto, IInv, TypeOK
<1>4. \A s \in Runs : s \notin touched' /\ s # r => ~(Exists(i) /\ row[i].of = s)
  BY <1>1, MisledByIt
<1> HIDE DEF i
<1>5. TypeOK'
  BY <1>1, <1>2, <1>3 DEF IInv, TypeOK
<1>6. Owners' /\ Created' /\ Below' /\ NoAdoption' /\ OwnLogs'
  BY <1>1, <1>2, <1>3, <1>5, FrameKeeps, LogsKeep DEF Exists
<1>7. \A s \in Runs : Active(s)' => Active(s) /\ s # r
  BY <1>3 DEF Active
<1>8. OwnOpen'
  <2>1. ASSUME NEW s \in Runs \ touched', Active(s)'
        PROVE  row'[id[s]].of = s /\ row'[id[s]].fin = 0
    <3>1. id[s] \in Ids /\ Exists(id[s]) /\ row[id[s]].of = s /\ row[id[s]].fin = 0 /\ s # r
      BY <2>1, <1>1, <1>7, OwnsIt
    <3>2. id[s] # i
      BY <2>1, <3>1, <1>4
    <3> QED BY <3>1, <3>2, <1>2
  <2> QED BY <2>1, <1>1 DEF OwnOpen
<1>9. NodesInside'
  <2>1. ASSUME NEW c \in Runs, boss[c] # 0, Active(c)'
        PROVE  thread'[boss[c]] = "busy"
    <3>1. thread[boss[c]] = "busy" /\ boss[c] \in Runs /\ boss[c] # r
      BY <2>1, <1>1, <1>7, BossTypes DEF IInv, NodesInside, NodesOver
    <3> QED BY <3>1, <1>3
  <2> QED BY <2>1, <1>1 DEF NodesInside
<1>10. \A j \in Ids : Exists(j)' => Exists(j) /\ row[j].of \in Runs /\ id[row[j].of] = j
  BY <1>2, RowTypes DEF Exists, IInv, Owners
<1>11. Settled'
  <2> SUFFICES ASSUME NEW j \in Ids, Exists(j)', row'[j].of \notin touched',
                      thread'[row'[j].of] = "over", Stale(j)'
               PROVE  ~cleaned' /\ (boss[row'[j].of] # 0 => thread'[boss[row'[j].of]] \notin {"queued", "busy"})
    BY <1>1 DEF Settled
  <2>1. row'[j].of = row[j].of /\ row[j].of \in Runs /\ Exists(j)
    BY <1>2, <1>10
  <2>2. CASE j = i
    BY <2>1, <2>2, <1>2, NowTypes DEF Stale, IInv
  <2>3. CASE j # i
    <3>1. row[j].of # r /\ row'[j] = row[j]
      BY <2>3, <1>2, <1>10 DEF i
    <3>2. ~cleaned /\ (boss[row[j].of] # 0 => thread[boss[row[j].of]] \notin {"queued", "busy"})
      BY <3>1, <2>1, <1>1, <1>3 DEF IInv, Settled, Stale, Exists
    <3>3. boss[row[j].of] # 0 => boss[row[j].of] \in Runs
      BY <2>1, BossTypes
    <3>4. \A s \in Runs : thread'[s] \in {"queued", "busy"} => thread[s] \in {"queued", "busy"}
      BY <1>1, <1>3
    <3> QED BY <3>2, <3>3, <3>4, <2>1, <1>1
  <2> QED BY <2>2, <2>3
<1>12. Stamps'
  <2> SUFFICES ASSUME NEW j \in Ids, Exists(j)', boss[row'[j].of] # 0,
                      {row'[j].of, boss[row'[j].of]} \cap touched' = {},
                      thread'[row'[j].of] = "over", row'[j].fin # 0 \/ row'[j].open
               PROVE  LET p == boss[row'[j].of] IN
                      /\ row'[id[p]].of = p
                      /\ \/ row'[id[p]].fin = 0
                         \/ row'[j].fin # 0 /\ row'[j].fin <= row'[id[p]].fin
    BY <1>1 DEF Stamps
  <2> DEFINE c == row[j].of
             p == boss[c]
  <2>1. Exists(j) /\ row'[j].of = c /\ c \in Runs /\ id[c] = j
    BY <1>2, <1>10
  <2>2. p \in Runs /\ id[p] \in Ids /\ p \notin touched /\ c \notin touched /\ c \notin touched'
    BY <2>1, <1>1, BossTypes
  <2>3. CASE c = r
    <3>1. p # r /\ thread[p] = "busy"
      BY <2>1, <2>3, <1>1 DEF IInv, NodesInside, NodesOver, Active
    <3>2. row[id[p]].of = p /\ row[id[p]].fin = 0
      BY <3>1, <2>2, OwnsIt DEF Active
    <3>3. id[p] # j
      BY <3>1, <3>2, <2>3
    <3> QED BY <3>2, <3>3, <2>1, <2>2, <2>3, <1>2, NowTypes DEF i, IInv
  <2>4. CASE c # r
    <3>1. j # i /\ row'[j] = row[j] /\ thread[c] = "over"
      BY <2>1, <2>2, <2>4, <1>2, <1>3, <1>4
    <3>2. row[id[p]].of = p /\ (row[id[p]].fin = 0 \/ (row[j].fin # 0 /\ row[j].fin <= row[id[p]].fin))
      BY <2>1, <2>2, <3>1 DEF IInv, Stamps
    <3>3. row[j].fin <= now
      BY RowTypes DEF IInv
    <3>4. Exists(id[p])
      BY <3>2, <2>2, Ranges DEF Exists
    <3>5. id[p] = i => row[j].fin # 0
      <4>1. id[p] = i => p = r
        <5>1. p \notin touched'
          BY <2>1
        <5> QED BY <5>1, <3>2, <3>4, <2>2, <1>4
      <4>2. p = r => ~Stale(j)
        BY <2>1, <2>2, <3>1, <1>1 DEF IInv, Settled
      <4> QED BY <4>1, <4>2, <3>1, <2>1 DEF Stale
    <3> QED BY <3>1, <3>2, <3>3, <3>4, <3>5, <2>1, <2>2, <1>2
  <2> QED BY <2>3, <2>4
<1> QED BY <1>5, <1>6, <1>8, <1>9, <1>11, <1>12 DEF IInv

(* A thread that raises, and one that logs, leave every row as it is.      *)
LEMMA FailKeeps ==
  ASSUME IInv, NEW r \in Runs, Fail(r)
  PROVE  IInv'
<1>1. /\ thread[r] = "busy" /\ NodesOver(r) /\ UNCHANGED <<row, logs, id, boss, touched, cleaned, now>>
  BY DEF Fail
<1>2. /\ thread' \in [Runs -> {"none", "queued", "busy", "over", "raised"}]
      /\ thread'[r] = "raised" /\ \A s \in Runs \ {r} : thread'[s] = thread[s]
  BY DEF Fail, Goto, IInv, TypeOK
<1>3. TypeOK'
  BY <1>1, <1>2 DEF IInv, TypeOK
<1>4. Owners' /\ Created' /\ Below' /\ NoAdoption' /\ OwnLogs'
  BY <1>1, <1>2, <1>3, FrameKeeps, LogsKeep DEF Exists
<1>5. \A s \in Runs : Active(s)' => Active(s) /\ s # r
  BY <1>2 DEF Active
<1>6. OwnOpen'
  BY <1>1, <1>5 DEF IInv, OwnOpen
<1>7. NodesInside'
  <2>1. ASSUME NEW c \in Runs, boss[c] # 0, Active(c)'
        PROVE  thread'[boss[c]] = "busy"
    <3>1. thread[boss[c]] = "busy" /\ boss[c] \in Runs /\ boss[c] # r
      BY <2>1, <1>1, <1>5, BossTypes DEF IInv, NodesInside, NodesOver
    <3> QED BY <3>1, <1>2
  <2> QED BY <2>1, <1>1 DEF NodesInside
<1>8. \A j \in Ids : Exists(j) => row[j].of \in Runs
  BY RowTypes DEF IInv
<1>9. \A s \in Runs : thread'[s] = "over" => thread[s] = "over"
  BY <1>2
<1>10. Stamps'
  BY <1>1, <1>8, <1>9 DEF IInv, Stamps, Exists
<1>11. Settled'
  <2>1. \A c \in Runs : boss[c] # 0 /\ thread'[boss[c]] \in {"queued", "busy"}
                         => thread[boss[c]] \in {"queued", "busy"}
    <3>1. \A c \in Runs : boss[c] # 0 => boss[c] \in Runs
      BY BossTypes
    <3> QED BY <3>1, <1>2
  <2> QED BY <2>1, <1>1, <1>8, <1>9 DEF IInv, Settled, Exists, Stale
<1> QED BY <1>3, <1>4, <1>6, <1>7, <1>10, <1>11 DEF IInv

LEMMA LogKeeps ==
  ASSUME IInv, NEW r \in Runs, Log(r)
  PROVE  IInv'
<1>1. /\ thread[r] = "busy" /\ UNCHANGED <<row, id, boss, thread, touched, cleaned, now>> /\ id[r] \in Ids
      /\ logs' = [logs EXCEPT ![id[r]] = @ \cup {r}]
  BY ActiveHasId DEF Log, IInv
<1>2. TypeOK'
  BY <1>1 DEF IInv, TypeOK
<1>3. r \notin touched => row[id[r]].of = r
  BY <1>1 DEF IInv, OwnOpen, Active
<1>4. OwnLogs'
  BY <1>1, <1>3 DEF IInv, OwnLogs, TypeOK
<1> QED BY <1>1, <1>2, <1>4 DEF IInv, Owners, Created, OwnOpen, Below, NoAdoption, NodesInside,
                                Settled, Stamps, Stale, Exists, Active

-----------------------------------------------------------------------------
(* Others that write rows *)

LEMMA CancelKeeps ==
  ASSUME IInv, NEW i \in Ids, Cancel(i)
  PROVE  IInv'
<1> DEFINE f == IF row[i].fin = 0 THEN now ELSE row[i].fin
<1>1. /\ cleaned /\ Exists(i) /\ row[i].open /\ row[i].of \in Runs
      /\ UNCHANGED <<logs, id, boss, thread, cleaned, now>>
      /\ row' = [row EXCEPT ![i].open = FALSE, ![i].fin = f]
  BY RowTypes DEF Cancel, IInv, TypeOK
<1>2. f \in 0..MaxTime /\ f <= now /\ f # 0
  BY NowTypes, RowTypes DEF IInv
<1>3. /\ row' \in [Ids -> Rows] /\ \A j \in Ids : row'[j].fin <= now'
      /\ \A j \in Ids : row'[j].of = row[j].of /\ row'[j].parent = row[j].parent
      /\ \A j \in Ids \ {i} : row'[j] = row[j]
      /\ row'[i].open = FALSE /\ row'[i].fin = f
  <2>1. TypeOK
    BY DEF IInv
  <2> HIDE DEF f
  <2> QED BY <2>1, <1>1, <1>2, WriteTypes
<1>4. /\ touched \subseteq touched' /\ touched' \subseteq Runs
      /\ Active(row[i].of) => row[i].of \in touched'
  BY <1>1 DEF Cancel, IInv, TypeOK
<1>5. row[i].fin # 0 => row'[i].fin = row[i].fin
  BY <1>3
<1>6. row[i].fin = 0 => row'[i].fin = now
  BY <1>3
<1> HIDE DEF f
<1>7. TypeOK'
  BY <1>1, <1>3, <1>4 DEF IInv, TypeOK
<1>8. Owners' /\ Created' /\ Below' /\ NoAdoption' /\ OwnLogs'
  BY <1>1, <1>3, <1>4, <1>7, FrameKeeps, LogsKeep DEF Exists
<1>9. OwnOpen'
  <2>1. ASSUME NEW s \in Runs \ touched', Active(s)
        PROVE  row'[id[s]].of = s /\ row'[id[s]].fin = 0
    <3>1. id[s] \in Ids /\ row[id[s]].of = s /\ row[id[s]].fin = 0
      BY <2>1, <1>4, OwnsIt
    <3>2. id[s] # i
      BY <2>1, <3>1, <1>4
    <3> QED BY <3>1, <3>2, <1>3
  <2> QED BY <2>1, <1>1 DEF OwnOpen, Active
<1>10. NodesInside'
  BY <1>1 DEF IInv, NodesInside, Active
<1>11. \A j \in Ids : Exists(j)' => Exists(j) /\ row[j].of \in Runs
  BY <1>3, RowTypes DEF Exists, IInv
(* Since the clean-up a run that is over is stamped, or closed.            *)
<1>12. \A j \in Ids : Exists(j) /\ row[j].of \notin touched /\ thread[row[j].of] = "over"
                       => row[j].fin # 0 \/ ~row[j].open
  BY <1>1 DEF IInv, Settled, Stale
<1>14. Settled'
  BY <1>1, <1>3, <1>4, <1>11, <1>12 DEF Settled, Stale
<1>13. Stamps'
  <2> SUFFICES ASSUME NEW j \in Ids, Exists(j)', boss[row'[j].of] # 0,
                      {row'[j].of, boss[row'[j].of]} \cap touched' = {},
                      thread[row'[j].of] = "over", row'[j].fin # 0 \/ row'[j].open
               PROVE  LET p == boss[row'[j].of] IN
                      /\ row'[id[p]].of = p
                      /\ \/ row'[id[p]].fin = 0
                         \/ row'[j].fin # 0 /\ row'[j].fin <= row'[id[p]].fin
    BY <1>1 DEF Stamps
  <2> DEFINE c == row[j].of
             p == boss[c]
  <2>1. Exists(j) /\ row'[j].of = c /\ c \in Runs /\ id[p] \in Ids /\ c \notin touched /\ p \notin touched
    BY <1>3, <1>4, <1>11, BossTypes
  <2>2. row'[j].fin = row[j].fin /\ row[j].fin # 0
    <3>1. CASE j = i
      BY <3>1, <2>1, <1>1, <1>5, <1>12
    <3> QED BY <3>1, <2>1, <1>3, <1>12
  <2>3. row[id[p]].of = p /\ (row[id[p]].fin = 0 \/ (row[j].fin # 0 /\ row[j].fin <= row[id[p]].fin))
    BY <2>1, <2>2 DEF IInv, Stamps
  <2>4. row[j].fin <= now
    BY RowTypes DEF IInv
  <2>5. \/ row'[id[p]].fin = row[id[p]].fin
        \/ row[id[p]].fin = 0 /\ row'[id[p]].fin = now
    BY <2>1, <1>3, <1>5, <1>6
  <2> QED BY <2>1, <2>2, <2>3, <2>4, <2>5, <1>3
<1> QED BY <1>7, <1>8, <1>9, <1>10, <1>13, <1>14 DEF IInv

LEMMA CliCancelKeeps ==
  ASSUME IInv, NEW i \in Ids, CliCancel(i)
  PROVE  IInv'
<1>1. /\ UNCHANGED <<logs, id, boss, thread, touched, cleaned, now>>
      /\ row' = [row EXCEPT ![i].open = FALSE]
  BY DEF CliCancel
<1>2. /\ row' \in [Ids -> Rows]
      /\ \A j \in Ids : /\ row'[j].fin = row[j].fin /\ row'[j].of = row[j].of
                        /\ row'[j].parent = row[j].parent
      /\ \A j \in Ids \ {i} : row'[j] = row[j]
      /\ row'[i].open = FALSE
  BY <1>1, OpenTypes DEF IInv
<1>3. TypeOK'
  BY <1>1, <1>2 DEF IInv, TypeOK
<1>4. Owners' /\ Created' /\ Below' /\ NoAdoption' /\ OwnLogs'
  BY <1>1, <1>2, <1>3, FrameKeeps, LogsKeep DEF Exists
<1>5. OwnOpen'
  BY <1>1, <1>2, OwnsIt DEF OwnOpen, Active
<1>6. NodesInside'
  BY <1>1 DEF IInv, NodesInside, Active
<1>7. Settled'
  <2>1. \A j \in Ids : Stale(j)' => Stale(j)
    BY <1>2 DEF Stale, Exists
  <2> QED BY <2>1, <1>1, <1>2 DEF IInv, Settled, Exists, Active
<1>8. Stamps'
  <2>1. \A j \in Ids : Exists(j) => row[j].of \in Runs
    BY RowTypes DEF IInv
  <2>2. \A c \in Runs : boss[c] # 0 => id[boss[c]] \in Ids
    BY BossTypes
  <2> QED BY <1>1, <1>2, <2>1, <2>2 DEF IInv, Stamps, Exists
<1> QED BY <1>3, <1>4, <1>5, <1>6, <1>7, <1>8 DEF IInv

(* The server's threads die together, those of a workflow with its nodes.  *)
LEMMA RestartKeeps ==
  ASSUME IInv, Restart
  PROVE  IInv'
<1>1. UNCHANGED <<row, logs, id, boss, touched, now>> /\ cleaned' = FALSE
  BY DEF Restart
<1>2. /\ thread' \in [Runs -> {"none", "queued", "busy", "over", "raised"}]
      /\ \A s \in Runs : Active(s) /\ s \notin CliRuns => thread'[s] = "over"
      /\ \A s \in Runs : ~(Active(s) /\ s \notin CliRuns) => thread'[s] = thread[s]
  BY DEF Restart, IInv, TypeOK
<1>3. TypeOK'
  BY <1>1, <1>2 DEF IInv, TypeOK
<1>4. \A s \in Runs : thread'[s] = "none" <=> thread[s] = "none"
  BY <1>2 DEF Active
<1>5. Owners' /\ Created' /\ Below' /\ NoAdoption' /\ OwnLogs'
  BY <1>1, <1>3, <1>4, FrameKeeps, LogsKeep DEF Exists
<1>6. \A s \in Runs : Active(s)' <=> Active(s) /\ s \in CliRuns
  BY <1>2 DEF Active
<1>7. OwnOpen'
  BY <1>1, <1>6 DEF IInv, OwnOpen
<1>8. NodesInside'
  <2>1. ASSUME NEW c \in Runs, boss[c] # 0, Active(c)'
        PROVE  thread'[boss[c]] = "busy"
    <3>1. thread[boss[c]] = "busy" /\ boss[c] \in Runs /\ boss[c] \in CliRuns
      BY <2>1, <1>6, BossTypes DEF IInv, NodesInside
    <3> QED BY <3>1, <1>2
  <2> QED BY <2>1, <1>1 DEF NodesInside
<1>9. \A j \in Ids : Exists(j) => row[j].of \in Runs /\ id[row[j].of] = j
  BY RowTypes DEF IInv, Owners
<1>10. Settled'
  <2> SUFFICES ASSUME NEW j \in Ids, Exists(j), row[j].of \notin touched, thread'[row[j].of] = "over",
                      Stale(j), boss[row[j].of] # 0
               PROVE  thread'[boss[row[j].of]] \notin {"queued", "busy"}
    BY <1>1 DEF Settled, Stale, Exists
  <2> DEFINE c == row[j].of
             p == boss[c]
  <2>1. c \in Runs /\ p \in Runs /\ (p \in CliRuns <=> c \in CliRuns)
    BY <1>9, BossTypes
  <2>2. CASE thread[c] = "over"
    <3>1. thread[p] \notin {"queued", "busy"}
      BY <2>2 DEF IInv, Settled
    <3> QED BY <3>1, <2>1, <1>2 DEF Active
  <2>3. CASE thread[c] # "over"
    <3>1. Active(c) /\ c \notin CliRuns
      BY <2>1, <2>3, <1>2
    <3>2. Active(p) /\ p \notin CliRuns
      BY <3>1, <2>1 DEF IInv, NodesInside, Active
    <3> QED BY <3>2, <2>1, <1>2
  <2> QED BY <2>2, <2>3
<1>11. Stamps'
  <2> SUFFICES ASSUME NEW j \in Ids, Exists(j), boss[row[j].of] # 0,
                      {row[j].of, boss[row[j].of]} \cap touched = {},
                      thread'[row[j].of] = "over", row[j].fin # 0 \/ row[j].open
               PROVE  LET p == boss[row[j].of] IN
                      /\ row[id[p]].of = p
                      /\ \/ row[id[p]].fin = 0
                         \/ row[j].fin # 0 /\ row[j].fin <= row[id[p]].fin
    BY <1>1 DEF Stamps, Exists
  <2> DEFINE c == row[j].of
             p == boss[c]
  <2>1. c \in Runs /\ p \in Runs
    BY <1>9, BossTypes
  <2>2. CASE thread[c] = "over"
    BY <2>2 DEF IInv, Stamps
  <2>3. CASE thread[c] # "over"
    <3>1. Active(c)
      BY <2>1, <2>3, <1>2
    <3>2. Active(p)
      BY <3>1, <2>1 DEF IInv, NodesInside, Active
    <3> QED BY <3>2, <2>1, OwnsIt
  <2> QED BY <2>2, <2>3
<1> QED BY <1>3, <1>5, <1>7, <1>8, <1>10, <1>11 DEF IInv

(* One stamp for all that are left open, and for their workflows.          *)
LEMMA CleanUpKeeps ==
  ASSUME IInv, CleanUp
  PROVE  IInv'
<1>1. UNCHANGED <<logs, id, boss, thread, now>> /\ ~cleaned /\ cleaned' = TRUE
  BY DEF CleanUp
<1>2. /\ row' \in [Ids -> Rows] /\ \A j \in Ids : row'[j].fin <= now
      /\ \A j \in Ids : row'[j].of = row[j].of /\ row'[j].parent = row[j].parent
      /\ \A j \in Ids : Stale(j) => row'[j].fin = now
      /\ \A j \in Ids : ~Stale(j) => row'[j] = row[j]
  <2>2. now \in 0..MaxTime /\ now <= now /\ \A j \in Ids : row[j] \in Rows /\ row[j].fin <= now
    BY NowTypes DEF IInv, TypeOK
  <2>3. \A j \in Ids : row'[j] = IF Stale(j) THEN [row[j] EXCEPT !.open = FALSE, !.fin = now] ELSE row[j]
    BY DEF CleanUp
  <2>4. ASSUME NEW j \in Ids
        PROVE  /\ row'[j] \in Rows /\ row'[j].of = row[j].of /\ row'[j].parent = row[j].parent
               /\ row'[j].fin <= now
               /\ Stale(j) => row'[j].fin = now
               /\ ~Stale(j) => row'[j] = row[j]
    <3>1. CASE Stale(j)
      <4>1. row'[j] = [row[j] EXCEPT !.open = FALSE, !.fin = now]
        BY <2>3, <3>1
      <4>2. /\ row'[j] \in Rows /\ row'[j].of = row[j].of /\ row'[j].parent = row[j].parent
            /\ row'[j].fin = now
        BY <4>1, <2>2 DEF Rows
      <4> QED BY <4>2, <3>1, <2>2
    <3>2. CASE ~Stale(j)
      BY <3>2, <2>2, <2>3
    <3> QED BY <3>1, <3>2
  <2>5. row' = [j \in Ids |-> row'[j]]
    BY DEF CleanUp
  <2>6. row' \in [Ids -> Rows]
    BY <2>4, <2>5
  <2> QED BY <2>4, <2>6
<1>3. touched \subseteq touched' /\ touched' \subseteq Runs
      /\ \A s \in Runs, j \in Ids : Active(s) /\ Stale(j) /\ row[j].of = s => s \in touched'
  BY DEF CleanUp, IInv, TypeOK
<1>4. TypeOK'
  BY <1>1, <1>2, <1>3 DEF IInv, TypeOK
<1>5. Owners' /\ Created' /\ Below' /\ NoAdoption' /\ OwnLogs'
  BY <1>1, <1>2, <1>3, <1>4, FrameKeeps, LogsKeep DEF Exists
<1>6. OwnOpen'
  <2>1. ASSUME NEW s \in Runs \ touched', Active(s)
        PROVE  row'[id[s]].of = s /\ row'[id[s]].fin = 0
    <3>1. id[s] \in Ids /\ row[id[s]].of = s /\ row[id[s]].fin = 0
      BY <2>1, <1>3, OwnsIt
    <3>2. ~Stale(id[s])
      BY <2>1, <3>1, <1>3
    <3> QED BY <3>1, <3>2, <1>2
  <2> QED BY <2>1, <1>1 DEF OwnOpen, Active
<1>7. NodesInside'
  BY <1>1 DEF IInv, NodesInside, Active
<1>8. \A j \in Ids : Exists(j)' => Exists(j) /\ row[j].of \in Runs
  BY <1>2, RowTypes DEF Exists, IInv
<1>9. Settled'
  <2>1. \A j \in Ids : ~Stale(j)'
    BY <1>2, NowTypes DEF Stale, Exists, IInv
  <2> QED BY <2>1 DEF Settled
<1>10. Stamps'
  <2> SUFFICES ASSUME NEW j \in Ids, Exists(j)', boss[row'[j].of] # 0,
                      {row'[j].of, boss[row'[j].of]} \cap touched' = {},
                      thread[row'[j].of] = "over", row'[j].fin # 0 \/ row'[j].open
               PROVE  LET p == boss[row'[j].of] IN
                      /\ row'[id[p]].of = p
                      /\ \/ row'[id[p]].fin = 0
                         \/ row'[j].fin # 0 /\ row'[j].fin <= row'[id[p]].fin
    BY <1>1 DEF Stamps
  <2> DEFINE c == row[j].of
             p == boss[c]
  <2>1. Exists(j) /\ row'[j].of = c /\ c \in Runs /\ id[p] \in Ids
        /\ c \notin touched /\ p \notin touched
    BY <1>2, <1>3, <1>8, BossTypes
  <2>2. row[j].fin # 0 \/ row[j].open
    BY <2>1, <1>2 DEF Stale
  <2>3. row[id[p]].of = p /\ (row[id[p]].fin = 0 \/ (row[j].fin # 0 /\ row[j].fin <= row[id[p]].fin))
    BY <2>1, <2>2 DEF IInv, Stamps
  <2>4. row[j].fin <= now /\ now # 0 /\ now <= now
    BY RowTypes, NowTypes DEF IInv
  <2>5. row'[j].fin # 0 /\ (row'[j].fin = row[j].fin \/ (row[j].fin = 0 /\ row'[j].fin = now))
    BY <2>1, <2>2, <2>4, <1>2 DEF Stale
  <2>6. row'[id[p]].fin = row[id[p]].fin \/ (row[id[p]].fin = 0 /\ row'[id[p]].fin = now)
    BY <2>1, <1>2 DEF Stale
  <2> QED BY <2>1, <2>3, <2>4, <2>5, <2>6, <1>2
<1> QED BY <1>4, <1>5, <1>6, <1>7, <1>9, <1>10 DEF IInv

(* A row that outlives the sweep is stamped at the cutoff or later, and so *)
(* is that of its workflow.                                                *)
LEMMA SweepKeeps ==
  ASSUME IInv, Sweep
  PROVE  IInv'
<1>1. PICK cutoff \in 1..now :
        /\ row'  = [i \in Ids |-> IF Expired(i, cutoff) THEN NoRow ELSE row[i]]
        /\ logs' = [i \in Ids |-> IF Expired(i, cutoff) THEN {} ELSE logs[i]]
  BY DEF Sweep
<1>2. UNCHANGED <<id, boss, thread, touched, cleaned, now>>
  BY DEF Sweep
<1>3. /\ \A j \in Ids : Expired(j, cutoff) => row'[j] = NoRow /\ logs'[j] = {}
      /\ \A j \in Ids : ~Expired(j, cutoff) => row'[j] = row[j] /\ logs'[j] = logs[j]
  BY <1>1
<1>4. NoRow \in Rows /\ NoRow.of = 0 /\ NoRow.fin = 0
  BY Ranges DEF NoRow, Rows
<1>5. TypeOK'
  <2>1. \A j \in Ids : row'[j] \in Rows /\ row'[j].fin <= now /\ logs'[j] \subseteq Runs
    BY <1>3, <1>4, NowTypes DEF IInv, TypeOK
  <2> QED BY <2>1, <1>1, <1>2 DEF IInv, TypeOK
<1>6. \A j \in Ids : Exists(j)' => Exists(j) /\ ~Expired(j, cutoff) /\ row'[j] = row[j]
                                  /\ row[j].of \in Runs
  BY <1>3, <1>4, RowTypes DEF Exists, IInv
<1>7. Owners' /\ Created' /\ Below' /\ NoAdoption' /\ OwnLogs'
  BY <1>2, <1>3, <1>5, <1>6, FrameKeeps, LogsKeep
<1>8. OwnOpen'
  <2>1. ASSUME NEW s \in Runs \ touched, Active(s)
        PROVE  row'[id[s]].of = s /\ row'[id[s]].fin = 0
    <3>1. id[s] \in Ids /\ row[id[s]].of = s /\ row[id[s]].fin = 0
      BY <2>1, OwnsIt
    <3> QED BY <3>1, <1>3 DEF Expired
  <2> QED BY <2>1, <1>2 DEF OwnOpen, Active
<1>9. NodesInside'
  BY <1>2 DEF IInv, NodesInside, Active
<1>10. Settled'
  BY <1>2, <1>6 DEF IInv, Settled, Stale, Exists, Active
<1>11. Stamps'
  <2> SUFFICES ASSUME NEW j \in Ids, Exists(j)', boss[row'[j].of] # 0,
                      {row'[j].of, boss[row'[j].of]} \cap touched = {},
                      thread[row'[j].of] = "over", row'[j].fin # 0 \/ row'[j].open
               PROVE  LET p == boss[row'[j].of] IN
                      /\ row'[id[p]].of = p
                      /\ \/ row'[id[p]].fin = 0
                         \/ row'[j].fin # 0 /\ row'[j].fin <= row'[id[p]].fin
    BY <1>2 DEF Stamps
  <2> DEFINE p == boss[row[j].of]
  <2>1. Exists(j) /\ row'[j] = row[j] /\ id[p] \in Ids /\ ~Expired(j, cutoff)
    BY <1>6, BossTypes
  <2>2. row[id[p]].of = p /\ (row[id[p]].fin = 0 \/ (row[j].fin # 0 /\ row[j].fin <= row[id[p]].fin))
    BY <2>1 DEF IInv, Stamps
  <2>3. row[j].fin \in Nat /\ row[id[p]].fin \in Nat /\ cutoff \in Nat
    BY <2>1, RowTypes, NowTypes DEF IInv
  <2>4. ~Expired(id[p], cutoff)
    BY <2>1, <2>2, <2>3 DEF Expired
  <2> QED BY <2>1, <2>2, <2>4, <1>3
<1> QED BY <1>5, <1>7, <1>8, <1>9, <1>10, <1>11 DEF IInv

LEMMA TickKeeps ==
  ASSUME IInv, Tick
  PROVE  IInv'
<1>1. UNCHANGED <<row, logs, id, boss, thread, touched, cleaned>>
  BY DEF Tick
<1>2. TypeOK'
  <2>1. now' \in Times /\ now <= now' /\ now \in Nat /\ now' \in Nat
    BY NowTypes, TimeAssumption DEF Tick, IInv, Times
  <2>2. \A j \in Ids : row[j].fin \in Nat /\ row[j].fin <= now
    BY RowTypes, NowTypes DEF IInv
  <2> QED BY <2>1, <2>2, <1>1 DEF IInv, TypeOK
<1> QED BY <1>1, <1>2 DEF IInv, Owners, Created, OwnOpen, OwnLogs, Below, NoAdoption, NodesInside,
                          Settled, Stamps, Stale, Exists, Active

-----------------------------------------------------------------------------
(* The theorems *)

LEMMA InitKept ==
  ASSUME Init
  PROVE  IInv
<1>1. \A i \in Ids : row[i].of = 0 /\ row[i].fin = 0 /\ logs[i] = {} /\ row[i] \in Rows
  BY Ranges DEF Init, NoRow, Rows
<1>2. \A r \in Runs : thread[r] = "none" /\ boss[r] = 0
  BY DEF Init
<1>3. 0 <= now /\ now \in Times
  BY TimeAssumption DEF Init, Times
<1>4. TypeOK
  BY <1>1, <1>3, Ranges DEF Init, TypeOK
<1> QED BY <1>1, <1>2, <1>4 DEF IInv, Owners, Created, OwnOpen, OwnLogs, Below, NoAdoption,
                                NodesInside, Settled, Stamps, Stale, Exists, Active

LEMMA NextKept ==
  ASSUME IInv, [Next]_vars
  PROVE  IInv'
<1>1. CASE UNCHANGED vars
  BY <1>1 DEF vars, IInv, TypeOK, Owners, Created, OwnOpen, OwnLogs, Below, NoAdoption,
              NodesInside, Settled, Stamps, Stale, Exists, Active
<1>2. ASSUME NEW r \in Runs, Create(r) \/ CreateNode(r)
      PROVE  IInv'
  <2>1. CASE Create(r)
    BY <2>1, InsertKeeps, Ranges DEF Create
  <2>2. CASE CreateNode(r)
    <3>1. Flows \subseteq 0..MaxRuns
      BY RunsAssumption
    <3> QED BY <2>2, <3>1, InsertKeeps DEF CreateNode
  <2> QED BY <1>2, <2>1, <2>2
<1> QED BY <1>1, <1>2, StartKeeps, LogKeeps, EndKeeps, FailKeeps, CancelKeeps, CliCancelKeeps,
           RestartKeeps, CleanUpKeeps, SweepKeeps, TickKeeps DEF Next

LEMMA Meaning == IInv => OwnRow /\ FamilyKept
<1> SUFFICES ASSUME IInv PROVE OwnRow /\ FamilyKept
  OBVIOUS
<1>1. OwnRow
  BY DEF IInv, OwnOpen, OwnLogs, OwnRow
<1>2. FamilyKept
  <2> SUFFICES ASSUME NEW i \in Ids, Exists(i), boss[row[i].of] # 0,
                      {row[i].of, boss[row[i].of]} \cap touched = {},
                      thread[row[i].of] # "raised",
                      Active(row[i].of) \/ row[i].fin # 0
               PROVE  row[id[boss[row[i].of]]].of = boss[row[i].of]
    BY DEF FamilyKept
  <2>1. row[i].of \in Runs /\ thread[row[i].of] \in {"queued", "busy", "over"}
    BY RowTypes DEF IInv, Owners, TypeOK
  <2>2. CASE Active(row[i].of)
    BY <2>1, <2>2, BossTypes, OwnsIt DEF IInv, NodesInside, Active
  <2>3. CASE ~Active(row[i].of)
    BY <2>1, <2>3 DEF IInv, Stamps, Active
  <2> QED BY <2>2, <2>3
<1> QED BY <1>1, <1>2

(* Every state has its shape, and no stamp lies in the future.             *)
THEOREM TypeCorrect == Spec => []TypeOK
<1>1. Init => IInv
  BY InitKept
<1>2. IInv /\ [Next]_vars => IInv'
  BY NextKept
<1>3. IInv => TypeOK
  BY DEF IInv
<1> QED BY <1>1, <1>2, <1>3, PTL DEF Spec

(* A thread whose run nobody else has stamped writes into its own row and  *)
(* its own log, however often rows are deleted and their ids used again.   *)
THEOREM RowsOwned == Spec => []OwnRow
<1>1. Init => IInv
  BY InitKept
<1>2. IInv /\ [Next]_vars => IInv'
  BY NextKept
<1>3. IInv => OwnRow
  BY Meaning
<1> QED BY <1>1, <1>2, <1>3, PTL DEF Spec

(* No run of a node ever comes to name another run as its parent.          *)
THEOREM NeverAdopted == Spec => []NoAdoption
<1>1. Init => IInv
  BY InitKept
<1>2. IInv /\ [Next]_vars => IInv'
  BY NextKept
<1>3. IInv => NoAdoption
  BY DEF IInv
<1> QED BY <1>1, <1>2, <1>3, PTL DEF Spec

(* The sweep takes a workflow's run only when those of its nodes go, too.  *)
THEOREM FamiliesTogether == Spec => []FamilyKept
<1>1. Init => IInv
  BY InitKept
<1>2. IInv /\ [Next]_vars => IInv'
  BY NextKept
<1>3. IInv => FamilyKept
  BY Meaning
<1> QED BY <1>1, <1>2, <1>3, PTL DEF Spec
=============================================================================
