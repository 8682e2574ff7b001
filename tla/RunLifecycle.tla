---------------------------- MODULE RunLifecycle ----------------------------
(***************************************************************************)
(* The life of a run as docs/architecture.md states it: a run is queued,   *)
(* then running, and ends in one of four statuses, which it keeps; it is   *)
(* stamped as finished exactly when it has ended.                          *)
(***************************************************************************)
CONSTANT Runs

VARIABLES status, finished

vars == <<status, finished>>

Outcome == {"success", "failed", "cancelled", "timed_out"}

Init == /\ status = [r \in Runs |-> "absent"]
        /\ finished = [r \in Runs |-> FALSE]

Create(r) == /\ status[r] = "absent"
             /\ status' = [status EXCEPT ![r] = "queued"]
             /\ UNCHANGED finished

Start(r) == /\ status[r] = "queued"
            /\ status' = [status EXCEPT ![r] = "running"]
            /\ UNCHANGED finished

(* A queued run may end without running: cancelled, or lost in a crash. *)
Ends(r) == status[r] \in {"queued", "running"} /\ status'[r] \in Outcome /\ finished'[r]

Keeps(r) == status'[r] = status[r] /\ finished'[r] = finished[r]

(* A crash ends several runs at once. *)
End == /\ status' \in [Runs -> {"absent", "queued", "running"} \cup Outcome]
       /\ finished' \in [Runs -> BOOLEAN]
       /\ \A r \in Runs : Ends(r) \/ Keeps(r)

Next == End \/ \E r \in Runs : Create(r) \/ Start(r)

Spec == Init /\ [][Next]_vars
=============================================================================
