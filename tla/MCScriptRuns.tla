---------------------------- MODULE MCScriptRuns ----------------------------
(* Small instances of ScriptRuns for TLC. *)
EXTENDS ScriptRuns, TLC

CONSTANTS r1, r2, c1, c2

OneRun   == {r1}
TwoRuns  == {r1, r2}
NoReqs   == {}
TwoReqs  == {c1, c2}

ReqSymmetry == Permutations(CancelReqs)
=============================================================================
