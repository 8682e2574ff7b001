----------------------------- MODULE MCRetention -----------------------------
(* Small instances of Retention for TLC. *)
EXTENDS Retention, TLC

OnlyFirst  == {1}
OnlySecond == {2}
=============================================================================
