----------------------------- MODULE MCAlwaysOn -----------------------------
(* Small instances of AlwaysOn for TLC. *)
EXTENDS AlwaysOn, TLC
=============================================================================
