---------------------------- MODULE MCCeleryMode ----------------------------
(* Small instances of CeleryMode for TLC. *)
EXTENDS CeleryMode, TLC
=============================================================================
