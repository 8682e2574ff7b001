---------------------------- MODULE MCLogBuffer ----------------------------
(* A small instance of LogBuffer for TLC. *)
EXTENDS LogBuffer

TwoPipes  == {"stdout", "stderr"}
TwoAndOne == [s \in Streams |-> IF s = "stdout" THEN 2 ELSE 1]
=============================================================================
