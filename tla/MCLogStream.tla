---------------------------- MODULE MCLogStream ----------------------------
(* Small instances of LogStream for TLC. *)
EXTENDS LogStream

CONSTANTS c1

OnePipe   == {"stdout"}
TwoLines  == [s \in Streams |-> 2]
OneClient == {c1}
FirstLine == {<<"stdout", 1>>}
=============================================================================
