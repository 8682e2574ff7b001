----------------------------- MODULE MCCatalogue -----------------------------
(* Small instances of Catalogue for TLC. *)
EXTENDS Catalogue, TLC

CONSTANT q1

OneRequest  == {q1}

(* Two groups, of which one may be the other's parent, and two scripts.    *)
SmallRoom == [t \in Tables |-> IF t \in {"groups", "scripts"} THEN 2 ELSE 1]
=============================================================================
