---------------------------- MODULE MCBoardGame ----------------------------
(* A small instance of BoardGame for TLC: two fields worth 3 and 5 points. *)
EXTENDS BoardGame

CONSTANTS f1, f2

MCInitialPoints == [f \in Fields |-> IF f = f1 THEN 3 ELSE 5]
=============================================================================
