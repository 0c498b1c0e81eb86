---------------------------- MODULE MCLabPrograms ----------------------------
(* Small instances of the lab programs. *)
EXTENDS LabPrograms, TLC

CONSTANTS t2, t3          \* the threads that test divisibility by 2 and by 3

MCM == t2 :> 2 @@ t3 :> 3

(* Five characters, an odd number, for two children. *)
MCText == <<"a", "b", "a", "a", "b">>

CONSTANTS x, y, q1, q2, q3

(* One letter in one file, two in the other. *)
MCLowerIn == x :> 1 @@ y :> 2

(* One of the three writers sends an empty file. *)
MCPackets == q1 :> 2 @@ q2 :> 1 @@ q3 :> 0
=============================================================================
