--------------------------- MODULE MCMqCalculator ---------------------------
(* A small instance of MqCalculator for TLC. *)
EXTENDS MqCalculator

(* All clients share the division queue. *)
MCServerQueue == [c \in Clients |-> "div"]

(* Different quotients, and a division by zero. *)
MCInputs == {<<4, 2>>, <<3, 1>>, <<1, 0>>}
=============================================================================
