------------------------------ MODULE OneSlot ------------------------------
(***************************************************************************)
(* What Lab3_tutorial/Zad3/kod.c is for: a channel with room for one       *)
(* message.  Every message is received once, in the order of sending, and  *)
(* the next one is sent after that.                                        *)
(***************************************************************************)
EXTENDS Sequences

CONSTANTS Messages

VARIABLES sent, received

slotVars == <<sent, received>>

Init == sent = <<>> /\ received = <<>>

Send == /\ received = sent
        /\ \E m \in Messages : sent' = Append(sent, m)
        /\ UNCHANGED received

Receive == /\ received # sent
           /\ received' = sent
           /\ UNCHANGED sent

Next == Send \/ Receive

Spec == Init /\ [][Next]_slotVars
=============================================================================
