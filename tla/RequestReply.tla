---------------------------- MODULE RequestReply ----------------------------
(***************************************************************************)
(* What the calculator of Lab2_tutorial/Zad1/Etap3 promises a client: a    *)
(* question is answered at most once, with a right answer to this very     *)
(* question, and the next question comes after the answer.  A client may   *)
(* stop at any time, then it neither asks nor gets an answer any more.     *)
(***************************************************************************)
EXTENDS Sequences

CONSTANTS Clients,
          Questions,
          AnswersTo       \* AnswersTo[c][q]: the right answers to q, none if q has none

VARIABLES question,       \* question[c]: <<q>> while c waits, else empty
          reply,          \* reply[c]: <<r>> when r is ready for c, else empty
          over            \* over[c]: c has stopped

callVars == <<question, reply, over>>

CallInit == /\ question = [c \in Clients |-> <<>>]
            /\ reply = [c \in Clients |-> <<>>]
            /\ over = [c \in Clients |-> FALSE]

Ask(c) == /\ ~over[c]
          /\ question[c] = <<>>
          /\ \E q \in Questions : question' = [question EXCEPT ![c] = <<q>>]
          /\ UNCHANGED <<reply, over>>

Answer(c) == /\ question[c] # <<>>
             /\ reply[c] = <<>>
             /\ \E r \in AnswersTo[c][Head(question[c])] : reply' = [reply EXCEPT ![c] = <<r>>]
             /\ UNCHANGED <<question, over>>

Take(c) == /\ reply[c] # <<>>
           /\ question' = [question EXCEPT ![c] = <<>>]
           /\ reply' = [reply EXCEPT ![c] = <<>>]
           /\ UNCHANGED over

Stop(c) == /\ ~over[c]
           /\ over' = [over EXCEPT ![c] = TRUE]
           /\ question' = [question EXCEPT ![c] = <<>>]
           /\ reply' = [reply EXCEPT ![c] = <<>>]

CallNext == \E c \in Clients : Ask(c) \/ Answer(c) \/ Take(c) \/ Stop(c)

CallSpec == CallInit /\ [][CallNext]_callVars
=============================================================================
