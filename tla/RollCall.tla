------------------------------ MODULE RollCall ------------------------------
(***************************************************************************)
(* The roll call of Lab1_tutorial/Zad3/etap2.c: the teacher asks one child *)
(* after the other through a pipe of its own and reads the answer from the *)
(* pipe that all children share.                                           *)
(*                                                                         *)
(* Messages have 256 bytes, less than PIPE_BUF, so writes do not mix.  All *)
(* children are forked before the first question.  A read or write that    *)
(* fails kills the whole process group (ERR) and is left out.              *)
(***************************************************************************)
EXTENDS Naturals, Sequences

CONSTANTS StudentCount    \* n

ASSUME RollCallAssumption == StudentCount \in Nat \ {0}

VARIABLES questions,      \* questions[i]: student i's pipe holds the question
          answerPipe,     \* the shared pipe: who has answered, oldest first
          calledAt,       \* calledAt[i]: next step of student i
          teacherAt,      \* next step of the teacher
          asking,         \* the teacher's i
          heard           \* history: whose answers the teacher has read

rollVars == <<questions, answerPipe, calledAt, teacherAt, asking, heard>>

Called == 1 .. StudentCount

RollTypeOK == /\ questions \in [Called -> BOOLEAN]
              /\ answerPipe \in Seq(Called)
              /\ calledAt \in [Called -> {"read", "answer", "exited"}]
              /\ teacherAt \in {"ask", "listen", "closed"}
              /\ asking \in 1 .. StudentCount + 1
              /\ heard \in Seq(Called)

RollInit == /\ questions = [i \in Called |-> FALSE]
            /\ answerPipe = <<>>
            /\ calledAt = [i \in Called |-> "read"]
            /\ teacherAt = "ask"
            /\ asking = 1
            /\ heard = <<>>
-----------------------------------------------------------------------------
(* child_work *)

ReadQuestion(i) == /\ calledAt[i] = "read"
                   /\ questions[i]
                   /\ questions' = [questions EXCEPT ![i] = FALSE]
                   /\ calledAt' = [calledAt EXCEPT ![i] = "answer"]
                   /\ UNCHANGED <<answerPipe, teacherAt, asking, heard>>

AnswerHere(i) == /\ calledAt[i] = "answer"
                 /\ answerPipe' = Append(answerPipe, i)
                 /\ calledAt' = [calledAt EXCEPT ![i] = "exited"]
                 /\ UNCHANGED <<questions, teacherAt, asking, heard>>
-----------------------------------------------------------------------------
(* parent_work *)

(* Mutant: the teacher asks the whole class at once. *)
AskClass == /\ teacherAt = "ask"
            /\ asking <= StudentCount
            /\ questions' = [i \in Called |-> TRUE]
            /\ teacherAt' = "listen"
            /\ UNCHANGED <<answerPipe, calledAt, asking, heard>>

Ask == /\ teacherAt = "ask"
       /\ asking <= StudentCount
       /\ questions' = [questions EXCEPT ![asking] = TRUE]
       /\ teacherAt' = "listen"
       /\ UNCHANGED <<answerPipe, calledAt, asking, heard>>

Listen == /\ teacherAt = "listen"
          /\ answerPipe # <<>>
          /\ heard' = Append(heard, Head(answerPipe))
          /\ answerPipe' = Tail(answerPipe)
          /\ asking' = asking + 1
          /\ teacherAt' = "ask"
          /\ UNCHANGED <<questions, calledAt>>

CloseRoll == /\ teacherAt = "ask"
             /\ asking > StudentCount
             /\ teacherAt' = "closed"
             /\ UNCHANGED <<questions, answerPipe, calledAt, asking, heard>>

Answer(i) == ReadQuestion(i) \/ AnswerHere(i)
Teach == Ask \/ Listen \/ CloseRoll

RollNext == Teach \/ \E i \in Called : Answer(i)

RollSpec == RollInit /\ [][RollNext]_rollVars
-----------------------------------------------------------------------------
(* The answer the teacher reads after asking student i is i's own,         *)
(* although all answers come through one pipe (etap2.c:49-62).             *)
AnswersInTurn == \A k \in DOMAIN heard : heard[k] = k
=============================================================================
