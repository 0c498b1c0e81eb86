----------------------------- MODULE TaskQueue -----------------------------
(***************************************************************************)
(* What the task queue of the letter firm promises to the threads that     *)
(* share it: a bounded first-in first-out queue of items.  A consumer that *)
(* asks for an item gets the oldest one exactly once; it is sent away      *)
(* without an item only when the queue is empty and has been closed.       *)
(* circular_buffer.h states the operations; CircularBuffer.tla is the      *)
(* detailed specification that implements this one.                        *)
(***************************************************************************)
EXTENDS Naturals, Sequences

CONSTANTS Consumers,    \* threads that take items out
          Items,        \* what the queue carries
          Capacity,     \* most items it may hold
          NULL,         \* the answer "nothing left, give up"
          NoAnswer      \* the consumer holds no answer

VARIABLES queue,        \* the items, oldest first
          answer,       \* answer[c]: what c's last request produced, until c leaves
          closed        \* consumers of an empty queue are to be sent away

qvars == <<queue, answer, closed>>

QueueInit == /\ queue = <<>>
             /\ answer = [c \in Consumers |-> NoAnswer]
             /\ closed = FALSE

(* A producer appends x; never beyond the capacity. *)
Put(x) == /\ Len(queue) < Capacity
          /\ queue' = Append(queue, x)
          /\ UNCHANGED <<answer, closed>>

(* Consumer c takes the oldest item. *)
Get(c) == /\ answer[c] = NoAnswer
          /\ queue # <<>>
          /\ queue' = Tail(queue)
          /\ answer' = [answer EXCEPT ![c] = Head(queue)]
          /\ UNCHANGED closed

(* Consumer c is sent away: nothing is left and the queue is closed. *)
GiveUp(c) == /\ answer[c] = NoAnswer
             /\ queue = <<>>
             /\ closed
             /\ answer' = [answer EXCEPT ![c] = NULL]
             /\ UNCHANGED <<queue, closed>>

(* Consumer c leaves with its answer. *)
Leave(c) == /\ answer[c] # NoAnswer
            /\ answer' = [answer EXCEPT ![c] = NoAnswer]
            /\ UNCHANGED <<queue, closed>>

Close == /\ closed' = TRUE
         /\ UNCHANGED <<queue, answer>>

QueueNext == \/ \E x \in Items : Put(x)
             \/ \E c \in Consumers : Get(c) \/ GiveUp(c) \/ Leave(c)
             \/ Close

QueueSpec == QueueInit /\ [][QueueNext]_qvars
=============================================================================
