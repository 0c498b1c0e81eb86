--------------------------- MODULE CircularBuffer ---------------------------
(***************************************************************************)
(* The ring buffer of SOP1/Lab3_workshop/circular_buffer.c.                *)
(*                                                                         *)
(* Every thread runs circular_buffer_enqueue or circular_buffer_dequeue as *)
(* a sequence of steps; pc[t] says which step t takes next, "idle" that t  *)
(* is outside both.  The full check of enqueue reads count WITHOUT the     *)
(* mutex, so it is a step of its own and may be stale when the item is     *)
(* stored.  head, tail and the slots are only touched under mxBuffer, so a *)
(* pair of such accesses may share a step; every access to count, which is *)
(* also read without the mutex, is in a step of its own.  A loop that      *)
(* only sleeps and tries again is the absence of a step.                   *)
(***************************************************************************)
EXTENDS Naturals, Sequences

CONSTANTS Producers,    \* threads that call enqueue
          Consumers,    \* threads that call dequeue
          Items,        \* the strings (file paths) the buffer carries
          BufferSize,   \* BUFFER_SIZE
          NULL,         \* the null pointer dequeue may return
          NoThread,     \* owner of a free mutex
          NoAnswer      \* for the abstract queue: no answer yet

Threads == Producers \cup Consumers

ASSUME BufferSizeAssumption == BufferSize \in Nat \ {0}
ASSUME ThreadsAssumption == /\ Producers \cap Consumers = {}
                            /\ NoThread \notin Threads
ASSUME ItemsAssumption == /\ NULL \notin Items
                          /\ NoAnswer \notin Items \cup {NULL}

VARIABLES slots,        \* buffer->buffer
          head,         \* buffer->head, next free slot
          tail,         \* buffer->tail, next item to take
          count,        \* buffer->count
          mxBuffer,     \* owner of buffer->mxBuffer
          quitFlag,     \* *buffer->quitFlag
          pc,           \* pc[t]: next step of t inside the buffer
          item          \* item[t]: argument, local or result of t's operation

bufferVars == <<slots, head, tail, count, mxBuffer, quitFlag, pc, item>>

Indices == 0 .. BufferSize - 1

EnqueueSteps == {"enq_full_check", "enq_lock", "enq_store", "enq_publish"}
DequeueSteps == {"deq_lock", "deq_test", "deq_take", "deq_done"}

BufferTypeOK == /\ slots \in [Indices -> Items \cup {NULL}]
                /\ head \in Indices
                /\ tail \in Indices
                /\ count \in Nat
                /\ mxBuffer \in Threads \cup {NoThread}
                /\ quitFlag \in BOOLEAN
                /\ pc \in [Threads -> {"idle"} \cup EnqueueSteps \cup DequeueSteps]
                /\ item \in [Threads -> Items \cup {NULL}]

(* malloc leaves the slots unset; NULL stands for a slot never written. *)
BufferInit == /\ slots = [i \in Indices |-> NULL]
              /\ head = 0
              /\ tail = 0
              /\ count = 0
              /\ mxBuffer = NoThread
              /\ quitFlag = FALSE
              /\ pc = [t \in Threads |-> "idle"]
              /\ item = [t \in Threads |-> NULL]

Goto(t, step) == pc' = [pc EXCEPT ![t] = step]

(* Mutant: the modulus is one too large. *)
WrapLate(i) == i % (BufferSize + 1)

Wrap(i) == i % BufferSize
-----------------------------------------------------------------------------
(* circular_buffer_enqueue *)

EnqueueCall(p, x) == /\ pc[p] = "idle"
                     /\ Goto(p, "enq_full_check")
                     /\ item' = [item EXCEPT ![p] = x]
                     /\ UNCHANGED <<slots, head, tail, count, mxBuffer, quitFlag>>

(* Mutant: the ring is taken for one slot larger than it is. *)
EnqueueOffByOne(p) == /\ pc[p] = "enq_full_check"
                      /\ count # BufferSize + 1
                      /\ Goto(p, "enq_lock")
                      /\ UNCHANGED <<slots, head, tail, count, mxBuffer, quitFlag, item>>

(* The loop that waits for room ends; it reads count without the mutex. *)
EnqueueFullCheck(p) == /\ pc[p] = "enq_full_check"
                       /\ count # BufferSize
                       /\ Goto(p, "enq_lock")
                       /\ UNCHANGED <<slots, head, tail, count, mxBuffer, quitFlag, item>>

EnqueueLock(p) == /\ pc[p] = "enq_lock"
                  /\ mxBuffer = NoThread
                  /\ mxBuffer' = p
                  /\ Goto(p, "enq_store")
                  /\ UNCHANGED <<slots, head, tail, count, quitFlag, item>>

EnqueueStore(p) == /\ pc[p] = "enq_store"
                   /\ slots' = [slots EXCEPT ![head] = item[p]]
                   /\ Goto(p, "enq_publish")
                   /\ UNCHANGED <<head, tail, count, mxBuffer, quitFlag, item>>

(* head moves on, the item becomes visible and the mutex is released. *)
EnqueuePublish(p) == /\ pc[p] = "enq_publish"
                     /\ head' = Wrap(head + 1)
                     /\ count' = count + 1
                     /\ mxBuffer' = NoThread
                     /\ Goto(p, "idle")
                     /\ UNCHANGED <<slots, tail, quitFlag, item>>
-----------------------------------------------------------------------------
(* circular_buffer_dequeue *)

DequeueCall(c) == /\ pc[c] = "idle"
                  /\ Goto(c, "deq_lock")
                  /\ UNCHANGED <<slots, head, tail, count, mxBuffer, quitFlag, item>>

(* Mutant: dequeue does not wait for the mutex. *)
DequeueLockBusy(c) == /\ pc[c] = "deq_lock"
                      /\ mxBuffer' = c
                      /\ Goto(c, "deq_test")
                      /\ UNCHANGED <<slots, head, tail, count, quitFlag, item>>

DequeueLock(c) == /\ pc[c] = "deq_lock"
                  /\ mxBuffer = NoThread
                  /\ mxBuffer' = c
                  /\ Goto(c, "deq_test")
                  /\ UNCHANGED <<slots, head, tail, count, quitFlag, item>>

(* There is an item: read it. *)
DequeueRead(c) == /\ pc[c] = "deq_test"
                  /\ count > 0
                  /\ item' = [item EXCEPT ![c] = slots[tail]]
                  /\ Goto(c, "deq_take")
                  /\ UNCHANGED <<slots, head, tail, count, mxBuffer, quitFlag>>

(* tail moves on, the slot is given back and the mutex is released. *)
DequeueTake(c) == /\ pc[c] = "deq_take"
                  /\ tail' = Wrap(tail + 1)
                  /\ count' = count - 1
                  /\ mxBuffer' = NoThread
                  /\ Goto(c, "deq_done")
                  /\ UNCHANGED <<slots, head, quitFlag, item>>

(* The buffer is empty and the program is ending: return NULL. *)
DequeueNull(c) == /\ pc[c] = "deq_test"
                  /\ count = 0
                  /\ quitFlag
                  /\ mxBuffer' = NoThread
                  /\ item' = [item EXCEPT ![c] = NULL]
                  /\ Goto(c, "deq_done")
                  /\ UNCHANGED <<slots, head, tail, count, quitFlag>>

(* The buffer is empty: release the mutex, sleep and try again. *)
DequeueRetry(c) == /\ pc[c] = "deq_test"
                   /\ count = 0
                   /\ ~quitFlag
                   /\ mxBuffer' = NoThread
                   /\ Goto(c, "deq_lock")
                   /\ UNCHANGED <<slots, head, tail, count, quitFlag, item>>

DequeueReturn(c) == /\ pc[c] = "deq_done"
                    /\ Goto(c, "idle")
                    /\ UNCHANGED <<slots, head, tail, count, mxBuffer, quitFlag, item>>

(* The owner of the flag ends the program. *)
SetQuitFlag == /\ quitFlag' = TRUE
               /\ UNCHANGED <<slots, head, tail, count, mxBuffer, pc, item>>
-----------------------------------------------------------------------------
(* The steps of an operation that has been called. *)
EnqueueStep(p) == EnqueueFullCheck(p) \/ EnqueueLock(p) \/ EnqueueStore(p) \/ EnqueuePublish(p)

DequeueStep(c) == \/ DequeueLock(c) \/ DequeueRead(c) \/ DequeueTake(c)
                  \/ DequeueNull(c) \/ DequeueRetry(c)

BufferNext == \/ \E p \in Producers : EnqueueStep(p) \/ \E x \in Items : EnqueueCall(p, x)
              \/ \E c \in Consumers : DequeueStep(c) \/ DequeueCall(c) \/ DequeueReturn(c)
              \/ SetQuitFlag

BufferSpec == BufferInit /\ [][BufferNext]_bufferVars
-----------------------------------------------------------------------------
(* The slot that holds the i-th oldest item. *)
SlotOf(i) == Wrap(tail + i - 1)

(* The abstract content of the ring. *)
Contents == [i \in 1 .. count |-> slots[SlotOf(i)]]

Answers == [c \in Consumers |-> IF pc[c] = "deq_done" THEN item[c] ELSE NoAnswer]

Queue == INSTANCE TaskQueue WITH Capacity <- BufferSize,
                                 queue <- Contents,
                                 answer <- Answers,
                                 closed <- quitFlag

(* The letter firm has one thread that scans directories and enqueues. *)
SingleProducer == \A p, q \in Producers : p = q

(* enqueue never stores into a full ring, although it looked for room      *)
(* without holding the mutex (circular_buffer.h: "Blocks if the buffer is  *)
(* full").                                                                 *)
NeverOverfull == /\ count <= BufferSize
                 /\ \A p \in Producers : pc[p] = "enq_store" => count < BufferSize

(* Every step of the ring is a step of the bounded FIFO queue: no item is  *)
(* overwritten, skipped, handed out twice or out of order, and NULL is     *)
(* returned only when the queue is empty and the program is ending.        *)
RefinesTaskQueue == Queue!QueueSpec
=============================================================================
