------------------------ MODULE CircularBufferProofs ------------------------
(***************************************************************************)
(* Proofs about the ring buffer for every number of consumers, every set   *)
(* of items and every BufferSize.  The results hold for a single producer, *)
(* which is how the letter firm uses the ring; with two producers TLC      *)
(* refutes NeverOverfull.                                                  *)
(***************************************************************************)
EXTENDS CircularBuffer, TLAPS

(* The quotient of a number below 2n is 0 or 1. *)
LEMMA SmallQuotient ==
  \A k \in Nat, n \in Nat \ {0} :
     k < n + n => k % n = IF k < n THEN k ELSE k - n
<1> TAKE k \in Nat, n \in Nat \ {0}
<1> HAVE k < n + n
<1>1. /\ k = n * (k \div n) + (k % n)
      /\ k % n \in 0 .. n - 1
      /\ k \div n \in Nat
  BY SMT
<1>2. CASE k \div n >= 2
  <2>1. n * (k \div n) >= n * 2
    BY <1>1, <1>2, SMT
  <2>2. QED
    BY <1>1, <2>1, SMT
<1>3. QED
  BY <1>1, <1>2, SMT

(* An index that runs past the end of the ring wraps around once. *)
LEMMA WrapIs ==
  ASSUME NEW k \in Nat, k < BufferSize + BufferSize
  PROVE  /\ Wrap(k) \in Indices
         /\ Wrap(k) = IF k < BufferSize THEN k ELSE k - BufferSize
<1>1. Wrap(k) = IF k < BufferSize THEN k ELSE k - BufferSize
  BY SmallQuotient, BufferSizeAssumption DEF Wrap
<1>2. QED
  BY <1>1, BufferSizeAssumption DEF Indices
-----------------------------------------------------------------------------
(* The steps a thread runs while it holds mxBuffer. *)
CriticalSteps == {"enq_store", "enq_publish", "deq_test", "deq_take"}

HolderIsCritical == \A t \in Threads : pc[t] \in CriticalSteps <=> mxBuffer = t

RolesKept == /\ \A p \in Producers : /\ pc[p] \in {"idle"} \cup EnqueueSteps
                                     /\ pc[p] # "idle" => item[p] \in Items
             /\ \A c \in Consumers : pc[c] \in {"idle"} \cup DequeueSteps

RingShape == /\ count <= BufferSize
             /\ head = Wrap(tail + count)

(* What the unlocked full check established still holds: nobody but the    *)
(* producer that checked can have filled the ring.                         *)
RoomReserved == \A p \in Producers :
                   pc[p] \in {"enq_lock", "enq_store", "enq_publish"} => count < BufferSize

InFlight == /\ \A p \in Producers : pc[p] = "enq_publish" => slots[head] = item[p]
            /\ \A c \in Consumers : pc[c] = "deq_take" => count > 0 /\ item[c] = slots[tail]

BufferInv == /\ BufferTypeOK
             /\ HolderIsCritical
             /\ RolesKept
             /\ RingShape
             /\ RoomReserved
             /\ InFlight

LEMMA BufferInvInit == BufferInit => BufferInv
<1> SUFFICES ASSUME BufferInit PROVE BufferInv
  OBVIOUS
<1> USE BufferSizeAssumption, ThreadsAssumption DEF BufferInit
<1>1. BufferTypeOK
  <2>1. 0 \in Indices
    BY DEF Indices
  <2>2. QED
    BY <2>1 DEF BufferTypeOK
<1>2. HolderIsCritical
  BY DEF HolderIsCritical, CriticalSteps
<1>3. RolesKept
  BY DEF RolesKept, Threads
<1>4. RingShape
  BY WrapIs DEF RingShape, Indices
<1>5. RoomReserved /\ InFlight
  BY DEF RoomReserved, InFlight, Threads
<1>6. QED
  BY <1>1, <1>2, <1>3, <1>4, <1>5 DEF BufferInv

LEMMA EnqueuePreserves ==
  ASSUME BufferInv, SingleProducer, NEW p \in Producers,
         EnqueueStep(p) \/ \E x \in Items : EnqueueCall(p, x)
  PROVE  BufferInv'
<1> USE BufferSizeAssumption, ThreadsAssumption
    DEF BufferInv, BufferTypeOK, Threads, Goto, EnqueueSteps, DequeueSteps
<1>1. CASE \E x \in Items : EnqueueCall(p, x)
  BY <1>1 DEF EnqueueCall, HolderIsCritical, CriticalSteps, RolesKept, RingShape, RoomReserved, InFlight
<1>2. CASE EnqueueFullCheck(p)
  BY <1>2 DEF EnqueueFullCheck, HolderIsCritical, CriticalSteps, RolesKept, RingShape, RoomReserved, InFlight
<1>3. CASE EnqueueLock(p)
  BY <1>3 DEF EnqueueLock, HolderIsCritical, CriticalSteps, RolesKept, RingShape, RoomReserved, InFlight
<1>4. CASE EnqueueStore(p)
  BY <1>4 DEF EnqueueStore, HolderIsCritical, CriticalSteps, RolesKept, RingShape, RoomReserved, InFlight, SingleProducer
<1>5. CASE EnqueuePublish(p)
  <2> USE <1>5 DEF EnqueuePublish
  <2>1. count < BufferSize
    BY DEF RoomReserved
  <2>2. BufferTypeOK'
    BY WrapIs DEF Indices
  <2>3. RingShape'
    <3>1. /\ Wrap(tail + count) = IF tail + count < BufferSize THEN tail + count
                                  ELSE tail + count - BufferSize
          /\ Wrap(tail + (count + 1)) = IF tail + (count + 1) < BufferSize
                                        THEN tail + (count + 1)
                                        ELSE tail + (count + 1) - BufferSize
      BY <2>1, WrapIs DEF Indices
    <3>2. Wrap(head + 1) = IF head + 1 < BufferSize THEN head + 1
                           ELSE head + 1 - BufferSize
      BY WrapIs DEF Indices
    <3>3. Wrap(head + 1) = Wrap(tail + (count + 1))
      BY <2>1, <3>1, <3>2 DEF RingShape, Indices
    <3>4. QED
      BY <2>1, <3>3 DEF RingShape
  <2>4. HolderIsCritical' /\ RolesKept'
    BY DEF HolderIsCritical, CriticalSteps, RolesKept
  <2>5. RoomReserved' /\ InFlight'
    BY DEF RoomReserved, InFlight, RolesKept, HolderIsCritical, CriticalSteps, SingleProducer
  <2>6. QED
    BY <2>2, <2>3, <2>4, <2>5
<1>6. QED
  BY <1>1, <1>2, <1>3, <1>4, <1>5 DEF EnqueueStep
LEMMA DequeuePreserves ==
  ASSUME BufferInv, NEW c \in Consumers,
         DequeueStep(c) \/ DequeueCall(c) \/ DequeueReturn(c)
  PROVE  BufferInv'
<1> USE BufferSizeAssumption, ThreadsAssumption
    DEF BufferInv, BufferTypeOK, Threads, Goto, EnqueueSteps, DequeueSteps
<1>1. CASE DequeueCall(c)
  BY <1>1 DEF DequeueCall, HolderIsCritical, CriticalSteps, RolesKept, RingShape, RoomReserved, InFlight
<1>2. CASE DequeueLock(c)
  BY <1>2 DEF DequeueLock, HolderIsCritical, CriticalSteps, RolesKept, RingShape, RoomReserved, InFlight
<1>3. CASE DequeueRead(c)
  <2> USE <1>3 DEF DequeueRead
  <2>1. BufferTypeOK'
    OBVIOUS
  <2>2. HolderIsCritical' /\ RolesKept'
    BY DEF HolderIsCritical, CriticalSteps, RolesKept
  <2>3. RingShape' /\ RoomReserved'
    BY DEF RingShape, RoomReserved, RolesKept
  <2>4. InFlight'
    BY DEF InFlight, RolesKept
  <2>5. QED
    BY <2>1, <2>2, <2>3, <2>4
<1>4. CASE DequeueTake(c)
  <2> USE <1>4 DEF DequeueTake
  <2>1. count > 0 /\ count \in Nat
    BY DEF InFlight
  <2>2. BufferTypeOK'
    BY <2>1, WrapIs DEF Indices
  <2>3. RingShape'
    <3>1. /\ Wrap(tail + count) = IF tail + count < BufferSize THEN tail + count
                                  ELSE tail + count - BufferSize
          /\ Wrap(tail + 1) = IF tail + 1 < BufferSize THEN tail + 1
                              ELSE tail + 1 - BufferSize
      BY WrapIs DEF Indices, RingShape
    <3>2. /\ Wrap(tail + 1) + (count - 1) \in Nat
          /\ Wrap(tail + 1) + (count - 1) < BufferSize + BufferSize
      BY <2>1, <3>1 DEF RingShape, Indices
    <3> DEFINE last == Wrap(tail + 1) + (count - 1)
    <3>a. last \in Nat /\ last < BufferSize + BufferSize
      BY <3>2
    <3> HIDE DEF last
    <3>3. Wrap(last) = IF last < BufferSize THEN last ELSE last - BufferSize
      BY <3>a, WrapIs
    <3>4. Wrap(tail + count) = Wrap(Wrap(tail + 1) + (count - 1))
      BY <2>1, <3>1, <3>3 DEF last, RingShape, Indices
    <3>5. QED
      BY <2>1, <3>4 DEF RingShape
  <2>4. HolderIsCritical' /\ RolesKept'
    BY DEF HolderIsCritical, CriticalSteps, RolesKept
  <2>5. RoomReserved'
    BY <2>1 DEF RoomReserved, RolesKept
  <2>6. InFlight'
    BY DEF InFlight, RolesKept, HolderIsCritical, CriticalSteps
  <2>7. QED
    BY <2>2, <2>3, <2>4, <2>5, <2>6
<1>5. CASE DequeueNull(c)
  BY <1>5 DEF DequeueNull, HolderIsCritical, CriticalSteps, RolesKept, RingShape, RoomReserved, InFlight
<1>6. CASE DequeueRetry(c)
  BY <1>6 DEF DequeueRetry, HolderIsCritical, CriticalSteps, RolesKept, RingShape, RoomReserved, InFlight
<1>7. CASE DequeueReturn(c)
  BY <1>7 DEF DequeueReturn, HolderIsCritical, CriticalSteps, RolesKept, RingShape, RoomReserved, InFlight
<1>8. QED
  BY <1>1, <1>2, <1>3, <1>4, <1>5, <1>6, <1>7 DEF DequeueStep

LEMMA BufferInvStep ==
  ASSUME BufferInv, SingleProducer, [BufferNext]_bufferVars
  PROVE  BufferInv'
<1>1. CASE \E p \in Producers : EnqueueStep(p) \/ \E x \in Items : EnqueueCall(p, x)
  BY <1>1, EnqueuePreserves
<1>2. CASE \E c \in Consumers : DequeueStep(c) \/ DequeueCall(c) \/ DequeueReturn(c)
  BY <1>2, DequeuePreserves
<1>3. CASE SetQuitFlag
  BY <1>3 DEF SetQuitFlag, BufferInv, BufferTypeOK, HolderIsCritical, RolesKept, RingShape,
              RoomReserved, InFlight
<1>4. CASE UNCHANGED bufferVars
  BY <1>4 DEF bufferVars, BufferInv, BufferTypeOK, HolderIsCritical, RolesKept, RingShape,
              RoomReserved, InFlight
<1>5. QED
  BY <1>1, <1>2, <1>3, <1>4 DEF BufferNext

(* The ring stays well formed in every run with a single producer. *)
THEOREM BufferInvariance ==
  ASSUME SingleProducer PROVE BufferSpec => []BufferInv
<1>1. BufferInit => BufferInv
  BY BufferInvInit
<1>2. BufferInv /\ [BufferNext]_bufferVars => BufferInv'
  BY BufferInvStep
<1>3. QED
  BY <1>1, <1>2, PTL DEF BufferSpec

(* Every variable of the ring keeps its type; in particular the indices    *)
(* never leave the slot array.                                             *)
THEOREM BufferTypeCorrect ==
  ASSUME SingleProducer PROVE BufferSpec => []BufferTypeOK
<1>1. BufferInv => BufferTypeOK
  BY DEF BufferInv
<1>2. QED
  BY <1>1, BufferInvariance, PTL

(* Although enqueue looks for room without the mutex, it never stores into *)
(* a full ring.                                                            *)
THEOREM EnqueueNeverOverfills ==
  ASSUME SingleProducer PROVE BufferSpec => []NeverOverfull
<1>1. BufferInv => NeverOverfull
  BY DEF BufferInv, RingShape, RoomReserved, NeverOverfull
<1>2. QED
  BY <1>1, BufferInvariance, PTL
-----------------------------------------------------------------------------
(* The ring implements the bounded FIFO queue. *)

LEMMA SlotIs ==
  ASSUME tail \in Indices, NEW i \in 1 .. BufferSize + 1
  PROVE  /\ SlotOf(i) \in Indices
         /\ SlotOf(i) = IF tail + i - 1 < BufferSize THEN tail + i - 1
                        ELSE tail + i - 1 - BufferSize
<1> DEFINE k == tail + i - 1
<1>1. k \in Nat /\ k < BufferSize + BufferSize
  BY BufferSizeAssumption DEF Indices
<1> HIDE DEF k
<1>2. /\ Wrap(k) \in Indices
      /\ Wrap(k) = IF k < BufferSize THEN k ELSE k - BufferSize
  BY <1>1, WrapIs
<1>3. SlotOf(i) = Wrap(k)
  BY DEF SlotOf, k
<1>4. QED
  BY <1>2, <1>3, BufferSizeAssumption DEF k, Indices

(* The slot that enqueue fills is none of those that hold an item. *)
LEMMA HeadIsFree ==
  ASSUME BufferInv, count < BufferSize, NEW i \in 1 .. count
  PROVE  SlotOf(i) # head /\ SlotOf(i) \in Indices
<1>1. tail \in Indices /\ count \in Nat /\ BufferSize \in Nat
  BY BufferSizeAssumption DEF BufferInv, BufferTypeOK
<1>2. head = SlotOf(count + 1)
  <2>1. head = Wrap(tail + count)
    BY DEF BufferInv, RingShape
  <2>2. tail + (count + 1) - 1 = tail + count
    BY <1>1 DEF Indices
  <2>3. QED
    BY <2>1, <2>2 DEF SlotOf
<1>3. i \in 1 .. BufferSize + 1 /\ count + 1 \in 1 .. BufferSize + 1
  BY <1>1
<1>4. QED
  BY <1>1, <1>2, <1>3, SlotIs DEF Indices

LEMMA ContentsIsSeq ==
  ASSUME count \in Nat
  PROVE  Len(Contents) = count /\ DOMAIN Contents = 1 .. count
BY DEF Contents

(* Publishing an item appends it. *)
LEMMA PublishAppends ==
  ASSUME BufferInv, NEW p \in Producers, EnqueuePublish(p)
  PROVE  Contents' = Append(Contents, item[p])
<1> USE DEF EnqueuePublish
<1>1. count \in Nat /\ count < BufferSize /\ tail \in Indices
  BY DEF BufferInv, BufferTypeOK, RoomReserved
<1>2. slots[SlotOf(count + 1)] = item[p]
  <2>1. tail + (count + 1) - 1 = tail + count
    BY <1>1 DEF Indices
  <2>2. QED
    BY <2>1 DEF BufferInv, RingShape, InFlight, SlotOf
<1>3. Contents' = [i \in 1 .. count + 1 |-> slots[SlotOf(i)]]
  BY DEF Contents, SlotOf
<1>4. QED
  BY <1>1, <1>2, <1>3 DEF Contents

(* Taking an item leaves the others, in order. *)
LEMMA TakeDropsHead ==
  ASSUME BufferInv, NEW c \in Consumers, DequeueTake(c)
  PROVE  /\ Contents # <<>>
         /\ item[c] = Head(Contents)
         /\ Contents' = Tail(Contents)
<1> USE DEF DequeueTake
<1>1. /\ count \in Nat /\ count > 0 /\ count <= BufferSize
      /\ tail \in Indices
      /\ item[c] = slots[tail]
  BY DEF BufferInv, BufferTypeOK, RingShape, InFlight
<1>2. SlotOf(1) = tail
  BY <1>1, SlotIs, BufferSizeAssumption DEF Indices
<1>3. Contents # <<>> /\ item[c] = Head(Contents)
  BY <1>1, <1>2 DEF Contents
<1>4. ASSUME NEW i \in 1 .. count - 1
      PROVE  SlotOf(i)' = SlotOf(i + 1)
  <2>1. tail' \in Indices /\ tail' = IF tail + 1 < BufferSize THEN tail + 1
                                     ELSE tail + 1 - BufferSize
    BY <1>1, WrapIs, BufferSizeAssumption DEF Indices
  <2> DEFINE k == tail' + i - 1
  <2>2. k \in Nat /\ k < BufferSize + BufferSize
    BY <1>1, <2>1, BufferSizeAssumption DEF Indices
  <2> HIDE DEF k
  <2>3. Wrap(k) = IF k < BufferSize THEN k ELSE k - BufferSize
    BY <2>2, WrapIs
  <2>4. SlotOf(i + 1) = IF tail + i < BufferSize THEN tail + i ELSE tail + i - BufferSize
    BY <1>1, SlotIs, BufferSizeAssumption DEF Indices
  <2>5. Wrap(k) = SlotOf(i + 1)
    BY <1>1, <2>1, <2>3, <2>4, BufferSizeAssumption DEF k, Indices
  <2>6. QED
    BY <2>5 DEF SlotOf, k
<1>5. Contents' = [i \in 1 .. count - 1 |-> slots[SlotOf(i)']]
  BY DEF Contents
<1>6. Tail(Contents) = [i \in 1 .. count - 1 |-> slots[SlotOf(i + 1)]]
  BY <1>1 DEF Contents
<1>7. QED
  BY <1>3, <1>4, <1>5, <1>6
LEMMA AnswersInit == BufferInit => Queue!QueueInit
BY ThreadsAssumption DEF BufferInit, Queue!QueueInit, Contents, Answers, Threads

(* A step that moves neither the ends of the queue, nor a stored item, nor *)
(* a consumer into or out of "deq_done" is invisible to the abstract queue.*)
LEMMA InvisibleStep ==
  ASSUME BufferInv, UNCHANGED <<tail, count, quitFlag>>,
         \A i \in 1 .. count : slots'[SlotOf(i)] = slots[SlotOf(i)],
         \A c \in Consumers : /\ (pc'[c] = "deq_done") <=> (pc[c] = "deq_done")
                              /\ pc[c] = "deq_done" => item'[c] = item[c]
  PROVE  UNCHANGED <<Contents, Answers, quitFlag>>
<1>1. Contents' = Contents
  BY DEF Contents, SlotOf
<1>2. Answers' = Answers
  BY DEF Answers
<1>3. QED
  BY <1>1, <1>2

LEMMA EnqueueRefines ==
  ASSUME BufferInv, NEW p \in Producers,
         EnqueueStep(p) \/ \E x \in Items : EnqueueCall(p, x)
  PROVE  [Queue!QueueNext]_(Queue!qvars)
<1> USE DEF Goto
<1>1. p \in Threads /\ p \notin Consumers
  BY ThreadsAssumption DEF Threads
<1>2. ASSUME NEW q \in Consumers, NEW s PROVE [pc EXCEPT ![p] = s][q] = pc[q]
  BY <1>1 DEF BufferInv, BufferTypeOK, Threads
<1>3. ASSUME NEW q \in Consumers, NEW s PROVE [item EXCEPT ![p] = s][q] = item[q]
  BY <1>1 DEF BufferInv, BufferTypeOK, Threads
<1>4. CASE \E x \in Items : EnqueueCall(p, x)
  BY <1>2, <1>3, <1>4, InvisibleStep DEF EnqueueCall, Queue!qvars
<1>5. CASE EnqueueFullCheck(p)
  BY <1>2, <1>5, InvisibleStep DEF EnqueueFullCheck, Queue!qvars
<1>6. CASE EnqueueLock(p)
  BY <1>2, <1>6, InvisibleStep DEF EnqueueLock, Queue!qvars
<1>7. CASE EnqueueStore(p)
  <2>1. count < BufferSize
    BY <1>7 DEF EnqueueStore, BufferInv, RoomReserved
  <2>2. \A i \in 1 .. count : slots'[SlotOf(i)] = slots[SlotOf(i)]
    BY <1>7, <2>1, HeadIsFree DEF EnqueueStore, BufferInv, BufferTypeOK
  <2>3. QED
    BY <1>2, <1>7, <2>2, InvisibleStep DEF EnqueueStore, Queue!qvars
<1>8. CASE EnqueuePublish(p)
  <2>1. Len(Contents) < BufferSize
    BY <1>8, ContentsIsSeq DEF EnqueuePublish, BufferInv, BufferTypeOK, RoomReserved
  <2>2. Contents' = Append(Contents, item[p])
    BY <1>8, PublishAppends
  <2>3. item[p] \in Items
    BY <1>8 DEF EnqueuePublish, BufferInv, RolesKept
  <2>4. Answers' = Answers /\ quitFlag' = quitFlag
    BY <1>2, <1>8 DEF EnqueuePublish, Answers
  <2>5. QED
    BY <2>1, <2>2, <2>3, <2>4 DEF Queue!QueueNext, Queue!Put
<1>9. QED
  BY <1>4, <1>5, <1>6, <1>7, <1>8 DEF EnqueueStep

LEMMA DequeueRefines ==
  ASSUME BufferInv, NEW c \in Consumers,
         DequeueStep(c) \/ DequeueCall(c) \/ DequeueReturn(c)
  PROVE  [Queue!QueueNext]_(Queue!qvars)
<1> USE DEF Goto
<1>1. /\ pc \in [Threads -> {"idle"} \cup EnqueueSteps \cup DequeueSteps]
      /\ item \in [Threads -> Items \cup {NULL}]
      /\ Consumers \subseteq Threads
      /\ Answers \in [Consumers -> Items \cup {NULL, NoAnswer}]
      /\ \A q \in Consumers : pc[q] # "deq_done" <=> Answers[q] = NoAnswer
  BY ItemsAssumption DEF BufferInv, BufferTypeOK, Threads, Answers
<1>2. CASE DequeueCall(c)
  BY <1>1, <1>2, InvisibleStep DEF DequeueCall, Queue!qvars
<1>3. CASE DequeueLock(c)
  BY <1>1, <1>3, InvisibleStep DEF DequeueLock, Queue!qvars
<1>4. CASE DequeueRead(c)
  BY <1>1, <1>4, InvisibleStep DEF DequeueRead, Queue!qvars
<1>5. CASE DequeueTake(c)
  <2>1. /\ Contents # <<>>
        /\ item[c] = Head(Contents)
        /\ Contents' = Tail(Contents)
    BY <1>5, TakeDropsHead
  <2>2. Answers[c] = NoAnswer
    BY <1>1, <1>5 DEF DequeueTake
  <2>3. Answers' = [Answers EXCEPT ![c] = item[c]]
    BY <1>1, <1>5 DEF DequeueTake, Answers
  <2>4. quitFlag' = quitFlag
    BY <1>5 DEF DequeueTake
  <2>5. QED
    BY <2>1, <2>2, <2>3, <2>4 DEF Queue!QueueNext, Queue!Get
<1>6. CASE DequeueNull(c)
  <2>1. Contents = <<>>
    BY <1>6 DEF DequeueNull, Contents
  <2>2. Contents' = Contents /\ quitFlag' = quitFlag /\ quitFlag
    BY <1>6 DEF DequeueNull, Contents, SlotOf
  <2>3. Answers[c] = NoAnswer
    BY <1>1, <1>6 DEF DequeueNull
  <2>4. Answers' = [Answers EXCEPT ![c] = NULL]
    BY <1>1, <1>6 DEF DequeueNull, Answers
  <2>5. QED
    BY <2>1, <2>2, <2>3, <2>4 DEF Queue!QueueNext, Queue!GiveUp
<1>7. CASE DequeueRetry(c)
  BY <1>1, <1>7, InvisibleStep DEF DequeueRetry, Queue!qvars
<1>8. CASE DequeueReturn(c)
  <2>1. Contents' = Contents /\ quitFlag' = quitFlag
    BY <1>8 DEF DequeueReturn, Contents, SlotOf
  <2>2. Answers[c] # NoAnswer
    BY <1>1, <1>8 DEF DequeueReturn
  <2>3. Answers' = [Answers EXCEPT ![c] = NoAnswer]
    BY <1>1, <1>8 DEF DequeueReturn, Answers
  <2>4. QED
    BY <2>1, <2>2, <2>3 DEF Queue!QueueNext, Queue!Leave
<1>9. QED
  BY <1>2, <1>3, <1>4, <1>5, <1>6, <1>7, <1>8 DEF DequeueStep

LEMMA BufferStepRefines ==
  ASSUME BufferInv, [BufferNext]_bufferVars
  PROVE  [Queue!QueueNext]_(Queue!qvars)
<1>1. CASE \E p \in Producers : EnqueueStep(p) \/ \E x \in Items : EnqueueCall(p, x)
  BY <1>1, EnqueueRefines
<1>2. CASE \E c \in Consumers : DequeueStep(c) \/ DequeueCall(c) \/ DequeueReturn(c)
  BY <1>2, DequeueRefines
<1>3. CASE SetQuitFlag
  BY <1>3 DEF SetQuitFlag, Queue!QueueNext, Queue!Close, Contents, SlotOf, Answers
<1>4. CASE UNCHANGED bufferVars
  BY <1>4, InvisibleStep DEF bufferVars, Queue!qvars
<1>5. QED
  BY <1>1, <1>2, <1>3, <1>4 DEF BufferNext

(* The ring holds nothing but items: a slot never written is not read.     *)
LEMMA ContentsStayItems ==
  ASSUME BufferInv, [BufferNext]_bufferVars, Contents \in Seq(Items)
  PROVE  Contents' \in Seq(Items)
<1>1. [Queue!QueueNext]_(Queue!qvars)
  BY BufferStepRefines
<1>2. ASSUME NEW x \in Items, Contents' = Append(Contents, x) PROVE Contents' \in Seq(Items)
  BY <1>2
<1>3. ASSUME Contents # <<>>, Contents' = Tail(Contents) PROVE Contents' \in Seq(Items)
  BY <1>3
<1> QED
  BY <1>1, <1>2, <1>3
  DEF Queue!QueueNext, Queue!qvars, Queue!Put, Queue!Get, Queue!GiveUp, Queue!Leave, Queue!Close

(* The ring buffer implements the bounded FIFO queue: every item is handed *)
(* out exactly once and in order, and NULL only when the queue is empty    *)
(* and the program is ending.                                              *)
THEOREM RingImplementsTaskQueue ==
  ASSUME SingleProducer PROVE BufferSpec => RefinesTaskQueue
<1>1. BufferInit => Queue!QueueInit
  BY AnswersInit
<1>2. BufferInv /\ [BufferNext]_bufferVars => [Queue!QueueNext]_(Queue!qvars)
  BY BufferStepRefines
<1>3. BufferSpec => []BufferInv
  BY BufferInvariance
<1>4. QED
  BY <1>1, <1>2, <1>3, PTL DEF BufferSpec, RefinesTaskQueue, Queue!QueueSpec
=============================================================================
