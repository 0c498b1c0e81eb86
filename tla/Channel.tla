------------------------------ MODULE Channel ------------------------------
(***************************************************************************)
(* The channel of Lab3_tutorial/Zad3/kod.c: processes open a segment of    *)
(* shared memory under a named semaphore, then produce into and consume    *)
(* from the one place it has.                                              *)
(*                                                                         *)
(* The mutex and the condition variables are initialised as private to a   *)
(* process although they lie in shared memory, so a signal may wake nobody,*)
(* and a waiter may wake without one: pthread_cond_signal has no effect a  *)
(* process can rely on, and a waiter may wake whenever the mutex is free.  *)
(* The programs that call the channel are not in the repository; a process *)
(* calls one of the functions again and again.  CHANNEL_DEPLETED, which no *)
(* function sets, is left out.                                             *)
(***************************************************************************)
EXTENDS Naturals, Sequences, FiniteSets

CONSTANTS Writers, Readers,
          Payloads,       \* the data of a message that is not empty
          MaxProduced,    \* bound of the model on the messages stored
          Nil             \* no process, no data

Users == Writers \cup Readers

ASSUME ChannelAssumption == /\ Writers \cap Readers = {}
                            /\ Nil \notin Users
                            /\ Nil \notin Payloads
                            /\ MaxProduced \in Nat

VARIABLES status,         \* channel->status
          content,        \* channel->data
          filled,         \* channel->length > 0
          semaphore,      \* the named semaphore is free
          dataMtx,        \* owner of channel->data_mtx
          userAt,         \* userAt[u]: next step of process u
          produced,       \* history: the non-empty messages stored
          consumed        \* history: the non-empty messages handed out

placeVars == <<status, content, filled>>
historyVars == <<produced, consumed>>
channelVars == <<placeVars, semaphore, dataMtx, userAt, historyVars>>

UserSteps == {"sem_wait", "init", "setup", "sem_post",
              "call", "test", "wait", "access", "unlock"}

ChannelTypeOK == /\ status \in {"UNINITIALIZED", "EMPTY", "OCCUPIED"}
                 /\ content \in Payloads \cup {Nil}
                 /\ filled \in BOOLEAN
                 /\ semaphore \in BOOLEAN
                 /\ dataMtx \in Users \cup {Nil}
                 /\ userAt \in [Users -> UserSteps]
                 /\ produced \in Seq(Payloads)
                 /\ consumed \in Seq(Payloads)

(* The segment is created filled with zeroes. *)
ChannelInit == /\ status = "UNINITIALIZED"
               /\ content = Nil
               /\ filled = FALSE
               /\ semaphore = TRUE
               /\ dataMtx = Nil
               /\ userAt = [u \in Users |-> "sem_wait"]
               /\ produced = <<>>
               /\ consumed = <<>>

UserStep(u, from, to) == /\ userAt[u] = from
                         /\ userAt' = [userAt EXCEPT ![u] = to]
-----------------------------------------------------------------------------
(* channel_open *)

OpenWaits(u) == /\ UserStep(u, "sem_wait", "init")
                /\ semaphore
                /\ semaphore' = FALSE
                /\ UNCHANGED <<placeVars, dataMtx, historyVars>>

FindUninitialized(u) == /\ UserStep(u, "init", "setup")
                        /\ status = "UNINITIALIZED"
                        /\ UNCHANGED <<placeVars, semaphore, dataMtx, historyVars>>

SetUpChannel(u) == /\ UserStep(u, "setup", "sem_post")
                   /\ status' = "EMPTY"
                   /\ filled' = FALSE
                   /\ dataMtx' = Nil
                   /\ UNCHANGED <<content, semaphore, historyVars>>

AlreadyInitialized(u) == /\ UserStep(u, "init", "sem_post")
                         /\ status # "UNINITIALIZED"
                         /\ UNCHANGED <<placeVars, semaphore, dataMtx, historyVars>>

OpenPosts(u) == /\ UserStep(u, "sem_post", "call")
                /\ semaphore' = TRUE
                /\ UNCHANGED <<placeVars, dataMtx, historyVars>>
-----------------------------------------------------------------------------
(* The mutex and the two condition variables *)

LockChannel(u) == /\ UserStep(u, "call", "test")
                  /\ dataMtx = Nil
                  /\ dataMtx' = u
                  /\ UNCHANGED <<placeVars, semaphore, historyVars>>

(* pthread_cond_wait gives the mutex back ... *)
Waits(u) == /\ UserStep(u, "test", "wait")
            /\ dataMtx' = Nil
            /\ UNCHANGED <<placeVars, semaphore, historyVars>>

(* Mutant: if instead of while around the wait. *)
WakesUntested(u) == /\ UserStep(u, "wait", "access")
                    /\ dataMtx = Nil
                    /\ dataMtx' = u
                    /\ UNCHANGED <<placeVars, semaphore, historyVars>>

(* ... and returns with it; the loop tests the status again. *)
Wakes(u) == /\ UserStep(u, "wait", "test")
            /\ dataMtx = Nil
            /\ dataMtx' = u
            /\ UNCHANGED <<placeVars, semaphore, historyVars>>

UnlockChannel(u) == /\ UserStep(u, "unlock", "call")
                    /\ dataMtx' = Nil
                    /\ UNCHANGED <<placeVars, semaphore, historyVars>>

TestPasses(u) == /\ UserStep(u, "test", "access")
                 /\ UNCHANGED <<placeVars, semaphore, dataMtx, historyVars>>
-----------------------------------------------------------------------------
(* channel_produce *)

ProducerWaits(u) == status = "OCCUPIED" /\ Waits(u)

ProducerGoesOn(u) == status # "OCCUPIED" /\ TestPasses(u)

(* Longer than CHANNEL_SIZE: return -1. *)
ProduceTooLong(u) == /\ UserStep(u, "access", "unlock")
                     /\ UNCHANGED <<placeVars, semaphore, dataMtx, historyVars>>

StoreMessage(u) == /\ UserStep(u, "access", "unlock")
                   /\ Len(produced) < MaxProduced
                   /\ status' = "OCCUPIED"
                   /\ filled' = TRUE
                   /\ \E p \in Payloads : /\ content' = p
                                          /\ produced' = Append(produced, p)
                   /\ UNCHANGED <<semaphore, dataMtx, consumed>>

(* A message of length 0 occupies the place too. *)
StoreNothing(u) == /\ UserStep(u, "access", "unlock")
                   /\ status' = "OCCUPIED"
                   /\ filled' = FALSE
                   /\ UNCHANGED <<content, semaphore, dataMtx, historyVars>>
-----------------------------------------------------------------------------
(* channel_consume *)

ConsumerWaits(u) == status = "EMPTY" /\ Waits(u)

ConsumerGoesOn(u) == status # "EMPTY" /\ TestPasses(u)

TakeMessage(u) == /\ UserStep(u, "access", "unlock")
                  /\ filled
                  /\ consumed' = Append(consumed, content)
                  /\ filled' = FALSE
                  /\ status' = "EMPTY"
                  /\ UNCHANGED <<content, semaphore, dataMtx, produced>>

(* A message of length 0 stays in the place. *)
TakeNothing(u) == /\ UserStep(u, "access", "unlock")
                  /\ ~filled
                  /\ UNCHANGED <<placeVars, semaphore, dataMtx, historyVars>>

Open(u) == \/ OpenWaits(u) \/ FindUninitialized(u) \/ SetUpChannel(u)
           \/ AlreadyInitialized(u) \/ OpenPosts(u)
Produce(w) == \/ ProducerWaits(w) \/ ProducerGoesOn(w)
              \/ ProduceTooLong(w) \/ StoreMessage(w) \/ StoreNothing(w)
Consume(r) == \/ ConsumerWaits(r) \/ ConsumerGoesOn(r)
              \/ TakeMessage(r) \/ TakeNothing(r)

ChannelNext == \/ \E u \in Users : Open(u) \/ LockChannel(u) \/ Wakes(u) \/ UnlockChannel(u)
               \/ \E w \in Writers : Produce(w)
               \/ \E r \in Readers : Consume(r)

ChannelSpec == ChannelInit /\ [][ChannelNext]_channelVars
-----------------------------------------------------------------------------
Slot == INSTANCE OneSlot WITH Messages <- Payloads, sent <- produced, received <- consumed

(* The channel implements the one-place channel: no message is lost,       *)
(* handed out twice or overwritten, whoever wakes when, and whoever opens  *)
(* the channel while others use it (kod.c:13-57, 68-138).                  *)
RefinesOneSlot == Slot!Spec
=============================================================================
