------------------------------ MODULE WordChain ------------------------------
(***************************************************************************)
(* The word game of Lab2_tutorial/Zad3/etap2.c: the parent forks a child   *)
(* for each line it reads; a line "start ..." is sent word by word to the  *)
(* queue of the first child, its last word with priority 1.                *)
(*                                                                         *)
(* A child reads its predecessor's queue, the first child its own: both    *)
(* the first and the second child read the queue the parent writes to, and *)
(* nobody writes to another one.  A word is its priority: a queue is two   *)
(* numbers.  mq_open of a queue that is not there ends the process.        *)
(***************************************************************************)
EXTENDS Naturals, FiniteSets

CONSTANTS ChainSize,      \* P
          MaxForks,       \* bound of the model: lines that fork
          MaxStarts,      \* bound of the model: lines that start a sentence
          PlainWords      \* the words of a sentence before its last

ASSUME ChainAssumption == {ChainSize, MaxForks, MaxStarts, PlainWords} \subseteq Nat

VARIABLES parentAt,       \* next step of main
          childCount,     \* child_count: children 1..childCount are forked
          chainAt,        \* chainAt[c]: next step of child c
          queueThere,     \* children whose queue has been created
          plain, last,    \* words of priority 0 and 1 in the first child's queue
          toSend,         \* plain words of the sentence still to be sent
          started,        \* "start" lines read
          sentences       \* sentences sent to the end

chainVars == <<parentAt, childCount, chainAt, queueThere, plain, last, toSend, started, sentences>>

Chain == 1 .. MaxForks
MaxMsg == 2               \* attr.mq_maxmsg

ChainTypeOK ==
  /\ parentAt \in {"read", "send", "wait", "exited", "failed"}
  /\ childCount \in 0 .. MaxForks
  /\ chainAt \in [Chain -> {"unborn", "open_read", "open_write", "receive", "done", "failed"}]
  /\ queueThere \subseteq Chain
  /\ plain \in 0 .. MaxMsg /\ last \in 0 .. MaxMsg /\ plain + last <= MaxMsg
  /\ toSend \in 0 .. PlainWords
  /\ started \in 0 .. MaxStarts
  /\ sentences \in 0 .. MaxStarts

ChainInit == /\ parentAt = "read"
             /\ childCount = 0
             /\ chainAt = [c \in Chain |-> "unborn"]
             /\ queueThere = {}
             /\ plain = 0
             /\ last = 0
             /\ toSend = 0
             /\ started = 0
             /\ sentences = 0
-----------------------------------------------------------------------------
(* main *)

ParentStep(from, to) == /\ parentAt = from
                        /\ parentAt' = to
                        /\ UNCHANGED queueThere

ForkChild == /\ ParentStep("read", "read")
             /\ childCount < MaxForks
             /\ childCount' = childCount + 1
             /\ chainAt' = [chainAt EXCEPT ![childCount + 1] = "open_read"]
             /\ UNCHANGED <<plain, last, toSend, started, sentences>>

(* Fails without a first child, and before it has created its queue. *)
ReadStart == /\ ParentStep("read", IF 1 \in queueThere THEN "send" ELSE "failed")
             /\ started < MaxStarts
             /\ started' = started + 1
             /\ toSend' = PlainWords
             /\ UNCHANGED <<childCount, chainAt, plain, last, sentences>>

ReadEnd == /\ ParentStep("read", "wait")
           /\ UNCHANGED <<childCount, chainAt, plain, last, toSend, started, sentences>>

SendPlain == /\ ParentStep("send", "send")
             /\ toSend > 0
             /\ plain + last < MaxMsg
             /\ plain' = plain + 1
             /\ toSend' = toSend - 1
             /\ UNCHANGED <<childCount, chainAt, last, started, sentences>>

AfterSentence == IF childCount = ChainSize THEN "wait" ELSE "read"

(* Mutant: the last word has no priority of its own. *)
SendLastPlain == /\ ParentStep("send", AfterSentence)
                 /\ toSend = 0
                 /\ plain + last < MaxMsg
                 /\ plain' = plain + 1
                 /\ sentences' = sentences + 1
                 /\ UNCHANGED <<childCount, chainAt, last, toSend, started>>

SendLast == /\ ParentStep("send", AfterSentence)
            /\ toSend = 0
            /\ plain + last < MaxMsg
            /\ last' = last + 1
            /\ sentences' = sentences + 1
            /\ UNCHANGED <<childCount, chainAt, plain, toSend, started>>

ChainWaits == /\ ParentStep("wait", "exited")
              /\ \A c \in 1 .. childCount : chainAt[c] \in {"done", "failed"}
              /\ UNCHANGED <<childCount, chainAt, plain, last, toSend, started, sentences>>
-----------------------------------------------------------------------------
(* child_work *)

ChainStep(c, from, to) == /\ chainAt[c] = from
                          /\ chainAt' = [chainAt EXCEPT ![c] = to]
                          /\ UNCHANGED <<parentAt, childCount, toSend, started, sentences>>

(* The first child knows itself by its parent's pid, while there is one.   *)
CreateFirst(c) == /\ c = 1
                  /\ parentAt \notin {"exited", "failed"}
                  /\ ChainStep(c, "open_read", "open_write")
                  /\ queueThere' = queueThere \cup {c}
                  /\ UNCHANGED <<plain, last>>

OpenPrevious(c) ==
  /\ c = 1 => parentAt \in {"exited", "failed"}
  /\ ChainStep(c, "open_read", IF c - 1 \in queueThere THEN "open_write" ELSE "failed")
  /\ UNCHANGED <<queueThere, plain, last>>

CreateOwn(c) == /\ ChainStep(c, "open_write", "receive")
                /\ queueThere' = queueThere \cup {c}
                /\ UNCHANGED <<plain, last>>

ReadsFirstQueue(c) == c \in {1, 2}

(* mq_receive takes a word of the highest priority: the last word of a     *)
(* sentence overtakes the words before it.                                 *)
TakeLast(c) == /\ ReadsFirstQueue(c)
               /\ ChainStep(c, "receive", "done")
               /\ last > 0
               /\ last' = last - 1
               /\ UNCHANGED <<queueThere, plain>>

TakePlain(c) == /\ ReadsFirstQueue(c)
                /\ ChainStep(c, "receive", "receive")
                /\ last = 0 /\ plain > 0
                /\ plain' = plain - 1
                /\ UNCHANGED <<queueThere, last>>

ChainChild(c) == CreateFirst(c) \/ OpenPrevious(c) \/ CreateOwn(c) \/ TakeLast(c) \/ TakePlain(c)

ChainNext == \/ ForkChild \/ ReadStart \/ ReadEnd \/ SendPlain \/ SendLast \/ ChainWaits
             \/ \E c \in Chain : ChainChild(c)

ChainFairness == \A c \in Chain : WF_chainVars(ChainChild(c))

ChainSpec == ChainInit /\ [][ChainNext]_chainVars /\ ChainFairness
-----------------------------------------------------------------------------
Ended == {c \in Chain : chainAt[c] = "done"}

(* The last word of a sentence is never lost or read twice: it is in the   *)
(* queue, or it has ended one child (etap2.c:49-63, 110-127).              *)
LastWordsConserved == last + Cardinality(Ended) = sentences

(* Every sentence ends one child that reads it, whatever the children have *)
(* read of the words before, as long as such a child is left               *)
(* (etap2.c:49-63, 110-127).                                               *)
SentenceEndsChild ==
  \A k \in 1 .. MaxStarts :
     sentences >= k ~> LET reading == {c \in 1 .. childCount : ReadsFirstQueue(c)}
                       IN \/ Cardinality({c \in reading : chainAt[c] = "done"}) >= k
                          \/ \A c \in reading : chainAt[c] \in {"done", "failed"}
=============================================================================
