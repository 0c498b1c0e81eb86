---------------------------- MODULE BlockWriters ----------------------------
(***************************************************************************)
(* SOP1/Lab2_tutorial/Zad1/etap4.c: the parent sends SIGUSR1 to its group  *)
(* again and again, each child appends a block to its file for every       *)
(* signal until its alarm goes off.                                        *)
(*                                                                         *)
(* No signal is blocked: a handler runs between any two steps of a child,  *)
(* also between its test of got_alarm and sigsuspend, and between the two  *)
(* halves of sig_count--.  Pending signals of a kind merge.  The model     *)
(* starts when the children are forked; the files are left out.            *)
(***************************************************************************)
EXTENDS Naturals

CONSTANTS BlockKids,      \* the children
          MaxSignals      \* how often the parent sends, 100 in the program

ASSUME BlockAssumption == MaxSignals \in Nat

VARIABLES blockParentAt,  \* next step of parent_work
          sent,           \* its i
          blockAt,        \* blockAt[c]: next step of child c
          gotAlarm,       \* gotAlarm[c]: got_alarm of child c
          sigCount,       \* sigCount[c]: its sig_count
          loadedCount,    \* loadedCount[c]: sig_count as read by sig_count--
          alarmSet,       \* children whose alarm is to go off
          usr1Waiting     \* children with SIGUSR1 pending

kidVars == <<blockAt, gotAlarm, sigCount, loadedCount, alarmSet>>
blockVars == <<blockParentAt, sent, kidVars, usr1Waiting>>

BlockTypeOK ==
  /\ blockParentAt \in {"send", "wait", "exited"}
  /\ sent \in 0 .. MaxSignals
  /\ blockAt \in [BlockKids -> {"start", "test", "suspend", "suspended", "loop", "write",
                              "store", "done"}]
  /\ gotAlarm \in [BlockKids -> BOOLEAN]
  /\ sigCount \in [BlockKids -> 0 .. MaxSignals]
  /\ loadedCount \in [BlockKids -> 0 .. MaxSignals]
  /\ alarmSet \subseteq BlockKids
  /\ usr1Waiting \subseteq BlockKids

BlockInit == /\ blockParentAt = "send"
             /\ sent = 0
             /\ blockAt = [c \in BlockKids |-> "start"]
             /\ gotAlarm = [c \in BlockKids |-> FALSE]
             /\ sigCount = [c \in BlockKids |-> 0]
             /\ loadedCount = [c \in BlockKids |-> 0]
             /\ alarmSet = {}
             /\ usr1Waiting = {}

LiveKids == {c \in BlockKids : blockAt[c] # "done"}
-----------------------------------------------------------------------------
(* parent_work; the parent ignores SIGUSR1 *)

SendUsr1 == /\ blockParentAt = "send"
            /\ sent < MaxSignals
            /\ sent' = sent + 1
            /\ usr1Waiting' = LiveKids
            /\ UNCHANGED <<blockParentAt, kidVars>>

AllSent == /\ blockParentAt = "send"
           /\ sent = MaxSignals
           /\ blockParentAt' = "wait"
           /\ UNCHANGED <<sent, kidVars, usr1Waiting>>

BlockParentExits == /\ blockParentAt = "wait"
                    /\ LiveKids = {}
                    /\ blockParentAt' = "exited"
                    /\ UNCHANGED <<sent, kidVars, usr1Waiting>>
-----------------------------------------------------------------------------
(* The handlers of a child; they end its sigsuspend. *)

Handler(c) == /\ c \in LiveKids
              /\ blockAt' = [blockAt EXCEPT ![c] = IF @ = "suspended" THEN "loop" ELSE @]
              /\ UNCHANGED <<blockParentAt, sent, loadedCount>>

HandleUsr1(c) == /\ Handler(c)
                 /\ c \in usr1Waiting
                 /\ usr1Waiting' = usr1Waiting \ {c}
                 /\ sigCount' = [sigCount EXCEPT ![c] = @ + 1]
                 /\ UNCHANGED <<gotAlarm, alarmSet>>

(* Mutant: the handler only ends sigsuspend. *)
HandleAlarmOnly(c) == /\ Handler(c)
                      /\ c \in alarmSet
                      /\ alarmSet' = alarmSet \ {c}
                      /\ UNCHANGED <<gotAlarm, sigCount, usr1Waiting>>

HandleAlarm(c) == /\ Handler(c)
                  /\ c \in alarmSet
                  /\ alarmSet' = alarmSet \ {c}
                  /\ gotAlarm' = [gotAlarm EXCEPT ![c] = TRUE]
                  /\ UNCHANGED <<sigCount, usr1Waiting>>
-----------------------------------------------------------------------------
(* child_work *)

KidStep(c, from, to) == /\ blockAt[c] = from
                        /\ blockAt' = [blockAt EXCEPT ![c] = to]
                        /\ UNCHANGED <<blockParentAt, sent, gotAlarm, usr1Waiting>>

StartAlarm(c) == /\ KidStep(c, "start", "test")
                 /\ alarmSet' = alarmSet \cup {c}
                 /\ UNCHANGED <<sigCount, loadedCount>>

TestAlarm(c) == /\ KidStep(c, "test", IF gotAlarm[c] THEN "done" ELSE "suspend")
                /\ UNCHANGED <<sigCount, loadedCount, alarmSet>>

(* What has come since the test does not keep it awake. *)
Suspends(c) == /\ KidStep(c, "suspend", "suspended")
               /\ UNCHANGED <<sigCount, loadedCount, alarmSet>>

TestCount(c) == /\ KidStep(c, "loop", IF sigCount[c] > 0 THEN "write" ELSE "test")
                /\ UNCHANGED <<sigCount, loadedCount, alarmSet>>

(* bulk_write appends the block; sig_count-- reads sig_count ...           *)
WriteBlock(c) == /\ KidStep(c, "write", "store")
                 /\ loadedCount' = [loadedCount EXCEPT ![c] = sigCount[c]]
                 /\ UNCHANGED <<sigCount, alarmSet>>

(* ... and writes it back, over what the handler has counted meanwhile.    *)
CountDown(c) == /\ KidStep(c, "store", "loop")
                /\ sigCount' = [sigCount EXCEPT ![c] = loadedCount[c] - 1]
                /\ UNCHANGED <<loadedCount, alarmSet>>

BlockParent == SendUsr1 \/ AllSent \/ BlockParentExits
BlockKid(c) == StartAlarm(c) \/ TestAlarm(c) \/ Suspends(c) \/ TestCount(c)
               \/ WriteBlock(c) \/ CountDown(c)

BlockNext == \/ BlockParent
             \/ \E c \in BlockKids : BlockKid(c) \/ HandleUsr1(c) \/ HandleAlarm(c)

BlockFairness == /\ WF_blockVars(BlockParent)
                 /\ \A c \in BlockKids : /\ WF_blockVars(BlockKid(c))
                                         /\ WF_blockVars(HandleUsr1(c) \/ HandleAlarm(c))

BlockSpec == BlockInit /\ [][BlockNext]_blockVars /\ BlockFairness
-----------------------------------------------------------------------------
(* The alarm hit child c between its last test of got_alarm and sigsuspend *)
(* (etap4.c:79-80), and no other signal comes.                             *)
MissedAlarm(c) == blockAt[c] = "suspended" /\ gotAlarm[c] /\ c \notin usr1Waiting

(* When the parent has sent its signals all children end, except those     *)
(* that have missed their alarm (etap4.c:78-86, 93-102).                   *)
BlockOutcome == blockParentAt = "wait" ~> \/ blockParentAt = "exited"
                                          \/ \E c \in BlockKids : MissedAlarm(c)
=============================================================================
