------------------------------ MODULE FileParts ------------------------------
(***************************************************************************)
(* The file splitter of SOP1/Lab2_workshop/src/sop-l2.c: the parent reads  *)
(* the file in n parts and forks a child for each; the children wait for   *)
(* SIGUSR1 and write their parts; SIGINT stops them early.                 *)
(*                                                                         *)
(* A part is the range of positions it has in the file; the change of the  *)
(* letters' case is left out.  A read may return less than was asked for.  *)
(* SIGUSR1 is blocked except in sigsuspend.  The model starts when the     *)
(* handlers are set; a system call that fails kills the group and is left  *)
(* out.                                                                    *)
(***************************************************************************)
EXTENDS Naturals

CONSTANTS PartCount,      \* n
          FileSize,       \* file_size
          MaxCtrlC        \* bound of the model: how often Ctrl+C is pressed

ASSUME PartsAssumption == PartCount \in Nat \ {0} /\ FileSize \in Nat /\ MaxCtrlC \in Nat

VARIABLES fileOffset,     \* offset of the open file
          partLen,        \* len of the bulk_read that runs
          partFrom,       \* partFrom[i]: the positions of the file before part i
          partTo,         \* partTo[i]: the last position of part i
          partAt,         \* partAt[i]: next step of child i
          gotSigint,      \* gotSigint[i]: got_sigint of child i, at 0 of the parent
          partWritten,    \* partWritten[i]: characters in the file of child i
          splitterAt,     \* next step of the parent
          onSigint,       \* what SIGINT does to the parent
          nextPart,       \* the parent's i
          usr1Pending, intPending,   \* processes with the signal pending
          ctrlC           \* how often Ctrl+C was pressed

inputVars == <<fileOffset, partLen, nextPart>>
writerVars == <<partAt, gotSigint, partWritten>>
partVars == <<inputVars, writerVars, partFrom, partTo, splitterAt, onSigint,
              usr1Pending, intPending, ctrlC>>

Parts == 1 .. PartCount
Splitter == 0

PartsTypeOK == /\ fileOffset \in 0 .. FileSize
               /\ partLen \in 0 .. FileSize + 1
               /\ partFrom \in [Parts -> 0 .. FileSize]
               /\ partTo \in [Parts -> 0 .. FileSize]
               /\ partAt \in [Parts -> {"unborn", "start", "suspended", "write", "done"}]
               /\ gotSigint \in [{Splitter} \cup Parts -> BOOLEAN]
               /\ partWritten \in [Parts -> 0 .. FileSize]
               /\ splitterAt \in {"read", "fork", "unblock", "kill", "wait", "killed", "exited"}
               /\ onSigint \in {"flag", "pass_on", "default"}
               /\ nextPart \in 1 .. PartCount + 1
               /\ usr1Pending \subseteq Parts
               /\ intPending \subseteq {Splitter} \cup Parts
               /\ ctrlC \in 0 .. MaxCtrlC

PartsInit == /\ fileOffset = 0
             /\ partLen = 0
             /\ partFrom = [i \in Parts |-> 0]
             /\ partTo = [i \in Parts |-> 0]
             /\ partAt = [i \in Parts |-> "unborn"]
             /\ gotSigint = [p \in {Splitter} \cup Parts |-> FALSE]
             /\ partWritten = [i \in Parts |-> 0]
             /\ splitterAt = "read"
             /\ onSigint = "flag"
             /\ nextPart = 1
             /\ usr1Pending = {}
             /\ intPending = {}
             /\ ctrlC = 0

Writing == {i \in Parts : partAt[i] \notin {"unborn", "done"}}
SplitterRuns == splitterAt \notin {"killed", "exited"}

(* The terminal sends SIGINT to the whole group. *)
PressCtrlC == /\ SplitterRuns
              /\ ctrlC < MaxCtrlC
              /\ ctrlC' = ctrlC + 1
              /\ intPending' = intPending \cup Writing \cup {Splitter}
              /\ UNCHANGED <<inputVars, writerVars, partFrom, partTo, splitterAt, onSigint,
                             usr1Pending>>
-----------------------------------------------------------------------------
(* main: bulk_read and the forks *)

(* Mutant: the part that the division leaves is read by nobody. *)
EvenBufSize == FileSize \div PartCount

BufSize == FileSize \div PartCount + 1

SplitterStep(from, to) == /\ splitterAt = from
                          /\ splitterAt' = to
                          /\ UNCHANGED <<intPending, ctrlC>>

ReadPiece == /\ SplitterStep("read", "read")
             /\ partLen < BufSize
             /\ \E c \in 1 .. BufSize - partLen :
                   /\ fileOffset + c <= FileSize
                   /\ fileOffset' = fileOffset + c
                   /\ partLen' = partLen + c
             /\ UNCHANGED <<nextPart, writerVars, partFrom, partTo, onSigint, usr1Pending>>

PartRead == /\ SplitterStep("read", "fork")
            /\ partLen = BufSize \/ fileOffset = FileSize
            /\ UNCHANGED <<inputVars, writerVars, partFrom, partTo, onSigint, usr1Pending>>

(* The child has the parent's buffer, mask, handlers and got_sigint. *)
ForkPart == /\ SplitterStep("fork", IF nextPart = PartCount THEN "unblock" ELSE "read")
            /\ partFrom' = [partFrom EXCEPT ![nextPart] = fileOffset - partLen]
            /\ partTo' = [partTo EXCEPT ![nextPart] = fileOffset]
            /\ partAt' = [partAt EXCEPT ![nextPart] = "start"]
            /\ gotSigint' = [gotSigint EXCEPT ![nextPart] = gotSigint[Splitter]]
            /\ partLen' = 0
            /\ nextPart' = nextPart + 1
            /\ UNCHANGED <<fileOffset, partWritten, onSigint, usr1Pending>>

UnblockUsr1 == /\ SplitterStep("unblock", "kill")
               /\ onSigint' = "pass_on"
               /\ UNCHANGED <<inputVars, writerVars, partFrom, partTo, usr1Pending>>

KillUsr1 == /\ SplitterStep("kill", "wait")
            /\ usr1Pending' = usr1Pending \cup Writing
            /\ UNCHANGED <<inputVars, writerVars, partFrom, partTo, onSigint>>

WaitForParts == /\ SplitterStep("wait", "exited")
                /\ Writing = {}
                /\ UNCHANGED <<inputVars, writerVars, partFrom, partTo, onSigint, usr1Pending>>
-----------------------------------------------------------------------------
(* SIGINT in the parent: at first it has the children's handler, then      *)
(* parent_sigint_handler, which sends SIGINT on and resets itself.         *)

SplitterSigint == SplitterRuns /\ Splitter \in intPending

SplitterFlags == /\ SplitterSigint
                 /\ onSigint = "flag"
                 /\ intPending' = intPending \ {Splitter}
                 /\ gotSigint' = [gotSigint EXCEPT ![Splitter] = TRUE]
                 /\ UNCHANGED <<inputVars, partAt, partWritten, partFrom, partTo, splitterAt,
                                onSigint, usr1Pending, ctrlC>>

SplitterPassesOn == /\ SplitterSigint
                    /\ onSigint = "pass_on"
                    /\ intPending' = (intPending \ {Splitter}) \cup Writing
                    /\ onSigint' = "default"
                    /\ UNCHANGED <<inputVars, writerVars, partFrom, partTo, splitterAt,
                                   usr1Pending, ctrlC>>

SplitterKilled == /\ SplitterSigint
                  /\ onSigint = "default"
                  /\ intPending' = intPending \ {Splitter}
                  /\ splitterAt' = "killed"
                  /\ UNCHANGED <<inputVars, writerVars, partFrom, partTo, onSigint,
                                 usr1Pending, ctrlC>>
-----------------------------------------------------------------------------
(* child_work *)

PartStep(i, from, to) == /\ partAt[i] = from
                         /\ partAt' = [partAt EXCEPT ![i] = to]
                         /\ UNCHANGED <<inputVars, partFrom, partTo, splitterAt, onSigint,
                                        intPending, ctrlC>>

(* Mutant: SIGUSR1 is not blocked before sigsuspend. *)
SuspendUnblocked(i) == /\ PartStep(i, "start", "suspended")
                       /\ usr1Pending' = usr1Pending \ {i}
                       /\ UNCHANGED <<gotSigint, partWritten>>

Suspend(i) == /\ PartStep(i, "start", "suspended")
              /\ UNCHANGED <<gotSigint, partWritten, usr1Pending>>

StartWriting(i) == /\ PartStep(i, "suspended", "write")
                   /\ i \in usr1Pending
                   /\ usr1Pending' = usr1Pending \ {i}
                   /\ UNCHANGED <<gotSigint, partWritten>>

(* The handler sets got_sigint; it ends sigsuspend too. *)
PartInterrupted(i) == /\ i \in intPending
                      /\ i \in Writing
                      /\ intPending' = intPending \ {i}
                      /\ gotSigint' = [gotSigint EXCEPT ![i] = TRUE]
                      /\ partAt' = [partAt EXCEPT ![i] = IF @ = "suspended" THEN "write" ELSE @]
                      /\ UNCHANGED <<inputVars, partWritten, partFrom, partTo, splitterAt,
                                     onSigint, usr1Pending, ctrlC>>

WriteCharacter(i) == /\ PartStep(i, "write", "write")
                     /\ partWritten[i] < partTo[i] - partFrom[i]
                     /\ ~gotSigint[i]
                     /\ partWritten' = [partWritten EXCEPT ![i] = @ + 1]
                     /\ UNCHANGED <<gotSigint, usr1Pending>>

PartDone(i) == /\ PartStep(i, "write", "done")
               /\ partWritten[i] = partTo[i] - partFrom[i] \/ gotSigint[i]
               /\ UNCHANGED <<gotSigint, partWritten, usr1Pending>>

Split == ReadPiece \/ PartRead \/ ForkPart \/ UnblockUsr1 \/ KillUsr1 \/ WaitForParts
SplitterHandles == SplitterFlags \/ SplitterPassesOn \/ SplitterKilled
WritePart(i) == Suspend(i) \/ StartWriting(i) \/ WriteCharacter(i) \/ PartDone(i)

PartsNext == \/ Split \/ SplitterHandles \/ PressCtrlC
             \/ \E i \in Parts : WritePart(i) \/ PartInterrupted(i)

PartsSpec == PartsInit /\ [][PartsNext]_partVars
-----------------------------------------------------------------------------
(* Without Ctrl+C, when the parent has waited for all: every character of  *)
(* the file is in one part and written once, however the reads are cut     *)
(* (sop-l2.c:16-32, 108-120, 151-181).                                     *)
PartsAreTheFile == splitterAt = "exited" /\ ctrlC = 0 =>
                      /\ \A i \in Parts : partWritten[i] = partTo[i] - partFrom[i]
                      /\ \A p \in 1 .. FileSize :
                            \E i \in Parts : \A j \in Parts :
                               (partFrom[j] < p /\ p <= partTo[j]) <=> j = i

(* Nobody is left to wake child i: it took SIGINT before sigsuspend, and   *)
(* a further Ctrl+C killed the parent before it sent SIGUSR1.              *)
LeftSuspended(i) == /\ partAt[i] = "suspended"
                    /\ gotSigint[i]
                    /\ i \notin usr1Pending \cup intPending
                    /\ splitterAt = "killed"
                    /\ ctrlC > 1

(* The parent and all children end: SIGUSR1 reaches every child, also one  *)
(* that has not got to sigsuspend yet, and SIGINT wakes a child as well.   *)
(* The one exception, which takes two Ctrl+C, is a child that has missed   *)
(* both signals (sop-l2.c:76-79, 94-98, 160-163, 183-189).                 *)
SplitEnds == splitterAt = "kill" ~>
                /\ ~SplitterRuns
                /\ \A i \in Parts : partAt[i] = "done" \/ LeftSuspended(i)
=============================================================================
