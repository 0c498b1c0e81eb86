------------------------------ MODULE PipeStar ------------------------------
(***************************************************************************)
(* The star of Lab1_tutorial/tutorial/Zad2/etap2.c: on SIGINT the parent   *)
(* writes a character to one of its children, which sends a block of it    *)
(* back through the pipe R that all children share; a child survives a     *)
(* SIGINT with some luck.  The parent ends when no child has R open.       *)
(*                                                                         *)
(* A block is shorter than PIPE_BUF, and its header and data are read at   *)
(* one go.  Standard signals merge while they are pending.  What a SIGINT  *)
(* or a SIGCHLD does to the parent depends on where it hits: only a read   *)
(* that waits is interrupted.                                              *)
(***************************************************************************)
EXTENDS Naturals, Sequences

CONSTANTS Rays,           \* the children
          MaxSigints      \* bound of the model: how often Ctrl+C is pressed

ASSUME StarAssumption == MaxSigints \in Nat

VARIABLES rayPipe,        \* rayPipe[i]: characters in the pipe to child i
          blocksInR,      \* the children whose blocks are in R, oldest first
          rayAt,          \* rayAt[i]: next step of child i
          centerAt,       \* next step of the parent
          lastSignal,     \* last_signal is SIGINT
          sigintFor,      \* children for which a SIGINT is pending
          centerSignals,  \* signals pending for the parent
          sigints         \* how often Ctrl+C was pressed

signalVars == <<lastSignal, sigintFor, centerSignals, sigints>>
starVars == <<rayPipe, blocksInR, rayAt, centerAt, signalVars>>

StarTypeOK == /\ rayPipe \in [Rays -> 0 .. MaxSigints]
              /\ blocksInR \in Seq(Rays)
              /\ rayAt \in [Rays -> {"read", "write", "gone"}]
              /\ centerAt \in {"test", "read", "eintr", "killed", "closed"}
              /\ lastSignal \in BOOLEAN
              /\ sigintFor \subseteq Rays
              /\ centerSignals \subseteq {"SIGINT", "SIGCHLD"}
              /\ sigints \in 0 .. MaxSigints

StarInit == /\ rayPipe = [i \in Rays |-> 0]
            /\ blocksInR = <<>>
            /\ rayAt = [i \in Rays |-> "read"]
            /\ centerAt = "test"
            /\ lastSignal = FALSE
            /\ sigintFor = {}
            /\ centerSignals = {}
            /\ sigints = 0

Alive(i) == rayAt[i] # "gone"
CenterRuns == centerAt \in {"test", "read", "eintr"}

(* The terminal sends SIGINT to the whole group. *)
PressStarSigint == /\ CenterRuns
                   /\ sigints < MaxSigints
                   /\ sigints' = sigints + 1
                   /\ sigintFor' = sigintFor \cup {i \in Rays : Alive(i)}
                   /\ centerSignals' = centerSignals \cup {"SIGINT"}
                   /\ UNCHANGED <<rayPipe, blocksInR, rayAt, centerAt, lastSignal>>
-----------------------------------------------------------------------------
(* child_work and sig_killme.  When the parent is gone, the end of the     *)
(* children's pipes kills the group: they take no more steps.              *)

RayStep(i, from, to) == /\ CenterRuns
                        /\ rayAt[i] = from
                        /\ rayAt' = [rayAt EXCEPT ![i] = to]
                        /\ UNCHANGED <<centerAt, signalVars>>

RayReads(i) == /\ RayStep(i, "read", "write")
               /\ rayPipe[i] > 0
               /\ rayPipe' = [rayPipe EXCEPT ![i] = @ - 1]
               /\ UNCHANGED blocksInR

RayWrites(i) == /\ RayStep(i, "write", "read")
                /\ blocksInR' = Append(blocksInR, i)
                /\ UNCHANGED rayPipe

RaySurvives(i) == /\ CenterRuns
                  /\ i \in sigintFor
                  /\ sigintFor' = sigintFor \ {i}
                  /\ UNCHANGED <<rayPipe, blocksInR, rayAt, centerAt, lastSignal,
                                 centerSignals, sigints>>

(* exit in the handler, between any two steps; SIGCHLD goes to the parent. *)
RayDies(i) == /\ CenterRuns
              /\ i \in sigintFor
              /\ sigintFor' = sigintFor \ {i}
              /\ rayAt' = [rayAt EXCEPT ![i] = "gone"]
              /\ centerSignals' = centerSignals \cup {"SIGCHLD"}
              /\ UNCHANGED <<rayPipe, blocksInR, centerAt, lastSignal, sigints>>
-----------------------------------------------------------------------------
(* parent_work, sig_handler and sigchld_handler *)

CenterStep(from, to) == /\ centerAt = from
                        /\ centerAt' = to
                        /\ UNCHANGED <<rayAt, sigintFor, centerSignals, sigints>>

(* A handler runs between two steps, or interrupts a read that waits.  The *)
(* last waitpid of sigchld_handler leaves ECHILD in errno when no child is *)
(* left: between the interrupted read and its test this replaces EINTR and *)
(* ERR kills the group.                                                    *)
AfterHandler(s) == CASE centerAt = "read" -> {"read", "eintr"}
                     [] /\ centerAt = "eintr"
                        /\ s = "SIGCHLD"
                        /\ \A i \in Rays : ~Alive(i) -> {"killed"}
                     [] OTHER -> {centerAt}

CenterHandles == /\ CenterRuns
                 /\ \E s \in centerSignals :
                       /\ centerSignals' = centerSignals \ {s}
                       /\ lastSignal' = (lastSignal \/ s = "SIGINT")
                       /\ centerAt' \in AfterHandler(s)
                 /\ UNCHANGED <<rayPipe, blocksInR, rayAt, sigintFor, sigints>>

ReadInterrupted == /\ CenterStep("eintr", "test")
                   /\ UNCHANGED <<rayPipe, blocksInR, lastSignal>>

NoSigint == /\ CenterStep("test", "read")
            /\ ~lastSignal
            /\ UNCHANGED <<rayPipe, blocksInR, lastSignal>>

(* One of the children gets a character. *)
WriteToRay == /\ CenterStep("test", "read")
              /\ lastSignal
              /\ lastSignal' = FALSE
              /\ \E i \in Rays : /\ Alive(i)
                                 /\ rayPipe' = [rayPipe EXCEPT ![i] = @ + 1]
              /\ UNCHANGED blocksInR

(* The child is gone: SIGPIPE, which is not handled, kills the parent      *)
(* before it can close the descriptor, so no descriptor ever becomes 0.    *)
WriteToGoneRay == /\ CenterStep("test", "killed")
                  /\ lastSignal
                  /\ \E i \in Rays : ~Alive(i)
                  /\ UNCHANGED <<rayPipe, blocksInR, lastSignal>>

ReadBlock == /\ CenterStep("read", "test")
             /\ blocksInR # <<>>
             /\ blocksInR' = Tail(blocksInR)
             /\ UNCHANGED <<rayPipe, lastSignal>>

(* Mutant: the parent keeps its own writing end of R open. *)
NeverEndOfR == FALSE /\ UNCHANGED starVars

(* read returns 0: R is empty and no process has its writing end open. *)
EndOfR == /\ CenterStep("read", "closed")
          /\ blocksInR = <<>>
          /\ \A i \in Rays : ~Alive(i)
          /\ UNCHANGED <<rayPipe, blocksInR, lastSignal>>

Ray(i) == RayReads(i) \/ RayWrites(i)
RayHandles(i) == RaySurvives(i) \/ RayDies(i)
Center == ReadInterrupted \/ NoSigint \/ WriteToRay \/ WriteToGoneRay \/ ReadBlock \/ EndOfR

StarNext == \/ Center \/ CenterHandles \/ PressStarSigint
            \/ \E i \in Rays : Ray(i) \/ RayHandles(i)

StarSpec == StarInit /\ [][StarNext]_starVars
-----------------------------------------------------------------------------
(* When the last child is gone, the parent ends: whatever it was doing, it *)
(* finds R at its end or dies of SIGPIPE, and waits for nobody             *)
(* (etap2.c:104-110, 142-145, 189).                                        *)
StarEnds == (\A i \in Rays : ~Alive(i)) ~> ~CenterRuns
=============================================================================
