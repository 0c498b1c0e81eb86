---------------------------- MODULE SignalCounter ----------------------------
(***************************************************************************)
(* SOP1/Lab2_tutorial/prog15.c: the child sends its parent p SIGUSR1 and   *)
(* then a SIGUSR2, for ever; the parent counts SIGUSR2 in its handler and  *)
(* prints when the count has changed.                                      *)
(*                                                                         *)
(* The parent blocks both signals except in sigsuspend; pending signals of *)
(* a kind merge.  SIGCHLD, which comes only if the child is killed, is     *)
(* left out.                                                               *)
(***************************************************************************)
EXTENDS Naturals

CONSTANTS Usr1PerUsr2,    \* p
          MaxUsr2         \* bound of the model: how many SIGUSR2 the child sends

ASSUME CounterAssumption == Usr1PerUsr2 \in Nat \ {0} /\ MaxUsr2 \in Nat

VARIABLES sigParentAt,      \* next step of parent_work
          usr2Count,      \* sigusr2_count
          printedCount,   \* printed_count
          shownCount,     \* the last number the parent has printed
          usrPending,     \* signals pending for the parent
          burst,          \* the child's i
          usr2Sent        \* the child's count

counterVars == <<sigParentAt, usr2Count, printedCount, shownCount, usrPending, burst, usr2Sent>>

CounterTypeOK == /\ sigParentAt \in {"suspend", "suspended", "woken", "test", "print"}
                 /\ usr2Count \in 0 .. MaxUsr2
                 /\ printedCount \in 0 .. MaxUsr2
                 /\ shownCount \in 0 .. MaxUsr2
                 /\ usrPending \subseteq {"SIGUSR1", "SIGUSR2"}
                 /\ burst \in 0 .. Usr1PerUsr2
                 /\ usr2Sent \in 0 .. MaxUsr2

CounterInit == /\ sigParentAt = "suspend"
               /\ usr2Count = 0
               /\ printedCount = 0
               /\ shownCount = 0
               /\ usrPending = {}
               /\ burst = 0
               /\ usr2Sent = 0
-----------------------------------------------------------------------------
(* child_work *)

SendsUsr1 == /\ burst < Usr1PerUsr2
             /\ burst' = burst + 1
             /\ usrPending' = usrPending \cup {"SIGUSR1"}
             /\ UNCHANGED <<sigParentAt, usr2Count, printedCount, shownCount, usr2Sent>>

SendsUsr2 == /\ burst = Usr1PerUsr2
             /\ usr2Sent < MaxUsr2
             /\ burst' = 0
             /\ usr2Sent' = usr2Sent + 1
             /\ usrPending' = usrPending \cup {"SIGUSR2"}
             /\ UNCHANGED <<sigParentAt, usr2Count, printedCount, shownCount>>
-----------------------------------------------------------------------------
(* parent_work and sig_handler *)

(* Mutant: main does not block the signals. *)
DeliveredAlways == TRUE

(* Between sigsuspend's two changes of the mask. *)
Delivered == sigParentAt \in {"suspended", "woken"}

HandleSignal(s) == /\ s \in usrPending
                   /\ Delivered
                   /\ usrPending' = usrPending \ {s}
                   /\ usr2Count' = IF s = "SIGUSR2" THEN usr2Count + 1 ELSE usr2Count
                   /\ sigParentAt' = IF sigParentAt = "suspended" THEN "woken" ELSE sigParentAt
                   /\ UNCHANGED <<printedCount, shownCount, burst, usr2Sent>>

SigParentStep(from, to) == /\ sigParentAt = from
                         /\ sigParentAt' = to
                         /\ UNCHANGED <<usr2Count, usrPending, burst, usr2Sent>>

SigSuspend == SigParentStep("suspend", "suspended") /\ UNCHANGED <<printedCount, shownCount>>

SuspendReturns == SigParentStep("woken", "test") /\ UNCHANGED <<printedCount, shownCount>>

TestPrinted == /\ SigParentStep("test", IF printedCount # usr2Count THEN "print" ELSE "suspend")
               /\ UNCHANGED <<printedCount, shownCount>>

(* It prints the number of the time before. *)
PrintCount == /\ SigParentStep("print", "suspend")
              /\ shownCount' = printedCount
              /\ printedCount' = usr2Count

CounterNext == \/ SendsUsr1 \/ SendsUsr2 \/ SigSuspend \/ SuspendReturns \/ TestPrinted
               \/ PrintCount \/ \E s \in {"SIGUSR1", "SIGUSR2"} : HandleSignal(s)

CounterSpec == CounterInit /\ [][CounterNext]_counterVars
-----------------------------------------------------------------------------
(* Whenever the parent goes to sleep it has taken note of every SIGUSR2    *)
(* handled so far, however the signals fall, and it has counted no more    *)
(* than were sent (prog15.c:74-82, 114).                                   *)
CountNoted == sigParentAt = "suspended" =>
                 /\ printedCount = usr2Count
                 /\ usr2Count <= usr2Sent

(* When the parent waits again, the number it has shown last is the number *)
(* of SIGUSR2 received, which KODY-LAB2.txt:6 says it displays.  The code  *)
(* prints printed_count before it brings it up to date (prog15.c:80-81).   *)
ShownIsCount == sigParentAt = "suspended" => shownCount = usr2Count
=============================================================================
