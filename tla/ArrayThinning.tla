---------------------------- MODULE ArrayThinning ----------------------------
(***************************************************************************)
(* The array of SOP1/Lab3_tutorial/prog19.c: a thread that waits for       *)
(* signals removes an item on SIGINT and raises the quit flag on SIGQUIT,  *)
(* main prints the items that are left again and again.                    *)
(*                                                                         *)
(* remaining stands for the cells that do not hold DELETED_ITEM.  Printing *)
(* reads cell after cell; a removal walks to its cell and deletes it, one  *)
(* step under the mutex.  The quit flag's critical sections have a single  *)
(* access.  Both signals are blocked everywhere and taken by sigwait.      *)
(***************************************************************************)
EXTENDS Naturals, FiniteSets

CONSTANTS ArraySize       \* argv[1]

ASSUME ArraySizeAssumption == ArraySize \in Nat \ {0}

VARIABLES remaining,
          arrayCount,
          mxArray,        \* owner of the mutex: "main", "keeper" or "free"
          arrayQuit,      \* quitFlag
          arraySignals,   \* pending signals
          keeperAt,       \* next step of the signal thread
          printerAt,      \* next step of main
          cell,           \* main's i in printArray
          printed         \* the cells main has printed since it holds the mutex

keeperVars == <<arraySignals, keeperAt>>
printerVars == <<printerAt, cell, printed>>
arrayVars == <<remaining, arrayCount, mxArray, arrayQuit, keeperVars, printerVars>>

Cells == 1 .. ArraySize

ArrayTypeOK == /\ remaining \subseteq Cells
               /\ arrayCount \in 0 .. ArraySize
               /\ mxArray \in {"main", "keeper", "free"}
               /\ arrayQuit \in BOOLEAN
               /\ arraySignals \subseteq {"SIGINT", "SIGQUIT"}
               /\ keeperAt \in {"sigwait", "lock", "remove", "unlock", "quit", "ended"}
               /\ printerAt \in {"check", "lock", "print", "unlock", "join", "exited"}
               /\ cell \in 1 .. ArraySize + 1
               /\ printed \subseteq Cells

ArrayInit == /\ remaining = Cells
             /\ arrayCount = ArraySize
             /\ mxArray = "free"
             /\ arrayQuit = FALSE
             /\ arraySignals = {}
             /\ keeperAt = "sigwait"
             /\ printerAt = "check"
             /\ cell = 1
             /\ printed = {}

(* The user presses Ctrl+C or Ctrl+\; a pending signal absorbs another. *)
RaiseArraySignal == /\ printerAt # "exited"
                    /\ \E s \in {"SIGINT", "SIGQUIT"} : arraySignals' = arraySignals \cup {s}
                    /\ UNCHANGED <<remaining, arrayCount, mxArray, arrayQuit, keeperAt,
                                   printerVars>>
-----------------------------------------------------------------------------
(* signal_handling *)

KeeperStep(from, to) == keeperAt = from /\ keeperAt' = to /\ UNCHANGED printerVars

KeeperTakes(s, to) == /\ KeeperStep("sigwait", to)
                      /\ s \in arraySignals
                      /\ arraySignals' = arraySignals \ {s}
                      /\ UNCHANGED <<remaining, arrayCount, mxArray, arrayQuit>>

(* Mutant: the removal does not take the mutex. *)
KeeperSkipsLock == /\ KeeperStep("lock", "remove")
                   /\ UNCHANGED <<remaining, arrayCount, mxArray, arrayQuit, arraySignals>>

KeeperLocks == /\ KeeperStep("lock", "remove")
               /\ mxArray = "free"
               /\ mxArray' = "keeper"
               /\ UNCHANGED <<remaining, arrayCount, arrayQuit, arraySignals>>

(* removeItem with any index below arrayCount: any remaining cell. *)
RemoveItem == /\ KeeperStep("remove", "unlock")
              /\ arrayCount > 0
              /\ \E i \in remaining : remaining' = remaining \ {i}
              /\ arrayCount' = arrayCount - 1
              /\ UNCHANGED <<mxArray, arrayQuit, arraySignals>>

NothingToRemove == /\ KeeperStep("remove", "unlock")
                   /\ arrayCount = 0
                   /\ UNCHANGED <<remaining, arrayCount, mxArray, arrayQuit, arraySignals>>

KeeperUnlocks == /\ KeeperStep("unlock", "sigwait")
                 /\ mxArray' = "free"
                 /\ UNCHANGED <<remaining, arrayCount, arrayQuit, arraySignals>>

KeeperQuits == /\ KeeperStep("quit", "ended")
               /\ arrayQuit' = TRUE
               /\ UNCHANGED <<remaining, arrayCount, mxArray, arraySignals>>
-----------------------------------------------------------------------------
(* main and printArray *)

PrinterStep(from, to) == /\ printerAt = from
                         /\ printerAt' = to
                         /\ UNCHANGED <<remaining, arrayCount, arrayQuit, keeperVars>>

PrinterGoesOn == /\ PrinterStep("check", "lock")
                 /\ ~arrayQuit
                 /\ UNCHANGED <<mxArray, cell, printed>>

PrinterLocks == /\ PrinterStep("lock", "print")
                /\ mxArray = "free"
                /\ mxArray' = "main"
                /\ cell' = 1
                /\ printed' = {}

PrintCell == /\ PrinterStep("print", "print")
             /\ cell <= ArraySize
             /\ printed' = IF cell \in remaining THEN printed \cup {cell} ELSE printed
             /\ cell' = cell + 1
             /\ UNCHANGED mxArray

Printed == /\ PrinterStep("print", "unlock")
           /\ cell > ArraySize
           /\ UNCHANGED <<mxArray, cell, printed>>

PrinterUnlocks == /\ PrinterStep("unlock", "check")
                  /\ mxArray' = "free"
                  /\ UNCHANGED <<cell, printed>>

PrinterStops == /\ PrinterStep("check", "join")
                /\ arrayQuit
                /\ UNCHANGED <<mxArray, cell, printed>>

PrinterExits == /\ PrinterStep("join", "exited")
                /\ keeperAt = "ended"
                /\ UNCHANGED <<mxArray, cell, printed>>

Keeper == \/ KeeperTakes("SIGINT", "lock") \/ KeeperTakes("SIGQUIT", "quit")
          \/ KeeperLocks \/ RemoveItem \/ NothingToRemove \/ KeeperUnlocks \/ KeeperQuits
Printer == \/ PrinterGoesOn \/ PrinterLocks \/ PrintCell \/ Printed \/ PrinterUnlocks
           \/ PrinterStops \/ PrinterExits

ArrayNext == Keeper \/ Printer \/ RaiseArraySignal

ArraySpec == ArrayInit /\ [][ArrayNext]_arrayVars
-----------------------------------------------------------------------------
(* A printed line is the array as it was at one moment, and it has as many *)
(* items as arrayCount says: no removal comes between two cells of         *)
(* printArray (prog19.c:77-79) or of removeItem (142-145).                 *)
PrintIsSnapshot == printerAt = "unlock" => /\ printed = remaining
                                           /\ Cardinality(printed) = arrayCount
=============================================================================
