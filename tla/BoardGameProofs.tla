-------------------------- MODULE BoardGameProofs --------------------------
(***************************************************************************)
(* For any number of clients and fields: the types, that a field is not    *)
(* stale when it is cleared, that the robust mutex is never lost, and that *)
(* no point is lost or credited twice.                                     *)
(***************************************************************************)
EXTENDS BoardGame, FoldSums

HoldingSteps == {"repair", "roll", "read", "credit", "clear"}

(* Who is between lock and unlock owns the mutex. *)
HoldersOwn == /\ \A c \in alive : at[c] \in HoldingSteps => owner = c
              /\ mainAt \in {"repair", "show"} => owner = Server

(* An inconsistent mutex is in the hands of a dead client, or of somebody  *)
(* who has not repaired it yet.                                            *)
RepairPending == mxState = "inconsistent" =>
                    \/ owner \in Clients /\ (owner \notin alive \/ at[owner] = "repair")
                    \/ owner = Server /\ mainAt = "repair"

Inv == TypeOK /\ HoldersOwn /\ RepairPending /\ MutexRecoverable /\ FieldNotStale
-----------------------------------------------------------------------------
USE DEF ClientSteps, MainSteps, HandlerSteps, clientVars, serverVars

(* Every variable of the game has its type at the start. *)
LEMMA InitTypeOK == Init => TypeOK
<1> SUFFICES ASSUME Init PROVE TypeOK
  OBVIOUS
<1>1. board \in [Fields -> 0 .. 9]
  BY PointsAssumption DEF Init
<1>2. field \in [Clients -> Fields]
  BY PointsAssumption DEF Init
<1>3. /\ found \in [Clients -> 0 .. 9]
      /\ score \in [Clients -> Nat]
      /\ at \in [Clients -> ClientSteps]
  BY DEF Init
<1>4. /\ owner = Free
      /\ mxState = "consistent"
      /\ alive = Clients
  BY DEF Init
<1>5. /\ sigint = FALSE /\ running = TRUE
      /\ sigMutex = "free" /\ mainAt = "lock_flag" /\ handlerAt = "sigwait"
  BY DEF Init
<1> QED
  BY <1>1, <1>2, <1>3, <1>4, <1>5 DEF TypeOK

(* Every step keeps the types. *)
LEMMA TypeStep == TypeOK /\ [Next]_vars => TypeOK'
<1> SUFFICES ASSUME TypeOK, [Next]_vars
             PROVE  TypeOK'
  OBVIOUS
<1> USE DEF TypeOK
<1>1. ASSUME NEW c \in Clients, ClientNext(c) \/ Killed(c)
      PROVE  TypeOK'
  <2>1. CASE ClientLock(c)
    BY <2>1 DEF ClientLock, Proceed, Locks
  <2>2. CASE ClientInherits(c)
    BY <2>2 DEF ClientInherits, Proceed, Inherits, OwnerDied
  <2>3. CASE ClientLockFails(c)
    BY <2>3 DEF ClientLockFails, Proceed
  <2>4. CASE ClientRepair(c)
    BY <2>4 DEF ClientRepair, Proceed, MakeConsistent
  <2>5. CASE Oops(c)
    BY <2>5 DEF Oops
  <2>6. CASE ChooseField(c)
    BY <2>6 DEF ChooseField, Proceed
  <2>7. CASE ReadPoints(c)
    BY <2>7 DEF ReadPoints, Proceed
  <2>8. CASE GameOver(c)
    BY <2>8 DEF GameOver, Proceed, Unlocks
  <2>9. CASE CreditPoints(c)
    BY <2>9 DEF CreditPoints, Proceed
  <2>10. CASE ClearField(c)
    BY <2>10 DEF ClearField, Proceed, Unlocks
  <2>11. CASE Killed(c)
    BY <2>11 DEF Killed
  <2> QED
    BY <1>1, <2>1, <2>2, <2>3, <2>4, <2>5, <2>6, <2>7, <2>8, <2>9, <2>10, <2>11 DEF ClientNext
<1>2. CASE MainLocksFlag
  BY <1>2 DEF MainLocksFlag, MainProceeds
<1>3. CASE MainTestsFlag
  BY <1>3 DEF MainTestsFlag, MainProceeds
<1>4. CASE MainUnlocksFlag
  BY <1>4 DEF MainUnlocksFlag, MainProceeds
<1>5. CASE MainLocksBoard
  BY <1>5 DEF MainLocksBoard, MainProceeds, Locks
<1>6. CASE MainInherits
  BY <1>6 DEF MainInherits, MainProceeds, Inherits, OwnerDied
<1>7. CASE MainRepairs
  BY <1>7 DEF MainRepairs, MainProceeds, MakeConsistent
<1>8. CASE MainShows
  BY <1>8 DEF MainShows, MainProceeds, Unlocks
<1>9. CASE MainJoins
  BY <1>9 DEF MainJoins, MainProceeds
<1>10. CASE MainDestroys
  BY <1>10 DEF MainDestroys, MainProceeds
<1>11. CASE HandlerWakes
  BY <1>11 DEF HandlerWakes, HandlerProceeds
<1>12. CASE HandlerUnlocks
  BY <1>12 DEF HandlerUnlocks, HandlerProceeds
<1>13. CASE HandlerStops
  BY <1>13 DEF HandlerStops, HandlerProceeds
<1>14. CASE HandlerLocks
  BY <1>14 DEF HandlerLocks, HandlerProceeds
<1>15. CASE UserInterrupts
  BY <1>15 DEF UserInterrupts
<1>16. CASE UNCHANGED vars
  BY <1>16 DEF vars, serverVars, clientVars
<1> QED
  BY <1>1, <1>2, <1>3, <1>4, <1>5, <1>6, <1>7, <1>8, <1>9, <1>10, <1>11, <1>12, <1>13, <1>14, <1>15, <1>16 DEF Next, MainNext, HandlerNext

(* Mutual exclusion: the mutex is only taken when it is free or its owner dead. *)
LEMMA HoldersStep == TypeOK /\ HoldersOwn /\ [Next]_vars => HoldersOwn'
<1> SUFFICES ASSUME TypeOK /\ HoldersOwn, [Next]_vars
             PROVE  HoldersOwn'
  OBVIOUS
<1> USE DEF TypeOK, HoldersOwn, HoldingSteps
<1>1. ASSUME NEW c \in Clients, ClientNext(c) \/ Killed(c)
      PROVE  HoldersOwn'
  <2>1. CASE ClientLock(c)
    BY <2>1, ClientsAssumption DEF ClientLock, Proceed, Locks
  <2>2. CASE ClientInherits(c)
    BY <2>2, ClientsAssumption DEF ClientInherits, Proceed, Inherits, OwnerDied
  <2>3. CASE ClientLockFails(c)
    BY <2>3 DEF ClientLockFails, Proceed
  <2>4. CASE ClientRepair(c)
    BY <2>4 DEF ClientRepair, Proceed, MakeConsistent
  <2>5. CASE Oops(c)
    BY <2>5 DEF Oops
  <2>6. CASE ChooseField(c)
    BY <2>6 DEF ChooseField, Proceed
  <2>7. CASE ReadPoints(c)
    BY <2>7 DEF ReadPoints, Proceed
  <2>8. CASE GameOver(c)
    BY <2>8, ClientsAssumption DEF GameOver, Proceed, Unlocks
  <2>9. CASE CreditPoints(c)
    BY <2>9 DEF CreditPoints, Proceed
  <2>10. CASE ClearField(c)
    BY <2>10, ClientsAssumption DEF ClearField, Proceed, Unlocks
  <2>11. CASE Killed(c)
    BY <2>11 DEF Killed
  <2> QED
    BY <1>1, <2>1, <2>2, <2>3, <2>4, <2>5, <2>6, <2>7, <2>8, <2>9, <2>10, <2>11 DEF ClientNext
<1>2. CASE MainLocksFlag
  BY <1>2 DEF MainLocksFlag, MainProceeds
<1>3. CASE MainTestsFlag
  BY <1>3 DEF MainTestsFlag, MainProceeds
<1>4. CASE MainUnlocksFlag
  BY <1>4 DEF MainUnlocksFlag, MainProceeds
<1>5. CASE MainLocksBoard
  BY <1>5, ClientsAssumption DEF MainLocksBoard, MainProceeds, Locks
<1>6. CASE MainInherits
  BY <1>6 DEF MainInherits, MainProceeds, Inherits, OwnerDied
<1>7. CASE MainRepairs
  BY <1>7 DEF MainRepairs, MainProceeds, MakeConsistent
<1>8. CASE MainShows
  BY <1>8, ClientsAssumption DEF MainShows, MainProceeds, Unlocks
<1>9. CASE MainJoins
  BY <1>9 DEF MainJoins, MainProceeds
<1>10. CASE MainDestroys
  BY <1>10 DEF MainDestroys, MainProceeds
<1>11. CASE HandlerWakes
  BY <1>11 DEF HandlerWakes, HandlerProceeds
<1>12. CASE HandlerUnlocks
  BY <1>12 DEF HandlerUnlocks, HandlerProceeds
<1>13. CASE HandlerStops
  BY <1>13 DEF HandlerStops, HandlerProceeds
<1>14. CASE HandlerLocks
  BY <1>14 DEF HandlerLocks, HandlerProceeds
<1>15. CASE UserInterrupts
  BY <1>15 DEF UserInterrupts
<1>16. CASE UNCHANGED vars
  BY <1>16 DEF vars, serverVars, clientVars
<1> QED
  BY <1>1, <1>2, <1>3, <1>4, <1>5, <1>6, <1>7, <1>8, <1>9, <1>10, <1>11, <1>12, <1>13, <1>14, <1>15, <1>16 DEF Next, MainNext, HandlerNext

(* Whoever gets EOWNERDEAD repairs the mutex before it is unlocked. *)
LEMMA RepairStep == TypeOK /\ HoldersOwn /\ RepairPending /\ [Next]_vars => RepairPending'
<1> SUFFICES ASSUME TypeOK /\ HoldersOwn /\ RepairPending, [Next]_vars
             PROVE  RepairPending'
  OBVIOUS
<1> USE DEF TypeOK, HoldersOwn, HoldingSteps, RepairPending
<1>1. ASSUME NEW c \in Clients, ClientNext(c) \/ Killed(c)
      PROVE  RepairPending'
  <2>1. CASE ClientLock(c)
    BY <2>1, ClientsAssumption DEF ClientLock, Proceed, Locks
  <2>2. CASE ClientInherits(c)
    BY <2>2 DEF ClientInherits, Proceed, Inherits, OwnerDied
  <2>3. CASE ClientLockFails(c)
    BY <2>3 DEF ClientLockFails, Proceed
  <2>4. CASE ClientRepair(c)
    BY <2>4 DEF ClientRepair, Proceed, MakeConsistent
  <2>5. CASE Oops(c)
    BY <2>5 DEF Oops
  <2>6. CASE ChooseField(c)
    BY <2>6 DEF ChooseField, Proceed
  <2>7. CASE ReadPoints(c)
    BY <2>7 DEF ReadPoints, Proceed
  <2>8. CASE GameOver(c)
    BY <2>8 DEF GameOver, Proceed, Unlocks
  <2>9. CASE CreditPoints(c)
    BY <2>9 DEF CreditPoints, Proceed
  <2>10. CASE ClearField(c)
    BY <2>10 DEF ClearField, Proceed, Unlocks
  <2>11. CASE Killed(c)
    BY <2>11 DEF Killed
  <2> QED
    BY <1>1, <2>1, <2>2, <2>3, <2>4, <2>5, <2>6, <2>7, <2>8, <2>9, <2>10, <2>11 DEF ClientNext
<1>2. CASE MainLocksFlag
  BY <1>2 DEF MainLocksFlag, MainProceeds
<1>3. CASE MainTestsFlag
  BY <1>3 DEF MainTestsFlag, MainProceeds
<1>4. CASE MainUnlocksFlag
  BY <1>4 DEF MainUnlocksFlag, MainProceeds
<1>5. CASE MainLocksBoard
  BY <1>5, ClientsAssumption DEF MainLocksBoard, MainProceeds, Locks
<1>6. CASE MainInherits
  BY <1>6 DEF MainInherits, MainProceeds, Inherits, OwnerDied
<1>7. CASE MainRepairs
  BY <1>7 DEF MainRepairs, MainProceeds, MakeConsistent
<1>8. CASE MainShows
  BY <1>8 DEF MainShows, MainProceeds, Unlocks
<1>9. CASE MainJoins
  BY <1>9 DEF MainJoins, MainProceeds
<1>10. CASE MainDestroys
  BY <1>10 DEF MainDestroys, MainProceeds
<1>11. CASE HandlerWakes
  BY <1>11 DEF HandlerWakes, HandlerProceeds
<1>12. CASE HandlerUnlocks
  BY <1>12 DEF HandlerUnlocks, HandlerProceeds
<1>13. CASE HandlerStops
  BY <1>13 DEF HandlerStops, HandlerProceeds
<1>14. CASE HandlerLocks
  BY <1>14 DEF HandlerLocks, HandlerProceeds
<1>15. CASE UserInterrupts
  BY <1>15 DEF UserInterrupts
<1>16. CASE UNCHANGED vars
  BY <1>16 DEF vars, serverVars, clientVars
<1> QED
  BY <1>1, <1>2, <1>3, <1>4, <1>5, <1>6, <1>7, <1>8, <1>9, <1>10, <1>11, <1>12, <1>13, <1>14, <1>15, <1>16 DEF Next, MainNext, HandlerNext

(* So the mutex is never unlocked while it is inconsistent. *)
LEMMA RecoverableStep == TypeOK /\ HoldersOwn /\ RepairPending /\ MutexRecoverable /\ [Next]_vars => MutexRecoverable'
<1> SUFFICES ASSUME TypeOK /\ HoldersOwn /\ RepairPending /\ MutexRecoverable, [Next]_vars
             PROVE  MutexRecoverable'
  OBVIOUS
<1> USE DEF TypeOK, HoldersOwn, HoldingSteps, RepairPending, MutexRecoverable
<1>1. ASSUME NEW c \in Clients, ClientNext(c) \/ Killed(c)
      PROVE  MutexRecoverable'
  <2>1. CASE ClientLock(c)
    BY <2>1 DEF ClientLock, Proceed, Locks
  <2>2. CASE ClientInherits(c)
    BY <2>2 DEF ClientInherits, Proceed, Inherits, OwnerDied
  <2>3. CASE ClientLockFails(c)
    BY <2>3 DEF ClientLockFails, Proceed
  <2>4. CASE ClientRepair(c)
    BY <2>4 DEF ClientRepair, Proceed, MakeConsistent
  <2>5. CASE Oops(c)
    BY <2>5 DEF Oops
  <2>6. CASE ChooseField(c)
    BY <2>6 DEF ChooseField, Proceed
  <2>7. CASE ReadPoints(c)
    BY <2>7 DEF ReadPoints, Proceed
  <2>8. CASE GameOver(c)
    BY <2>8, ClientsAssumption DEF GameOver, Proceed, Unlocks
  <2>9. CASE CreditPoints(c)
    BY <2>9 DEF CreditPoints, Proceed
  <2>10. CASE ClearField(c)
    BY <2>10, ClientsAssumption DEF ClearField, Proceed, Unlocks
  <2>11. CASE Killed(c)
    BY <2>11 DEF Killed
  <2> QED
    BY <1>1, <2>1, <2>2, <2>3, <2>4, <2>5, <2>6, <2>7, <2>8, <2>9, <2>10, <2>11 DEF ClientNext
<1>2. CASE MainLocksFlag
  BY <1>2 DEF MainLocksFlag, MainProceeds
<1>3. CASE MainTestsFlag
  BY <1>3 DEF MainTestsFlag, MainProceeds
<1>4. CASE MainUnlocksFlag
  BY <1>4 DEF MainUnlocksFlag, MainProceeds
<1>5. CASE MainLocksBoard
  BY <1>5 DEF MainLocksBoard, MainProceeds, Locks
<1>6. CASE MainInherits
  BY <1>6 DEF MainInherits, MainProceeds, Inherits, OwnerDied
<1>7. CASE MainRepairs
  BY <1>7 DEF MainRepairs, MainProceeds, MakeConsistent
<1>8. CASE MainShows
  BY <1>8, ClientsAssumption DEF MainShows, MainProceeds, Unlocks
<1>9. CASE MainJoins
  BY <1>9 DEF MainJoins, MainProceeds
<1>10. CASE MainDestroys
  BY <1>10 DEF MainDestroys, MainProceeds
<1>11. CASE HandlerWakes
  BY <1>11 DEF HandlerWakes, HandlerProceeds
<1>12. CASE HandlerUnlocks
  BY <1>12 DEF HandlerUnlocks, HandlerProceeds
<1>13. CASE HandlerStops
  BY <1>13 DEF HandlerStops, HandlerProceeds
<1>14. CASE HandlerLocks
  BY <1>14 DEF HandlerLocks, HandlerProceeds
<1>15. CASE UserInterrupts
  BY <1>15 DEF UserInterrupts
<1>16. CASE UNCHANGED vars
  BY <1>16 DEF vars, serverVars, clientVars
<1> QED
  BY <1>1, <1>2, <1>3, <1>4, <1>5, <1>6, <1>7, <1>8, <1>9, <1>10, <1>11, <1>12, <1>13, <1>14, <1>15, <1>16 DEF Next, MainNext, HandlerNext

(* Only the owner of the mutex writes the board. *)
LEMMA FieldStep == TypeOK /\ HoldersOwn /\ FieldNotStale /\ [Next]_vars => FieldNotStale'
<1> SUFFICES ASSUME TypeOK /\ HoldersOwn /\ FieldNotStale, [Next]_vars
             PROVE  FieldNotStale'
  OBVIOUS
<1> USE DEF TypeOK, HoldersOwn, HoldingSteps, FieldNotStale
<1>1. ASSUME NEW c \in Clients, ClientNext(c) \/ Killed(c)
      PROVE  FieldNotStale'
  <2>1. CASE ClientLock(c)
    BY <2>1 DEF ClientLock, Proceed, Locks
  <2>2. CASE ClientInherits(c)
    BY <2>2 DEF ClientInherits, Proceed, Inherits, OwnerDied
  <2>3. CASE ClientLockFails(c)
    BY <2>3 DEF ClientLockFails, Proceed
  <2>4. CASE ClientRepair(c)
    BY <2>4 DEF ClientRepair, Proceed, MakeConsistent
  <2>5. CASE Oops(c)
    BY <2>5 DEF Oops
  <2>6. CASE ChooseField(c)
    BY <2>6 DEF ChooseField, Proceed
  <2>7. CASE ReadPoints(c)
    BY <2>7 DEF ReadPoints, Proceed
  <2>8. CASE GameOver(c)
    BY <2>8 DEF GameOver, Proceed, Unlocks
  <2>9. CASE CreditPoints(c)
    BY <2>9 DEF CreditPoints, Proceed
  <2>10. CASE ClearField(c)
    BY <2>10 DEF ClearField, Proceed, Unlocks
  <2>11. CASE Killed(c)
    BY <2>11 DEF Killed
  <2> QED
    BY <1>1, <2>1, <2>2, <2>3, <2>4, <2>5, <2>6, <2>7, <2>8, <2>9, <2>10, <2>11 DEF ClientNext
<1>2. CASE MainLocksFlag
  BY <1>2 DEF MainLocksFlag, MainProceeds
<1>3. CASE MainTestsFlag
  BY <1>3 DEF MainTestsFlag, MainProceeds
<1>4. CASE MainUnlocksFlag
  BY <1>4 DEF MainUnlocksFlag, MainProceeds
<1>5. CASE MainLocksBoard
  BY <1>5 DEF MainLocksBoard, MainProceeds, Locks
<1>6. CASE MainInherits
  BY <1>6 DEF MainInherits, MainProceeds, Inherits, OwnerDied
<1>7. CASE MainRepairs
  BY <1>7 DEF MainRepairs, MainProceeds, MakeConsistent
<1>8. CASE MainShows
  BY <1>8 DEF MainShows, MainProceeds, Unlocks
<1>9. CASE MainJoins
  BY <1>9 DEF MainJoins, MainProceeds
<1>10. CASE MainDestroys
  BY <1>10 DEF MainDestroys, MainProceeds
<1>11. CASE HandlerWakes
  BY <1>11 DEF HandlerWakes, HandlerProceeds
<1>12. CASE HandlerUnlocks
  BY <1>12 DEF HandlerUnlocks, HandlerProceeds
<1>13. CASE HandlerStops
  BY <1>13 DEF HandlerStops, HandlerProceeds
<1>14. CASE HandlerLocks
  BY <1>14 DEF HandlerLocks, HandlerProceeds
<1>15. CASE UserInterrupts
  BY <1>15 DEF UserInterrupts
<1>16. CASE UNCHANGED vars
  BY <1>16 DEF vars, serverVars, clientVars
<1> QED
  BY <1>1, <1>2, <1>3, <1>4, <1>5, <1>6, <1>7, <1>8, <1>9, <1>10, <1>11, <1>12, <1>13, <1>14, <1>15, <1>16 DEF Next, MainNext, HandlerNext

-----------------------------------------------------------------------------
(* The conjunction of the parts is inductive. *)
THEOREM BoardInvariance == Spec => []Inv
<1>1. Init => Inv
  BY InitTypeOK, ClientsAssumption DEF Init, Inv, HoldersOwn, HoldingSteps, RepairPending, MutexRecoverable, FieldNotStale
<1>2. Inv /\ [Next]_vars => Inv'
  BY TypeStep, HoldersStep, RepairStep, RecoverableStep, FieldStep DEF Inv
<1> QED
  BY <1>1, <1>2, PTL DEF Spec

(* Type correctness of the board game for any number of clients and fields. *)
THEOREM BoardTypeCorrect == Spec => []TypeOK
<1>1. Inv => TypeOK
  BY DEF Inv
<1> QED
  BY <1>1, BoardInvariance, PTL

(* No client ever takes points that another one has taken already: what a  *)
(* living client has read is still on the field when it clears it.         *)
THEOREM BoardFieldNotStale == Spec => []FieldNotStale
<1>1. Inv => FieldNotStale
  BY DEF Inv
<1> QED
  BY <1>1, BoardInvariance, PTL

(* Wherever clients die, the mutex never becomes unrecoverable. *)
THEOREM BoardMutexRecoverable == Spec => []MutexRecoverable
<1>1. Inv => MutexRecoverable
  BY DEF Inv
<1> QED
  BY <1>1, BoardInvariance, PTL
-----------------------------------------------------------------------------
(* Three kinds of step: the points stay where they are, a client that has  *)
(* credited a field clears it, or a client starts to owe what it credits.  *)

LEMMA PointsTyped ==
  TypeOK => /\ board \in [Fields -> Int] /\ Taken \in [Clients -> Int]
            /\ SumFunction(board) \in Int /\ SumFunction(Taken) \in Int
<1> SUFFICES ASSUME TypeOK
             PROVE  /\ board \in [Fields -> Int] /\ Taken \in [Clients -> Int]
                    /\ SumFunction(board) \in Int /\ SumFunction(Taken) \in Int
  OBVIOUS
<1>1. board \in [Fields -> Int] /\ Taken \in [Clients -> Int]
  BY DEF TypeOK, Taken
<1> QED
  BY <1>1, SumInt, ClientsAssumption, PointsAssumption DEF SumFunction

LEMMA TakenKept ==
  ASSUME TypeOK, TypeOK', Next,
         \A c \in Clients : ~ClearField(c)
  PROVE  board' = board /\ Taken' = Taken
<1>1. ASSUME NEW c \in Clients, ClientNext(c) \/ Killed(c) PROVE board' = board /\ Taken' = Taken
  <2>1. board' = board
    BY <1>1 DEF ClientNext, ClientLock, ClientInherits, ClientLockFails, ClientRepair, Oops,
       ChooseField, ReadPoints, GameOver, CreditPoints, Killed
  <2>2. CASE CreditPoints(c)
    <3>1. score[c] + found[c] - found[c] = score[c]
      BY DEF TypeOK
    <3>2. /\ at[c] = "credit" /\ at' = [at EXCEPT ![c] = "clear"] /\ found' = found
          /\ score' = [score EXCEPT ![c] = @ + found[c]]
      BY <2>2 DEF CreditPoints, Proceed
    <3> QED
      BY <2>1, <3>1, <3>2 DEF Taken, TypeOK
  <2>3. CASE ~CreditPoints(c)
    <3>1. /\ score' = score
          /\ \A d \in Clients : /\ at'[d] = "clear" <=> at[d] = "clear"
                                /\ at[d] = "clear" => found'[d] = found[d]
      BY <1>1, <2>3 DEF ClientNext, ClientLock, ClientInherits, ClientLockFails, ClientRepair, Oops,
         ChooseField, ReadPoints, GameOver, Killed, Proceed, TypeOK
    <3> QED
      BY <2>1, <3>1 DEF Taken
  <2> QED
    BY <2>2, <2>3
<1>2. CASE MainNext \/ HandlerNext \/ UserInterrupts
  BY <1>2 DEF MainNext, HandlerNext, UserInterrupts, MainLocksFlag, MainTestsFlag, MainUnlocksFlag,
     MainLocksBoard, MainInherits, MainRepairs, MainShows, MainJoins, MainDestroys,
     HandlerWakes, HandlerUnlocks, HandlerStops, HandlerLocks, clientVars, Taken
<1> QED
  BY <1>1, <1>2 DEF Next

LEMMA PointsInit == Init => PointsConserved
<1> SUFFICES ASSUME Init PROVE PointsConserved
  OBVIOUS
<1>1. board = InitialPoints /\ \A c \in Clients : Taken[c] = 0
  BY DEF Init, Taken
<1>2. SumFunction(Taken) = 0
  BY <1>1, SumZero, ClientsAssumption DEF SumFunction, Taken
<1>3. SumFunction(board) \in Int
  BY PointsTyped, InitTypeOK
<1> QED
  BY <1>1, <1>2, <1>3 DEF PointsConserved

LEMMA PointsStep == Inv /\ Inv' /\ PointsConserved /\ [Next]_vars => PointsConserved'
<1> SUFFICES ASSUME Inv, Inv', PointsConserved, [Next]_vars PROVE PointsConserved'
  OBVIOUS
<1>1. CASE \E c \in Clients : ClearField(c)
  <2>1. PICK c \in Clients : ClearField(c)
    BY <1>1
  <2>2. PICK x \in Fields : x = field[c]
    BY DEF Inv, TypeOK
  <2>3. /\ board' = [board EXCEPT ![x] = 0] /\ at[c] = "clear" /\ at' = [at EXCEPT ![c] = "lock"]
        /\ UNCHANGED <<score, found>> /\ c \in alive
    BY <2>1, <2>2 DEF ClearField, Proceed
  <2>4. board[x] = found[c]
    BY <2>2, <2>3 DEF Inv, FieldNotStale
  <2>5. /\ board \in [Fields -> Int] /\ Taken \in [Clients -> Int]
        /\ SumFunction(board) \in Int /\ SumFunction(Taken) \in Int
    BY PointsTyped DEF Inv
  <2>6. /\ board' \in [Fields -> Int] /\ Taken' \in [Clients -> Int]
    BY <2>3, <2>5 DEF Inv, TypeOK, Taken
  <2>7. SumFunction(board') = SumFunction(board) - found[c]
    <3> DEFINE b == board'
    <3>1. b[x] = 0 /\ \A y \in Fields : y # x => b[y] = board[y]
      BY <2>3, <2>5
    <3>2. DOMAIN b = Fields /\ DOMAIN board = Fields /\ \A y \in Fields : b[y] \in Int /\ board[y] \in Int
      BY <2>5, <2>6
    <3> HIDE DEF b
    <3>3. SumFunctionOnSet(b, Fields) = SumFunctionOnSet(board, Fields) + b[x] - board[x]
      BY <3>1, <3>2, SumChanges, PointsAssumption
    <3> QED
      BY <2>4, <2>5, <3>1, <3>2, <3>3 DEF SumFunction, b
  <2>8. SumFunction(Taken') = SumFunction(Taken) + found[c]
    <3> DEFINE t == Taken'
    <3>0. score[c] \in Int /\ found[c] \in Int
      BY DEF Inv, TypeOK
    <3>1. t[c] = score[c] /\ Taken[c] = score[c] - found[c] /\ \A y \in Clients : y # c => t[y] = Taken[y]
      BY <2>3, <3>0 DEF Taken, Inv, TypeOK
    <3>2. DOMAIN t = Clients /\ DOMAIN Taken = Clients /\ \A y \in Clients : t[y] \in Int /\ Taken[y] \in Int
      BY <2>5, <2>6
    <3> HIDE DEF t
    <3>3. SumFunctionOnSet(t, Clients) = SumFunctionOnSet(Taken, Clients) + t[c] - Taken[c]
      BY <3>1, <3>2, SumChanges, ClientsAssumption
    <3>4. SumFunction(t) = SumFunction(Taken) + t[c] - Taken[c]
      BY <3>2, <3>3 DEF SumFunction
    <3>5. SumFunction(t) = SumFunction(Taken) + found[c]
      BY <2>5, <3>0, <3>1, <3>4
    <3> QED
      BY <3>5 DEF t
  <2>9. found[c] \in Int
    BY DEF Inv, TypeOK
  <2>10. SumFunction(board') + SumFunction(Taken') = SumFunction(board) + SumFunction(Taken)
    BY <2>5, <2>7, <2>8, <2>9
  <2> QED
    BY <2>10 DEF PointsConserved
<1>2. CASE Next /\ \A c \in Clients : ~ClearField(c)
  BY <1>2, TakenKept DEF Inv, PointsConserved
<1>3. CASE UNCHANGED vars
  BY <1>3 DEF vars, clientVars, PointsConserved, Taken
<1> QED
  BY <1>1, <1>2, <1>3

(* No point is credited twice or lost, whatever client dies where.         *)
THEOREM BoardPointsConserved == Spec => []PointsConserved
BY PointsInit, PointsStep, BoardInvariance, PTL DEF Spec
=============================================================================
