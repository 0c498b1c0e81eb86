----------------------------- MODULE BoardGame -----------------------------
(***************************************************************************)
(* The board game of Lab3_tutorial/l7-2_server.c and l7-2_client.c: a      *)
(* server puts a board of points and a robust process-shared mutex into    *)
(* shared memory, clients lock the mutex and search fields.  A client that *)
(* rolls D = 1, or is killed, dies, possibly with the mutex locked; the    *)
(* next process to lock it gets EOWNERDEAD and makes it consistent.        *)
(*                                                                         *)
(* The server has a second thread that waits for SIGINT and then unlocks,  *)
(* without owning it, the private mutex that main tests `running` under.   *)
(* For a normal mutex glibc simply frees it; that outcome is modelled.     *)
(* The client exits through GAME OVER, "Oops", a kill or a failed lock.    *)
(* Printing, and system calls that fail, are left out.                     *)
(***************************************************************************)
EXTENDS Integers, FiniteSets, Functions

CONSTANTS Clients,
          Server,         \* the server process as an owner of the board mutex
          Fields,         \* the fields (x, y) of the board
          InitialPoints,  \* InitialPoints[f] \in 1..9, drawn by the server
          Free            \* owner of an unlocked mutex

ASSUME ClientsAssumption == /\ Server \notin Clients
                            /\ Free \notin Clients \cup {Server}
                            /\ IsFiniteSet(Clients)
ASSUME PointsAssumption == /\ Fields # {} /\ IsFiniteSet(Fields)
                           /\ InitialPoints \in [Fields -> 1 .. 9]

VARIABLES board,          \* board[f]: points left on field f
          owner,          \* who has locked the board mutex, dead or alive
          mxState,        \* what the robust mutex remembers about its owners
          alive,          \* clients whose process exists
          at,             \* at[c]: next step of client c, or where it died
          field,          \* field[c]: the field c searches
          found,          \* found[c]: p, the points c saw there
          score,          \* score[c]
          sigint,         \* SIGINT has been sent to the server
          running,        \* sighandling_args.running
          sigMutex,       \* owner of sighandling_args.mutex
          mainAt,         \* next step of the server's main thread
          handlerAt       \* next step of the server's signal thread

clientVars == <<alive, at, field, found, score>>
serverVars == <<sigint, running, sigMutex, mainAt, handlerAt>>
vars == <<board, owner, mxState, clientVars, serverVars>>

ClientSteps == {"lock", "repair", "roll", "read", "credit", "clear", "over", "failed"}
MainSteps == {"lock_flag", "test_flag", "unlock_flag", "lock_board", "repair", "show", "join",
              "destroy", "ended"}
HandlerSteps == {"sigwait", "unlock", "stop", "lock", "ended"}

TypeOK == /\ board \in [Fields -> 0 .. 9]
          /\ owner \in Clients \cup {Server, Free}
          /\ mxState \in {"consistent", "inconsistent", "unrecoverable", "destroyed"}
          /\ alive \subseteq Clients
          /\ at \in [Clients -> ClientSteps]
          /\ field \in [Clients -> Fields]
          /\ found \in [Clients -> 0 .. 9]
          /\ score \in [Clients -> Nat]
          /\ sigint \in BOOLEAN
          /\ running \in BOOLEAN
          /\ sigMutex \in {"main", "handler", "free"}
          /\ mainAt \in MainSteps
          /\ handlerAt \in HandlerSteps

Init == /\ board = InitialPoints
        /\ owner = Free
        /\ mxState = "consistent"
        /\ alive = Clients
        /\ at = [c \in Clients |-> "lock"]
        /\ field = [c \in Clients |-> CHOOSE f \in Fields : TRUE]
        /\ found = [c \in Clients |-> 0]
        /\ score = [c \in Clients |-> 0]
        /\ sigint = FALSE
        /\ running = TRUE
        /\ sigMutex = "free"
        /\ mainAt = "lock_flag"
        /\ handlerAt = "sigwait"
-----------------------------------------------------------------------------
(* The robust mutex *)

OwnerDied == owner \in Clients \ alive
Usable == mxState \in {"consistent", "inconsistent"}

(* Mutant: the mutex is private to each process. *)
LocksBusy(t) == /\ Usable
                /\ owner' = t
                /\ UNCHANGED mxState

(* pthread_mutex_lock returns 0 *)
Locks(t) == /\ Usable
            /\ owner = Free
            /\ owner' = t
            /\ UNCHANGED mxState

(* Mutant: the mutex is not robust; the owner's death goes unnoticed. *)
NeverInherits(t) == /\ FALSE
                    /\ owner' = t
                    /\ UNCHANGED mxState

(* pthread_mutex_lock returns EOWNERDEAD *)
Inherits(t) == /\ Usable
               /\ OwnerDied
               /\ owner' = t
               /\ mxState' = "inconsistent"

(* pthread_mutex_consistent; a destroyed mutex stays destroyed *)
MakeConsistent == /\ mxState' = IF mxState = "inconsistent" THEN "consistent" ELSE mxState
                  /\ UNCHANGED owner

(* pthread_mutex_unlock; a state nobody repaired is lost for good *)
Unlocks == /\ owner' = Free
           /\ mxState' = IF mxState = "inconsistent" THEN "unrecoverable" ELSE mxState
-----------------------------------------------------------------------------
(* The client *)

Proceed(c, from, to) == /\ c \in alive
                        /\ at[c] = from
                        /\ at' = [at EXCEPT ![c] = to]

ClientLock(c) == /\ Proceed(c, "lock", "roll")
                 /\ Locks(c)
                 /\ UNCHANGED <<board, alive, field, found, score, serverVars>>

(* Mutant: the client forgets to make the mutex consistent. *)
ClientInheritsUnrepaired(c) == /\ Proceed(c, "lock", "roll")
                               /\ Inherits(c)
                               /\ UNCHANGED <<board, alive, field, found, score, serverVars>>

ClientInherits(c) == /\ Proceed(c, "lock", "repair")
                     /\ Inherits(c)
                     /\ UNCHANGED <<board, alive, field, found, score, serverVars>>

(* Any other error: ERR kills the client's process group. *)
ClientLockFails(c) == /\ Proceed(c, "lock", "failed")
                      /\ ~Usable
                      /\ alive' = alive \ {c}
                      /\ UNCHANGED <<board, owner, mxState, field, found, score, serverVars>>

ClientRepair(c) == /\ Proceed(c, "repair", "roll")
                   /\ MakeConsistent
                   /\ UNCHANGED <<board, alive, field, found, score, serverVars>>

(* D == 1: "Oops...", exit with the mutex locked. *)
Oops(c) == /\ c \in alive
           /\ at[c] = "roll"
           /\ alive' = alive \ {c}
           /\ UNCHANGED <<board, owner, mxState, at, field, found, score, serverVars>>

ChooseField(c) == /\ Proceed(c, "roll", "read")
                  /\ \E f \in Fields : field' = [field EXCEPT ![c] = f]
                  /\ UNCHANGED <<board, owner, mxState, alive, found, score, serverVars>>

(* Mutant: the client reads the points after it has released the mutex. *)
ReadPointsUnlocked(c) == /\ Proceed(c, "read", "credit")
                         /\ found' = [found EXCEPT ![c] = board[field[c]]]
                         /\ Unlocks
                         /\ UNCHANGED <<board, alive, field, score, serverVars>>

ReadPoints(c) == /\ Proceed(c, "read", "credit")
                 /\ found' = [found EXCEPT ![c] = board[field[c]]]
                 /\ UNCHANGED <<board, owner, mxState, alive, field, score, serverVars>>

(* p == 0: GAME OVER. *)
GameOver(c) == /\ Proceed(c, "credit", "over")
               /\ found[c] = 0
               /\ Unlocks
               /\ UNCHANGED <<board, alive, field, found, score, serverVars>>

CreditPoints(c) == /\ Proceed(c, "credit", "clear")
                   /\ found[c] # 0
                   /\ score' = [score EXCEPT ![c] = @ + found[c]]
                   /\ UNCHANGED <<board, owner, mxState, alive, field, found, serverVars>>

ClearField(c) == /\ Proceed(c, "clear", "lock")
                 /\ board' = [board EXCEPT ![field[c]] = 0]
                 /\ Unlocks
                 /\ UNCHANGED <<alive, field, found, score, serverVars>>

(* A client is killed at any step. *)
Killed(c) == /\ c \in alive
             /\ at[c] # "over"
             /\ alive' = alive \ {c}
             /\ UNCHANGED <<board, owner, mxState, at, field, found, score, serverVars>>
-----------------------------------------------------------------------------
(* The server's main thread *)

MainProceeds(from, to) == /\ mainAt = from
                          /\ mainAt' = to

MainLocksFlag == /\ MainProceeds("lock_flag", "test_flag")
                 /\ sigMutex = "free"
                 /\ sigMutex' = "main"
                 /\ UNCHANGED <<board, owner, mxState, clientVars, sigint, running, handlerAt>>

(* if(!running) break, with the mutex locked *)
MainTestsFlag == /\ MainProceeds("test_flag", IF running THEN "unlock_flag" ELSE "join")
                 /\ UNCHANGED <<board, owner, mxState, clientVars, sigint, running, sigMutex,
                                handlerAt>>

MainUnlocksFlag == /\ MainProceeds("unlock_flag", "lock_board")
                   /\ sigMutex' = "free"
                   /\ UNCHANGED <<board, owner, mxState, clientVars, sigint, running, handlerAt>>

MainLocksBoard == /\ MainProceeds("lock_board", "show")
                  /\ Locks(Server)
                  /\ UNCHANGED <<board, clientVars, sigint, running, sigMutex, handlerAt>>

MainInherits == /\ MainProceeds("lock_board", "repair")
                /\ Inherits(Server)
                /\ UNCHANGED <<board, clientVars, sigint, running, sigMutex, handlerAt>>

MainRepairs == /\ MainProceeds("repair", "show")
               /\ MakeConsistent
               /\ UNCHANGED <<board, clientVars, sigint, running, sigMutex, handlerAt>>

(* Mutant: the server sleeps with the board's mutex locked. *)
MainShowsLocked == /\ MainProceeds("show", "lock_flag")
                   /\ UNCHANGED <<board, owner, mxState, clientVars, sigint, running, sigMutex,
                                  handlerAt>>

(* Prints the board, unlocks, sleeps. *)
MainShows == /\ MainProceeds("show", "lock_flag")
             /\ Unlocks
             /\ UNCHANGED <<board, clientVars, sigint, running, sigMutex, handlerAt>>

MainJoins == /\ MainProceeds("join", "destroy")
             /\ handlerAt = "ended"
             /\ UNCHANGED <<board, owner, mxState, clientVars, sigint, running, sigMutex, handlerAt>>

(* pthread_mutex_destroy, whoever holds it, munmap and shm_unlink *)
MainDestroys == /\ MainProceeds("destroy", "ended")
                /\ mxState' = "destroyed"
                /\ UNCHANGED <<board, owner, clientVars, sigint, running, sigMutex, handlerAt>>
-----------------------------------------------------------------------------
(* The server's signal thread *)

HandlerProceeds(from, to) == /\ handlerAt = from
                             /\ handlerAt' = to

HandlerWakes == /\ HandlerProceeds("sigwait", "unlock")
                /\ sigint
                /\ UNCHANGED <<board, owner, mxState, clientVars, sigint, running, sigMutex, mainAt>>

(* Unlocks a mutex that it has not locked. *)
HandlerUnlocks == /\ HandlerProceeds("unlock", "stop")
                  /\ sigMutex' = "free"
                  /\ UNCHANGED <<board, owner, mxState, clientVars, sigint, running, mainAt>>

HandlerStops == /\ HandlerProceeds("stop", "lock")
                /\ running' = FALSE
                /\ UNCHANGED <<board, owner, mxState, clientVars, sigint, sigMutex, mainAt>>

(* Locks it and returns. *)
HandlerLocks == /\ HandlerProceeds("lock", "ended")
                /\ sigMutex = "free"
                /\ sigMutex' = "handler"
                /\ UNCHANGED <<board, owner, mxState, clientVars, sigint, running, mainAt>>
-----------------------------------------------------------------------------
UserInterrupts == /\ ~sigint
                  /\ sigint' = TRUE
                  /\ UNCHANGED <<board, owner, mxState, clientVars, running, sigMutex, mainAt,
                                 handlerAt>>

ClientNext(c) == \/ ClientLock(c) \/ ClientInherits(c) \/ ClientLockFails(c) \/ ClientRepair(c)
                 \/ Oops(c) \/ ChooseField(c) \/ ReadPoints(c) \/ GameOver(c)
                 \/ CreditPoints(c) \/ ClearField(c)

MainNext == \/ MainLocksFlag \/ MainTestsFlag \/ MainUnlocksFlag \/ MainLocksBoard
            \/ MainInherits \/ MainRepairs \/ MainShows \/ MainJoins \/ MainDestroys

HandlerNext == HandlerWakes \/ HandlerUnlocks \/ HandlerStops \/ HandlerLocks

Next == \/ \E c \in Clients : ClientNext(c) \/ Killed(c)
        \/ MainNext \/ HandlerNext \/ UserInterrupts

(* Every process and thread that can run does; whoever waits for a mutex   *)
(* that is free again and again (its users sleep between two uses) gets it.*)
Fairness == /\ \A c \in Clients : SF_vars(ClientNext(c))
            /\ SF_vars(MainNext)
            /\ WF_vars(HandlerNext)

Spec == Init /\ [][Next]_vars
FairSpec == Spec /\ Fairness
-----------------------------------------------------------------------------
(* What client c has scored and taken off the board. *)
Taken == [c \in Clients |-> score[c] - (IF at[c] = "clear" THEN found[c] ELSE 0)]

(* No point is credited twice or disappears, whatever client dies where:   *)
(* what is on the board and what the clients have scored is what the       *)
(* server put there.  Points credited by a client that has not cleared the *)
(* field yet, or died before it could, still count as on the board.        *)
PointsConserved == SumFunction(board) + SumFunction(Taken) = SumFunction(InitialPoints)

(* What a living client has read is still on the field when it takes it.   *)
FieldNotStale == \A c \in alive : at[c] \in {"credit", "clear"} => board[field[c]] = found[c]

(* The clients and the server always repair a mutex before they unlock it, *)
(* so a death never makes it unusable.                                     *)
MutexRecoverable == mxState # "unrecoverable"

(* A client that dies with the mutex locked does not stop the others.      *)
DeathDoesNotBlock == \A c \in Clients : (c \in alive /\ at[c] = "lock")
                                          ~> (c \notin alive \/ at[c] # "lock")

(* After SIGINT the server ends, or is stuck in one of two ways: the       *)
(* signal thread has ended with the flag's mutex locked and main waits for *)
(* it, or main joins the signal thread while it holds that mutex itself.   *)
ShutdownOutcome == sigint ~> [](\/ mainAt = "ended"
                                \/ mainAt = "lock_flag" /\ sigMutex = "handler" /\ handlerAt = "ended"
                                \/ mainAt = "join" /\ sigMutex = "main" /\ handlerAt = "lock")
=============================================================================
