------------------------------ MODULE Integral ------------------------------
(***************************************************************************)
(* The integral that processes compute together over shared memory:        *)
(* Lab3_tutorial/Zad2/kod.c.  The first process sets the segment up, each  *)
(* adds batches of points under a robust mutex, may die with the mutex     *)
(* locked, and leaves after SIGINT; shm->counters is the number of processes. *)
(*                                                                         *)
(* Whether SIGINT has come is chosen at each test of exit_flag.  The sums  *)
(* and the sleeps are left out, and so are failing calls.  Memory that is  *)
(* set up twice or a mutex that is locked unset, destroyed or given up is  *)
(* spoilt: locking it no longer keeps anybody out.  The model follows one  *)
(* segment until it is unlinked; a later process makes a new one.          *)
(***************************************************************************)
EXTENDS Naturals, Integers, FiniteSets

CONSTANTS Procs, NoProc

ASSUME IntegralAssumption == NoProc \notin Procs /\ IsFiniteSet(Procs)

VARIABLES sem,            \* value of "/sem"
          segment,        \* the segment "/count"
          shmCounters,    \* shm->counters
          shmMutex,       \* state of shm->mutex
          mutexOwner,     \* who holds it
          ownerDied,      \* its owner died and nobody has made it consistent
          procAt,         \* procAt[p]: next step or critical section of p
          lockAt,         \* lockAt[p]: how far safe_lock of p is
          founders        \* history: how many processes found counters = 0

memVars == <<sem, segment, shmCounters, founders>>
mutexVars == <<shmMutex, mutexOwner, ownerDied>>
integralVars == <<memVars, mutexVars, procAt, lockAt>>

(* The parts of main between safe_lock and pthread_mutex_unlock. *)
Sections == {"join", "add", "show", "leave"}

IntegralTypeOK ==
  /\ sem \in 1 .. 1 + Cardinality(Procs)
  /\ segment \in {"none", "empty", "sized", "unlinked"}
  /\ shmCounters \in Int
  /\ shmMutex \in {"unset", "ready", "doubtful", "spoilt"}
  /\ mutexOwner \in Procs \cup {NoProc}
  /\ ownerDied \in BOOLEAN
  /\ procAt \in [Procs -> {"start", "open", "create", "truncate", "look", "set_up",
                           "init_mutex", "announce", "done", "dead"} \cup Sections]
  /\ lockAt \in [Procs -> {"out", "relock", "in"}]
  /\ founders \in 0 .. Cardinality(Procs)

IntegralInit == /\ sem = 1
                /\ segment = "none"
                /\ shmCounters = 0
                /\ shmMutex = "unset"
                /\ mutexOwner = NoProc
                /\ ownerDied = FALSE
                /\ procAt = [p \in Procs |-> "start"]
                /\ lockAt = [p \in Procs |-> "out"]
                /\ founders = 0

ProcStep(p, from, to) == /\ procAt[p] = from
                         /\ procAt' = [procAt EXCEPT ![p] = to]
-----------------------------------------------------------------------------
(* main: the semaphore and the segment *)

(* sem_post, then sem_wait: after the post nobody has to wait. *)
PassSemaphore(p) == /\ ProcStep(p, "start", "open")
                    /\ sem + 1 > 0
                    /\ UNCHANGED <<memVars, mutexVars, lockAt>>

(* shm_open without O_CREAT, then with it, then ftruncate *)
OpenSegment(p) == /\ segment # "unlinked"
                  /\ ProcStep(p, "open", IF segment = "none" THEN "create" ELSE "look")
                  /\ UNCHANGED <<memVars, mutexVars, lockAt>>

CreateSegment(p) == /\ segment # "unlinked"
                    /\ ProcStep(p, "create", "truncate")
                    /\ segment' = IF segment = "none" THEN "empty" ELSE segment
                    /\ UNCHANGED <<sem, shmCounters, founders, mutexVars, lockAt>>

TruncateSegment(p) == /\ ProcStep(p, "truncate", "look")
                      /\ segment' = IF segment = "empty" THEN "sized" ELSE segment
                      /\ UNCHANGED <<sem, shmCounters, founders, mutexVars, lockAt>>

(* mmap and the test of counters; in a segment without a size it traps.    *)
LookAtCounters(p) ==
  /\ ProcStep(p, "look", IF segment = "empty" THEN "dead"
                         ELSE IF shmCounters = 0 THEN "set_up" ELSE "join")
  /\ founders' = IF segment # "empty" /\ shmCounters = 0 THEN founders + 1 ELSE founders
  /\ UNCHANGED <<sem, segment, shmCounters, mutexVars, lockAt>>

(* The mutex is usable only after counters has been set. *)
SetUp(p) == /\ ProcStep(p, "set_up", "init_mutex")
            /\ shmCounters' = 1
            /\ UNCHANGED <<sem, segment, founders, mutexVars, lockAt>>

InitMutex(p) == /\ ProcStep(p, "init_mutex", "announce")
                /\ shmMutex' = IF shmMutex = "unset" THEN "ready" ELSE "spoilt"
                /\ mutexOwner' = NoProc
                /\ ownerDied' = FALSE
                /\ UNCHANGED <<memVars, lockAt>>
-----------------------------------------------------------------------------
(* safe_lock *)

(* "doubtful": it works, but a death has been taken for another. *)
Serves == shmMutex \in {"ready", "doubtful"}

LockStep(p, from, to) == /\ procAt[p] \in Sections
                         /\ lockAt[p] = from
                         /\ lockAt' = [lockAt EXCEPT ![p] = to]
                         /\ UNCHANGED <<sem, segment, founders, procAt>>

Acquire(p) == /\ LockStep(p, "out", "in")
              /\ Serves /\ mutexOwner = NoProc /\ ~ownerDied
              /\ mutexOwner' = p
              /\ UNCHANGED <<shmCounters, shmMutex, ownerDied>>

(* EOWNERDEAD: the mutex is made consistent, unlocked, and locked again.   *)
MakeConsistent(p) == /\ LockStep(p, "out", "relock")
                     /\ Serves /\ mutexOwner = NoProc /\ ownerDied
                     /\ ownerDied' = FALSE
                     /\ UNCHANGED <<shmCounters, shmMutex, mutexOwner>>

(* Mutant: the dead process is not deducted. *)
RelockOnly(p) == /\ LockStep(p, "relock", "in")
                 /\ Serves => mutexOwner = NoProc
                 /\ mutexOwner' = IF Serves THEN p ELSE mutexOwner
                 /\ shmMutex' = IF Serves /\ ownerDied THEN "doubtful" ELSE shmMutex
                 /\ UNCHANGED <<shmCounters, ownerDied>>

(* The result of the second lock is ignored, be it EOWNERDEAD again. *)
Relock(p) == /\ LockStep(p, "relock", "in")
             /\ Serves => mutexOwner = NoProc
             /\ mutexOwner' = IF Serves THEN p ELSE mutexOwner
             /\ shmMutex' = IF Serves /\ ownerDied THEN "doubtful" ELSE shmMutex
             /\ shmCounters' = shmCounters - 1
             /\ UNCHANGED ownerDied

(* The callers ignore that the lock failed. *)
AcquireSpoilt(p) == /\ LockStep(p, "out", "in")
                    /\ ~Serves
                    /\ shmMutex' = "spoilt"
                    /\ UNCHANGED <<shmCounters, mutexOwner, ownerDied>>

(* A mutex that is unlocked before it is consistent is given up for good.  *)
Unlock(p) == LET givenUp == mutexOwner = p /\ ownerDied
             IN /\ lockAt[p] = "in"
                /\ lockAt' = [lockAt EXCEPT ![p] = "out"]
                /\ mutexOwner' = IF mutexOwner = p THEN NoProc ELSE mutexOwner
                /\ ownerDied' = (ownerDied /\ ~givenUp)
                /\ shmMutex' = IF givenUp THEN "spoilt" ELSE shmMutex
-----------------------------------------------------------------------------
(* main: the critical sections *)

Join(p) == /\ ProcStep(p, "join", "announce")
           /\ Unlock(p)
           /\ shmCounters' = shmCounters + 1
           /\ UNCHANGED <<sem, segment, founders>>

(* The second sem_post; SIGINT may have come before the first batch. *)
Announce(p) == /\ \E next \in {"add", "show"} : ProcStep(p, "announce", next)
               /\ sem' = sem + 1
               /\ UNCHANGED <<segment, shmCounters, founders, mutexVars, lockAt>>

AddBatch(p) == /\ \E next \in {"add", "show"} : ProcStep(p, "add", next)
               /\ Unlock(p)
               /\ UNCHANGED memVars

(* random_death_lock: abort with the mutex locked. *)
DieLocked(p) == /\ ProcStep(p, "add", "dead")
                /\ lockAt[p] = "in"
                /\ lockAt' = [lockAt EXCEPT ![p] = "out"]
                /\ mutexOwner' = IF mutexOwner = p THEN NoProc ELSE mutexOwner
                /\ ownerDied' = (ownerDied \/ mutexOwner = p)
                /\ UNCHANGED <<memVars, shmMutex>>

Show(p) == /\ ProcStep(p, "show", "leave")
           /\ Unlock(p)
           /\ UNCHANGED memVars

(* cleanup_shared_memory destroys the mutex, whoever still needs it. *)
Leave(p) == /\ ProcStep(p, "leave", "done")
            /\ lockAt[p] = "in"
            /\ lockAt' = [lockAt EXCEPT ![p] = "out"]
            /\ shmMutex' = "spoilt"
            /\ mutexOwner' = NoProc
            /\ ownerDied' = FALSE
            /\ shmCounters' = shmCounters - 1
            /\ segment' = IF shmCounters' = 0 THEN "unlinked" ELSE segment
            /\ UNCHANGED <<sem, founders>>

ProcNext(p) == \/ PassSemaphore(p) \/ OpenSegment(p) \/ CreateSegment(p)
               \/ TruncateSegment(p) \/ LookAtCounters(p) \/ SetUp(p) \/ InitMutex(p)
               \/ Acquire(p) \/ MakeConsistent(p) \/ Relock(p) \/ AcquireSpoilt(p)
               \/ Join(p) \/ Announce(p) \/ AddBatch(p) \/ DieLocked(p) \/ Show(p) \/ Leave(p)

IntegralNext == \E p \in Procs : ProcNext(p)

IntegralSpec == IntegralInit /\ [][IntegralNext]_integralVars
-----------------------------------------------------------------------------
(* The processes that counters should count. *)
Attached == {p \in Procs : procAt[p] \in {"init_mutex", "announce", "add", "show", "leave"}}

(* Processes that died with the mutex and have not been deducted yet.      *)
Unnoticed == Cardinality({p \in Procs : lockAt[p] = "relock"}) + (IF ownerDied THEN 1 ELSE 0)

(* As long as the mutex serves - one process set the memory up and nobody  *)
(* has left - counters is the number of processes at work and of those     *)
(* whose death has not been noticed.  If an owner has died while another's *)
(* death was being repaired, a death may never be deducted, but counters   *)
(* is still not too small, so that nobody takes itself for the last one    *)
(* (kod.c:56-90, 101-103, 153-174).                                        *)
CountersTrue ==
  founders = 1 =>
     /\ shmMutex = "ready" => shmCounters = Cardinality(Attached) + Unnoticed
     /\ shmMutex = "doubtful" => shmCounters >= Cardinality(Attached) + Unnoticed
=============================================================================
