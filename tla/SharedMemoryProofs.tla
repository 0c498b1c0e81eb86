------------------------- MODULE SharedMemoryProofs -------------------------
(***************************************************************************)
(* The programs whose processes or threads share memory, for any number of *)
(* them: the integral, the channel, the character counter, the array, the  *)
(* throwers, the students, the divisibility threads and the two firms of   *)
(* help.c and etap4Fail.c.                                                 *)
(***************************************************************************)
EXTENDS Integral, Channel, CharCount, ArrayThinning, BallThrowers, Students,
        DivisibilityThreads, HelpFirm, FailFirm, CircularBufferProofs,
        FoldSums, FunctionTheorems, SequenceTheorems
-----------------------------------------------------------------------------
(* The count of the processes at work on the integral, when they may die   *)
(* anywhere.                                                               *)
(*                                                                         *)
(* The theorem is about the time before anything has gone wrong: one       *)
(* founder, a mutex that nobody has destroyed or given up.  The invariant  *)
(* is therefore conditional on the same, and says what keeps it so: while  *)
(* the memory is being set up nobody else is inside, and once it is,       *)
(* whoever is in a critical section owns the mutex.                        *)

Intact == shmMutex \in {"unset", "ready", "doubtful"} /\ founders <= 1

(* The types the argument needs.                                           *)
Typed == /\ shmCounters \in Int
         /\ founders \in Nat
         /\ procAt \in [Procs -> {"start", "open", "create", "truncate", "look", "set_up",
                                  "init_mutex", "announce", "done", "dead"} \cup Sections]
         /\ lockAt \in [Procs -> {"out", "relock", "in"}]

AttachedSteps == {"init_mutex", "announce", "add", "show", "leave"}
Repairing == {p \in Procs : lockAt[p] = "relock"}
DeadOwner == IF ownerDied THEN 1 ELSE 0

Outside(p) == procAt[p] \notin {"set_up"} \cup AttachedSteps \cup Sections

(* Only a process in one of the critical sections uses the mutex.          *)
LocksInSections == \A p \in Procs : lockAt[p] # "out" => procAt[p] \in Sections

(* Nobody is inside before the first process has found counters = 0.       *)
NoneBeforeFounder == founders = 0 =>
  /\ shmCounters = 0
  /\ shmMutex = "unset"
  /\ \A p \in Procs : Outside(p)

(* The founder is alone until it has set counters ...                      *)
FounderAlone == \A p \in Procs : procAt[p] = "set_up" =>
  /\ shmCounters = 0
  /\ \A q \in Procs \ {p} : Outside(q)

(* ... and nobody has touched the mutex until it has initialised it.       *)
MutexUntouched ==
  /\ shmMutex = "unset" => \A p \in Procs : lockAt[p] = "out"
  /\ \A p \in Procs : procAt[p] \in {"set_up", "init_mutex"} =>
        /\ shmMutex = "unset"
        /\ \A q \in Procs \ {p} : procAt[q] \notin {"set_up", "init_mutex"}

(* Who is in a critical section owns the mutex, and the mutex is           *)
(* consistent unless a death has been taken for another.                   *)
OwnerInside == /\ \A p \in Procs : lockAt[p] = "in" =>
                     mutexOwner = p /\ (ownerDied => shmMutex = "doubtful")
               /\ shmMutex = "unset" => mutexOwner = NoProc /\ ~ownerDied

Accounted == Cardinality(Attached) + Cardinality(Repairing) + DeadOwner

Counted == /\ shmCounters >= Accounted
           /\ shmMutex # "doubtful" => shmCounters = Accounted

IntegralInv ==
  /\ Typed
  /\ LocksInSections
  /\ Intact => /\ NoneBeforeFounder
               /\ FounderAlone
               /\ MutexUntouched
               /\ OwnerInside
               /\ Counted
-----------------------------------------------------------------------------
LEMMA IntegralInitInv == IntegralInit => IntegralInv
<1> SUFFICES ASSUME IntegralInit PROVE IntegralInv
  OBVIOUS
<1> USE DEF IntegralInit
<1>1. Attached = {} /\ Repairing = {}
  BY DEF Attached, Repairing
<1>2. Counted
  BY <1>1, FS_EmptySet DEF Counted, Accounted, DeadOwner
<1> QED
  BY <1>2 DEF IntegralInv, Typed, Sections, LocksInSections, NoneBeforeFounder, FounderAlone,
    MutexUntouched, OwnerInside, Outside, AttachedSteps

LEMMA SetsFinite ==
  /\ IsFiniteSet(Attached) /\ Cardinality(Attached) \in Nat
  /\ IsFiniteSet(Repairing) /\ Cardinality(Repairing) \in Nat
<1>1. Attached \in SUBSET Procs /\ Repairing \in SUBSET Procs
  BY DEF Attached, Repairing
<1> QED
  BY <1>1, FS_Subset, FS_CardinalityType, IntegralAssumption

(* Steps outside: nothing is touched, and who goes in finds counters set.  *)
LEMMA OutsideStep ==
  ASSUME IntegralInv, NEW p \in Procs, NEW to,
         to \in {"open", "create", "truncate", "look", "dead", "join"},
         procAt' = [procAt EXCEPT ![p] = to],
         Outside(p), to = "join" => shmCounters # 0,
         UNCHANGED <<shmCounters, founders, mutexVars, lockAt>>
  PROVE  IntegralInv'
<1> USE DEF mutexVars
<1>1. procAt'[p] = to /\ \A q \in Procs : q # p => procAt'[q] = procAt[q]
  BY DEF IntegralInv, Typed
<1>2. Typed' /\ LocksInSections'
  BY <1>1 DEF IntegralInv, Typed, Sections, LocksInSections, Outside
<1>3. Attached' = Attached /\ Repairing' = Repairing
  BY <1>1 DEF Attached, Repairing, Outside, AttachedSteps
<1>4. ASSUME Intact'
      PROVE  NoneBeforeFounder' /\ FounderAlone' /\ MutexUntouched' /\ OwnerInside' /\ Counted'
  <2>1. Intact
    BY <1>4 DEF Intact
  <2>2. NoneBeforeFounder' /\ FounderAlone'
    BY <1>1, <2>1 DEF IntegralInv, NoneBeforeFounder, FounderAlone, Outside, AttachedSteps, Sections
  <2>3. MutexUntouched' /\ OwnerInside'
    BY <1>1, <2>1 DEF IntegralInv, MutexUntouched, OwnerInside
  <2>4. Counted'
    BY <1>3, <2>1 DEF IntegralInv, Counted, Accounted, DeadOwner
  <2> QED
    BY <2>2, <2>3, <2>4
<1> QED
  BY <1>2, <1>4 DEF IntegralInv

(* A process finds counters = 0.  If it is the first, it is alone.         *)
LEMMA FoundStep ==
  ASSUME IntegralInv, NEW p \in Procs, procAt[p] = "look",
         procAt' = [procAt EXCEPT ![p] = "set_up"], founders' = founders + 1,
         UNCHANGED <<shmCounters, mutexVars, lockAt>>
  PROVE  IntegralInv'
<1> USE DEF mutexVars
<1>1. procAt'[p] = "set_up" /\ \A q \in Procs : q # p => procAt'[q] = procAt[q]
  BY DEF IntegralInv, Typed
<1>2. Typed' /\ LocksInSections'
  BY <1>1 DEF IntegralInv, Typed, Sections, LocksInSections
<1>3. Attached' = Attached /\ Repairing' = Repairing
  BY <1>1 DEF Attached, Repairing
<1>4. ASSUME Intact'
      PROVE  NoneBeforeFounder' /\ FounderAlone' /\ MutexUntouched' /\ OwnerInside' /\ Counted'
  <2>1. founders = 0 /\ Intact
    BY <1>4 DEF Intact, IntegralInv, Typed
  <2>2. shmCounters = 0 /\ shmMutex = "unset" /\ \A q \in Procs : Outside(q)
    BY <2>1 DEF IntegralInv, NoneBeforeFounder
  <2>3. NoneBeforeFounder' /\ FounderAlone'
    BY <1>1, <2>1, <2>2 DEF NoneBeforeFounder, FounderAlone, Outside
  <2>4. MutexUntouched' /\ OwnerInside'
    BY <1>1, <2>1, <2>2 DEF IntegralInv, MutexUntouched, OwnerInside, Outside, AttachedSteps
  <2>5. Counted'
    BY <1>3, <2>1 DEF IntegralInv, Counted, Accounted, DeadOwner
  <2> QED
    BY <2>3, <2>4, <2>5
<1> QED
  BY <1>2, <1>4 DEF IntegralInv

LEMMA SetUpInv ==
  ASSUME IntegralInv, NEW p \in Procs, SetUp(p) PROVE IntegralInv'
<1> USE DEF mutexVars
<1>1. /\ procAt[p] = "set_up" /\ procAt'[p] = "init_mutex"
      /\ \A q \in Procs : q # p => procAt'[q] = procAt[q]
      /\ shmCounters' = 1
      /\ UNCHANGED <<founders, shmMutex, mutexOwner, ownerDied, lockAt>>
  BY DEF SetUp, ProcStep, IntegralInv, Typed
<1>2. Typed' /\ LocksInSections'
  BY <1>1 DEF SetUp, ProcStep, IntegralInv, Typed, Sections, LocksInSections
<1>3. ASSUME Intact'
      PROVE  NoneBeforeFounder' /\ FounderAlone' /\ MutexUntouched' /\ OwnerInside' /\ Counted'
  <2>1. Intact
    BY <1>1, <1>3 DEF Intact
  <2>2. founders # 0 /\ \A q \in Procs \ {p} : Outside(q)
    BY <1>1, <2>1 DEF IntegralInv, NoneBeforeFounder, FounderAlone, Outside
  <2>3. shmMutex = "unset" /\ ~ownerDied /\ \A q \in Procs : lockAt[q] = "out"
    BY <1>1, <2>1 DEF IntegralInv, MutexUntouched, OwnerInside
  <2>4. NoneBeforeFounder' /\ FounderAlone'
    BY <1>1, <2>2 DEF NoneBeforeFounder, FounderAlone, Outside
  <2>5. MutexUntouched' /\ OwnerInside'
    BY <1>1, <2>1, <2>2 DEF IntegralInv, MutexUntouched, OwnerInside, Outside, AttachedSteps
  <2>6. Attached' = {p} /\ Repairing' = {} /\ ~ownerDied'
    BY <1>1, <2>2, <2>3 DEF Attached, Repairing, Outside, AttachedSteps
  <2>7. Counted'
    BY <1>1, <2>6, FS_Singleton, FS_EmptySet DEF Counted, Accounted, DeadOwner
  <2> QED
    BY <2>4, <2>5, <2>7
<1> QED
  BY <1>2, <1>3 DEF IntegralInv

LEMMA InitMutexInv ==
  ASSUME IntegralInv, NEW p \in Procs, InitMutex(p) PROVE IntegralInv'
<1> USE DEF memVars
<1>1. /\ procAt[p] = "init_mutex" /\ procAt'[p] = "announce"
      /\ \A q \in Procs : q # p => procAt'[q] = procAt[q]
      /\ shmMutex' = IF shmMutex = "unset" THEN "ready" ELSE "spoilt"
      /\ mutexOwner' = NoProc /\ ~ownerDied'
      /\ UNCHANGED <<founders, shmCounters, lockAt>>
  BY DEF InitMutex, ProcStep, IntegralInv, Typed
<1>2. Typed' /\ LocksInSections'
  BY <1>1 DEF InitMutex, ProcStep, IntegralInv, Typed, Sections, LocksInSections
<1>3. ASSUME Intact'
      PROVE  NoneBeforeFounder' /\ FounderAlone' /\ MutexUntouched' /\ OwnerInside' /\ Counted'
  <2>1. Intact /\ shmMutex = "unset" /\ shmMutex' = "ready"
    BY <1>1, <1>3 DEF Intact
  <2>2. /\ ~ownerDied
        /\ \A q \in Procs : lockAt[q] = "out"
        /\ \A q \in Procs \ {p} : procAt[q] \notin {"set_up", "init_mutex"}
    BY <1>1, <2>1 DEF IntegralInv, MutexUntouched, OwnerInside
  <2>3. founders # 0
    BY <1>1, <2>1 DEF IntegralInv, NoneBeforeFounder, Outside, AttachedSteps
  <2>4. NoneBeforeFounder' /\ FounderAlone' /\ MutexUntouched' /\ OwnerInside'
    BY <1>1, <2>1, <2>2, <2>3 DEF NoneBeforeFounder, FounderAlone, MutexUntouched, OwnerInside
  <2>5. Attached' = Attached /\ Repairing' = Repairing
    BY <1>1 DEF Attached, Repairing
  <2>6. Counted'
    BY <1>1, <2>1, <2>2, <2>5 DEF IntegralInv, Counted, Accounted, DeadOwner
  <2> QED
    BY <2>4, <2>6
<1> QED
  BY <1>2, <1>3 DEF IntegralInv
-----------------------------------------------------------------------------
(* The steps of safe_lock leave procAt and the setting up alone.           *)
LEMMA LockKeeps ==
  ASSUME IntegralInv, NEW p \in Procs, NEW to \in {"relock", "in"},
         procAt[p] \in Sections, lockAt' = [lockAt EXCEPT ![p] = to],
         UNCHANGED <<procAt, founders>>, shmCounters' \in Int,
         Intact' => /\ Intact
                    /\ Serves /\ Serves'
                    /\ OwnerInside'
                    /\ Counted'
  PROVE  IntegralInv'
<1>1. Typed' /\ LocksInSections'
  BY DEF IntegralInv, Typed, LocksInSections
<1>2. ASSUME Intact' PROVE NoneBeforeFounder' /\ FounderAlone' /\ MutexUntouched'
  <2>1. Intact /\ shmMutex # "unset" /\ shmMutex' # "unset"
    BY <1>2 DEF Serves
  <2>2. founders # 0 /\ \A q \in Procs : procAt[q] # "set_up"
    BY <2>1 DEF IntegralInv, NoneBeforeFounder, FounderAlone, MutexUntouched
  <2> QED
    BY <2>1, <2>2 DEF IntegralInv, NoneBeforeFounder, FounderAlone, MutexUntouched
<1> QED
  BY <1>1, <1>2 DEF IntegralInv

LEMMA AcquireInv ==
  ASSUME IntegralInv, NEW p \in Procs, Acquire(p) PROVE IntegralInv'
<1> USE DEF Acquire, LockStep
<1>1. lockAt[p] = "out" /\ lockAt'[p] = "in" /\ \A q \in Procs : q # p => lockAt'[q] = lockAt[q]
  BY DEF IntegralInv, Typed
<1>2. ASSUME Intact' PROVE Intact /\ Serves /\ Serves' /\ OwnerInside' /\ Counted'
  <2>1. Intact /\ Serves /\ Serves'
    BY <1>2 DEF Intact, Serves
  <2>2. \A q \in Procs : lockAt[q] = "in" => mutexOwner = q
    BY <2>1 DEF IntegralInv, OwnerInside
  <2>3. OwnerInside'
    BY <1>1, <2>1, <2>2, IntegralAssumption DEF OwnerInside, Serves
  <2>4. Attached' = Attached /\ Repairing' = Repairing
    BY <1>1 DEF Attached, Repairing
  <2>5. Counted'
    BY <2>1, <2>4 DEF IntegralInv, Counted, Accounted, DeadOwner
  <2> QED
    BY <2>1, <2>3, <2>5
<1> QED
  BY <1>2, LockKeeps DEF IntegralInv, Typed

(* The death is noticed: from now on the repairing process stands for it.  *)
LEMMA MakeConsistentInv ==
  ASSUME IntegralInv, NEW p \in Procs, MakeConsistent(p) PROVE IntegralInv'
<1> USE DEF MakeConsistent, LockStep
<1>1. lockAt[p] = "out" /\ lockAt'[p] = "relock"
      /\ \A q \in Procs : q # p => lockAt'[q] = lockAt[q]
  BY DEF IntegralInv, Typed
<1>2. ASSUME Intact' PROVE Intact /\ Serves /\ Serves' /\ OwnerInside' /\ Counted'
  <2>1. Intact /\ Serves /\ Serves'
    BY <1>2 DEF Intact, Serves
  <2>2. OwnerInside'
    BY <1>1, <2>1 DEF IntegralInv, OwnerInside
  <2>3. Attached' = Attached /\ Repairing' = Repairing \cup {p} /\ p \notin Repairing
    BY <1>1 DEF Attached, Repairing
  <2>4. Cardinality(Repairing') = Cardinality(Repairing) + 1
    BY <2>3, SetsFinite, FS_AddElement
  <2>5. DeadOwner = 1 /\ DeadOwner' = 0
    BY DEF DeadOwner
  <2>6. Counted'
    BY <2>1, <2>3, <2>4, <2>5, SetsFinite DEF IntegralInv, Counted, Accounted
  <2> QED
    BY <2>1, <2>2, <2>6
<1> QED
  BY <1>2, LockKeeps DEF IntegralInv, Typed

(* The dead process is deducted.                                           *)
LEMMA RelockInv ==
  ASSUME IntegralInv, NEW p \in Procs, Relock(p) PROVE IntegralInv'
<1> USE DEF Relock, LockStep
<1>1. lockAt[p] = "relock" /\ lockAt'[p] = "in"
      /\ \A q \in Procs : q # p => lockAt'[q] = lockAt[q]
  BY DEF IntegralInv, Typed
<1>2. ASSUME Intact' PROVE Intact /\ Serves /\ Serves' /\ OwnerInside' /\ Counted'
  <2>1. Intact /\ shmMutex # "unset"
    BY <1>1, <1>2 DEF Intact, Serves, IntegralInv, MutexUntouched
  <2>2. Serves
    BY <2>1 DEF Intact, Serves
  <2>3. /\ mutexOwner = NoProc /\ mutexOwner' = p /\ ownerDied' = ownerDied
        /\ Serves' /\ shmMutex' = IF ownerDied THEN "doubtful" ELSE shmMutex
    BY <2>2 DEF Serves
  <2>4. \A q \in Procs : lockAt[q] = "in" => mutexOwner = q
    BY <2>1 DEF IntegralInv, OwnerInside
  <2>5. OwnerInside'
    BY <1>1, <2>3, <2>4, IntegralAssumption DEF OwnerInside, Serves
  <2>6. Attached' = Attached /\ Repairing' = Repairing \ {p} /\ p \in Repairing
    BY <1>1 DEF Attached, Repairing
  <2>7. Cardinality(Repairing') = Cardinality(Repairing) - 1
    BY <2>6, SetsFinite, FS_RemoveElement
  <2>8. DeadOwner' = DeadOwner /\ DeadOwner \in Nat
    BY <2>3 DEF DeadOwner
  <2>9. Counted'
    BY <2>1, <2>3, <2>6, <2>7, <2>8, SetsFinite DEF IntegralInv, Typed, Counted, Accounted
  <2> QED
    BY <2>1, <2>2, <2>3, <2>5, <2>9
<1>3. /\ procAt[p] \in Sections
      /\ lockAt' = [lockAt EXCEPT ![p] = "in"]
      /\ UNCHANGED <<procAt, founders>>
      /\ shmCounters' \in Int
  BY DEF IntegralInv, Typed
<1> HIDE DEF Relock, LockStep
<1> QED
  BY <1>2, <1>3, LockKeeps

LEMMA AcquireSpoiltInv ==
  ASSUME IntegralInv, NEW p \in Procs, AcquireSpoilt(p) PROVE IntegralInv'
<1>1. ~Intact'
  BY DEF AcquireSpoilt, Intact
<1>2. shmCounters' \in Int
  BY DEF AcquireSpoilt, IntegralInv, Typed
<1>3. /\ procAt[p] \in Sections
      /\ lockAt' = [lockAt EXCEPT ![p] = "in"]
      /\ UNCHANGED <<procAt, founders>>
  BY DEF AcquireSpoilt, LockStep
<1>4. Typed' /\ LocksInSections'
  BY <1>2, <1>3 DEF IntegralInv, Typed, LocksInSections
<1> QED
  BY <1>1, <1>4 DEF IntegralInv
-----------------------------------------------------------------------------
(* The end of a critical section.                                          *)
LEMMA SectionEnds ==
  ASSUME IntegralInv, NEW p \in Procs, NEW to,
         to \in {"announce", "add", "show", "leave", "dead"},
         procAt[p] \in Sections, procAt' = [procAt EXCEPT ![p] = to],
         lockAt[p] = "in", lockAt' = [lockAt EXCEPT ![p] = "out"],
         founders' = founders, shmCounters' \in Int,
         Intact' => /\ Intact
                    /\ shmMutex' = shmMutex
                    /\ mutexOwner' = NoProc
                    /\ Counted'
  PROVE  IntegralInv'
<1>1. /\ procAt'[p] = to /\ \A q \in Procs : q # p => procAt'[q] = procAt[q]
      /\ lockAt'[p] = "out" /\ \A q \in Procs : q # p => lockAt'[q] = lockAt[q]
  BY DEF IntegralInv, Typed
<1>2. Typed' /\ LocksInSections'
  BY <1>1 DEF IntegralInv, Typed, Sections, LocksInSections
<1>3. ASSUME Intact' PROVE NoneBeforeFounder' /\ FounderAlone' /\ MutexUntouched' /\ OwnerInside'
  <2>1. Intact /\ shmMutex' = shmMutex /\ mutexOwner' = NoProc
    BY <1>3
  <2>2. shmMutex # "unset"
    BY <2>1 DEF Intact, IntegralInv, MutexUntouched
  <2>3. founders # 0 /\ \A q \in Procs : procAt[q] \notin {"set_up", "init_mutex"}
    BY <2>1, <2>2 DEF IntegralInv, NoneBeforeFounder, MutexUntouched
  <2>4. \A q \in Procs : lockAt[q] = "in" => q = p
    BY <2>1 DEF IntegralInv, OwnerInside
  <2> QED
    BY <1>1, <2>1, <2>2, <2>3, <2>4
    DEF NoneBeforeFounder, FounderAlone, MutexUntouched, OwnerInside
<1> QED
  BY <1>2, <1>3 DEF IntegralInv

(* As long as the memory is intact who unlocks is the owner, and its mutex *)
(* is consistent.                                                          *)
LEMMA UnlockIntact ==
  ASSUME IntegralInv, NEW p \in Procs, Unlock(p), founders' = founders, Intact'
  PROVE  Intact /\ shmMutex' = shmMutex /\ mutexOwner' = NoProc /\ ~ownerDied /\ ~ownerDied'
<1>1. Intact
  BY DEF Unlock, Intact
<1>2. mutexOwner = p /\ ~ownerDied
  BY <1>1 DEF Unlock, Intact, IntegralInv, OwnerInside
<1> QED
  BY <1>1, <1>2 DEF Unlock

LEMMA JoinInv ==
  ASSUME IntegralInv, NEW p \in Procs, Join(p) PROVE IntegralInv'
<1> USE DEF Join, ProcStep
<1>1. /\ procAt[p] = "join" /\ procAt'[p] = "announce"
      /\ \A q \in Procs : q # p => procAt'[q] = procAt[q]
      /\ lockAt[p] = "in" /\ lockAt'[p] = "out"
      /\ \A q \in Procs : q # p => lockAt'[q] = lockAt[q]
  BY DEF Unlock, IntegralInv, Typed
<1>2. ASSUME Intact' PROVE Intact /\ shmMutex' = shmMutex /\ mutexOwner' = NoProc /\ Counted'
  <2>1. Intact /\ shmMutex' = shmMutex /\ mutexOwner' = NoProc /\ ~ownerDied /\ ~ownerDied'
    BY <1>2, UnlockIntact
  <2>2. Attached' = Attached \cup {p} /\ p \notin Attached /\ Repairing' = Repairing
    BY <1>1 DEF Attached, Repairing
  <2>3. Cardinality(Attached') = Cardinality(Attached) + 1
    BY <2>2, SetsFinite, FS_AddElement
  <2>4. DeadOwner' = DeadOwner /\ DeadOwner \in Nat
    BY <2>1 DEF DeadOwner
  <2>5. shmCounters' = shmCounters + 1 /\ shmCounters \in Int
    BY DEF IntegralInv, Typed
  <2>6. Accounted' = Accounted + 1 /\ Accounted \in Nat
    BY <2>2, <2>3, <2>4, SetsFinite DEF Accounted
  <2>7. Counted'
    BY <2>1, <2>5, <2>6 DEF IntegralInv, Counted
  <2> QED
    BY <2>1, <2>7
<1>3. lockAt' = [lockAt EXCEPT ![p] = "out"] /\ shmCounters' \in Int
  BY DEF Unlock, IntegralInv, Typed
<1>4. procAt' = [procAt EXCEPT ![p] = "announce"] /\ founders' = founders
  OBVIOUS
<1> QED
  BY <1>1, <1>2, <1>3, <1>4, SectionEnds DEF Sections

(* A batch is added, or the result shown.                                  *)
LEMMA ShareInv ==
  ASSUME IntegralInv, NEW p \in Procs, AddBatch(p) \/ Show(p) PROVE IntegralInv'
<1> USE DEF ProcStep, memVars
<1>1. PICK to \in {"add", "show", "leave"} :
        /\ procAt[p] \in {"add", "show"}
        /\ procAt' = [procAt EXCEPT ![p] = to]
        /\ Unlock(p)
        /\ UNCHANGED memVars
  BY DEF AddBatch, Show
<1>2. /\ procAt'[p] = to /\ \A q \in Procs : q # p => procAt'[q] = procAt[q]
      /\ lockAt[p] = "in" /\ lockAt'[p] = "out"
      /\ \A q \in Procs : q # p => lockAt'[q] = lockAt[q]
  BY <1>1 DEF Unlock, IntegralInv, Typed
<1>3. ASSUME Intact' PROVE Intact /\ shmMutex' = shmMutex /\ mutexOwner' = NoProc /\ Counted'
  <2>1. Intact /\ shmMutex' = shmMutex /\ mutexOwner' = NoProc /\ ~ownerDied /\ ~ownerDied'
    BY <1>1, <1>3, UnlockIntact
  <2>2. Attached' = Attached /\ Repairing' = Repairing
    BY <1>1, <1>2 DEF Attached, Repairing
  <2>3. Counted'
    BY <1>1, <2>1, <2>2 DEF IntegralInv, Counted, Accounted, DeadOwner
  <2> QED
    BY <2>1, <2>3
<1> QED
  BY <1>1, <1>3, SectionEnds DEF Sections, Unlock, IntegralInv, Typed

(* The dead process is still counted; its mutex says that it is owed.      *)
LEMMA DieLockedInv ==
  ASSUME IntegralInv, NEW p \in Procs, DieLocked(p) PROVE IntegralInv'
<1> USE DEF DieLocked, ProcStep, memVars
<1>1. /\ procAt[p] = "add" /\ procAt'[p] = "dead"
      /\ \A q \in Procs : q # p => procAt'[q] = procAt[q]
      /\ lockAt[p] = "in" /\ lockAt'[p] = "out"
      /\ \A q \in Procs : q # p => lockAt'[q] = lockAt[q]
  BY DEF IntegralInv, Typed
<1>2. ASSUME Intact' PROVE Intact /\ mutexOwner' = NoProc /\ Counted'
  <2>1. Intact
    BY <1>2 DEF Intact
  <2>2. /\ mutexOwner = p /\ ownerDied' /\ mutexOwner' = NoProc
        /\ ownerDied => shmMutex = "doubtful"
    BY <1>1, <2>1 DEF IntegralInv, OwnerInside
  <2>3. Attached' = Attached \ {p} /\ p \in Attached /\ Repairing' = Repairing
    BY <1>1 DEF Attached, Repairing
  <2>4. Cardinality(Attached') = Cardinality(Attached) - 1
    BY <2>3, SetsFinite, FS_RemoveElement
  <2>5. DeadOwner \in {0, 1} /\ DeadOwner' = 1 /\ (shmMutex # "doubtful" => DeadOwner = 0)
    BY <2>2 DEF DeadOwner
  <2>6. Counted'
    BY <2>1, <2>3, <2>4, <2>5, SetsFinite DEF IntegralInv, Typed, Counted, Accounted
  <2> QED
    BY <2>1, <2>2, <2>6
<1> QED
  BY <1>2, SectionEnds DEF Sections, IntegralInv, Typed

(* Who leaves spoils the mutex: the rest promises nothing any more.        *)
LEMMA LeaveInv ==
  ASSUME IntegralInv, NEW p \in Procs, Leave(p) PROVE IntegralInv'
<1>1. ~Intact'
  BY DEF Leave, Intact
<1>2. Typed' /\ LocksInSections'
  BY DEF Leave, ProcStep, IntegralInv, Typed, Sections, LocksInSections
<1> QED
  BY <1>1, <1>2 DEF IntegralInv

LEMMA AnnounceInv ==
  ASSUME IntegralInv, NEW p \in Procs, Announce(p) PROVE IntegralInv'
<1> USE DEF ProcStep, mutexVars
<1>1. PICK to \in {"add", "show"} : procAt' = [procAt EXCEPT ![p] = to]
  BY DEF Announce
<1>2. /\ procAt[p] = "announce" /\ procAt'[p] = to
      /\ \A q \in Procs : q # p => procAt'[q] = procAt[q]
      /\ UNCHANGED <<shmCounters, founders, shmMutex, mutexOwner, ownerDied, lockAt>>
  BY <1>1 DEF Announce, IntegralInv, Typed
<1>3. Typed' /\ LocksInSections'
  BY <1>1, <1>2 DEF IntegralInv, Typed, Sections, LocksInSections
<1>4. Attached' = Attached /\ Repairing' = Repairing
  BY <1>2 DEF Attached, Repairing
<1>5. ASSUME Intact'
      PROVE  NoneBeforeFounder' /\ FounderAlone' /\ MutexUntouched' /\ OwnerInside' /\ Counted'
  <2>1. Intact
    BY <1>2, <1>5 DEF Intact
  <2>2. founders # 0 /\ \A q \in Procs : procAt[q] # "set_up"
    BY <1>2, <2>1 DEF IntegralInv, NoneBeforeFounder, FounderAlone, Outside, AttachedSteps
  <2>3. NoneBeforeFounder' /\ FounderAlone' /\ MutexUntouched' /\ OwnerInside'
    BY <1>2, <2>1, <2>2
    DEF IntegralInv, NoneBeforeFounder, FounderAlone, MutexUntouched, OwnerInside
  <2>4. Counted'
    BY <1>2, <1>4, <2>1 DEF IntegralInv, Counted, Accounted, DeadOwner
  <2> QED
    BY <2>3, <2>4
<1> QED
  BY <1>3, <1>5 DEF IntegralInv
-----------------------------------------------------------------------------
LEMMA ProcNextInv ==
  ASSUME IntegralInv, NEW p \in Procs, ProcNext(p) PROVE IntegralInv'
<1> USE DEF ProcStep, memVars, Outside, AttachedSteps, Sections
<1>1. CASE PassSemaphore(p)
  BY <1>1, OutsideStep DEF PassSemaphore
<1>2. CASE OpenSegment(p)
  BY <1>2, OutsideStep DEF OpenSegment
<1>3. CASE CreateSegment(p)
  BY <1>3, OutsideStep DEF CreateSegment
<1>4. CASE TruncateSegment(p)
  BY <1>4, OutsideStep DEF TruncateSegment
<1>5. CASE LookAtCounters(p)
  <2>1. CASE segment # "empty" /\ shmCounters = 0
    BY <1>5, <2>1, FoundStep DEF LookAtCounters
  <2>2. CASE segment = "empty" \/ shmCounters # 0
    BY <1>5, <2>2, OutsideStep DEF LookAtCounters
  <2> QED
    BY <2>1, <2>2
<1>6. CASE SetUp(p) \/ InitMutex(p)
  BY <1>6, SetUpInv, InitMutexInv
<1>7. CASE Acquire(p) \/ MakeConsistent(p) \/ Relock(p) \/ AcquireSpoilt(p)
  BY <1>7, AcquireInv, MakeConsistentInv, RelockInv, AcquireSpoiltInv
<1>8. CASE Join(p) \/ AddBatch(p) \/ Show(p) \/ DieLocked(p) \/ Leave(p)
  BY <1>8, JoinInv, ShareInv, DieLockedInv, LeaveInv
<1>9. CASE Announce(p)
  BY <1>9, AnnounceInv
<1> QED
  BY <1>1, <1>2, <1>3, <1>4, <1>5, <1>6, <1>7, <1>8, <1>9 DEF ProcNext

LEMMA IntegralStutter ==
  ASSUME IntegralInv, UNCHANGED integralVars PROVE IntegralInv'
BY DEF integralVars, memVars, mutexVars, IntegralInv, Typed, LocksInSections, Intact,
  NoneBeforeFounder, FounderAlone, MutexUntouched, OwnerInside, Counted, Accounted, DeadOwner, Outside,
  Attached, Repairing

LEMMA IntegralStepInv == IntegralInv /\ [IntegralNext]_integralVars => IntegralInv'
BY ProcNextInv, IntegralStutter DEF IntegralNext

LEMMA IntegralInvCounters == IntegralInv => CountersTrue
<1> SUFFICES ASSUME IntegralInv, Serves, founders = 1
             PROVE  /\ shmCounters >= Cardinality(Attached) + Unnoticed
                    /\ shmMutex = "ready" => shmCounters = Cardinality(Attached) + Unnoticed
  BY DEF CountersTrue, Serves
<1>1. Counted
  BY DEF IntegralInv, Intact, Serves
<1>2. Unnoticed = Cardinality(Repairing) + DeadOwner
  BY DEF Unnoticed, Repairing, DeadOwner
<1>3. DeadOwner \in Nat
  BY DEF DeadOwner
<1> QED
  BY <1>1, <1>2, <1>3, SetsFinite DEF Counted, Accounted

(* Wherever processes die, counters is the number of those at work and of  *)
(* the dead that have not been deducted, or larger if two have died at     *)
(* once, as long as one process has set the memory up and nobody has left  *)
(* (kod.c:56-90, 153-174), for any number of processes.                    *)
THEOREM IntegralCountersTrue == IntegralSpec => []CountersTrue
BY IntegralStepInv, IntegralInvCounters, IntegralInitInv, PTL DEF IntegralSpec

(* The two counters of kod.c that only grow: each process looks at the     *)
(* segment once, and announces itself once.                                *)
HasLooked == {p \in Procs : procAt[p] \notin {"start", "open", "create", "truncate", "look"}}
HasAnnounced == {p \in Procs : procAt[p] \in {"add", "show", "leave", "done", "dead"}}

IntegralRest ==
  /\ segment \in {"none", "empty", "sized", "unlinked"}
  /\ shmMutex \in {"unset", "ready", "doubtful", "spoilt"}
  /\ mutexOwner \in Procs \cup {NoProc}
  /\ ownerDied \in BOOLEAN

EachOnce == /\ sem \in Nat \ {0} /\ sem <= 1 + Cardinality(HasAnnounced)
            /\ founders <= Cardinality(HasLooked)

LEMMA ProcSetsFinite ==
  ASSUME NEW S \in SUBSET Procs
  PROVE  IsFiniteSet(S) /\ Cardinality(S) \in Nat /\ Cardinality(S) <= Cardinality(Procs)
         /\ Cardinality(Procs) \in Nat
BY FS_Subset, FS_CardinalityType, IntegralAssumption

LEMMA IntegralTypesFollow == IntegralInv /\ IntegralRest /\ EachOnce => IntegralTypeOK
<1> SUFFICES ASSUME IntegralInv, IntegralRest, EachOnce PROVE IntegralTypeOK
  OBVIOUS
<1>1. HasLooked \in SUBSET Procs /\ HasAnnounced \in SUBSET Procs
  BY DEF HasLooked, HasAnnounced
<1>2. PICK n \in Nat : n = Cardinality(Procs)
  BY ProcSetsFinite
<1>3. Cardinality(HasLooked) \in Nat /\ Cardinality(HasLooked) <= n
  BY <1>1, <1>2, ProcSetsFinite
<1>4. Cardinality(HasAnnounced) \in Nat /\ Cardinality(HasAnnounced) <= n
  BY <1>1, <1>2, ProcSetsFinite
<1>5. founders \in Nat
  BY DEF IntegralInv, Typed
<1>6. founders \in 0 .. n /\ sem \in 1 .. 1 + n
  BY <1>3, <1>4, <1>5 DEF EachOnce
<1> QED
  BY <1>2, <1>6 DEF IntegralInv, Typed, IntegralRest, IntegralTypeOK

LEMMA IntegralTypesInit == IntegralInit => IntegralRest /\ EachOnce
<1> SUFFICES ASSUME IntegralInit PROVE IntegralRest /\ EachOnce
  OBVIOUS
<1>1. PICK l, a \in Nat : l = Cardinality(HasLooked) /\ a = Cardinality(HasAnnounced)
  BY ProcSetsFinite DEF HasLooked, HasAnnounced
<1>2. sem = 1 /\ founders = 0 /\ IntegralRest
  BY DEF IntegralInit, IntegralRest
<1>3. 1 <= 1 + a /\ 0 <= l
  OBVIOUS
<1> QED
  BY <1>1, <1>2, <1>3 DEF EachOnce

LEMMA RestStep == ASSUME IntegralRest, NEW p \in Procs, ProcNext(p) PROVE IntegralRest'
<1> USE DEF IntegralRest, memVars, mutexVars
<1>1. CASE PassSemaphore(p) \/ OpenSegment(p) \/ CreateSegment(p) \/ TruncateSegment(p)
           \/ LookAtCounters(p) \/ SetUp(p) \/ InitMutex(p) \/ Announce(p)
  BY <1>1 DEF PassSemaphore, OpenSegment, CreateSegment, TruncateSegment, LookAtCounters,
              SetUp, InitMutex, Announce
<1>2. CASE Acquire(p) \/ MakeConsistent(p) \/ Relock(p) \/ AcquireSpoilt(p)
  BY <1>2 DEF Acquire, MakeConsistent, Relock, AcquireSpoilt, LockStep
<1>3. CASE Join(p) \/ AddBatch(p) \/ Show(p)
  BY <1>3 DEF Join, AddBatch, Show, Unlock
<1>4. CASE DieLocked(p) \/ Leave(p)
  BY <1>4 DEF DieLocked, Leave
<1> QED
  BY <1>1, <1>2, <1>3, <1>4 DEF ProcNext

(* No process goes back, and a counter grows only with its set.            *)
LEMMA GrowsOnce ==
  ASSUME Typed, NEW p \in Procs, ProcNext(p)
  PROVE  /\ HasLooked \subseteq HasLooked' /\ HasAnnounced \subseteq HasAnnounced'
         /\ sem' = sem \/ (sem' = sem + 1 /\ p \in HasAnnounced' \ HasAnnounced)
         /\ founders' = founders \/ (founders' = founders + 1 /\ p \in HasLooked' \ HasLooked)
<1> USE DEF Typed, HasLooked, HasAnnounced, memVars, Sections
<1>1. CASE PassSemaphore(p) \/ OpenSegment(p) \/ CreateSegment(p) \/ TruncateSegment(p)
           \/ SetUp(p) \/ InitMutex(p)
  BY <1>1 DEF PassSemaphore, OpenSegment, CreateSegment, TruncateSegment, SetUp, InitMutex, ProcStep
<1>2. CASE LookAtCounters(p)
  BY <1>2 DEF LookAtCounters, ProcStep
<1>3. CASE Acquire(p) \/ MakeConsistent(p) \/ Relock(p) \/ AcquireSpoilt(p)
  BY <1>3 DEF Acquire, MakeConsistent, Relock, AcquireSpoilt, LockStep
<1>4. CASE Join(p) \/ AddBatch(p) \/ Show(p)
  BY <1>4 DEF Join, AddBatch, Show, ProcStep
<1>5. CASE Announce(p)
  BY <1>5 DEF Announce, ProcStep
<1>6. CASE DieLocked(p) \/ Leave(p)
  BY <1>6 DEF DieLocked, Leave, ProcStep
<1> QED
  BY <1>1, <1>2, <1>3, <1>4, <1>5, <1>6 DEF ProcNext

LEMMA SetOutgrows ==
  ASSUME NEW S \in SUBSET Procs, NEW T \in SUBSET Procs, S \subseteq T
  PROVE  /\ Cardinality(S) \in Nat /\ Cardinality(T) \in Nat /\ Cardinality(S) <= Cardinality(T)
         /\ \A p \in T \ S : Cardinality(S) + 1 <= Cardinality(T)
<1>1. IsFiniteSet(S) /\ IsFiniteSet(T) /\ Cardinality(S) \in Nat /\ Cardinality(T) \in Nat
  BY ProcSetsFinite
<1>2. Cardinality(S) <= Cardinality(T)
  BY <1>1, FS_Subset
<1>3. ASSUME NEW p \in T \ S PROVE Cardinality(S) + 1 <= Cardinality(T)
  <2>1. Cardinality(S \cup {p}) = Cardinality(S) + 1
    BY <1>1, FS_AddElement
  <2>2. Cardinality(S \cup {p}) <= Cardinality(T)
    BY <1>1, FS_Subset
  <2> QED
    BY <2>1, <2>2
<1> QED
  BY <1>1, <1>2, <1>3

LEMMA EachOnceStep ==
  ASSUME Typed, EachOnce, founders' \in Nat, NEW p \in Procs, ProcNext(p)
  PROVE  EachOnce'
<1>1. PICK G, H, A, B \in SUBSET Procs : /\ G = HasLooked /\ H = HasLooked'
                                         /\ A = HasAnnounced /\ B = HasAnnounced'
  BY DEF HasLooked, HasAnnounced
<1>2. /\ G \subseteq H /\ A \subseteq B
      /\ sem' = sem \/ (sem' = sem + 1 /\ p \in B \ A)
      /\ founders' = founders \/ (founders' = founders + 1 /\ p \in H \ G)
  BY <1>1, GrowsOnce
<1>3. /\ Cardinality(A) \in Nat /\ Cardinality(B) \in Nat /\ Cardinality(A) <= Cardinality(B)
      /\ p \in B \ A => Cardinality(A) + 1 <= Cardinality(B)
  BY <1>2, SetOutgrows
<1>4. /\ Cardinality(G) \in Nat /\ Cardinality(H) \in Nat /\ Cardinality(G) <= Cardinality(H)
      /\ p \in H \ G => Cardinality(G) + 1 <= Cardinality(H)
  BY <1>2, SetOutgrows
<1>5. sem \in Nat \ {0} /\ sem <= 1 + Cardinality(A) /\ founders <= Cardinality(G) /\ founders \in Nat
  BY <1>1 DEF EachOnce, Typed
<1>6. sem' \in Nat \ {0} /\ sem' <= 1 + Cardinality(B)
  BY <1>2, <1>3, <1>5
<1>7. founders' <= Cardinality(H)
  BY <1>2, <1>4, <1>5
<1> QED
  BY <1>1, <1>6, <1>7 DEF EachOnce

IntegralTypes == IntegralInv /\ IntegralRest /\ EachOnce

LEMMA IntegralTypesStep == IntegralTypes /\ IntegralInv' /\ [IntegralNext]_integralVars => IntegralTypes'
<1> SUFFICES ASSUME IntegralTypes, IntegralInv', [IntegralNext]_integralVars
             PROVE  IntegralRest' /\ EachOnce'
  BY DEF IntegralTypes
<1>1. ASSUME NEW p \in Procs, ProcNext(p) PROVE IntegralRest' /\ EachOnce'
  <2>1. Typed /\ founders' \in Nat
    BY DEF IntegralTypes, IntegralInv, Typed
  <2> QED
    BY <1>1, <2>1, RestStep, EachOnceStep DEF IntegralTypes
<1>2. CASE UNCHANGED integralVars
  BY <1>2 DEF integralVars, memVars, mutexVars, IntegralTypes, IntegralRest, EachOnce,
              HasLooked, HasAnnounced
<1> QED
  BY <1>1, <1>2 DEF IntegralNext
-----------------------------------------------------------------------------
(* The channel implements the one-place channel. *)

(* Who is between lock and unlock owns the mutex. *)
OwnsMutex == \A u \in Users : userAt[u] \in {"test", "access", "unlock"} => dataMtx = u

OpeningSteps == {"init", "setup", "sem_post"}

(* The semaphore lets one process at a time into channel_open. *)
OneOpens == /\ \A u \in Users : userAt[u] \in OpeningSteps => ~semaphore
            /\ \A u, v \in Users : userAt[u] \in OpeningSteps /\ userAt[v] \in OpeningSteps
                                      => u = v

(* Nobody uses a channel that is not set up, or is being set up. *)
SetUpFirst == /\ \A u \in Users : userAt[u] = "setup" => status = "UNINITIALIZED"
              /\ status = "UNINITIALIZED" =>
                    \A u \in Users : userAt[u] \in {"sem_wait", "init", "setup"}

(* What the loop around the wait has established still holds at the place. *)
WaitOver == /\ \A w \in Writers : userAt[w] = "access" => status # "OCCUPIED"
            /\ \A r \in Readers : userAt[r] = "access" => status = "OCCUPIED"

(* The place holds the message that is sent and not received yet. *)
PlaceHolds == /\ filled => /\ status = "OCCUPIED"
                           /\ content \in Payloads
                           /\ produced = Append(consumed, content)
              /\ ~filled => produced = consumed

ChannelInv == ChannelTypeOK /\ OwnsMutex /\ OneOpens /\ SetUpFirst /\ WaitOver /\ PlaceHolds
-----------------------------------------------------------------------------
(* The conjuncts hold when nobody has opened the channel. *)
LEMMA ChannelInitInv == ChannelInit => ChannelInv
<1> SUFFICES ASSUME ChannelInit PROVE ChannelInv
  OBVIOUS
<1>1. ChannelTypeOK
  <2>1. userAt \in [Users -> UserSteps]
    BY DEF ChannelInit, UserSteps
  <2>2. produced \in Seq(Payloads) /\ consumed \in Seq(Payloads)
    BY DEF ChannelInit
  <2> QED
    BY <2>1, <2>2 DEF ChannelInit, ChannelTypeOK
<1>2. \A u \in Users : userAt[u] = "sem_wait"
  BY DEF ChannelInit
<1>3. OwnsMutex /\ OneOpens /\ SetUpFirst
  BY <1>2 DEF OwnsMutex, OneOpens, OpeningSteps, SetUpFirst
<1>4. WaitOver /\ PlaceHolds
  BY <1>2 DEF ChannelInit, WaitOver, PlaceHolds, Users
<1> QED
  BY <1>1, <1>3, <1>4 DEF ChannelInv

(* Every step keeps them. *)
LEMMA ChannelStepInv == ChannelInv /\ [ChannelNext]_channelVars => ChannelInv'
<1> SUFFICES ASSUME ChannelInv, [ChannelNext]_channelVars PROVE ChannelInv'
  OBVIOUS
<1> USE ChannelAssumption DEF Users, UserSteps, OpeningSteps, UserStep, placeVars, historyVars
<1> USE DEF ChannelInv, ChannelTypeOK, OwnsMutex, OneOpens, SetUpFirst, WaitOver, PlaceHolds
<1>1. ASSUME NEW u \in Users, OpenWaits(u) PROVE ChannelInv'
  BY <1>1 DEF OpenWaits
<1>2. ASSUME NEW u \in Users, FindUninitialized(u) PROVE ChannelInv'
  BY <1>2 DEF FindUninitialized
<1>3. ASSUME NEW u \in Users, SetUpChannel(u) PROVE ChannelInv'
  BY <1>3 DEF SetUpChannel
<1>4. ASSUME NEW u \in Users, AlreadyInitialized(u) PROVE ChannelInv'
  BY <1>4 DEF AlreadyInitialized
<1>5. ASSUME NEW u \in Users, OpenPosts(u) PROVE ChannelInv'
  BY <1>5 DEF OpenPosts
<1>6. ASSUME NEW u \in Users, LockChannel(u) PROVE ChannelInv'
  BY <1>6 DEF LockChannel
<1>7. ASSUME NEW u \in Users, Wakes(u) PROVE ChannelInv'
  BY <1>7 DEF Wakes
<1>8. ASSUME NEW u \in Users, UnlockChannel(u) PROVE ChannelInv'
  BY <1>8 DEF UnlockChannel
<1>9. ASSUME NEW u \in Writers, ProducerWaits(u) PROVE ChannelInv'
  BY <1>9 DEF ProducerWaits, Waits
<1>10. ASSUME NEW u \in Writers, ProducerGoesOn(u) PROVE ChannelInv'
  BY <1>10 DEF ProducerGoesOn, TestPasses
<1>11. ASSUME NEW u \in Writers, ProduceTooLong(u) PROVE ChannelInv'
  BY <1>11 DEF ProduceTooLong
<1>12. ASSUME NEW u \in Writers, StoreMessage(u) PROVE ChannelInv'
  BY <1>12 DEF StoreMessage
<1>13. ASSUME NEW u \in Writers, StoreNothing(u) PROVE ChannelInv'
  BY <1>13 DEF StoreNothing
<1>14. ASSUME NEW u \in Readers, ConsumerWaits(u) PROVE ChannelInv'
  BY <1>14 DEF ConsumerWaits, Waits
<1>15. ASSUME NEW u \in Readers, ConsumerGoesOn(u) PROVE ChannelInv'
  BY <1>15 DEF ConsumerGoesOn, TestPasses
<1>16. ASSUME NEW u \in Readers, TakeMessage(u) PROVE ChannelInv'
  BY <1>16 DEF TakeMessage
<1>17. ASSUME NEW u \in Readers, TakeNothing(u) PROVE ChannelInv'
  BY <1>17 DEF TakeNothing
<1>18. CASE UNCHANGED channelVars
  BY <1>18 DEF channelVars
<1> QED
  BY <1>1, <1>2, <1>3, <1>4, <1>5, <1>6, <1>7, <1>8, <1>9, <1>10, <1>11, <1>12, <1>13, <1>14, <1>15, <1>16, <1>17, <1>18 DEF ChannelNext, Open, Produce, Consume
(* A step of the channel is a step of the one-place channel: StoreMessage  *)
(* sends, TakeMessage receives, all others change nothing there.           *)
LEMMA ChannelStepSimulates ==
   ChannelInv /\ [ChannelNext]_channelVars => [Slot!Next]_(Slot!slotVars)
<1> SUFFICES ASSUME ChannelInv, [ChannelNext]_channelVars
             PROVE  [Slot!Next]_(Slot!slotVars)
  OBVIOUS
<1>1. ASSUME NEW w \in Writers, StoreMessage(w) PROVE Slot!Send
  <2>1. status # "OCCUPIED"
    BY <1>1 DEF ChannelInv, WaitOver, StoreMessage, UserStep
  <2>2. consumed = produced
    BY <2>1 DEF ChannelInv, PlaceHolds, ChannelTypeOK
  <2> QED
    BY <1>1, <2>2 DEF StoreMessage, Slot!Send
<1>2. ASSUME NEW r \in Readers, TakeMessage(r) PROVE Slot!Receive
  <2>1. /\ content \in Payloads
        /\ produced = Append(consumed, content)
    BY <1>2 DEF ChannelInv, PlaceHolds, TakeMessage
  <2>2. consumed # produced
    BY <2>1 DEF ChannelInv, ChannelTypeOK
  <2> QED
    BY <1>2, <2>1, <2>2 DEF TakeMessage, Slot!Receive
<1>3. ASSUME NEW u \in Users, Open(u) \/ LockChannel(u) \/ Wakes(u) \/ UnlockChannel(u)
      PROVE  UNCHANGED historyVars
  BY <1>3 DEF Open, OpenWaits, FindUninitialized, SetUpChannel, AlreadyInitialized, OpenPosts,
     LockChannel, Wakes, UnlockChannel
<1>4. ASSUME NEW w \in Writers, Produce(w), ~StoreMessage(w) PROVE UNCHANGED historyVars
  BY <1>4 DEF Produce, ProducerWaits, ProducerGoesOn, ProduceTooLong, StoreNothing, Waits, TestPasses
<1>5. ASSUME NEW r \in Readers, Consume(r), ~TakeMessage(r) PROVE UNCHANGED historyVars
  BY <1>5 DEF Consume, ConsumerWaits, ConsumerGoesOn, TakeNothing, Waits, TestPasses
<1>6. CASE UNCHANGED channelVars
  BY <1>6 DEF channelVars, historyVars, Slot!slotVars
<1> QED
  BY <1>1, <1>2, <1>3, <1>4, <1>5, <1>6 DEF ChannelNext, historyVars, Slot!Next, Slot!slotVars
-----------------------------------------------------------------------------
(* The invariant of the channel. *)
THEOREM ChannelInvariant == ChannelSpec => []ChannelInv
  BY ChannelInitInv, ChannelStepInv, PTL DEF ChannelSpec

(* Type correctness of the channel. *)
THEOREM ChannelTypeCorrect == ChannelSpec => []ChannelTypeOK
<1>1. ChannelInv => ChannelTypeOK
  BY DEF ChannelInv
<1> QED
  BY <1>1, ChannelInvariant, PTL

(* The channel implements the one-place channel (kod.c:13-57, 68-138), for *)
(* any number of processes and messages.                                   *)
THEOREM ChannelImplementsOneSlot == ChannelSpec => RefinesOneSlot
<1>1. ChannelInit => Slot!Init
  BY DEF ChannelInit, Slot!Init
<1> QED
  BY <1>1, ChannelInvariant, ChannelStepSimulates, PTL DEF ChannelSpec, RefinesOneSlot, Slot!Spec
-----------------------------------------------------------------------------
(* The character counter.  A child that counts, or has exited, has counted *)
(* the positions of its part up to childPos; the parts do not overlap, so  *)
(* count[c] is the number of positions of c that some child has counted.   *)
CountedBy(i, p) == /\ childAt[i] \in {"count", "exited"}
                   /\ ChunkStart(i) < p /\ p <= childPos[i]
CountedAt(c) == {p \in DOMAIN Text : Text[p] = c /\ \E i \in Children : CountedBy(i, p)}

CharTyped == /\ charCount \in [Chars -> Nat]
             /\ childAt \in [Children -> {"start", "count", "exited", "aborted"}]
             /\ childPos \in [Children -> Nat]
             /\ counterParentAt \in {"wait", "report", "failed", "printed"}

InsidePart == \A i \in Children :
  /\ childAt[i] = "count" => ChunkStart(i) <= childPos[i] /\ childPos[i] <= ChunkEnd(i)
  /\ childAt[i] = "exited" => childPos[i] = ChunkEnd(i)

CountsAreCounted == \A c \in Chars : charCount[c] = Cardinality(CountedAt(c))

ParentKnows ==
  /\ reaped \subseteq Children
  /\ \A i \in reaped : childAt[i] \in {"exited", "aborted"} /\ (childAt[i] = "aborted" => failed)
  /\ counterParentAt # "wait" => reaped = Children
  /\ counterParentAt = "printed" => ~failed

CharInv == CharTyped /\ InsidePart /\ CountsAreCounted /\ ParentKnows

LEMMA TextFacts ==
  /\ Len(Text) \in Nat /\ DOMAIN Text = 1 .. Len(Text)
  /\ \A p \in DOMAIN Text : Text[p] \in Chars
BY TextAssumption DEF Chars

LEMMA ProductGrows ==
  ASSUME NEW a \in Nat, NEW b \in Nat, NEW s \in Nat, a <= b
  PROVE  a * s \in Nat /\ a * s <= b * s
<1> DEFINE d == b - a
<1>1. d \in Nat /\ b = a + d
  OBVIOUS
<1> HIDE DEF d
<1>2. ASSUME NEW m \in Nat, NEW n \in Nat PROVE m * n \in Nat
  OBVIOUS
<1>3. (a + d) * s = a * s + d * s
  BY <1>1
<1>4. a * s \in Nat /\ d * s \in Nat
  BY <1>1, <1>2
<1> QED
  BY <1>1, <1>3, <1>4

LEMMA PartsOfText ==
  /\ ChunkSize \in Nat
  /\ \A i \in Children : /\ i \in Nat /\ ChunkStart(i) \in Nat /\ ChunkEnd(i) \in Nat
                         /\ ChunkStart(i) <= ChunkEnd(i) /\ ChunkEnd(i) <= Len(Text)
  /\ \A i, j \in Children : i < j => ChunkEnd(i) <= ChunkStart(j)
<1>1. ASSUME NEW m \in Nat, NEW n \in Nat \ {0}
      PROVE  m \div n \in Nat /\ n * (m \div n) <= m
  OBVIOUS
<1>2. ASSUME NEW a \in Nat, NEW b \in Nat, NEW s \in Nat, a <= b
      PROVE  a * s \in Nat /\ a * s <= b * s
  BY <1>2, ProductGrows
<1>3. ASSUME NEW a \in Nat, NEW s \in Nat PROVE (a + 1) * s = a * s + s
  OBVIOUS
<1> DEFINE n == ChildCount
           s == ChunkSize
<1>4. n \in Nat \ {0} /\ s \in Nat /\ n * s <= Len(Text)
  BY <1>1, TextFacts, TextAssumption DEF ChunkSize
<1>5. \A i \in Children : i \in Nat /\ i + 1 \in Nat /\ i + 1 <= n
  BY <1>4 DEF Children
<1>6. ChunkStart(n - 1) = (n - 1) * s
  BY DEF ChunkStart
<1> HIDE DEF n, s
<1>7. ASSUME NEW i \in Children
      PROVE  /\ i \in Nat /\ ChunkStart(i) \in Nat /\ ChunkEnd(i) \in Nat
             /\ ChunkStart(i) <= ChunkEnd(i) /\ ChunkEnd(i) <= Len(Text)
             /\ i # n - 1 => ChunkEnd(i) = (i + 1) * s
  <2>1. i * s \in Nat /\ (i + 1) * s = i * s + s /\ (i + 1) * s <= n * s
    BY <1>2, <1>3, <1>4, <1>5
  <2>2. ChunkStart(i) = i * s /\ ChunkEnd(i) = IF i = n - 1 THEN Len(Text) ELSE i * s + s
    BY DEF ChunkStart, ChunkEnd, n, s
  <2> QED
    BY <1>4, <1>5, <2>1, <2>2, TextFacts
<1>8. ASSUME NEW i \in Children, NEW j \in Children, i < j
      PROVE  ChunkEnd(i) <= ChunkStart(j)
  <2>1. i \in Nat /\ j \in Nat /\ i + 1 <= j /\ i # n - 1
    BY <1>4, <1>5, <1>8
  <2>2. (i + 1) * s <= j * s
    BY <1>2, <1>4, <2>1
  <2>3. ChunkStart(j) = j * s
    BY DEF ChunkStart, s
  <2> QED
    BY <1>7, <2>1, <2>2, <2>3
<1> QED
  BY <1>4, <1>7, <1>8 DEF s

LEMMA EveryPositionHasAPart ==
  ASSUME NEW p \in DOMAIN Text
  PROVE  \E i \in Children : ChunkStart(i) < p /\ p <= ChunkEnd(i)
<1> DEFINE n == ChildCount
           s == ChunkSize
<1>1. n \in Nat \ {0} /\ s \in Nat /\ p \in Nat /\ p > 0 /\ p <= Len(Text) /\ Len(Text) \in Nat
  BY PartsOfText, TextAssumption, TextFacts
<1>2. \A i \in 0 .. n - 1 : i \in Children /\ ChunkStart(i) = i * s
  BY DEF Children, ChunkStart
<1>3. \A i \in 0 .. n - 1 : ChunkEnd(i) = IF i = n - 1 THEN Len(Text) ELSE i * s + s
  BY DEF ChunkEnd, ChunkStart
<1> HIDE DEF n, s
<1>4. CASE (n - 1) * s < p
  <2>1. n - 1 \in 0 .. n - 1
    BY <1>1
  <2> QED
    BY <1>1, <1>2, <1>3, <1>4, <2>1
<1>5. CASE ~((n - 1) * s < p)
  <2> DEFINE i == (p - 1) \div s
  <2>1. n - 1 \in Nat /\ (n - 1) * s \in Nat /\ p <= (n - 1) * s
    BY <1>1, <1>5
  <2>2. s # 0
    BY <1>1, <2>1
  <2>3. ASSUME NEW m \in Nat, NEW k \in Nat \ {0}
        PROVE  m \div k \in Nat /\ (m \div k) * k <= m /\ m < (m \div k) * k + k
    OBVIOUS
  <2>4. i \in Nat /\ i * s <= p - 1 /\ p - 1 < i * s + s
    BY <1>1, <2>2, <2>3
  <2> HIDE DEF i
  <2>5. i < n - 1
    <3>1. ASSUME NEW a \in Nat, NEW b \in Nat, a >= b PROVE b * s <= a * s
      BY <1>1, <3>1, ProductGrows
    <3>2. i * s \in Nat /\ i * s < (n - 1) * s
      BY <1>1, <2>1, <2>4
    <3> QED
      BY <2>1, <2>4, <3>1, <3>2
  <2>6. i \in 0 .. n - 1 /\ i # n - 1
    BY <1>1, <2>1, <2>4, <2>5
  <2>7. i \in Children /\ ChunkStart(i) = i * s /\ ChunkEnd(i) = i * s + s
    BY <1>2, <1>3, <2>6
  <2>8. ASSUME NEW a \in Nat, a <= p - 1, p - 1 < a + s PROVE a < p /\ p <= a + s
    BY <1>1, <2>8
  <2>9. i * s \in Nat
    BY <1>1, <2>4
  <2> QED
    BY <2>4, <2>7, <2>8, <2>9
<1> QED
  BY <1>4, <1>5

LEMMA CharInvInit == CharInit => CharInv
<1> SUFFICES ASSUME CharInit PROVE CharInv
  OBVIOUS
<1>1. \A c \in Chars : CountedAt(c) = {}
  BY DEF CharInit, CountedAt, CountedBy
<1> QED
  BY <1>1, FS_EmptySet
  DEF CharInit, CharInv, CharTyped, InsidePart, CountsAreCounted, ParentKnows

(* A step of a child that changes no count and counts no position anew. *)
LEMMA CountsKept ==
  ASSUME CharInv, charCount' = charCount,
         \A i \in Children, p \in DOMAIN Text : CountedBy(i, p)' <=> CountedBy(i, p)
  PROVE  CountsAreCounted'
<1>1. \A c : CountedAt(c)' = CountedAt(c)
  BY DEF CountedAt
<1> QED
  BY <1>1 DEF CharInv, CountsAreCounted

LEMMA CountCharStep ==
  ASSUME CharInv, NEW i \in Children, CountChar(i)
  PROVE  CharInv'
<1> DEFINE q == childPos[i] + 1
<1> USE DEF CharInv
<1>1. /\ childAt[i] = "count" /\ childPos[i] < ChunkEnd(i) /\ UNCHANGED charParentVars
      /\ charCount' = [charCount EXCEPT ![Text[q]] = @ + 1]
      /\ childPos' = [childPos EXCEPT ![i] = q] /\ childAt' = childAt
  BY DEF CountChar, CountingChildStep, CharTyped
<1>2. /\ childPos[i] \in Nat /\ q \in Nat /\ q > ChunkStart(i) /\ q <= ChunkEnd(i)
      /\ q \in DOMAIN Text /\ Text[q] \in Chars
  <2>1. childPos[i] \in Nat /\ ChunkStart(i) <= childPos[i]
    BY <1>1 DEF CharTyped, InsidePart
  <2>2. q \in 1 .. Len(Text) /\ q > ChunkStart(i) /\ q <= ChunkEnd(i)
    BY <1>1, <2>1, PartsOfText, TextFacts
  <2> QED
    BY <2>1, <2>2, TextFacts
<1>3. CharTyped'
  BY <1>1, <1>2 DEF CharTyped, charParentVars
<1>4. InsidePart'
  <2>1. \A j \in Children : ChunkStart(j)' = ChunkStart(j) /\ ChunkEnd(j)' = ChunkEnd(j)
    BY DEF ChunkStart, ChunkEnd, ChunkSize
  <2>2. \A j \in Children : childPos'[j] = IF j = i THEN q ELSE childPos[j]
    BY <1>1 DEF CharTyped
  <2>3. ChunkStart(i) <= q
    BY <1>2, PartsOfText
  <2> QED
    BY <1>1, <1>2, <2>1, <2>2, <2>3 DEF InsidePart
<1>5. ParentKnows'
  BY <1>1 DEF ParentKnows, charParentVars
<1>6. \A j \in Children : ~CountedBy(j, q)
  <2> SUFFICES ASSUME NEW j \in Children, CountedBy(j, q) PROVE FALSE
    OBVIOUS
  <2>1. ChunkStart(j) < q /\ q <= childPos[j] /\ childPos[j] \in Nat /\ j # i
    BY <1>1, <1>2 DEF CountedBy, CharTyped
  <2>2. childPos[j] <= ChunkEnd(j)
    BY PartsOfText DEF CountedBy, InsidePart
  <2>3. i \in Nat /\ j \in Nat /\ (i < j \/ j < i)
    BY <2>1, PartsOfText
  <2> QED
    BY <1>2, <2>1, <2>2, <2>3, PartsOfText
<1>7. \A j \in Children : \A p \in DOMAIN Text :
         CountedBy(j, p)' <=> CountedBy(j, p) \/ (j = i /\ p = q)
  <2> SUFFICES ASSUME NEW j \in Children, NEW p \in DOMAIN Text
               PROVE  CountedBy(j, p)' <=> CountedBy(j, p) \/ (j = i /\ p = q)
    OBVIOUS
  <2>1. p \in Nat
    BY TextFacts
  <2>2. ChunkStart(j)' = ChunkStart(j)
    BY DEF ChunkStart, ChunkSize
  <2>3. CASE j = i
    <3>1. childPos'[i] = q /\ childAt'[i] = "count"
      BY <1>1 DEF CharTyped
    <3> QED
      BY <1>1, <1>2, <2>1, <2>2, <2>3, <3>1 DEF CountedBy
  <2>4. CASE j # i
    <3>1. childPos'[j] = childPos[j] /\ childAt'[j] = childAt[j]
      BY <1>1, <2>4 DEF CharTyped
    <3> QED
      BY <2>2, <2>4, <3>1 DEF CountedBy
  <2> QED
    BY <2>3, <2>4
<1>8. ASSUME NEW c \in Chars PROVE charCount'[c] = Cardinality(CountedAt(c)')
  <2>1. CountedAt(c)' = IF c = Text[q] THEN CountedAt(c) \cup {q} ELSE CountedAt(c)
    BY <1>2, <1>7 DEF CountedAt
  <2>2. q \notin CountedAt(c)
    BY <1>6 DEF CountedAt
  <2>3. IsFiniteSet(CountedAt(c))
    <3>1. IsFiniteSet(DOMAIN Text) /\ CountedAt(c) \subseteq DOMAIN Text
      BY TextFacts, FS_Interval DEF CountedAt
    <3> QED
      BY <3>1, FS_Subset
  <2>4. Cardinality(CountedAt(c) \cup {q}) = Cardinality(CountedAt(c)) + 1
    BY <2>2, <2>3, FS_AddElement
  <2>5. charCount'[c] = IF c = Text[q] THEN charCount[c] + 1 ELSE charCount[c]
    BY <1>1, <1>2 DEF CharTyped
  <2> QED
    BY <2>1, <2>4, <2>5 DEF CountsAreCounted
<1> QED
  BY <1>3, <1>4, <1>5, <1>8 DEF CountsAreCounted

LEMMA OtherCharStep ==
  ASSUME CharInv,
         \/ CountingParent \/ UNCHANGED charVars
         \/ \E i \in Children : ChildAborts(i) \/ ChildMapsFile(i) \/ ChildExits(i)
  PROVE  CharInv'
<1> USE DEF CharInv
<1>1. CASE CountingParent \/ UNCHANGED charVars
  <2>1. UNCHANGED childVars
    BY <1>1 DEF CountingParent, WaitForChild, TaskFailed, PrintCounts, charVars
  <2>2. CharTyped' /\ InsidePart'
    BY <1>1, <2>1 DEF CharTyped, InsidePart, childVars, ChunkStart, ChunkEnd, ChunkSize,
       CountingParent, WaitForChild, TaskFailed, PrintCounts, charVars, charParentVars
  <2>3. CountsAreCounted'
    BY <2>1, CountsKept DEF CountedBy, childVars, ChunkStart, ChunkSize
  <2>4. ParentKnows'
    <3>1. CASE WaitForChild
      <4>1. PICK i \in Children \ reaped : /\ childAt[i] \in {"exited", "aborted"}
                                  /\ reaped' = reaped \cup {i}
                                  /\ failed' = (failed \/ childAt[i] = "aborted")
        BY <3>1 DEF WaitForChild
      <4>2. \A j \in reaped' : /\ childAt'[j] \in {"exited", "aborted"}
                               /\ childAt'[j] = "aborted" => failed'
        <5>1. \A j \in reaped' : j \in reaped \/ j = i
          BY <4>1
        <5>2. childAt' = childAt
          BY <2>1 DEF childVars
        <5>3. failed => failed'
          BY <4>1
        <5>4. childAt[i] = "aborted" => failed'
          BY <4>1
        <5> QED
          BY <4>1, <5>1, <5>2, <5>3, <5>4 DEF ParentKnows
      <4>3. /\ counterParentAt' # "wait" => reaped' = Children
            /\ counterParentAt' # "printed"
        BY <3>1 DEF WaitForChild
      <4>4. reaped' \subseteq Children
        BY <4>1 DEF ParentKnows
      <4> QED
        BY <4>2, <4>3, <4>4 DEF ParentKnows
    <3>2. CASE ~WaitForChild
      BY <1>1, <2>1, <3>2 DEF ParentKnows, childVars, CountingParent, WaitForChild, TaskFailed,
         PrintCounts, charVars, charParentVars
    <3> QED
      BY <3>1, <3>2
  <2> QED
    BY <2>2, <2>3, <2>4
<1>2. ASSUME NEW i \in Children, ChildAborts(i) \/ ChildMapsFile(i) \/ ChildExits(i)
      PROVE  CharInv'
  <2>1. /\ UNCHANGED <<charCount, charParentVars>>
        /\ \A j \in Children \ {i} : childAt'[j] = childAt[j] /\ childPos'[j] = childPos[j]
    BY <1>2 DEF ChildAborts, ChildMapsFile, ChildExits, CountingChildStep, CharTyped
  <2>2. \/ /\ childAt[i] = "start" /\ childAt'[i] = "aborted" /\ childPos'[i] = childPos[i]
        \/ /\ childAt[i] = "start" /\ childAt'[i] = "count" /\ childPos'[i] = ChunkStart(i)
        \/ /\ childAt[i] = "count" /\ childAt'[i] = "exited" /\ childPos'[i] = childPos[i]
           /\ childPos[i] = ChunkEnd(i)
    BY <1>2 DEF ChildAborts, ChildMapsFile, ChildExits, CountingChildStep, CharTyped
  <2>0. \A j \in Children : /\ ChunkStart(j) \in Nat /\ ChunkEnd(j) \in Nat
                            /\ ChunkStart(j) <= ChunkEnd(j)
    BY PartsOfText
  <2>3. CharTyped'
    <3>1. childAt' \in [Children -> {"start", "count", "exited", "aborted"}]
      BY <1>2 DEF CharTyped, ChildAborts, ChildMapsFile, ChildExits, CountingChildStep
    <3>2. childPos' \in [Children -> Nat]
      BY <1>2, <2>0 DEF CharTyped, ChildAborts, ChildMapsFile, ChildExits
    <3> QED
      BY <2>1, <3>1, <3>2 DEF CharTyped, charParentVars
  <2>4. InsidePart'
    <3>1. \A j \in Children : ChunkStart(j)' = ChunkStart(j) /\ ChunkEnd(j)' = ChunkEnd(j)
      BY DEF ChunkStart, ChunkEnd, ChunkSize
    <3>2. \/ childAt'[i] = "aborted"
          \/ childAt'[i] = "count" /\ childPos'[i] = ChunkStart(i)
          \/ childAt'[i] = "exited" /\ childPos'[i] = ChunkEnd(i)
      BY <2>2
    <3> QED
      BY <2>0, <2>1, <3>1, <3>2 DEF InsidePart
  <2>5. ASSUME NEW j \in Children, NEW p \in DOMAIN Text
        PROVE  CountedBy(j, p)' <=> CountedBy(j, p)
    <3>1. p \in Nat /\ ChunkStart(i) \in Nat
      BY TextFacts, PartsOfText
    <3>2. ChunkStart(j)' = ChunkStart(j)
      BY DEF ChunkStart, ChunkSize
    <3> QED
      BY <2>1, <2>2, <3>1, <3>2 DEF CountedBy
  <2>6. CountsAreCounted'
    BY <2>1, <2>5, CountsKept
  <2>7. ParentKnows'
    <3>1. \A j \in reaped : /\ childAt[j] = "exited" => childAt'[j] = "exited"
                            /\ childAt[j] = "aborted" => childAt'[j] = "aborted"
      <4>1. \A j : j # i /\ j \in Children => childAt'[j] = childAt[j]
        BY <2>1
      <4>2. childAt[i] \notin {"exited", "aborted"}
        BY <2>2
      <4>3. \A j \in reaped : j # i /\ j \in Children
        BY <4>2 DEF ParentKnows
      <4> QED
        BY <4>1, <4>3
    <3> QED
      BY <2>1, <3>1 DEF ParentKnows, charParentVars
  <2> QED
    BY <2>3, <2>4, <2>6, <2>7
<1> QED
  BY <1>1, <1>2
LEMMA CharStepInv == CharInv /\ [CharNext]_charVars => CharInv'
BY CountCharStep, OtherCharStep DEF CharNext, CountingChild


THEOREM CharInvariance == CharSpec => []CharInv
BY CharStepInv, CharInvInit, PTL DEF CharSpec

LEMMA CharInvCounts == CharInv => CountsAreTheFiles
<1> SUFFICES ASSUME CharInv, counterParentAt = "printed", NEW c \in Chars
             PROVE  charCount[c] = Cardinality({p \in DOMAIN Text : Text[p] = c})
  BY DEF CountsAreTheFiles
<1>1. \A i \in Children : childAt[i] = "exited" /\ childPos[i] = ChunkEnd(i)
  BY DEF CharInv, ParentKnows, InsidePart
<1>2. CountedAt(c) = {p \in DOMAIN Text : Text[p] = c}
  BY <1>1, EveryPositionHasAPart DEF CountedAt, CountedBy
<1> QED
  BY <1>2 DEF CharInv, CountsAreCounted

(* The counts that are printed are those of the whole file, also when its  *)
(* size is no multiple of n (etap4.c:63-67, 135-162).                      *)
THEOREM PrintedCountsAreTheFiles == CharSpec => []CountsAreTheFiles
BY CharInvCounts, CharInvariance, PTL

LEMMA CharTypesInit == CharInit => CharTypeOK
<1>1. 0 \in 0 .. Len(Text)
  BY TextFacts
<1> QED
  BY <1>1 DEF CharInit, CharTypeOK

LEMMA CharTypesStep ==
  CharTypeOK /\ CharInv /\ CharInv' /\ [CharNext]_charVars => CharTypeOK'
<1> SUFFICES ASSUME CharTypeOK, CharInv, CharInv', [CharNext]_charVars PROVE CharTypeOK'
  OBVIOUS
<1> DEFINE Rest == childPos \in [Children -> 0 .. Len(Text)] /\ failed \in BOOLEAN
<1>0. Rest
  BY DEF CharTypeOK
<1>1. Rest'
  <2>1. ASSUME NEW i \in Children, ChildMapsFile(i) PROVE Rest'
    <3>1. ChunkStart(i) \in 0 .. Len(Text)
      BY PartsOfText, TextFacts
    <3> QED
      BY <1>0, <2>1, <3>1 DEF ChildMapsFile, CountingChildStep, charParentVars
  <2>2. ASSUME NEW i \in Children, CountChar(i) PROVE Rest'
    <3>1. childPos[i] < ChunkEnd(i) /\ ChunkEnd(i) <= Len(Text) /\ ChunkEnd(i) \in Nat
      BY <2>2, PartsOfText DEF CountChar
    <3>2. childPos[i] + 1 \in 0 .. Len(Text)
      BY <1>0, <3>1, TextFacts
    <3> QED
      BY <1>0, <2>2, <3>2 DEF CountChar, CountingChildStep, charParentVars
  <2>3. ASSUME NEW i \in Children, ChildAborts(i) \/ ChildExits(i) PROVE Rest'
    BY <1>0, <2>3 DEF ChildAborts, ChildExits, CountingChildStep, charParentVars
  <2>4. CASE WaitForChild
    BY <1>0, <2>4 DEF WaitForChild, childVars
  <2>5. CASE TaskFailed \/ PrintCounts \/ UNCHANGED charVars
    BY <1>0, <2>5 DEF TaskFailed, PrintCounts, charVars, childVars, charParentVars
  <2> HIDE DEF Rest
  <2> QED
    BY <2>1, <2>2, <2>3, <2>4, <2>5 DEF CharNext, CountingChild, CountingParent
<1>2. ASSUME NEW c \in Chars PROVE charCount'[c] \in 0 .. Len(Text)
  <2>1. PICK A : A = CountedAt(c)'
    OBVIOUS
  <2>2. A \subseteq DOMAIN Text
    BY <2>1 DEF CountedAt
  <2>3. IsFiniteSet(DOMAIN Text) /\ Cardinality(DOMAIN Text) = Len(Text)
    BY TextFacts, FS_Interval
  <2>4. Cardinality(A) <= Len(Text) /\ Cardinality(A) \in Nat
    BY <2>2, <2>3, FS_Subset, FS_CardinalityType
  <2>5. charCount'[c] = Cardinality(A)
    BY <2>1 DEF CharInv, CountsAreCounted
  <2> QED
    BY <2>4, <2>5, TextFacts
<1>3. charCount' \in [Chars -> 0 .. Len(Text)]
  BY <1>2 DEF CharInv, CharTyped
<1> QED
  BY <1>1, <1>3 DEF CharInv, CharTyped, ParentKnows, CharTypeOK
-----------------------------------------------------------------------------
(* Who is between lock and unlock owns the mutex; only the two threads do. *)
ArrayOwners == /\ printerAt \in {"print", "unlock"} <=> mxArray = "main"
               /\ keeperAt \in {"remove", "unlock"} <=> mxArray = "keeper"

(* What main has printed so far is what the array holds up to there.       *)
PrintedSoFar == /\ printerAt = "print" => printed = {i \in remaining : i < cell}
                /\ printerAt = "unlock" => printed = remaining

CountIsCardinality == arrayCount = Cardinality(remaining)

ThinningInv == ArrayTypeOK /\ ArrayOwners /\ PrintedSoFar /\ CountIsCardinality
-----------------------------------------------------------------------------
LEMMA CellsFinite == ASSUME NEW S \in SUBSET Cells
                     PROVE  IsFiniteSet(S) /\ Cardinality(S) \in Nat
<1>1. IsFiniteSet(Cells)
  BY FS_Interval, ArraySizeAssumption DEF Cells
<1>2. IsFiniteSet(S)
  BY <1>1, FS_Subset
<1> QED
  BY <1>2, FS_CardinalityType

LEMMA ThinningInitInv == ArrayInit => ThinningInv
<1> SUFFICES ASSUME ArrayInit PROVE ThinningInv
  OBVIOUS
<1> USE ArraySizeAssumption DEF ArrayInit
<1>1. Cardinality(1 .. ArraySize) = ArraySize
  BY FS_Interval
<1>2. CountIsCardinality
  BY <1>1 DEF CountIsCardinality, Cells
<1>3. ArrayTypeOK
  <2>1. arrayCount \in 0 .. ArraySize /\ cell \in 1 .. ArraySize + 1
    OBVIOUS
  <2> QED
    BY <2>1 DEF ArrayTypeOK
<1>4. ArrayOwners /\ PrintedSoFar
  BY DEF ArrayOwners, PrintedSoFar
<1> QED
  BY <1>2, <1>3, <1>4 DEF ThinningInv

(* A removal with the mutex takes one cell and one from the count.         *)
LEMMA RemovalKeepsCount == ASSUME ThinningInv, RemoveItem PROVE ThinningInv'
<1> USE ArraySizeAssumption DEF ThinningInv, RemoveItem, KeeperStep, printerVars
<1>1. PICK i \in remaining : remaining' = remaining \ {i}
  OBVIOUS
<1>2. remaining' \subseteq Cells /\ remaining \subseteq Cells
  BY <1>1 DEF ArrayTypeOK
<1>3. Cardinality(remaining') = Cardinality(remaining) - 1
  BY <1>1, <1>2, CellsFinite, FS_RemoveElement
<1>4. CountIsCardinality'
  BY <1>3 DEF CountIsCardinality
<1>5. ArrayTypeOK'
  BY <1>2 DEF ArrayTypeOK
<1>6. ArrayOwners' /\ PrintedSoFar'
  BY DEF ArrayOwners, PrintedSoFar
<1> QED
  BY <1>4, <1>5, <1>6

LEMMA ThinningStepInv == ThinningInv /\ [ArrayNext]_arrayVars => ThinningInv'
<1> SUFFICES ASSUME ThinningInv, [ArrayNext]_arrayVars PROVE ThinningInv'
  OBVIOUS
<1> USE DEF ThinningInv, CountIsCardinality
<1>1. CASE RaiseArraySignal
  BY <1>1 DEF RaiseArraySignal, printerVars, ArrayTypeOK, ArrayOwners, PrintedSoFar
<1>2. ASSUME NEW s \in {"SIGINT", "SIGQUIT"}, NEW to \in {"lock", "quit"}, KeeperTakes(s, to)
      PROVE  ThinningInv'
  BY <1>2 DEF KeeperTakes, KeeperStep, printerVars, ArrayTypeOK, ArrayOwners, PrintedSoFar
<1>3. CASE KeeperLocks \/ NothingToRemove \/ KeeperUnlocks \/ KeeperQuits
  BY <1>3 DEF KeeperLocks, NothingToRemove, KeeperUnlocks, KeeperQuits, KeeperStep, printerVars,
     ArrayTypeOK, ArrayOwners, PrintedSoFar
<1>4. CASE RemoveItem
  BY <1>4, RemovalKeepsCount
<1>5. CASE PrinterGoesOn \/ PrinterUnlocks \/ PrinterStops \/ PrinterExits
  BY <1>5 DEF PrinterGoesOn, PrinterUnlocks, PrinterStops, PrinterExits, PrinterStep, keeperVars,
     ArrayTypeOK, ArrayOwners, PrintedSoFar
<1>6. CASE PrinterLocks
  <2>1. \A i \in remaining : ~(i < 1)
    BY DEF ArrayTypeOK, Cells
  <2> QED
    BY <1>6, <2>1, ArraySizeAssumption DEF PrinterLocks, PrinterStep, keeperVars, ArrayTypeOK,
       ArrayOwners, PrintedSoFar
<1>7. CASE PrintCell
  <2> USE <1>7, ArraySizeAssumption DEF PrintCell, PrinterStep, keeperVars
  <2>1. cell \in Cells /\ cell' \in 1 .. ArraySize + 1
    BY DEF ArrayTypeOK, Cells
  <2>2. remaining \subseteq Int /\ cell \in Int /\ printed = {i \in remaining : i < cell}
    BY <2>1 DEF ArrayTypeOK, PrintedSoFar, Cells
  <2>3. \A i \in remaining : i < cell + 1 <=> i < cell \/ i = cell
    BY <2>2
  <2>4. printed' = {i \in remaining : i < cell + 1}
    BY <2>2, <2>3
  <2>5. ArrayTypeOK'
    BY <2>1, <2>4 DEF ArrayTypeOK
  <2> QED
    BY <2>4, <2>5 DEF ArrayOwners, PrintedSoFar
<1>8. CASE Printed
  <2>1. \A i \in remaining : i < cell
    BY <1>8, ArraySizeAssumption DEF Printed, ArrayTypeOK, Cells
  <2>2. printed = {i \in remaining : i < cell}
    BY <1>8 DEF Printed, PrinterStep, PrintedSoFar
  <2>3. printed = remaining
    BY <2>1, <2>2
  <2> QED
    BY <1>8, <2>3 DEF Printed, PrinterStep, keeperVars, ArrayTypeOK, ArrayOwners, PrintedSoFar
<1>9. CASE UNCHANGED arrayVars
  BY <1>9 DEF arrayVars, keeperVars, printerVars, ArrayTypeOK, ArrayOwners, PrintedSoFar
<1> QED
  BY <1>1, <1>2, <1>3, <1>4, <1>5, <1>6, <1>7, <1>8, <1>9 DEF ArrayNext, Keeper, Printer

LEMMA ThinningInvPrints == ThinningInv => PrintIsSnapshot
BY DEF ThinningInv, PrintedSoFar, CountIsCardinality, PrintIsSnapshot

(* A printed line is the array as it was at one moment, with as many items *)
(* as arrayCount says (prog19.c:68-89, 132-158), for any size.             *)
THEOREM ThinningPrintsSnapshot == ArraySpec => []PrintIsSnapshot
BY ThinningInvPrints, ThinningInitInv, ThinningStepInv, PTL DEF ArraySpec
-----------------------------------------------------------------------------
(* The balls of prog18.c: every ball waits, is about to fall, lies in a    *)
(* bin uncounted, or lies in a bin and is counted.                         *)
ThrowersAt(step) == {t \in Throwers : throwerAt[t] = step}

BallsTyped == /\ ballsWaiting \in Nat /\ ballsThrown \in Nat
              /\ bins \in [Bins -> Nat]
              /\ throwerAt \in [Throwers -> {"take", "drop", "count", "ended"}]
              /\ throwersMainAt \in {"poll", "sum", "exited"}
              /\ nextBin \in 0 .. BinCount
              /\ realBallsCount \in Int

BallsHeld == ballsWaiting + Cardinality(ThrowersAt("drop")) + Cardinality(ThrowersAt("count"))
             + ballsThrown = BallsCount

BinsHold == SumFunction(bins) = ballsThrown + Cardinality(ThrowersAt("count"))

(* Once main sums, no ball is under way, so no bin changes any more. *)
MainSums == /\ throwersMainAt # "poll" => ballsThrown >= BallsCount
            /\ throwersMainAt = "poll" => nextBin = 0
            /\ throwersMainAt = "exited" => nextBin = BinCount
            /\ realBallsCount = SumFunctionOnSet(bins, 0 .. nextBin - 1)

BallsInv == BallsTyped /\ BallsHeld /\ BinsHold /\ MainSums

LEMMA ThrowersAtFinite ==
  ASSUME NEW step PROVE IsFiniteSet(ThrowersAt(step)) /\ Cardinality(ThrowersAt(step)) \in Nat
<1>1. ThrowersAt(step) \in SUBSET Throwers
  BY DEF ThrowersAt
<1> QED
  BY <1>1, FS_Subset, FS_CardinalityType, BallsAssumption

LEMMA BinsFinite == IsFiniteSet(Bins) /\ \A n \in 0 .. BinCount : IsFiniteSet(0 .. n - 1)
BY FS_Interval, BallsAssumption DEF Bins

LEMMA BallsInit == ThrowersInit => BallsInv
<1> SUFFICES ASSUME ThrowersInit PROVE BallsInv
  OBVIOUS
<1> USE DEF ThrowersInit
<1>1. BallsTyped
  BY BallsAssumption DEF BallsTyped
<1>2. ThrowersAt("drop") = {} /\ ThrowersAt("count") = {} /\ 0 .. nextBin - 1 = {}
  BY DEF ThrowersAt
<1>3. SumFunction(bins) = 0
  BY SumZero, BinsFinite DEF SumFunction
<1> QED
  BY <1>1, <1>2, <1>3, FS_EmptySet, SumEmpty, BallsAssumption DEF BallsInv, BallsHeld, BinsHold, MainSums

(* A thread between two steps of the loop. *)
LEMMA ThrowerMoves ==
  ASSUME BallsTyped, NEW t \in Throwers, NEW from, NEW to, from # to, throwerAt[t] = from,
         throwerAt' = [throwerAt EXCEPT ![t] = to]
  PROVE  /\ Cardinality(ThrowersAt(from)') = Cardinality(ThrowersAt(from)) - 1
         /\ Cardinality(ThrowersAt(to)') = Cardinality(ThrowersAt(to)) + 1
<1>1. /\ ThrowersAt(from)' = ThrowersAt(from) \ {t} /\ t \in ThrowersAt(from)
      /\ ThrowersAt(to)' = ThrowersAt(to) \cup {t} /\ t \notin ThrowersAt(to)
  BY DEF BallsTyped, ThrowersAt
<1>2. IsFiniteSet(ThrowersAt(from)) /\ IsFiniteSet(ThrowersAt(to))
  BY ThrowersAtFinite
<1>3. Cardinality(ThrowersAt(from)') = Cardinality(ThrowersAt(from)) - 1
  BY <1>1, <1>2, FS_RemoveElement
<1>4. Cardinality(ThrowersAt(to)') = Cardinality(ThrowersAt(to)) + 1
  BY <1>1, <1>2, FS_AddElement
<1> QED
  BY <1>3, <1>4

LEMMA ThrowStep ==
  ASSUME BallsInv, NEW t \in Throwers, Throw(t)
  PROVE  BallsInv'
<1> USE DEF BallsInv, BallsTyped, ThrowerStep, throwersMainVars
<1>0. /\ Cardinality(ThrowersAt("drop")) \in Nat /\ Cardinality(ThrowersAt("count")) \in Nat
      /\ BallsCount \in Nat
  BY ThrowersAtFinite, BallsAssumption
<1>1. CASE TakeBall(t)
  <2>1. BallsTyped'
    BY <1>1 DEF TakeBall
  <2>0. ThrowersAt("count")' = ThrowersAt("count")
    BY <1>1 DEF TakeBall, ThrowersAt
  <2>2. Cardinality(ThrowersAt("drop")') = Cardinality(ThrowersAt("drop")) + 1
    BY <1>1, ThrowerMoves DEF TakeBall
  <2>3. BallsHeld'
    BY <1>0, <1>1, <2>0, <2>2 DEF TakeBall, BallsHeld
  <2>4. BinsHold' /\ MainSums'
    BY <1>1, <2>0, <2>2 DEF TakeBall, BinsHold, MainSums
  <2> QED
    BY <2>1, <2>3, <2>4
<1>2. CASE NoBallLeft(t)
  <2>1. ThrowersAt("drop")' = ThrowersAt("drop") /\ ThrowersAt("count")' = ThrowersAt("count")
    BY <1>2 DEF NoBallLeft, ThrowersAt
  <2> QED
    BY <1>2, <2>1 DEF NoBallLeft, BallsHeld, BinsHold, MainSums
<1>3. CASE DropBall(t)
  <2>1. PICK b \in Bins : bins' = [bins EXCEPT ![b] = @ + 1]
    BY <1>3 DEF DropBall
  <2>2. BallsTyped'
    BY <1>3, <2>1 DEF DropBall
  <2>3. /\ Cardinality(ThrowersAt("drop")') = Cardinality(ThrowersAt("drop")) - 1
        /\ Cardinality(ThrowersAt("count")') = Cardinality(ThrowersAt("count")) + 1
    BY <1>3, ThrowerMoves DEF DropBall
  <2>4. BallsHeld'
    BY <1>0, <1>3, <2>3 DEF DropBall, BallsHeld
  <2>5. SumFunction(bins') = SumFunction(bins) + 1
    <3> DEFINE c == bins'
    <3>1. /\ DOMAIN c = Bins /\ DOMAIN bins = Bins /\ c[b] = bins[b] + 1
          /\ \A y \in Bins : c[y] \in Int /\ bins[y] \in Int
          /\ \A y \in Bins : y # b => c[y] = bins[y]
      BY <2>1
    <3> HIDE DEF c
    <3>2. SumFunctionOnSet(c, Bins) = SumFunctionOnSet(bins, Bins) + c[b] - bins[b]
      BY <3>1, BinsFinite, SumChanges
    <3>3. SumFunctionOnSet(bins, Bins) \in Int
      BY <3>1, BinsFinite, SumInt
    <3>4. SumFunction(c) = SumFunctionOnSet(c, Bins) /\ SumFunction(bins) = SumFunctionOnSet(bins, Bins)
      BY <3>1 DEF SumFunction
    <3>5. SumFunction(c) = SumFunction(bins) + 1
      BY <3>1, <3>2, <3>3, <3>4
    <3> QED
      BY <3>5 DEF c
  <2>6. BinsHold'
    BY <1>0, <1>3, <2>3, <2>5 DEF DropBall, BinsHold
  <2>7. throwersMainAt = "poll"
    <3>1. Cardinality(ThrowersAt("drop")) # 0
      <4>1. ThrowersAt("drop") # {}
        BY <1>3 DEF DropBall, ThrowersAt
      <4> QED
        BY <4>1, ThrowersAtFinite, FS_EmptySet
    <3> QED
      BY <1>0, <3>1 DEF BallsHeld, MainSums
  <2>8. MainSums'
    <3>1. 0 .. nextBin - 1 = {} /\ 0 .. nextBin' - 1 = {} /\ UNCHANGED <<throwersMainAt, nextBin, realBallsCount>>
      BY <1>3, <2>7 DEF DropBall, MainSums
    <3>2. SumFunctionOnSet(bins', 0 .. nextBin' - 1) = 0 /\ SumFunctionOnSet(bins, 0 .. nextBin - 1) = 0
      BY <3>1, SumEmpty
    <3> QED
      BY <2>7, <3>1, <3>2 DEF MainSums
  <2> QED
    BY <2>2, <2>4, <2>6, <2>8
<1>4. CASE CountBall(t)
  <2>1. BallsTyped'
    BY <1>4 DEF CountBall
  <2>0. ThrowersAt("drop")' = ThrowersAt("drop")
    BY <1>4 DEF CountBall, ThrowersAt
  <2>2. Cardinality(ThrowersAt("count")') = Cardinality(ThrowersAt("count")) - 1
    BY <1>4, ThrowerMoves DEF CountBall
  <2>3. BallsHeld'
    BY <1>0, <1>4, <2>0, <2>2 DEF CountBall, BallsHeld
  <2>4. BinsHold'
    BY <1>0, <1>4, <2>2 DEF CountBall, BinsHold
  <2>5. MainSums'
    <3>1. /\ ballsThrown' = ballsThrown + 1
          /\ UNCHANGED <<bins, throwersMainAt, nextBin, realBallsCount>>
      BY <1>4 DEF CountBall, ThrowerStep
    <3>2. ballsThrown \in Nat /\ BallsCount \in Nat
      BY <1>0 DEF BallsTyped
    <3> QED
      BY <3>1, <3>2 DEF MainSums
  <2> QED
    BY <2>1, <2>3, <2>4, <2>5
<1> QED
  BY <1>1, <1>2, <1>3, <1>4 DEF Throw

LEMMA SummingStep ==
  ASSUME BallsInv, ThrowersMain \/ UNCHANGED throwersVars
  PROVE  BallsInv'
<1> USE BallsAssumption DEF BallsInv, BallsTyped
<1>1. CASE AllBallsThrown
  BY <1>1 DEF AllBallsThrown, BallsHeld, BinsHold, MainSums, ThrowersAt
<1>2. CASE SumBin
  <2>1. 0 .. nextBin' - 1 = (0 .. nextBin - 1) \cup {nextBin} /\ nextBin \notin 0 .. nextBin - 1
    BY <1>2 DEF SumBin
  <2>2. \A b \in (0 .. nextBin - 1) \cup {nextBin} : bins[b] \in Int
    BY <1>2 DEF SumBin, Bins
  <2>3. SumFunctionOnSet(bins, 0 .. nextBin' - 1) = SumFunctionOnSet(bins, 0 .. nextBin - 1) + bins[nextBin]
    BY <2>1, <2>2, BinsFinite, SumAdds
  <2>4. MainSums'
    BY <1>2, <2>3 DEF SumBin, MainSums
  <2>5. bins[nextBin] \in Int
    BY <2>2
  <2>6. BallsTyped'
    BY <1>2, <2>5 DEF SumBin
  <2> QED
    BY <1>2, <2>4, <2>6 DEF SumBin, BallsHeld, BinsHold, ThrowersAt
<1>3. CASE ThrowersExit
  BY <1>3 DEF ThrowersExit, BallsHeld, BinsHold, MainSums, ThrowersAt
<1>4. CASE UNCHANGED throwersVars
  BY <1>4 DEF throwersVars, throwersMainVars, BallsHeld, BinsHold, MainSums, ThrowersAt
<1> QED
  BY <1>1, <1>2, <1>3, <1>4 DEF ThrowersMain
LEMMA BallsStepInv == BallsInv /\ [ThrowersNext]_throwersVars => BallsInv'
BY ThrowStep, SummingStep DEF ThrowersNext


THEOREM BallsInvariance == ThrowersSpec => []BallsInv
BY BallsStepInv, BallsInit, PTL DEF ThrowersSpec

LEMMA BallsInvSums == BallsInv => EveryBallSummed
<1> SUFFICES ASSUME BallsInv, throwersMainAt = "exited" PROVE realBallsCount = BallsCount
  BY DEF EveryBallSummed
<1>1. realBallsCount = SumFunction(bins)
  BY DEF BallsInv, BallsTyped, MainSums, Bins, SumFunction
<1>2. /\ Cardinality(ThrowersAt("drop")) \in Nat /\ Cardinality(ThrowersAt("count")) \in Nat
      /\ BallsCount \in Nat /\ ballsThrown \in Nat /\ ballsWaiting \in Nat
  BY ThrowersAtFinite, BallsAssumption DEF BallsInv, BallsTyped
<1> QED
  BY <1>1, <1>2 DEF BallsInv, BallsHeld, BinsHold, MainSums

(* The bins that main reads without a lock hold every ball exactly once    *)
(* (prog18.c:73-94).                                                       *)
THEOREM BallsAllSummed == ThrowersSpec => []EveryBallSummed
BY BallsInvSums, BallsInvariance, PTL

LEMMA BallsInvTypes == BallsInv => ThrowersTypeOK
<1> SUFFICES ASSUME BallsInv PROVE ThrowersTypeOK
  OBVIOUS
<1>0. BallsTyped /\ BallsHeld /\ BinsHold /\ MainSums
  BY DEF BallsInv
<1>1. PICK d \in Nat, c \in Nat : /\ d = Cardinality(ThrowersAt("drop"))
                                  /\ c = Cardinality(ThrowersAt("count"))
  BY ThrowersAtFinite
<1>2. ballsWaiting + d + c + ballsThrown = BallsCount /\ SumFunction(bins) = ballsThrown + c
  BY <1>0, <1>1 DEF BallsHeld, BinsHold
<1>3. /\ ballsWaiting \in 0 .. BallsCount /\ ballsThrown \in 0 .. BallsCount
      /\ ballsThrown + c <= BallsCount
  BY <1>0, <1>1, <1>2, BallsAssumption DEF BallsTyped
<1>4. ASSUME NEW b \in Bins PROVE bins[b] \in 0 .. BallsCount
  <2>1. DOMAIN bins = Bins /\ bins[b] \in Nat /\ \A y \in Bins : bins[y] \in Nat
    BY <1>0 DEF BallsTyped
  <2>2. bins[b] <= SumFunctionOnSet(bins, Bins)
    BY <2>1, SumBoundsTerm, BinsFinite
  <2>3. SumFunctionOnSet(bins, Bins) = SumFunction(bins)
    BY <2>1 DEF SumFunction, FoldFunction, SumFunctionOnSet
  <2> QED
    BY <1>0, <1>1, <1>2, <1>3, <2>1, <2>2, <2>3, BallsAssumption DEF BallsTyped
<1>5. realBallsCount \in Nat
  <2>1. nextBin \in 0 .. BinCount
    BY <1>0 DEF BallsTyped
  <2>2. IsFiniteSet(0 .. nextBin - 1) /\ \A b \in 0 .. nextBin - 1 : b \in Bins
    BY <2>1, BinsFinite, BallsAssumption DEF Bins
  <2>3. \A b \in 0 .. nextBin - 1 : bins[b] \in Nat
    BY <1>0, <2>2 DEF BallsTyped
  <2>4. SumFunctionOnSet(bins, 0 .. nextBin - 1) \in Nat
    BY <2>2, <2>3, SumNat
  <2> QED
    BY <1>0, <2>4 DEF MainSums
<1>6. bins \in [Bins -> 0 .. BallsCount]
  BY <1>0, <1>4 DEF BallsTyped
<1> QED
  BY <1>0, <1>3, <1>5, <1>6 DEF BallsTyped, ThrowersTypeOK
-----------------------------------------------------------------------------
(* The students of prog20.c: the counter of a year is the number of        *)
(* threads in it, the last one counts the engineers.                       *)
InYear(y) == {s \in Pupils : studentAt[s] \in {"study", "leave"} /\ year[s] = y}
Engineers == {s \in Pupils : studentAt[s] = "ended" /\ year[s] = 3}
CountedIn(y) == IF y = 3 THEN Engineers ELSE InYear(y)

StudentsTyped == /\ counters \in [Years -> Int]
                 /\ studentAt \in [Pupils -> {"enroll", "study", "leave", "ended"}]
                 /\ year \in [Pupils -> Years]
                 /\ cancelled = removed
                 /\ removed \subseteq Pupils
                 /\ studentsMainAt \in {"kick", "tick", "join", "printed"}

(* Who studies is in one of the three years; who has ended is an engineer  *)
(* or was cancelled.                                                       *)
CareersLegal == \A s \in Pupils :
  /\ studentAt[s] \in {"study", "leave"} => year[s] \in 0 .. 2
  /\ studentAt[s] = "ended" /\ year[s] # 3 => s \in cancelled

YearsCounted == \A y \in Years : counters[y] = Cardinality(CountedIn(y))

PresentCounted == present = Cardinality(Pupils \ removed)

EndedAtPrint == studentsMainAt = "printed" => \A s \in Pupils : studentAt[s] = "ended"

YearsInv == StudentsTyped /\ CareersLegal /\ YearsCounted /\ PresentCounted /\ EndedAtPrint

LEMMA PupilSetsFinite ==
  ASSUME NEW S \in SUBSET Pupils PROVE IsFiniteSet(S) /\ Cardinality(S) \in Nat
BY FS_Subset, FS_CardinalityType, PupilsAssumption

LEMMA CountedInPupils == ASSUME NEW y PROVE CountedIn(y) \in SUBSET Pupils
BY DEF CountedIn, InYear, Engineers

LEMMA YearsInit == StudentsInit => YearsInv
<1> SUFFICES ASSUME StudentsInit PROVE YearsInv
  OBVIOUS
<1>1. StudentsTyped /\ CareersLegal /\ EndedAtPrint
  BY DEF StudentsInit, StudentsTyped, CareersLegal, EndedAtPrint, Years
<1>2. \A y : CountedIn(y) = {}
  BY DEF StudentsInit, CountedIn, InYear, Engineers
<1>3. YearsCounted
  BY <1>2, FS_EmptySet DEF StudentsInit, YearsCounted
<1>4. Pupils \ removed = Pupils
  BY DEF StudentsInit
<1> QED
  BY <1>1, <1>3, <1>4 DEF YearsInv, PresentCounted, StudentsInit

(* A student enters what counter x counts, or leaves it. *)
LEMMA StudentCounted ==
  ASSUME YearsInv, NEW s \in Pupils, NEW x \in Years,
         \A p \in Pupils, y \in Years : (p # s \/ y # x) => (p \in CountedIn(y)' <=> p \in CountedIn(y)),
         \/ s \notin CountedIn(x) /\ s \in CountedIn(x)' /\ counters' = [counters EXCEPT ![x] = @ + 1]
         \/ s \in CountedIn(x) /\ s \notin CountedIn(x)' /\ counters' = [counters EXCEPT ![x] = @ - 1]
  PROVE  YearsCounted'
<1> SUFFICES ASSUME NEW y \in Years PROVE counters'[y] = Cardinality(CountedIn(y)')
  BY DEF YearsCounted
<1>1. counters[y] = Cardinality(CountedIn(y)) /\ counters \in [Years -> Int]
  BY DEF YearsInv, YearsCounted, StudentsTyped
<1>2. /\ CountedIn(y) \in SUBSET Pupils /\ CountedIn(y)' \in SUBSET Pupils
      /\ IsFiniteSet(CountedIn(y)) /\ Cardinality(CountedIn(y)) \in Nat
  BY CountedInPupils, PupilSetsFinite DEF CountedIn, InYear, Engineers
<1>3. CASE y # x
  <2>1. CountedIn(y)' = CountedIn(y)
    BY <1>2, <1>3
  <2> QED
    BY <1>1, <1>3, <2>1
<1>4. CASE y = x /\ s \in CountedIn(x)'
  <2>1. CountedIn(y)' = CountedIn(y) \cup {s} /\ s \notin CountedIn(y)
    BY <1>2, <1>4
  <2>2. Cardinality(CountedIn(y)') = Cardinality(CountedIn(y)) + 1
    BY <1>2, <2>1, FS_AddElement
  <2> QED
    BY <1>1, <1>2, <1>4, <2>2
<1>5. CASE y = x /\ s \notin CountedIn(x)'
  <2>1. CountedIn(y)' = CountedIn(y) \ {s} /\ s \in CountedIn(y)
    BY <1>2, <1>5
  <2>2. Cardinality(CountedIn(y)') = Cardinality(CountedIn(y)) - 1
    BY <1>2, <2>1, FS_RemoveElement
  <2> QED
    BY <1>1, <1>2, <1>5, <2>2
<1> QED
  BY <1>3, <1>4, <1>5

LEMMA LiveStep ==
  ASSUME YearsInv, NEW s \in Pupils, Live(s)
  PROVE  YearsInv'
<1> USE DEF YearsInv, StudentsTyped, StudentStep, studentsMainVars, CareersLegal
<1>0. PICK x \in Years : x = year[s]
  OBVIOUS
<1>1. /\ StudentsTyped'
      /\ CareersLegal'
  <2>1. CASE LeaveYear(s)
    <3>1. year[s] \in 0 .. 2 /\ year[s] + 1 \in Years
      BY <2>1 DEF LeaveYear, Years
    <3> QED
      BY <2>1, <3>1 DEF LeaveYear, Years
  <2>2. CASE ~LeaveYear(s)
    BY <2>2 DEF Live, StartYear, FinishYear, KickedOut, Graduate, Years
  <2> QED
    BY <2>1, <2>2
<1>2. EndedAtPrint'
  BY DEF Live, StartYear, FinishYear, LeaveYear, KickedOut, Graduate, EndedAtPrint
<1>3. PresentCounted'
  BY DEF Live, StartYear, FinishYear, LeaveYear, KickedOut, Graduate, PresentCounted
<1>4. YearsCounted'
  <2>1. CASE StartYear(s)
    <3>1. /\ s \notin CountedIn(x) /\ s \in CountedIn(x)'
          /\ counters' = [counters EXCEPT ![x] = @ + 1]
          /\ \A p \in Pupils, y \in Years : (p # s \/ y # x) => (p \in CountedIn(y)' <=> p \in CountedIn(y))
      BY <1>0, <2>1 DEF StartYear, CountedIn, InYear, Engineers, Years
    <3> QED
      BY <3>1, StudentCounted
  <2>2. CASE LeaveYear(s) \/ KickedOut(s)
    <3>1. /\ s \in CountedIn(x) /\ s \notin CountedIn(x)'
          /\ counters' = [counters EXCEPT ![x] = @ - 1]
          /\ \A p \in Pupils, y \in Years : (p # s \/ y # x) => (p \in CountedIn(y)' <=> p \in CountedIn(y))
      BY <1>0, <2>2 DEF LeaveYear, KickedOut, CountedIn, InYear, Engineers, Years
    <3> QED
      BY <3>1, StudentCounted
  <2>3. CASE Graduate(s)
    <3>1. /\ s \notin CountedIn(x) /\ s \in CountedIn(x)'
          /\ counters' = [counters EXCEPT ![x] = @ + 1]
          /\ \A p \in Pupils, y \in Years : (p # s \/ y # x) => (p \in CountedIn(y)' <=> p \in CountedIn(y))
      BY <1>0, <2>3 DEF Graduate, CountedIn, InYear, Engineers, Years
    <3> QED
      BY <3>1, StudentCounted
  <2>4. CASE FinishYear(s)
    <3>1. \A y \in Years : CountedIn(y)' = CountedIn(y)
      BY <2>4 DEF FinishYear, CountedIn, InYear, Engineers
    <3> QED
      BY <2>4, <3>1 DEF FinishYear, YearsCounted
  <2> QED
    BY <2>1, <2>2, <2>3, <2>4 DEF Live
<1> QED
  BY <1>1, <1>2, <1>3, <1>4

LEMMA KickStep ==
  ASSUME YearsInv, StudentsMain \/ UNCHANGED studentsVars
  PROVE  YearsInv'
<1> USE DEF YearsInv
<1>1. UNCHANGED <<counters, studentAt, year>>
  BY DEF StudentsMain, KickStudent, NobodyToKick, TermGoesOn, TermEnds, PrintYears,
     StudentsMainStep, studentsVars
<1>2. YearsCounted'
  BY <1>1 DEF YearsCounted, CountedIn, InYear, Engineers
<1>3. EndedAtPrint'
  BY <1>1 DEF EndedAtPrint, StudentsMain, KickStudent, NobodyToKick, TermGoesOn, TermEnds,
     PrintYears, StudentsMainStep, studentsVars, studentsMainVars
<1>4. CASE KickStudent
  <2>1. PICK s \in Pupils \ removed : cancelled' = cancelled \cup {s} /\ removed' = removed \cup {s}
    BY <1>4 DEF KickStudent
  <2>2. StudentsTyped' /\ CareersLegal'
    BY <1>1, <1>4, <2>1 DEF StudentsTyped, CareersLegal, KickStudent, StudentsMainStep
  <2>3. Pupils \ removed' = (Pupils \ removed) \ {s} /\ s \in Pupils \ removed
    BY <2>1
  <2>4. Cardinality(Pupils \ removed') = Cardinality(Pupils \ removed) - 1
    BY <2>3, PupilSetsFinite, FS_RemoveElement
  <2>5. PresentCounted'
    BY <1>4, <2>4 DEF KickStudent, PresentCounted
  <2> QED
    BY <1>2, <1>3, <2>2, <2>5
<1>5. CASE ~KickStudent
  <2>1. UNCHANGED <<cancelled, removed, present>>
    BY <1>5 DEF StudentsMain, NobodyToKick, TermGoesOn, TermEnds, PrintYears, studentsVars,
       studentsMainVars
  <2>2. studentsMainAt' \in {"kick", "tick", "join", "printed"}
    BY <1>5 DEF StudentsTyped, StudentsMain, NobodyToKick, TermGoesOn, TermEnds, PrintYears,
       StudentsMainStep, studentsVars, studentsMainVars
  <2> QED
    BY <1>1, <1>2, <1>3, <2>1, <2>2 DEF StudentsTyped, CareersLegal, PresentCounted
<1> QED
  BY <1>4, <1>5
LEMMA YearsStepInv == YearsInv /\ [StudentsNext]_studentsVars => YearsInv'
BY LiveStep, KickStep DEF StudentsNext


THEOREM YearsInvariance == StudentsSpec => []YearsInv
BY YearsStepInv, YearsInit, PTL DEF StudentsSpec

LEMMA YearsInvNobodyLeft == YearsInv => NobodyLeftInAYear
<1> SUFFICES ASSUME YearsInv, studentsMainAt = "printed"
             PROVE  (\A y \in 0 .. 2 : counters[y] = 0) /\ counters[3] >= present
  BY DEF NobodyLeftInAYear
<1>1. \A s \in Pupils : studentAt[s] = "ended"
  BY DEF YearsInv, EndedAtPrint
<1>2. \A y \in 0 .. 2 : y \in Years /\ CountedIn(y) = {}
  BY <1>1 DEF CountedIn, InYear, Years
<1>3. \A y \in 0 .. 2 : counters[y] = 0
  BY <1>2, FS_EmptySet DEF YearsInv, YearsCounted
<1>4. counters[3] = Cardinality(Engineers)
  BY DEF YearsInv, YearsCounted, CountedIn, Years
<1>5. Pupils \ removed \subseteq Engineers /\ Engineers \subseteq Pupils
  BY <1>1 DEF YearsInv, StudentsTyped, CareersLegal, Engineers
<1>6. Cardinality(Pupils \ removed) <= Cardinality(Engineers)
  BY <1>5, PupilSetsFinite, FS_Subset
<1>7. Cardinality(Pupils \ removed) \in Nat /\ Cardinality(Engineers) \in Nat
  BY <1>5, PupilSetsFinite
<1> QED
  BY <1>3, <1>4, <1>6, <1>7 DEF YearsInv, PresentCounted

(* Wherever the cancellations hit, nobody is left in a year when main      *)
(* prints, and everyone who was not removed is an engineer                 *)
(* (prog20.c:83-86).                                                       *)
THEOREM StudentsNobodyLeft == StudentsSpec => []NobodyLeftInAYear
BY YearsInvNobodyLeft, YearsInvariance, PTL

LEMMA YearsInvTypes == YearsInv => StudentsTypeOK
<1> SUFFICES ASSUME YearsInv PROVE StudentsTypeOK
  OBVIOUS
<1>1. ASSUME NEW y \in Years PROVE counters[y] \in 0 .. Cardinality(Pupils)
  <2>1. CountedIn(y) \in SUBSET Pupils
    BY CountedInPupils
  <2>2. Cardinality(CountedIn(y)) <= Cardinality(Pupils) /\ IsFiniteSet(CountedIn(y))
    BY <2>1, FS_Subset, PupilSetsFinite
  <2>3. Cardinality(CountedIn(y)) \in Nat /\ Cardinality(Pupils) \in Nat
    BY <2>1, <2>2, FS_CardinalityType, PupilSetsFinite
  <2> QED
    BY <2>2, <2>3 DEF YearsInv, YearsCounted
<1> QED
  BY <1>1 DEF YearsInv, StudentsTyped, PresentCounted, StudentsTypeOK
-----------------------------------------------------------------------------
(* The types of etap5.c.  checkedThreads stays at most one above the number *)
(* of threads only in the model, which stops counting there.               *)
(* Main goes on to count only below the bound.                             *)
TestersInv == TestersTypeOK /\ (counterAt = "count" => L < MaxL)

LEMMA ThreadCountIsNat == ThreadCount \in Nat
BY FS_CardinalityType, TestersAssumption DEF ThreadCount

LEMMA TestersInvInit == TestersInit => TestersInv
<1> SUFFICES ASSUME TestersInit PROVE TestersInv
  OBVIOUS
<1>1. L \in 1 .. MaxL + 1 /\ checkedThreads \in 0 .. ThreadCount + 1
  BY ThreadCountIsNat, TestersAssumption DEF TestersInit
<1> QED
  BY <1>1 DEF TestersInit, TestersInv, TestersTypeOK

LEMMA TestersStepInv == TestersInv /\ [TestersNext]_testersVars => TestersInv'
<1> SUFFICES ASSUME TestersInv, [TestersNext]_testersVars PROVE TestersInv'
  OBVIOUS
<1> USE DEF TestersInv, TestersTypeOK, stopVars
<1>1. ASSUME NEW t \in Testers, Test(t) PROVE TestersInv'
  <2>1. CASE CountTester(t)
    BY ThreadCountIsNat, <2>1 DEF CountTester, TesterStep
  <2>2. CASE ~CountTester(t)
    BY <1>1, <2>2 DEF Test, TesterQuits, TesterGoesOn, Divisible, NotDivisible, Report, TesterStep
  <2> QED
    BY <2>1, <2>2
<1>2. CASE CountOn
  BY ThreadCountIsNat, <1>2, TestersAssumption DEF CountOn, CounterStep
<1>3. CASE CounterGoesOn \/ CounterStops \/ CounterExits
  BY <1>3 DEF CounterGoesOn, CounterStops, CounterExits, CounterStep
<1>4. CASE Watcher
  BY <1>4 DEF Watcher, WatcherTakesSigint, WatcherQuits, WatcherStep
<1>5. CASE PressDivSigint
  BY <1>5 DEF PressDivSigint
<1>6. CASE UNCHANGED testersVars
  BY <1>6 DEF testersVars
<1> QED
  BY <1>1, <1>2, <1>3, <1>4, <1>5, <1>6 DEF TestersNext, Counter
-----------------------------------------------------------------------------
(* help.c.  The letters of a file are still to be scanned, in the ring, in  *)
(* the hands of a worker or counted; deinit alone throws files away, and    *)
(* finds some only after Ctrl+C.                                           *)
HelpOnly == helpMainAt = "exited" /\ helpPressed
LettersConserved ==
  helpCounter + SumFunctionOnSet(lettersLeft, HelpWorkers)
              + SumFunctionOnSet(LowerIn, Range(helpRing))
              + SumFunctionOnSet(LowerIn, helpUnscanned) = SumFunctionOnSet(LowerIn, HelpFiles)

RingApart == /\ \A i, j \in 1 .. Len(helpRing) : helpRing[i] = helpRing[j] => i = j
             /\ Range(helpRing) \cap helpUnscanned = {}

(* How far main has come, and what that says of the others. *)
HelpOrder ==
  /\ finishedScanning <=> helpMainAt # "scan"
  /\ helpMainAt # "scan" => helpUnscanned = {}
  /\ "SIGINT" \in helpPending => helpPressed
  /\ helpQuit /\ ~helpPressed => helpMainAt \in {"kill", "join_signals", "deinit", "exited"}
  /\ helpRing # <<>> => helpPressed \/ helpMainAt \in {"scan", "wait"}
  /\ helpMainAt \notin {"scan", "wait", "join"} => \A w \in HelpWorkers : helpWorkerAt[w] = "gone"
  /\ \A w \in HelpWorkers : helpWorkerAt[w] # "read" => lettersLeft[w] = 0

HelpInv == HelpTypeOK /\ HelpOrder /\ RingApart /\ (HelpOnly \/ LettersConserved)

LEMMA HelpSetsFinite ==
  ASSUME HelpTypeOK
  PROVE  /\ IsFiniteSet(helpUnscanned) /\ IsFiniteSet(Range(helpRing))
         /\ Range(helpRing) \subseteq HelpFiles
<1>1. Range(helpRing) \subseteq HelpFiles
  BY DEF HelpTypeOK, Range
<1> QED
  BY <1>1, HelpAssumption, FS_Subset DEF HelpTypeOK

LEMMA HelpSums ==
  ASSUME HelpTypeOK
  PROVE  /\ SumFunctionOnSet(lettersLeft, HelpWorkers) \in Int
         /\ SumFunctionOnSet(LowerIn, Range(helpRing)) \in Int
         /\ SumFunctionOnSet(LowerIn, helpUnscanned) \in Int
         /\ helpCounter \in Nat
<1>1. \A f \in HelpFiles : LowerIn[f] \in Int
  BY HelpAssumption
<1>2. \A w \in HelpWorkers : lettersLeft[w] \in Int
  BY DEF HelpTypeOK
<1>3. SumFunctionOnSet(lettersLeft, HelpWorkers) \in Int
  BY <1>2, SumInt, HelpAssumption
<1>4. SumFunctionOnSet(LowerIn, helpUnscanned) \in Int
  BY <1>1, SumInt, HelpSetsFinite DEF HelpTypeOK
<1>5. SumFunctionOnSet(LowerIn, Range(helpRing)) \in Int
  BY <1>1, SumInt, HelpSetsFinite
<1> QED
  BY <1>3, <1>4, <1>5 DEF HelpTypeOK

LEMMA HelpInvInit == HelpInit => HelpInv
<1> SUFFICES ASSUME HelpInit PROVE HelpInv
  OBVIOUS
<1>1. HelpTypeOK
  <2>1. <<>> \in Seq(HelpFiles) /\ Len(<<>>) <= HelpSize
    BY HelpAssumption
  <2> QED
    BY <2>1 DEF HelpInit, HelpTypeOK
<1>2. HelpOrder /\ RingApart
  BY DEF HelpInit, HelpOrder, RingApart, Range
<1>3. Range(helpRing) = {}
  BY DEF HelpInit, Range
<1>4. SumFunctionOnSet(lettersLeft, HelpWorkers) = 0
  BY SumZero, HelpAssumption DEF HelpInit
<1>5. SumFunctionOnSet(LowerIn, Range(helpRing)) = 0
  BY <1>3, SumEmpty
<1>6. LettersConserved
  BY <1>1, <1>4, <1>5, HelpSums DEF HelpInit, LettersConserved
<1> QED
  BY <1>1, <1>2, <1>6 DEF HelpInv

LEMMA EnqueInv == ASSUME HelpInv, Enque PROVE HelpInv'
<1> DEFINE r == SumFunctionOnSet(LowerIn, Range(helpRing))
           u == SumFunctionOnSet(LowerIn, helpUnscanned)
<1>1. PICK f \in helpUnscanned : /\ helpUnscanned' = helpUnscanned \ {f}
                                 /\ helpRing' = Append(helpRing, f)
  BY DEF Enque
<1>2. /\ helpMainAt = "scan" /\ helpMainAt' = "scan" /\ Len(helpRing) < HelpSize
      /\ UNCHANGED <<countVars, helpWorkerAt, helpSignalAt, helpPressed, finishedScanning, helpQuit, helpPending>>
  BY DEF Enque, HelpMainStep
<1>3. HelpTypeOK /\ f \in HelpFiles /\ helpRing \in Seq(HelpFiles)
  BY DEF HelpInv, HelpTypeOK
<1>4. HelpTypeOK'
  <2>1. Append(helpRing, f) \in Seq(HelpFiles) /\ Len(Append(helpRing, f)) <= HelpSize
    BY <1>2, <1>3, HelpAssumption
  <2> QED
    BY <1>1, <1>2, <1>3, <2>1 DEF HelpTypeOK, countVars
<1>5. HelpOrder'
  BY <1>2 DEF HelpInv, HelpOrder, countVars
<1>6. Range(helpRing') = Range(helpRing) \cup {f}
  BY <1>1, <1>3, RangeOfAppend
<1>7. f \notin Range(helpRing)
  BY DEF HelpInv, RingApart
<1>8. RingApart'
  <2>1. ASSUME NEW i \in 1 .. Len(helpRing'), NEW j \in 1 .. Len(helpRing'), helpRing'[i] = helpRing'[j]
        PROVE  i = j
    <3>1. /\ Len(helpRing) \in Nat /\ Len(helpRing') = Len(helpRing) + 1
          /\ \A k \in 1 .. Len(helpRing) : helpRing'[k] = helpRing[k] /\ helpRing[k] \in Range(helpRing)
          /\ helpRing'[Len(helpRing) + 1] = f
      BY <1>1, <1>3 DEF Range
    <3>2. \A k, l \in 1 .. Len(helpRing) : helpRing[k] = helpRing[l] => k = l
      BY DEF HelpInv, RingApart
    <3> QED
      BY <1>7, <2>1, <3>1, <3>2
  <2>2. Range(helpRing') \cap helpUnscanned' = {}
    BY <1>1, <1>6 DEF HelpInv, RingApart
  <2> QED
    BY <2>1, <2>2 DEF RingApart
<1>9. \A g \in HelpFiles : LowerIn[g] \in Int
  BY HelpAssumption
<1>10. u = LowerIn[f] + SumFunctionOnSet(LowerIn, helpUnscanned \ {f})
  BY <1>3, <1>9, SumTakes, HelpSetsFinite DEF HelpTypeOK
<1>11. SumFunctionOnSet(LowerIn, Range(helpRing) \cup {f}) = r + LowerIn[f]
  BY <1>3, <1>7, <1>9, SumAdds, HelpSetsFinite
<1>12. SumFunctionOnSet(LowerIn, helpUnscanned \ {f}) \in Int
  <2>1. IsFiniteSet(helpUnscanned \ {f}) /\ helpUnscanned \ {f} \subseteq HelpFiles
    BY <1>3, HelpSetsFinite, FS_RemoveElement DEF HelpTypeOK
  <2> QED
    BY <1>9, <2>1, SumInt
<1>13. LettersConserved
  BY <1>2 DEF HelpInv, HelpOnly
<1>14. LettersConserved'
  <2>1. helpCounter + SumFunctionOnSet(lettersLeft, HelpWorkers) + (r + LowerIn[f])
          + SumFunctionOnSet(LowerIn, helpUnscanned \ {f}) = SumFunctionOnSet(LowerIn, HelpFiles)
    BY <1>3, <1>9, <1>10, <1>12, <1>13, HelpSums DEF LettersConserved
  <2> QED
    BY <1>1, <1>2, <1>6, <1>11, <2>1 DEF LettersConserved, countVars
<1> QED
  BY <1>4, <1>5, <1>8, <1>14 DEF HelpInv

LEMMA DequeInv == ASSUME HelpInv, NEW w \in HelpWorkers, Deque(w) PROVE HelpInv'
<1> DEFINE f == Head(helpRing)
           r == SumFunctionOnSet(LowerIn, Range(Tail(helpRing)))
           l == SumFunctionOnSet(lettersLeft, HelpWorkers)
<1>1. /\ helpWorkerAt[w] = "deque" /\ helpWorkerAt' = [helpWorkerAt EXCEPT ![w] = "read"]
      /\ helpRing # <<>> /\ helpRing' = Tail(helpRing)
      /\ lettersLeft' = [lettersLeft EXCEPT ![w] = LowerIn[f]]
      /\ UNCHANGED <<helpUnscanned, finishedScanning, helpQuit, helpMainAt, helpSignalAt, userVars, helpCounter>>
  BY DEF Deque, HelpWorkerStep
<1>2. HelpTypeOK /\ helpRing \in Seq(HelpFiles) /\ f \in HelpFiles
  BY <1>1 DEF HelpInv, HelpTypeOK
<1>3. \A i, j \in 1 .. Len(helpRing) : helpRing[i] = helpRing[j] => i = j
  BY DEF HelpInv, RingApart
<1>4. /\ Range(helpRing) = Range(Tail(helpRing)) \cup {f}
      /\ f \notin Range(Tail(helpRing))
      /\ \A i, j \in 1 .. Len(helpRing) - 1 : Tail(helpRing)[i] = Tail(helpRing)[j] => i = j
  BY <1>1, <1>2, <1>3, RangeOfTail
<1>5. Tail(helpRing) \in Seq(HelpFiles) /\ Len(Tail(helpRing)) = Len(helpRing) - 1 /\ Len(helpRing) \in Nat
  BY <1>1, <1>2
<1> HIDE DEF f
<1>6. HelpTypeOK'
  <2>1. lettersLeft' \in [HelpWorkers -> Nat]
    BY <1>1, <1>2, HelpAssumption DEF HelpTypeOK
  <2>2. helpWorkerAt' \in [HelpWorkers -> {"test_quit", "deque", "test_finished", "read", "gone"}]
    BY <1>1, <1>2 DEF HelpTypeOK
  <2>3. helpRing' \in Seq(HelpFiles) /\ Len(helpRing') <= HelpSize
    <3>1. Len(helpRing) <= HelpSize
      BY <1>2 DEF HelpTypeOK
    <3>2. HelpSize \in Nat
      BY HelpAssumption
    <3> QED
      BY <1>1, <1>5, <3>1, <3>2
  <2> QED
    BY <1>1, <1>2, <2>1, <2>2, <2>3 DEF HelpTypeOK, userVars
<1>7. HelpOrder'
  <2>1. \A v \in HelpWorkers : helpWorkerAt'[v] # "read" => lettersLeft'[v] = 0
    BY <1>1, <1>2 DEF HelpInv, HelpOrder, HelpTypeOK
  <2>2. helpMainAt \in {"scan", "wait", "join"}
    BY <1>1 DEF HelpInv, HelpOrder
  <2>3. helpRing' # <<>> => helpPressed \/ helpMainAt \in {"scan", "wait"}
    BY <1>1 DEF HelpInv, HelpOrder
  <2> QED
    BY <1>1, <2>1, <2>2, <2>3 DEF HelpInv, HelpOrder, userVars
<1>8. RingApart'
  <2>1. Range(Tail(helpRing)) \cap helpUnscanned = {}
    BY <1>4 DEF HelpInv, RingApart
  <2> QED
    BY <1>1, <1>4, <1>5, <2>1 DEF RingApart
<1>9. /\ \A g \in HelpFiles : LowerIn[g] \in Int
      /\ \A v \in HelpWorkers : lettersLeft[v] \in Int /\ lettersLeft'[v] \in Int
  BY <1>2, <1>6, HelpAssumption DEF HelpTypeOK
<1>10. SumFunctionOnSet(LowerIn, Range(Tail(helpRing)) \cup {f}) = r + LowerIn[f]
  <2>1. IsFiniteSet(Range(Tail(helpRing))) /\ Range(Tail(helpRing)) \subseteq HelpFiles
    BY <1>4, <1>2, HelpSetsFinite, FS_Subset
  <2> QED
    BY <1>2, <1>4, <1>9, <2>1, SumAdds
<1>11. SumFunctionOnSet(lettersLeft', HelpWorkers) = l + LowerIn[f]
  <2>1. lettersLeft[w] = 0
    BY <1>1 DEF HelpInv, HelpOrder
  <2>2. PICK k : k = lettersLeft'
    OBVIOUS
  <2>3. k[w] = LowerIn[f] /\ \A v \in HelpWorkers : v # w => lettersLeft[v] = k[v]
    BY <1>1, <1>2, <2>2 DEF HelpTypeOK
  <2>4. SumFunctionOnSet(k, HelpWorkers) = l + k[w] - lettersLeft[w]
    BY <1>9, <2>2, <2>3, SumChanges, HelpAssumption
  <2>5. l \in Int /\ LowerIn[f] \in Int
    BY <1>2, <1>9, HelpSums
  <2> QED
    BY <2>1, <2>2, <2>3, <2>4, <2>5
<1>12. HelpOnly \/ LettersConserved'
  <2> SUFFICES ASSUME LettersConserved PROVE LettersConserved'
    BY DEF HelpInv
  <2>1. helpCounter + l + (r + LowerIn[f]) + SumFunctionOnSet(LowerIn, helpUnscanned)
           = SumFunctionOnSet(LowerIn, HelpFiles)
    BY <1>4, <1>10 DEF LettersConserved
  <2>2. r \in Int /\ l \in Int /\ LowerIn[f] \in Int /\ helpCounter \in Int
        /\ SumFunctionOnSet(LowerIn, helpUnscanned) \in Int
    <3>1. IsFiniteSet(Range(Tail(helpRing))) /\ Range(Tail(helpRing)) \subseteq HelpFiles
      BY <1>4, <1>2, HelpSetsFinite, FS_Subset
    <3>2. r \in Int
      BY <1>9, <3>1, SumInt
    <3> QED
      BY <1>2, <1>9, <3>2, HelpSums
  <2>3. helpCounter + (l + LowerIn[f]) + r + SumFunctionOnSet(LowerIn, helpUnscanned)
           = SumFunctionOnSet(LowerIn, HelpFiles)
    BY <2>1, <2>2
  <2> QED
    BY <1>1, <1>11, <2>3 DEF LettersConserved
<1> QED
  BY <1>1, <1>6, <1>7, <1>8, <1>12 DEF HelpInv, HelpOnly, userVars

LEMMA CountOneInv == ASSUME HelpInv, NEW w \in HelpWorkers, CountOne(w) PROVE HelpInv'
<1> DEFINE l == SumFunctionOnSet(lettersLeft, HelpWorkers)
<1>1. /\ helpWorkerAt[w] = "read" /\ helpWorkerAt' = [helpWorkerAt EXCEPT ![w] = "read"]
      /\ lettersLeft[w] > 0 /\ helpCounter' = helpCounter + 1
      /\ lettersLeft' = [lettersLeft EXCEPT ![w] = @ - 1]
      /\ UNCHANGED <<helpUnscanned, finishedScanning, helpQuit, helpMainAt, helpSignalAt, userVars, helpRing>>
  BY DEF CountOne, HelpWorkerStep
<1>2. HelpTypeOK
  BY DEF HelpInv
<1>3. HelpTypeOK' /\ helpWorkerAt' = helpWorkerAt
  BY <1>1, <1>2 DEF HelpTypeOK, userVars
<1>4. HelpOrder' /\ RingApart'
  BY <1>1, <1>2, <1>3 DEF HelpInv, HelpOrder, HelpTypeOK, RingApart, userVars
<1>5. SumFunctionOnSet(lettersLeft', HelpWorkers) = l - 1
  <2>1. \A v \in HelpWorkers : lettersLeft[v] \in Int /\ lettersLeft'[v] \in Int
    BY <1>2, <1>3 DEF HelpTypeOK
  <2>2. PICK k : k = lettersLeft'
    OBVIOUS
  <2>3. k[w] = lettersLeft[w] - 1 /\ \A v \in HelpWorkers : v # w => lettersLeft[v] = k[v]
    BY <1>1, <1>2, <2>2 DEF HelpTypeOK
  <2>4. SumFunctionOnSet(k, HelpWorkers) = l + k[w] - lettersLeft[w]
    BY <2>1, <2>2, <2>3, SumChanges, HelpAssumption
  <2>5. l \in Int /\ lettersLeft[w] \in Int
    BY <1>2, <2>1, HelpSums
  <2> QED
    BY <2>2, <2>3, <2>4, <2>5
<1>6. LettersConserved => LettersConserved'
  BY <1>1, <1>2, <1>5, HelpSums DEF LettersConserved
<1> QED
  BY <1>1, <1>3, <1>4, <1>6 DEF HelpInv, HelpOnly, userVars

(* Main throws away what is in the ring.                                    *)
LEMMA HelpDeinitInv == ASSUME HelpInv, HelpDeinit PROVE HelpInv'
<1>1. /\ helpMainAt = "deinit" /\ helpMainAt' = "exited" /\ helpRing' = <<>>
      /\ UNCHANGED <<countVars, helpWorkerAt, helpSignalAt, helpPressed>>
      /\ UNCHANGED <<helpUnscanned, finishedScanning, helpQuit, helpPending>>
  BY DEF HelpDeinit, HelpMainStep
<1>2. HelpTypeOK'
  BY <1>1, HelpAssumption DEF HelpInv, HelpTypeOK, countVars
<1>3. HelpOrder' /\ RingApart'
  BY <1>1 DEF HelpInv, HelpOrder, RingApart, Range, countVars
<1>4. ~helpPressed => LettersConserved /\ helpRing' = helpRing
  BY <1>1 DEF HelpInv, HelpOrder, HelpOnly
<1>5. HelpOnly' \/ LettersConserved'
  BY <1>1, <1>4 DEF HelpOnly, LettersConserved, countVars
<1> QED
  BY <1>2, <1>3, <1>5 DEF HelpInv

(* The other steps leave the letters where they are.                        *)
LEMMA HelpOtherStep ==
  ASSUME HelpInv, HelpTypeOK', HelpOrder', HelpOnly => HelpOnly',
         UNCHANGED <<helpUnscanned, helpRing, helpCounter, lettersLeft>>
  PROVE  HelpInv'
<1>1. RingApart'
  BY DEF HelpInv, RingApart
<1>2. LettersConserved => LettersConserved'
  BY DEF LettersConserved
<1> QED
  BY <1>1, <1>2 DEF HelpInv

LEMMA HelpStepInv == HelpInv /\ [HelpNext]_helpVars => HelpInv'
<1> SUFFICES ASSUME HelpInv, [HelpNext]_helpVars PROVE HelpInv'
  OBVIOUS
<1> USE DEF ringVars, countVars, userVars
<1>0. HelpTypeOK /\ HelpOrder
  BY DEF HelpInv
<1>1. CASE HelpScanned \/ HelpTick \/ HelpWaitEnds \/ HelpJoins
           \/ HelpRaisesQuit \/ HelpKills \/ HelpJoinsSignals
  <2> USE <1>1 DEF HelpMainStep, HelpScanned, HelpTick, HelpWaitEnds, HelpJoins,
                   HelpRaisesQuit, HelpKills, HelpJoinsSignals
  <2>1. HelpTypeOK'
    BY <1>0 DEF HelpTypeOK
  <2>2. HelpOrder'
    BY <1>0 DEF HelpTypeOK, HelpOrder
  <2>3. HelpOnly => HelpOnly'
    BY DEF HelpOnly
  <2> QED
    BY <2>1, <2>2, <2>3, HelpOtherStep
<1>2. ASSUME NEW w \in HelpWorkers,
             HelpTestQuit(w) \/ DequeNull(w) \/ HelpTestFinished(w) \/ HelpFileRead(w)
      PROVE  HelpInv'
  <2> USE <1>2 DEF HelpWorkerStep, HelpTestQuit, DequeNull, HelpTestFinished, HelpFileRead
  <2>1. HelpTypeOK'
    BY <1>0 DEF HelpTypeOK
  <2>2. HelpOrder'
    BY <1>0 DEF HelpTypeOK, HelpOrder
  <2>3. HelpOnly => HelpOnly'
    BY DEF HelpOnly
  <2> QED
    BY <2>1, <2>2, <2>3, HelpOtherStep
<1>3. CASE HelpSignals \/ HelpCtrlC
  <2> USE <1>3 DEF HelpSignals, HelpSignalStep, HelpTestFlag, HelpTakesUsr1, HelpTakesInt, HelpCtrlC
  <2>1. HelpTypeOK'
    BY <1>0 DEF HelpTypeOK
  <2>2. HelpOrder'
    BY <1>0 DEF HelpTypeOK, HelpOrder
  <2>3. HelpOnly => HelpOnly'
    BY DEF HelpOnly
  <2> QED
    BY <2>1, <2>2, <2>3, HelpOtherStep
<1>4. CASE UNCHANGED helpVars
  <2> USE <1>4 DEF helpVars
  <2>1. HelpTypeOK'
    BY <1>0 DEF HelpTypeOK
  <2>2. HelpOrder'
    BY <1>0 DEF HelpOrder
  <2>3. HelpOnly => HelpOnly'
    BY DEF HelpOnly
  <2> QED
    BY <2>1, <2>2, <2>3, HelpOtherStep
<1> QED
  BY <1>1, <1>2, <1>3, <1>4, EnqueInv, DequeInv, CountOneInv, HelpDeinitInv DEF HelpNext, HelpMain, HelpWorker

LEMMA HelpInvCompletes == HelpInv => HelpComplete
<1> SUFFICES ASSUME HelpInv, ~helpPressed,
                    helpMainAt \in {"results", "kill", "join_signals", "deinit", "exited"}
             PROVE  AllCounted
  BY DEF HelpComplete
<1>1. LettersConserved /\ HelpTypeOK
  BY DEF HelpInv, HelpOnly
<1>2. helpUnscanned = {} /\ Range(helpRing) = {} /\ \A w \in HelpWorkers : lettersLeft[w] = 0
  BY DEF HelpInv, HelpOrder, Range
<1>3. SumFunctionOnSet(lettersLeft, HelpWorkers) = 0
  BY <1>2, SumZero, HelpAssumption
<1>4. /\ SumFunctionOnSet(LowerIn, Range(helpRing)) = 0
      /\ SumFunctionOnSet(LowerIn, helpUnscanned) = 0
  BY <1>2, SumEmpty
<1>5. helpCounter = SumFunctionOnSet(LowerIn, HelpFiles)
  BY <1>1, <1>3, <1>4, HelpSums DEF LettersConserved
<1>6. HelpFiles = DOMAIN LowerIn
  BY HelpAssumption
<1> QED
  BY <1>5, <1>6 DEF AllCounted, SumFunction, FoldFunction, SumFunctionOnSet

(* HelpComplete: when the workers have been joined every letter has been   *)
(* counted, unless Ctrl+C was pressed.                                      *)
THEOREM HelpFirmCountsAll == HelpSpec => []HelpComplete
<1>1. HelpInit => HelpInv
  BY HelpInvInit
<1>2. HelpInv /\ [HelpNext]_helpVars => HelpInv'
  BY HelpStepInv
<1>3. HelpInv => HelpComplete
  BY HelpInvCompletes
<1> QED
  BY <1>1, <1>2, <1>3, PTL DEF HelpSpec
-----------------------------------------------------------------------------
(* The firm that prints file by file.  Every file is still to be found, in *)
(* enqueue, in the ring, in the hands of a worker or processed; a worker   *)
(* has its file from the moment it leaves the ring.                        *)
FailInHand(w) == \/ failWorkerAt[w] \in {"add", "print", "file_done"}
                 \/ pc[w] = "deq_done" /\ item[w] # NULL
FailHand == {w \in Consumers : FailInHand(w)}
FailEnqueuing == IF pc[FailMain] = "idle" THEN 0 ELSE 1

FailCoupled == /\ \A w \in Consumers : pc[w] # "idle" <=> failWorkerAt[w] = "dequeuing"
               /\ pc[FailMain] # "idle" => failMainAt \in {"enqueuing", "killed"}
               /\ Contents \in Seq(Items)

FailFilesCounted == Cardinality(failUnscanned) + FailEnqueuing + count + Cardinality(FailHand)
                       + failProcessed = Cardinality(Items)

FailTotalCounted == failMainAt # "killed" =>
   Cardinality(failUnscanned) + (IF failMainAt = "enqueuing" THEN 1 ELSE 0) + failTotal
      = Cardinality(Items)

FailEnding ==
  /\ failMainAt \in {"wait", "set_quit", "join", "free", "exited"} => failUnscanned = {}
  /\ failMainAt \in {"set_quit", "join", "free", "exited"} => failProcessed = Cardinality(Items)
  /\ failMainAt \in {"free", "exited"} => \A w \in Consumers : failWorkerAt[w] = "gone"

(* A counter has what the finished files gave it and what the workers in   *)
(* the middle of a file have added.                                        *)
FailHasAdded(w, l) == \/ failWorkerAt[w] = "add" /\ failLetter[w] > l
                      \/ failWorkerAt[w] \in {"print", "file_done"}
FailAdded(l) == {w \in Consumers : FailHasAdded(w, l)}

FailCountersCounted == \A l \in 1 .. FailLetters :
   failCounter[l] = failProcessed + Cardinality(FailAdded(l))

(* The last number printed is true, or a worker is still to print it.      *)
FailWillPrint(w, l) == \/ failWorkerAt[w] = "add"
                       \/ failWorkerAt[w] = "print" /\ failLetter[w] <= l

FailShownOrComing == \A l \in 1 .. FailLetters :
   failShown[l] = failCounter[l] \/ \E w \in Consumers : FailWillPrint(w, l)

FailInv == /\ FailTypeOK /\ BufferInv /\ FailCoupled /\ FailFilesCounted /\ FailTotalCounted
           /\ FailEnding /\ FailCountersCounted /\ FailShownOrComing

FailMainNext == \/ FailFinds \/ FailInEnqueue \/ FailCountsFile \/ FailScanned
                \/ FailAllProcessed \/ FailSetsQuit \/ FailJoins \/ FailFrees \/ FailKilled
FailWorkerNext(w) == \/ FailTestQuit(w) \/ FailTestCount(w) \/ FailInDequeue(w)
                     \/ FailDequeued(w) \/ FailAdds(w) \/ FailTakesConsole(w) \/ FailPrints(w)
                     \/ FailGivesConsole(w) \/ FailFileDone(w)

LEMMA FailThreads ==
  /\ FailMain \in Producers /\ Producers = {FailMain} /\ SingleProducer
  /\ FailMain \in Threads /\ FailMain \notin Consumers /\ Consumers \subseteq Threads
BY FailAssumption, ThreadsAssumption DEF FailMain, SingleProducer, Threads

LEMMA FailFinite ==
  ASSUME FailTypeOK
  PROVE  /\ IsFiniteSet(failUnscanned) /\ Cardinality(failUnscanned) \in Nat
         /\ IsFiniteSet(FailHand) /\ Cardinality(FailHand) \in Nat
         /\ \A l : IsFiniteSet(FailAdded(l)) /\ Cardinality(FailAdded(l)) \in Nat
         /\ Cardinality(Items) \in Nat
<1>1. /\ failUnscanned \subseteq Items /\ FailHand \subseteq Consumers
      /\ \A l : FailAdded(l) \subseteq Consumers
  BY DEF FailTypeOK, FailHand, FailAdded
<1> QED
  BY <1>1, FailAssumption, FS_Subset, FS_CardinalityType

LEMMA FailStepIsBufferStep ==
  ASSUME failUnscanned \subseteq Items, [FailNext]_<<bufferVars, failVars>>
  PROVE  [BufferNext]_bufferVars
<1>1. CASE FailMainNext
  BY <1>1, FailThreads
  DEF FailMainNext, FailFinds, FailInEnqueue, FailCountsFile, FailScanned, FailAllProcessed,
      FailSetsQuit, FailJoins, FailFrees, FailKilled, BufferNext
<1>2. ASSUME NEW w \in Consumers, FailWorkerNext(w) PROVE [BufferNext]_bufferVars
  BY <1>2
  DEF FailWorkerNext, FailTestQuit, FailTestCount, FailInDequeue, FailDequeued, FailAdds,
      FailTakesConsole, FailPrints, FailGivesConsole, FailFileDone, BufferNext
<1> QED
  BY <1>1, <1>2 DEF FailNext, FailMainNext, FailWorkerNext

LEMMA FailInvInit == BufferInit /\ FailInit => FailInv
<1> SUFFICES ASSUME BufferInit, FailInit PROVE FailInv
  OBVIOUS
<1> USE FailThreads, FailAssumption DEF FailInit, BufferInit
<1>1. FailTypeOK /\ BufferInv
  BY BufferInvInit DEF FailTypeOK
<1>2. FailCoupled /\ FailEnding /\ FailShownOrComing
  BY DEF FailCoupled, FailEnding, FailShownOrComing, Contents
<1>3. FailHand = {} /\ \A l : FailAdded(l) = {}
  BY DEF FailHand, FailInHand, FailAdded, FailHasAdded
<1>4. FailFilesCounted /\ FailTotalCounted /\ FailCountersCounted
  BY <1>1, <1>3, FailFinite, FS_EmptySet
  DEF FailFilesCounted, FailTotalCounted, FailCountersCounted, FailEnqueuing
<1> QED
  BY <1>1, <1>2, <1>4 DEF FailInv
-----------------------------------------------------------------------------
(* A file that main puts into the ring is counted there from then on.      *)
LEMMA FailCountMoves ==
  ASSUME FailTypeOK, FailFilesCounted, UNCHANGED <<failUnscanned, FailHand, failProcessed>>,
         FailEnqueuing' + count' = FailEnqueuing + count,
         FailEnqueuing \in Nat, FailEnqueuing' \in Nat, count \in Nat, count' \in Nat
  PROVE  FailFilesCounted'
<1>1. PICK u \in Nat, h \in Nat, p \in Nat :
         u = Cardinality(failUnscanned) /\ h = Cardinality(FailHand) /\ p = failProcessed
  BY FailFinite DEF FailTypeOK
<1>2. PICK e \in Nat, d \in Nat, c \in Nat, b \in Nat :
         e = FailEnqueuing /\ d = FailEnqueuing' /\ c = count /\ b = count'
  OBVIOUS
<1>3. u + d + b + h + p = u + e + c + h + p
  <2>1. d + b = e + c
    BY <1>2
  <2> QED
    BY <2>1
<1>4. /\ Cardinality(failUnscanned)' = u /\ Cardinality(FailHand)' = h /\ failProcessed' = p
  BY <1>1
<1> QED
  BY <1>1, <1>2, <1>3, <1>4 DEF FailFilesCounted

LEMMA FailMainStepInv ==
  ASSUME FailInv, BufferInv', Contents' \in Seq(Items), FailMainNext
  PROVE  FailInv'
<1> USE FailThreads DEF FailInv
<1>1. /\ \A w \in Consumers : pc'[w] = pc[w] /\ item'[w] = item[w]
      /\ UNCHANGED <<failWorkerAt, failCount>>
  BY DEF FailMainNext, FailFinds, FailInEnqueue, FailCountsFile, FailScanned, FailAllProcessed,
      FailSetsQuit, FailJoins, FailFrees, FailKilled, FailMainStep, EnqueueStep, EnqueueFullCheck,
      EnqueueLock, EnqueueStore, EnqueuePublish, EnqueueCall, SetQuitFlag, Goto, BufferInv,
      BufferTypeOK, bufferVars, failVars
<1>2. FailHand' = FailHand /\ \A l : FailAdded(l)' = FailAdded(l)
  BY <1>1 DEF FailHand, FailInHand, FailAdded, FailHasAdded, failCount
<1>3. FailTypeOK'
  <2>1. /\ failMainAt' \in {"scan", "enqueuing", "wait", "set_quit", "join", "free", "exited", "killed"}
        /\ failUnscanned' \subseteq Items /\ failTotal' \in Nat
    BY DEF FailTypeOK, FailMainNext, FailFinds, FailInEnqueue, FailCountsFile, FailScanned,
       FailAllProcessed, FailSetsQuit, FailJoins, FailFrees, FailKilled, FailMainStep, failVars,
       failScan
  <2> QED
    BY <1>1, <2>1 DEF FailTypeOK, failCount
<1>4. FailCountersCounted' /\ FailShownOrComing'
  BY <1>1, <1>2 DEF FailCountersCounted, FailShownOrComing, FailWillPrint, failCount
<1>5. FailCoupled'
  <2>1. pc'[FailMain] # "idle" => failMainAt' \in {"enqueuing", "killed"}
    BY DEF FailCoupled, FailMainNext, FailFinds, FailInEnqueue, FailCountsFile, FailScanned,
       FailAllProcessed, FailSetsQuit, FailJoins, FailFrees, FailKilled, FailMainStep, SetQuitFlag,
       bufferVars, failVars, EnqueueCall
  <2> QED
    BY <1>1, <2>1 DEF FailCoupled
<1>6. FailFilesCounted' /\ FailTotalCounted'
  <2> USE FailFinite DEF FailFilesCounted, FailTotalCounted, FailEnqueuing
  <2>0. failProcessed' = failProcessed /\ failProcessed \in Nat /\ count \in Nat /\ failTotal \in Nat
    BY <1>1 DEF failCount, FailTypeOK, BufferInv, BufferTypeOK
  <2>1. CASE FailFinds
    <3>1. PICK f \in failUnscanned : failUnscanned' = failUnscanned \ {f} /\ EnqueueCall(FailMain, f)
      BY <2>1 DEF FailFinds
    <3>2. Cardinality(failUnscanned') = Cardinality(failUnscanned) - 1
      BY <3>1, FS_RemoveElement
    <3>3. pc[FailMain] = "idle" /\ pc'[FailMain] # "idle" /\ count' = count
      BY <3>1 DEF EnqueueCall, Goto, BufferInv, BufferTypeOK
    <3>4. failMainAt = "scan" /\ failMainAt' = "enqueuing" /\ failTotal' = failTotal
      BY <2>1 DEF FailFinds, FailMainStep
    <3> QED
      BY <1>2, <2>0, <3>2, <3>3, <3>4
  <2>2. CASE FailInEnqueue
    <3>1. UNCHANGED <<failUnscanned, failTotal, failMainAt>>
      BY <2>2 DEF FailInEnqueue, failVars, failScan
    <3>2. \/ pc[FailMain] # "idle" /\ pc'[FailMain] # "idle" /\ count' = count
          \/ pc[FailMain] # "idle" /\ pc'[FailMain] = "idle" /\ count' = count + 1
      BY <2>2 DEF FailInEnqueue, EnqueueStep, EnqueueFullCheck, EnqueueLock, EnqueueStore,
         EnqueuePublish, Goto, BufferInv, BufferTypeOK
    <3>3. FailEnqueuing' + count' = FailEnqueuing + count
      BY <2>0, <3>2
    <3>4. FailEnqueuing' \in Nat /\ FailEnqueuing \in Nat /\ count' \in Nat
      BY <2>0, <3>2
    <3>5. FailTotalCounted'
      BY <3>1
    <3>6. FailFilesCounted'
      BY <1>2, <2>0, <3>1, <3>3, <3>4, FailCountMoves
    <3> QED
      BY <3>5, <3>6
  <2>3. CASE FailCountsFile
    <3>1. failMainAt = "enqueuing" /\ failMainAt' = "scan" /\ failTotal' = failTotal + 1
          /\ UNCHANGED <<failUnscanned, pc, count>>
      BY <2>3 DEF FailCountsFile, FailMainStep, bufferVars
    <3> QED
      BY <1>2, <2>0, <3>1
  <2>4. CASE ~FailFinds /\ ~FailInEnqueue /\ ~FailCountsFile
    <3>1. /\ UNCHANGED <<failUnscanned, failTotal, pc, count>>
          /\ failMainAt' # "killed" => failMainAt \notin {"killed", "enqueuing"} /\ failMainAt' # "enqueuing"
      BY <2>4 DEF FailMainNext, FailScanned, FailAllProcessed, FailSetsQuit, FailJoins, FailFrees,
         FailKilled, FailMainStep, SetQuitFlag, bufferVars, failScan
    <3> QED
      BY <1>2, <2>0, <3>1
  <2> QED
    BY <2>1, <2>2, <2>3, <2>4
<1>7. FailEnding'
  <2>1. CASE FailAllProcessed
    <3>1. /\ failMainAt = "wait" /\ failMainAt' = "set_quit" /\ failProcessed = failTotal
          /\ UNCHANGED <<failUnscanned, failProcessed>>
      BY <2>1 DEF FailAllProcessed, FailMainStep, failScan, failCount
    <3>2. failUnscanned = {}
      BY <3>1 DEF FailEnding
    <3>3. failTotal = Cardinality(Items)
      BY <3>1, <3>2, FS_EmptySet DEF FailTotalCounted, FailTypeOK
    <3> QED
      BY <3>1, <3>2, <3>3 DEF FailEnding
  <2>2. CASE ~FailAllProcessed
    BY <1>1, <2>2 DEF FailEnding, FailMainNext, FailFinds, FailInEnqueue, FailCountsFile, FailScanned,
       FailSetsQuit, FailJoins, FailFrees, FailKilled, FailMainStep, failVars, failScan, failCount
  <2> QED
    BY <2>1, <2>2
<1> QED
  BY <1>3, <1>4, <1>5, <1>6, <1>7
-----------------------------------------------------------------------------
(* What a step of a worker leaves alone. *)
LEMMA FailWorkerKeeps ==
  ASSUME FailInv, NEW w \in Consumers, FailWorkerNext(w)
  PROVE  /\ UNCHANGED <<failMainAt, failUnscanned, failTotal>> /\ failMainAt # "killed"
         /\ \A v \in Threads \ {w} : pc'[v] = pc[v] /\ item'[v] = item[v]
         /\ \A v \in Consumers \ {w} : failWorkerAt'[v] = failWorkerAt[v] /\ failLetter'[v] = failLetter[v]
         /\ failWorkerAt[w] # "gone"
         /\ FailTypeOK'
<1> USE FailThreads DEF FailInv
<1>1. /\ UNCHANGED <<failMainAt, failUnscanned, failTotal>> /\ failMainAt # "killed"
      /\ failWorkerAt[w] # "gone"
      /\ \E to \in {"test_quit", "test_count", "dequeuing", "add", "print", "file_done", "gone"} :
            failWorkerAt' = [failWorkerAt EXCEPT ![w] = to]
  BY DEF FailWorkerNext, FailTestQuit, FailTestCount, FailInDequeue, FailDequeued, FailAdds,
      FailTakesConsole, FailPrints, FailGivesConsole, FailFileDone, FailWorkerStep, failScan
<1>2. \A v \in Threads \ {w} : pc'[v] = pc[v] /\ item'[v] = item[v]
  BY DEF FailWorkerNext, FailTestQuit, FailTestCount, FailInDequeue, FailDequeued, FailAdds,
      FailTakesConsole, FailPrints, FailGivesConsole, FailFileDone, DequeueStep, DequeueCall,
      DequeueReturn, DequeueLock, DequeueRead, DequeueTake, DequeueNull, DequeueRetry, Goto,
      bufferVars, BufferInv, BufferTypeOK
<1>3. failLetter' \in [Consumers -> 1 .. FailLetters + 1]
      /\ \A v \in Consumers \ {w} : failLetter'[v] = failLetter[v]
  <2>1. \/ failLetter' = failLetter \/ failLetter' = [failLetter EXCEPT ![w] = 1]
        \/ failLetter[w] <= FailLetters /\ failLetter' = [failLetter EXCEPT ![w] = failLetter[w] + 1]
    BY DEF FailWorkerNext, FailTestQuit, FailTestCount, FailInDequeue, FailDequeued, FailAdds,
       FailTakesConsole, FailPrints, FailGivesConsole, FailFileDone, failCount
  <2>2. failLetter \in [Consumers -> 1 .. FailLetters + 1] /\ FailLetters \in Nat
    BY FailAssumption DEF FailTypeOK
  <2>3. 1 \in 1 .. FailLetters + 1 /\
        (failLetter[w] <= FailLetters => failLetter[w] + 1 \in 1 .. FailLetters + 1)
    BY <2>2
  <2> QED
    BY <2>1, <2>2, <2>3
<1>4. failPrinter' \in Consumers \cup {NoThread} /\ failProcessed' \in Nat
  BY DEF FailTypeOK, FailWorkerNext, FailTestQuit, FailTestCount, FailInDequeue, FailDequeued, FailAdds,
     FailTakesConsole, FailPrints, FailGivesConsole, FailFileDone, failCount
<1>5. failCounter' \in [1 .. FailLetters -> Nat] /\ failShown' \in [1 .. FailLetters -> Nat]
  <2>1. /\ failCounter \in [1 .. FailLetters -> Nat] /\ failShown \in [1 .. FailLetters -> Nat]
        /\ failLetter[w] \in 1 .. FailLetters + 1 /\ FailLetters \in Nat
    BY FailAssumption DEF FailTypeOK
  <2>2. CASE FailAdds(w) \/ FailPrints(w)
    <3>1. PICK l \in 1 .. FailLetters : l = failLetter[w]
      BY <2>1, <2>2 DEF FailAdds, FailPrints
    <3>2. failCounter[l] + 1 \in Nat /\ failCounter[l] \in Nat
      BY <2>1
    <3>3. \/ failCounter' = [failCounter EXCEPT ![l] = failCounter[l] + 1] /\ failShown' = failShown
          \/ failCounter' = failCounter /\ failShown' = [failShown EXCEPT ![l] = failCounter[l]]
      BY <2>2, <3>1 DEF FailAdds, FailPrints
    <3> QED
      BY <2>1, <3>2, <3>3
  <2>3. CASE ~(FailAdds(w) \/ FailPrints(w))
    BY <2>1, <2>3 DEF FailWorkerNext, FailTestQuit, FailTestCount, FailInDequeue, FailDequeued,
       FailTakesConsole, FailGivesConsole, FailFileDone, failCount
  <2> QED
    BY <2>2, <2>3
<1> QED
  BY <1>1, <1>2, <1>3, <1>4, <1>5 DEF FailTypeOK

(* The files stay counted when the worker's hand, the ring and the number  *)
(* of processed files change together.                                     *)
LEMMA FailFilesFollow ==
  ASSUME FailInv, NEW w \in Consumers, FailWorkerNext(w),
         \/ (FailInHand(w)' <=> FailInHand(w)) /\ UNCHANGED <<count, failProcessed>>
         \/ ~FailInHand(w) /\ FailInHand(w)' /\ count' = count - 1 /\ failProcessed' = failProcessed
         \/ FailInHand(w) /\ ~FailInHand(w)' /\ count' = count /\ failProcessed' = failProcessed + 1
  PROVE  FailFilesCounted' /\ FailTotalCounted' /\ FailEnding'
<1> USE FailThreads DEF FailInv
<1>1. \A v \in Consumers \ {w} : FailInHand(v)' <=> FailInHand(v)
  BY FailWorkerKeeps DEF FailInHand
<1>2. FailEnqueuing' = FailEnqueuing
  BY FailWorkerKeeps DEF FailEnqueuing
<1>3. /\ failProcessed \in Nat /\ count \in Nat /\ Cardinality(FailHand) \in Nat
      /\ IsFiniteSet(FailHand) /\ Cardinality(failUnscanned) \in Nat /\ FailEnqueuing \in Nat
      /\ Cardinality(Items) \in Nat
  BY FailFinite DEF FailTypeOK, BufferInv, BufferTypeOK, FailEnqueuing
<1>4. FailFilesCounted'
  <2> USE DEF FailFilesCounted
  <2>1. CASE (FailInHand(w)' <=> FailInHand(w)) /\ UNCHANGED <<count, failProcessed>>
    <3>1. FailHand' = FailHand
      BY <1>1, <2>1 DEF FailHand
    <3> QED
      BY <1>2, <2>1, <3>1, FailWorkerKeeps
  <2>2. CASE /\ ~FailInHand(w) /\ FailInHand(w)'
             /\ count' = count - 1 /\ failProcessed' = failProcessed
    <3>1. FailHand' = FailHand \cup {w} /\ w \notin FailHand
      BY <1>1, <2>2 DEF FailHand
    <3>2. Cardinality(FailHand') = Cardinality(FailHand) + 1
      BY <1>3, <3>1, FS_AddElement
    <3> QED
      BY <1>2, <1>3, <2>2, <3>2, FailWorkerKeeps
  <2>3. CASE /\ FailInHand(w) /\ ~FailInHand(w)'
             /\ count' = count /\ failProcessed' = failProcessed + 1
    <3>1. FailHand' = FailHand \ {w} /\ w \in FailHand
      BY <1>1, <2>3 DEF FailHand
    <3>2. Cardinality(FailHand') = Cardinality(FailHand) - 1
      BY <1>3, <3>1, FS_RemoveElement
    <3> QED
      BY <1>2, <1>3, <2>3, <3>2, FailWorkerKeeps
  <2> QED
    BY <2>1, <2>2, <2>3
<1>5. FailTotalCounted'
  BY FailWorkerKeeps DEF FailTotalCounted
<1>6. FailEnding'
  <2>1. failMainAt \notin {"free", "exited"}
    BY FailWorkerKeeps DEF FailEnding
  <2>2. CASE failProcessed' = failProcessed
    BY <2>1, <2>2, FailWorkerKeeps DEF FailEnding
  <2>3. CASE failProcessed' # failProcessed
    <3>1. w \in FailHand
      BY <2>3 DEF FailHand
    <3>2. Cardinality(FailHand) # 0
      BY <1>3, <3>1, FS_EmptySet
    <3>3. failProcessed # Cardinality(Items)
      BY <1>3, <3>2 DEF FailFilesCounted
    <3> QED
      BY <2>1, <3>3, FailWorkerKeeps DEF FailEnding
  <2> QED
    BY <2>2, <2>3
<1> QED
  BY <1>4, <1>5, <1>6

(* The counters stay true when nothing is added or finished. *)
LEMMA FailCountersKept ==
  ASSUME FailInv, NEW w \in Consumers, FailWorkerNext(w), UNCHANGED <<failCounter, failProcessed>>,
         \A l \in 1 .. FailLetters : FailHasAdded(w, l)' <=> FailHasAdded(w, l)
  PROVE  FailCountersCounted'
<1>1. ASSUME NEW l \in 1 .. FailLetters PROVE FailAdded(l)' = FailAdded(l)
  BY FailWorkerKeeps DEF FailAdded, FailHasAdded
<1> QED
  BY <1>1 DEF FailInv, FailCountersCounted

(* Nobody else's number is lost when a worker goes on without adding.      *)
LEMMA FailShownKept ==
  ASSUME FailInv, NEW w \in Consumers, FailWorkerNext(w), UNCHANGED <<failCounter, failShown>>,
         \A l \in 1 .. FailLetters : FailWillPrint(w, l) => FailWillPrint(w, l)'
  PROVE  FailShownOrComing'
<1>1. ASSUME NEW l \in 1 .. FailLetters, NEW v \in Consumers, FailWillPrint(v, l)
      PROVE  FailWillPrint(v, l)'
  BY <1>1, FailWorkerKeeps DEF FailWillPrint
<1> QED
  BY <1>1 DEF FailInv, FailShownOrComing

LEMMA FailAddsStep ==
  ASSUME FailInv, NEW w \in Consumers, FailAdds(w)
  PROVE  FailCountersCounted' /\ FailShownOrComing'
<1> USE DEF FailInv
<1>0. FailWorkerNext(w)
  BY DEF FailWorkerNext
<1>1. PICK k \in 1 .. FailLetters : k = failLetter[w]
  BY FailAssumption DEF FailAdds, FailTypeOK
<1>2. /\ failWorkerAt[w] = "add" /\ failWorkerAt'[w] = "add" /\ failLetter'[w] = k + 1
      /\ failCounter' = [failCounter EXCEPT ![k] = failCounter[k] + 1]
      /\ UNCHANGED <<failProcessed, failShown>>
  BY <1>1 DEF FailAdds, FailWorkerStep, FailTypeOK
<1>3. FailShownOrComing'
  BY <1>2 DEF FailShownOrComing, FailWillPrint
<1>4. ASSUME NEW l \in 1 .. FailLetters
      PROVE  failCounter'[l] = failProcessed' + Cardinality(FailAdded(l)')
  <2>1. \A v \in Consumers \ {w} : FailHasAdded(v, l)' <=> FailHasAdded(v, l)
    BY <1>0, FailWorkerKeeps DEF FailHasAdded
  <2>2. /\ IsFiniteSet(FailAdded(l)) /\ Cardinality(FailAdded(l)) \in Nat /\ failProcessed \in Nat
        /\ failCounter[l] = failProcessed + Cardinality(FailAdded(l))
    BY FailFinite DEF FailTypeOK, FailCountersCounted
  <2>3. CASE l = k
    <3>1. ~FailHasAdded(w, l) /\ FailHasAdded(w, l)'
      BY <1>1, <1>2, <2>3 DEF FailHasAdded
    <3>2. FailAdded(l)' = FailAdded(l) \cup {w} /\ w \notin FailAdded(l)
      BY <2>1, <3>1 DEF FailAdded
    <3>3. Cardinality(FailAdded(l)') = Cardinality(FailAdded(l)) + 1
      BY <2>2, <3>2, FS_AddElement
    <3>4. failCounter'[l] = failCounter[l] + 1
      BY <1>2, <2>3 DEF FailTypeOK
    <3> QED
      BY <1>2, <2>2, <3>3, <3>4
  <2>4. CASE l # k
    <3>1. FailHasAdded(w, l)' <=> FailHasAdded(w, l)
      BY <1>1, <1>2, <2>4 DEF FailHasAdded
    <3>2. FailAdded(l)' = FailAdded(l)
      BY <2>1, <3>1 DEF FailAdded
    <3>3. failCounter'[l] = failCounter[l]
      BY <1>2, <2>4 DEF FailTypeOK
    <3> QED
      BY <1>2, <2>2, <3>2, <3>3
  <2> QED
    BY <2>3, <2>4
<1> QED
  BY <1>3, <1>4 DEF FailCountersCounted

LEMMA FailFileDoneStep ==
  ASSUME FailInv, NEW w \in Consumers, FailFileDone(w)
  PROVE  FailCountersCounted' /\ FailShownOrComing'
<1> USE DEF FailInv
<1>0. FailWorkerNext(w)
  BY DEF FailWorkerNext
<1>1. /\ failWorkerAt[w] = "file_done" /\ failWorkerAt'[w] = "test_quit"
      /\ failProcessed' = failProcessed + 1 /\ UNCHANGED <<failCounter, failShown>>
  BY DEF FailFileDone, FailWorkerStep, FailTypeOK
<1>2. FailShownOrComing'
  BY <1>0, <1>1, FailShownKept DEF FailWillPrint
<1>3. ASSUME NEW l \in 1 .. FailLetters
      PROVE  failCounter'[l] = failProcessed' + Cardinality(FailAdded(l)')
  <2>1. \A v \in Consumers \ {w} : FailHasAdded(v, l)' <=> FailHasAdded(v, l)
    BY <1>0, FailWorkerKeeps DEF FailHasAdded
  <2>2. FailAdded(l)' = FailAdded(l) \ {w} /\ w \in FailAdded(l)
    BY <1>1, <2>1 DEF FailAdded, FailHasAdded
  <2>3. /\ IsFiniteSet(FailAdded(l)) /\ Cardinality(FailAdded(l)) \in Nat /\ failProcessed \in Nat
        /\ failCounter[l] = failProcessed + Cardinality(FailAdded(l))
    BY FailFinite DEF FailTypeOK, FailCountersCounted
  <2>4. Cardinality(FailAdded(l)') = Cardinality(FailAdded(l)) - 1
    BY <2>2, <2>3, FS_RemoveElement
  <2> QED
    BY <1>1, <2>3, <2>4
<1> QED
  BY <1>2, <1>3 DEF FailCountersCounted

LEMMA FailPrintsStep ==
  ASSUME FailInv, NEW w \in Consumers, FailPrints(w)
  PROVE  FailCountersCounted' /\ FailShownOrComing'
<1> USE DEF FailInv
<1>0. FailWorkerNext(w)
  BY DEF FailWorkerNext
<1>1. PICK k \in 1 .. FailLetters : k = failLetter[w]
  BY FailAssumption DEF FailPrints, FailTypeOK
<1>2. /\ failWorkerAt[w] = "print" /\ failWorkerAt'[w] = "print" /\ failLetter'[w] = k + 1
      /\ failShown' = [failShown EXCEPT ![k] = failCounter[k]]
      /\ UNCHANGED <<failProcessed, failCounter>>
  BY <1>1 DEF FailPrints, FailWorkerStep, FailTypeOK
<1>3. FailCountersCounted'
  BY <1>0, <1>2, FailCountersKept DEF FailHasAdded
<1>4. ASSUME NEW l \in 1 .. FailLetters
      PROVE  failShown'[l] = failCounter'[l] \/ \E v \in Consumers : FailWillPrint(v, l)'
  <2>1. CASE l = k
    BY <1>2, <2>1 DEF FailTypeOK
  <2>2. CASE l # k
    <3>1. failShown'[l] = failShown[l] /\ failCounter'[l] = failCounter[l]
      BY <1>2, <2>2 DEF FailTypeOK
    <3>2. ASSUME NEW v \in Consumers, FailWillPrint(v, l) PROVE FailWillPrint(v, l)'
      <4>1. CASE v = w
        <5>1. k <= l
          BY <1>1, <1>2, <3>2, <4>1 DEF FailWillPrint
        <5>2. k + 1 <= l
          BY <2>2, <5>1
        <5> QED
          BY <1>2, <4>1, <5>2 DEF FailWillPrint
      <4>2. CASE v # w
        BY <1>0, <3>2, <4>2, FailWorkerKeeps DEF FailWillPrint
      <4> QED
        BY <4>1, <4>2
    <3> QED
      BY <3>1, <3>2 DEF FailShownOrComing
  <2> QED
    BY <2>1, <2>2
<1> QED
  BY <1>3, <1>4 DEF FailShownOrComing

LEMMA FailWorkerStepInv ==
  ASSUME FailInv, BufferInv', Contents' \in Seq(Items), NEW w \in Consumers, FailWorkerNext(w)
  PROVE  FailInv'
<1> USE FailThreads DEF FailInv
<1>1. FailTypeOK'
  BY FailWorkerKeeps
<1>2. FailCoupled'
  <2>1. pc'[w] # "idle" <=> failWorkerAt'[w] = "dequeuing"
    BY DEF FailCoupled, FailWorkerNext, FailTestQuit, FailTestCount, FailInDequeue, FailDequeued,
       FailAdds, FailTakesConsole, FailPrints, FailGivesConsole, FailFileDone, FailWorkerStep,
       DequeueStep, DequeueCall, DequeueReturn, DequeueLock, DequeueRead, DequeueTake, DequeueNull,
       DequeueRetry, Goto, bufferVars, BufferInv, BufferTypeOK, FailTypeOK
  <2>2. /\ \A v \in Consumers \ {w} : pc'[v] = pc[v] /\ failWorkerAt'[v] = failWorkerAt[v]
        /\ pc'[FailMain] = pc[FailMain] /\ failMainAt' = failMainAt
    BY FailWorkerKeeps
  <2> QED
    BY <2>1, <2>2 DEF FailCoupled
<1>3. FailFilesCounted' /\ FailTotalCounted' /\ FailEnding'
  <2>1. CASE FailInDequeue(w) /\ DequeueTake(w)
    <3>1. item[w] = Head(Contents) /\ Contents # <<>> /\ item' = item
      BY <2>1, TakeDropsHead DEF DequeueTake
    <3>2. item[w] # NULL
      BY <3>1, ItemsAssumption DEF FailCoupled
    <3>3. /\ pc[w] = "deq_take" /\ pc'[w] = "deq_done" /\ failWorkerAt[w] = "dequeuing"
          /\ count' = count - 1 /\ failProcessed' = failProcessed
      BY <2>1 DEF DequeueTake, Goto, FailInDequeue, FailWorkerStep, BufferInv, BufferTypeOK, failCount
    <3>4. ~FailInHand(w) /\ FailInHand(w)'
      BY <3>1, <3>2, <3>3 DEF FailInHand
    <3> QED
      BY <3>3, <3>4, FailFilesFollow
  <2>2. CASE FailFileDone(w)
    <3>1. /\ failWorkerAt[w] = "file_done" /\ failWorkerAt'[w] = "test_quit" /\ pc' = pc
          /\ count' = count /\ failProcessed' = failProcessed + 1
      BY <2>2 DEF FailFileDone, FailWorkerStep, bufferVars, FailTypeOK
    <3>2. pc[w] = "idle"
      BY <3>1 DEF FailCoupled
    <3>3. FailInHand(w) /\ ~FailInHand(w)'
      BY <3>1, <3>2 DEF FailInHand
    <3> QED
      BY <3>1, <3>3, FailFilesFollow
  <2>3. CASE FailInDequeue(w) /\ ~DequeueTake(w)
    <3>1. /\ failWorkerAt[w] = "dequeuing" /\ failWorkerAt'[w] = "dequeuing"
          /\ UNCHANGED <<count, failProcessed>>
          /\ pc[w] # "deq_done" /\ (pc'[w] = "deq_done" => item'[w] = NULL)
      BY <2>3 DEF FailInDequeue, FailWorkerStep, DequeueStep, DequeueLock, DequeueRead, DequeueNull,
         DequeueRetry, Goto, BufferInv, BufferTypeOK, failCount, FailTypeOK
    <3>2. ~FailInHand(w) /\ ~FailInHand(w)'
      BY <3>1 DEF FailInHand
    <3> QED
      BY <3>1, <3>2, FailFilesFollow
  <2>4. CASE FailDequeued(w)
    <3>1. /\ failWorkerAt[w] = "dequeuing" /\ pc[w] = "deq_done" /\ pc'[w] = "idle" /\ item' = item
          /\ failWorkerAt'[w] = (IF item[w] = NULL THEN "test_quit" ELSE "add")
          /\ UNCHANGED <<count, failProcessed>>
      BY <2>4 DEF FailDequeued, FailWorkerStep, DequeueReturn, Goto, BufferInv, BufferTypeOK, FailTypeOK
    <3>2. FailInHand(w)' <=> FailInHand(w)
      BY <3>1 DEF FailInHand
    <3> QED
      BY <3>1, <3>2, FailFilesFollow
  <2>5. CASE FailTestQuit(w) \/ FailTestCount(w)
    <3>1. /\ failWorkerAt[w] \in {"test_quit", "test_count"}
          /\ failWorkerAt'[w] \in {"test_count", "dequeuing", "gone"}
          /\ (pc' = pc \/ pc'[w] = "deq_lock") /\ UNCHANGED <<count, failProcessed>>
      BY <2>5 DEF FailTestQuit, FailTestCount, FailWorkerStep, DequeueCall, Goto, bufferVars,
         BufferInv, BufferTypeOK, FailTypeOK, failCount
    <3>2. pc[w] = "idle"
      BY <3>1 DEF FailCoupled
    <3>3. ~FailInHand(w) /\ ~FailInHand(w)'
      BY <3>1, <3>2 DEF FailInHand
    <3> QED
      BY <3>1, <3>3, FailFilesFollow
  <2>6. CASE FailAdds(w) \/ FailTakesConsole(w) \/ FailPrints(w) \/ FailGivesConsole(w)
    <3>1. /\ failWorkerAt[w] \in {"add", "print"} /\ failWorkerAt'[w] \in {"add", "print", "file_done"}
          /\ UNCHANGED <<count, failProcessed>>
      BY <2>6 DEF FailAdds, FailTakesConsole, FailPrints, FailGivesConsole, FailWorkerStep, bufferVars,
         FailTypeOK
    <3>2. FailInHand(w)' <=> FailInHand(w)
      BY <3>1 DEF FailInHand
    <3> QED
      BY <3>1, <3>2, FailFilesFollow
  <2> QED
    BY <2>1, <2>2, <2>3, <2>4, <2>5, <2>6 DEF FailWorkerNext
<1>4. FailCountersCounted' /\ FailShownOrComing'
  <2>1. CASE FailAdds(w)
    BY <2>1, FailAddsStep
  <2>2. CASE FailPrints(w)
    BY <2>2, FailPrintsStep
  <2>3. CASE FailFileDone(w)
    BY <2>3, FailFileDoneStep
  <2>4. CASE FailTestQuit(w) \/ FailTestCount(w) \/ FailInDequeue(w) \/ FailDequeued(w)
    <3>1. UNCHANGED <<failCounter, failProcessed, failShown>>
      BY <2>4 DEF FailTestQuit, FailTestCount, FailInDequeue, FailDequeued, failCount
    <3>2. failWorkerAt[w] \notin {"add", "print", "file_done"}
      BY <2>4 DEF FailTestQuit, FailTestCount, FailInDequeue, FailDequeued, FailWorkerStep
    <3>3. \/ failWorkerAt'[w] \notin {"add", "print", "file_done"}
          \/ failWorkerAt'[w] = "add" /\ failLetter'[w] = 1
      BY <2>4 DEF FailTestQuit, FailTestCount, FailInDequeue, FailDequeued, FailWorkerStep, FailTypeOK
    <3>4. FailCountersCounted'
      <4>1. ASSUME NEW l \in 1 .. FailLetters PROVE FailHasAdded(w, l)' <=> FailHasAdded(w, l)
        BY <3>2, <3>3 DEF FailHasAdded
      <4> QED
        BY <3>1, <4>1, FailCountersKept
    <3>5. FailShownOrComing'
      <4>1. ASSUME NEW l \in 1 .. FailLetters, FailWillPrint(w, l) PROVE FailWillPrint(w, l)'
        BY <3>2, <3>3, <4>1 DEF FailWillPrint
      <4> QED
        BY <3>1, <4>1, FailShownKept
    <3> QED
      BY <3>4, <3>5
  <2>5. CASE FailTakesConsole(w) \/ FailGivesConsole(w)
    <3>1. UNCHANGED <<failCounter, failProcessed, failShown>>
      BY <2>5 DEF FailTakesConsole, FailGivesConsole
    <3>2. /\ failLetter[w] > FailLetters
          /\ \/ /\ failWorkerAt[w] = "add" /\ failWorkerAt'[w] = "print" /\ failLetter'[w] = 1
             \/ /\ failWorkerAt[w] = "print" /\ failWorkerAt'[w] = "file_done"
      BY <2>5 DEF FailTakesConsole, FailGivesConsole, FailWorkerStep, FailTypeOK
    <3>3. failLetter[w] \in Nat /\ FailLetters \in Nat
      BY FailAssumption DEF FailTypeOK
    <3>4. FailCountersCounted'
      <4>1. ASSUME NEW l \in 1 .. FailLetters PROVE FailHasAdded(w, l)' <=> FailHasAdded(w, l)
        BY <3>2, <3>3 DEF FailHasAdded
      <4> QED
        BY <3>1, <4>1, FailCountersKept
    <3>5. FailShownOrComing'
      <4>1. ASSUME NEW l \in 1 .. FailLetters, FailWillPrint(w, l) PROVE FailWillPrint(w, l)'
        BY <3>2, <3>3, <4>1 DEF FailWillPrint
      <4> QED
        BY <3>1, <4>1, FailShownKept
    <3> QED
      BY <3>4, <3>5
  <2> QED
    BY <2>1, <2>2, <2>3, <2>4, <2>5 DEF FailWorkerNext
<1> QED
  BY <1>1, <1>2, <1>3, <1>4
LEMMA FailStepInv == FailInv /\ [FailNext]_<<bufferVars, failVars>> => FailInv'
<1> SUFFICES ASSUME FailInv, [FailNext]_<<bufferVars, failVars>> PROVE FailInv'
  OBVIOUS
<1>1. BufferInv' /\ Contents' \in Seq(Items)
  <2>1. failUnscanned \subseteq Items /\ BufferInv /\ Contents \in Seq(Items) /\ SingleProducer
    BY FailThreads DEF FailInv, FailTypeOK, FailCoupled
  <2> QED
    BY <2>1, FailStepIsBufferStep, BufferInvStep, ContentsStayItems
<1>2. CASE FailMainNext
  BY <1>1, <1>2, FailMainStepInv
<1>3. ASSUME NEW w \in Consumers, FailWorkerNext(w) PROVE FailInv'
  BY <1>1, <1>3, FailWorkerStepInv
<1>4. CASE UNCHANGED <<bufferVars, failVars>>
  <2>1. FailHand' = FailHand /\ \A l : FailAdded(l)' = FailAdded(l)
    BY <1>4 DEF FailHand, FailInHand, FailAdded, FailHasAdded, bufferVars, failVars, failCount
  <2> QED
    BY <1>1, <1>4, <2>1 DEF FailInv, FailTypeOK, FailCoupled, FailFilesCounted, FailTotalCounted,
       FailEnding, FailCountersCounted, FailShownOrComing, FailWillPrint, FailEnqueuing,
       bufferVars, failVars, failScan, failCount
<1> QED
  BY <1>2, <1>3, <1>4 DEF FailNext, FailMainNext, FailWorkerNext


THEOREM FailInvariance == FailSpec => []FailInv
BY FailStepInv, FailInvInit, PTL DEF FailSpec

LEMMA FailInvLastNumbers == FailInv => LastNumbersComplete
<1> SUFFICES ASSUME FailInv, failMainAt \in {"free", "exited"}, NEW l \in 1 .. FailLetters
             PROVE  failShown[l] = Cardinality(Items)
  BY DEF LastNumbersComplete
<1>1. /\ \A w \in Consumers : failWorkerAt[w] = "gone"
      /\ failProcessed = Cardinality(Items) /\ Cardinality(Items) \in Nat
  BY FailFinite DEF FailInv, FailEnding
<1>2. FailAdded(l) = {} /\ ~\E w \in Consumers : FailWillPrint(w, l)
  BY <1>1 DEF FailAdded, FailHasAdded, FailWillPrint
<1> QED
  BY <1>1, <1>2, FS_EmptySet DEF FailInv, FailCountersCounted, FailShownOrComing

(* When main has joined the workers, the last number printed for every     *)
(* letter is the sum over all files (etap4Fail.c:412-434, 578-594).        *)
THEOREM FailLastNumbers == FailSpec => []LastNumbersComplete
BY FailInvLastNumbers, FailInvariance, PTL
=============================================================================
