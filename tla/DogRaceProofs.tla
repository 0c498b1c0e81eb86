--------------------------- MODULE DogRaceProofs ---------------------------
(***************************************************************************)
(* Proofs about the dog race for every set of dogs, every track of at      *)
(* least two fields and every longest jump, with and without Ctrl+C.       *)
(***************************************************************************)
EXTENDS DogRace, FiniteSetTheorems, TLAPS

(* The dog holds the mutex of the field it jumps to. *)
HoldsNext(d) == at[d] \in {"lock_pos", "enter"}

(* A jump goes forward, within the track. *)
JumpsForward == \A d \in Dogs :
  /\ at[d] \in {"check_quit", "lock_next", "lock_pos", "enter"} => pos[d] < N - 1
  /\ at[d] \in {"lock_next", "lock_pos", "enter"} => nextPos[d] \in Fields \ {0}
  /\ at[d] = "lock_pos" => nextPos[d] # pos[d]

(* The holder of a mutex is a dog about to enter a field that is free.     *)
HolderJumps == \A d \in Dogs :
  HoldsNext(d) => /\ mxTrack[nextPos[d]] = d
                  /\ track[nextPos[d]] = 0

(* An occupied field has a counter of one: the others see it is taken.     *)
OccupiedIsMarked == \A d \in Dogs : \A i \in Fields \ {0} : StandsOn(d, i) => track[i] = 1

RaceInv == TypeOK /\ JumpsForward /\ HolderJumps /\ OccupiedIsMarked /\ OneDogPerField

LEMMA RaceInit == Init => RaceInv
<1> SUFFICES ASSUME Init PROVE RaceInv
  OBVIOUS
<1> USE TrackAssumption DEF Init
<1>1. 0 \in Fields
  BY DEF Fields
<1>2. TypeOK
  <2>1. /\ at \in [Dogs -> DogSteps] /\ mainAt \in MainSteps
        /\ podium \in [Places -> Dogs \cup {Nobody}]
        /\ place \in [Dogs -> 1 .. 4]
    BY DEF DogSteps, MainSteps
  <2>2. /\ track \in [Fields -> Int]
        /\ \A i \in Fields : track[i] <= 1
        /\ mxTrack \in [Fields -> Dogs \cup {Nobody}]
    OBVIOUS
  <2>3. pos \in [Dogs -> Fields] /\ nextPos \in [Dogs -> Fields]
    BY <1>1
  <2>4. QED
    BY <2>1, <2>2, <2>3 DEF TypeOK
<1>3. JumpsForward /\ HolderJumps
  BY <1>1 DEF JumpsForward, HolderJumps, HoldsNext
<1>4. OccupiedIsMarked /\ OneDogPerField
  BY DEF OccupiedIsMarked, OneDogPerField, StandsOn
<1>5. QED
  BY <1>2, <1>3, <1>4 DEF RaceInv

LEMMA TargetIsAhead ==
  ASSUME NEW i \in Fields, i < N - 1, NEW distance \in 1 .. MaxDistance
  PROVE  Target(i, distance) \in Fields \ {0} /\ Target(i, distance) # i
BY TrackAssumption DEF Target, Fields
(* A dog that enters a field has found its counter at zero. *)
LEMMA RaceTypeStep == TypeOK /\ JumpsForward /\ HolderJumps /\ [Next]_vars => TypeOK'
<1> SUFFICES ASSUME TypeOK, JumpsForward, HolderJumps, [Next]_vars PROVE TypeOK'
  OBVIOUS
<1> USE TrackAssumption DEF TypeOK, fieldVars, resultVars, mainVars
<1>1. ASSUME NEW d \in Dogs, DogNext(d) PROVE TypeOK'
  <2>1. PICK to \in DogSteps : at' = [at EXCEPT ![d] = to] \/ at' = at
    BY <1>1 DEF DogNext, StopRunning, ChooseField, Bark, LockNext, LeaveField, EnterField, LeaveTrack,
       PlaceFree, PlaceTaken, PodiumFull, TakePlace, Finish, Proceed, DogSteps
  <2>2. at' \in [Dogs -> DogSteps]
    BY <2>1
  <2>3. CASE ChooseField(d)
    <3>1. PICK distance \in 1 .. MaxDistance :
             nextPos' = [nextPos EXCEPT ![d] = Target(pos[d], distance)]
      BY <2>3 DEF ChooseField
    <3>2. Target(pos[d], distance) \in Fields
      BY <2>3, TargetIsAhead DEF ChooseField, Proceed, JumpsForward
    <3>3. QED
      BY <2>2, <2>3, <3>1, <3>2 DEF ChooseField
  <2>4. CASE LockNext(d)
    BY <2>2, <2>4 DEF LockNext
  <2>5. CASE LeaveField(d) \/ LeaveTrack(d)
    BY <2>2, <2>5 DEF LeaveField, LeaveTrack
  <2>6. CASE EnterField(d)
    BY <2>2, <2>6 DEF EnterField, Proceed, HolderJumps, HoldsNext
  <2>7. CASE StopRunning(d) \/ Bark(d) \/ PlaceFree(d) \/ PodiumFull(d)
    BY <2>2, <2>7 DEF StopRunning, Bark, PlaceFree, PodiumFull
  <2>8. CASE PlaceTaken(d)
    <3>1. place' \in [Dogs -> 1 .. 4]
      BY <2>8 DEF PlaceTaken, Places
    <3>2. QED
      BY <2>2, <2>8, <3>1 DEF PlaceTaken
  <2>9. CASE TakePlace(d) \/ Finish(d)
    BY <2>2, <2>9 DEF TakePlace, Finish
  <2>10. QED
    BY <1>1, <2>3, <2>4, <2>5, <2>6, <2>7, <2>8, <2>9 DEF DogNext
<1>2. CASE MainNext
  BY <1>2 DEF MainNext, StillRunning, RaceOver, PollNothing, PollSigint, ShowPodium, JoinDogs,
     FreeTrack, Return, MainProceeds, MainSteps
<1>3. CASE UserInterrupts
  BY <1>3 DEF UserInterrupts
<1>4. CASE UNCHANGED vars
  BY <1>4 DEF vars
<1>5. QED
  BY <1>1, <1>2, <1>3, <1>4 DEF Next

(* A jump of one dog keeps what is known of all of them. *)
LEMMA DogStep ==
  ASSUME RaceInv, NEW d \in Dogs, DogNext(d)
  PROVE  (JumpsForward /\ HolderJumps /\ OccupiedIsMarked /\ OneDogPerField)'
<1> USE DEF RaceInv, TypeOK, fieldVars, resultVars, mainVars, Proceed, HoldsNext, StandsOn,
        JumpsForward, HolderJumps, OccupiedIsMarked, OneDogPerField
<1>1. CASE StopRunning(d) \/ Bark(d) \/ PlaceFree(d) \/ PlaceTaken(d) \/ PodiumFull(d)
             \/ TakePlace(d) \/ Finish(d)
  BY <1>1 DEF StopRunning, Bark, PlaceFree, PlaceTaken, PodiumFull, TakePlace, Finish
<1>2. CASE ChooseField(d)
  <2>1. PICK distance \in 1 .. MaxDistance :
           nextPos' = [nextPos EXCEPT ![d] = Target(pos[d], distance)]
    BY <1>2 DEF ChooseField
  <2>2. Target(pos[d], distance) \in Fields \ {0} /\ Target(pos[d], distance) # pos[d]
    BY <1>2, TargetIsAhead DEF ChooseField
  <2>3. QED
    BY <1>2, <2>1, <2>2 DEF ChooseField
<1>3. CASE LockNext(d)
  BY <1>3, DogsAssumption DEF LockNext
<1>4. CASE LeaveField(d)
  BY <1>4, DogsAssumption DEF LeaveField, Fields
<1>5. CASE EnterField(d)
  BY <1>5, DogsAssumption, TrackAssumption DEF EnterField, Fields
<1>6. CASE LeaveTrack(d)
  BY <1>6, DogsAssumption DEF LeaveTrack, Fields
<1>7. QED
  BY <1>1, <1>2, <1>3, <1>4, <1>5, <1>6 DEF DogNext

LEMMA RaceStep == RaceInv /\ [Next]_vars => RaceInv'
<1> SUFFICES ASSUME RaceInv, [Next]_vars PROVE RaceInv'
  OBVIOUS
<1>1. TypeOK'
  BY RaceTypeStep DEF RaceInv
<1>2. CASE \E d \in Dogs : DogNext(d)
  BY <1>1, <1>2, DogStep DEF RaceInv
<1>3. CASE ~ \E d \in Dogs : DogNext(d)
  <2>1. UNCHANGED <<fieldVars, at>>
    BY <1>3 DEF Next, MainNext, StillRunning, RaceOver, PollNothing, PollSigint, ShowPodium,
       JoinDogs, FreeTrack, Return, UserInterrupts, vars
  <2>2. QED
    BY <1>1, <2>1 DEF fieldVars, RaceInv, HoldsNext, StandsOn, JumpsForward, HolderJumps,
       OccupiedIsMarked, OneDogPerField
<1>4. QED
  BY <1>2, <1>3

THEOREM RaceInvariance == Spec => []RaceInv
BY RaceInit, RaceStep, PTL DEF Spec

(* Every variable of the race keeps its type. *)
THEOREM RaceTypeCorrect == Spec => []TypeOK
<1>1. RaceInv => TypeOK
  BY DEF RaceInv
<1>2. QED
  BY <1>1, RaceInvariance, PTL

(* Two dogs never stand on the same field of the track. *)
THEOREM RaceOneDogPerField == Spec => []OneDogPerField
<1>1. RaceInv => OneDogPerField
  BY DEF RaceInv
<1>2. QED
  BY <1>1, RaceInvariance, PTL-----------------------------------------------------------------------------
(* Main leaves its loop on the count of finished dogs, which it reads      *)
(* without mxFinished, so the count must not run ahead of the dogs.  A dog *)
(* that stops on the quit flag is not counted, but then main is on the     *)
(* other path.                                                             *)
Exited == {d \in Dogs : at[d] = "exited"}

CountIsExited ==
  /\ mainAt \in {"watch", "poll", "show_podium", "join"} => ~quitFlag
  /\ ~quitFlag => dogsFinished = Cardinality(Exited)
  /\ mainAt \in {"show_podium", "join"} => Exited = Dogs

FinishInv == TypeOK /\ CountIsExited

LEMMA FinishInit == Init => CountIsExited
<1> SUFFICES ASSUME Init PROVE CountIsExited
  OBVIOUS
<1>1. Exited = {}
  BY DEF Init, Exited
<1> QED
  BY <1>1, FS_EmptySet DEF Init, CountIsExited

LEMMA ExitedFinite == IsFiniteSet(Exited) /\ Cardinality(Exited) \in Nat
<1>1. Exited \in SUBSET Dogs
  BY DEF Exited
<1> QED
  BY <1>1, FS_Subset, FS_CardinalityType, DogsAssumption

(* The dog that raises the count is the one that ends.                     *)
LEMMA DogFinishStep ==
  ASSUME FinishInv, NEW d \in Dogs, DogNext(d) PROVE CountIsExited'
<1> USE DEF FinishInv
<1>1. CASE StopRunning(d)
  <2>1. quitFlag /\ UNCHANGED <<quitFlag, mainAt>>
    BY <1>1 DEF StopRunning, mainVars
  <2> QED
    BY <2>1 DEF CountIsExited
<1>2. CASE Finish(d)
  <2>1. at[d] = "finish" /\ at' = [at EXCEPT ![d] = "exited"] /\ dogsFinished' = dogsFinished + 1
        /\ UNCHANGED <<quitFlag, mainAt>>
    BY <1>2 DEF Finish, Proceed, mainVars
  <2>2. Exited' = Exited \cup {d} /\ d \notin Exited
    BY <2>1 DEF Exited, TypeOK
  <2>3. Cardinality(Exited') = Cardinality(Exited) + 1
    BY <2>2, ExitedFinite, FS_AddElement
  <2> QED
    BY <2>1, <2>2, <2>3 DEF CountIsExited
<1>3. CASE ~StopRunning(d) /\ ~Finish(d)
  <2>1. UNCHANGED <<dogsFinished, quitFlag, mainAt>>
    BY <1>3 DEF DogNext, ChooseField, Bark, LockNext, LeaveField, EnterField, LeaveTrack,
       PlaceFree, PlaceTaken, PodiumFull, TakePlace, resultVars, mainVars
  <2>2. \A e \in Dogs : at'[e] = "exited" <=> at[e] = "exited"
    BY <1>3 DEF DogNext, ChooseField, Bark, LockNext, LeaveField, EnterField, LeaveTrack,
       PlaceFree, PlaceTaken, PodiumFull, TakePlace, Proceed, TypeOK
  <2>3. Exited' = Exited
    BY <2>2 DEF Exited
  <2> QED
    BY <2>1, <2>3 DEF CountIsExited
<1> QED
  BY <1>1, <1>2, <1>3

LEMMA MainFinishStep ==
  ASSUME FinishInv, MainNext \/ UserInterrupts \/ UNCHANGED vars PROVE CountIsExited'
<1> USE DEF FinishInv
<1>1. UNCHANGED <<at, dogsFinished>> /\ Exited' = Exited
  BY DEF MainNext, StillRunning, RaceOver, PollNothing, PollSigint, ShowPodium, JoinDogs,
     FreeTrack, Return, UserInterrupts, vars, resultVars, Exited
<1>2. CASE RaceOver
  <2>1. mainAt = "watch" /\ mainAt' = "show_podium" /\ UNCHANGED quitFlag
        /\ dogsFinished >= Cardinality(Dogs)
    BY <1>2 DEF RaceOver, MainProceeds
  <2>2. dogsFinished = Cardinality(Exited)
    BY <2>1 DEF CountIsExited
  <2>3. Exited \in SUBSET Dogs /\ Cardinality(Exited) <= Cardinality(Dogs)
        /\ (Cardinality(Dogs) = Cardinality(Exited) => Dogs = Exited)
    BY FS_Subset, DogsAssumption DEF Exited
  <2>4. Cardinality(Dogs) \in Nat
    BY FS_CardinalityType, DogsAssumption
  <2>5. Exited = Dogs
    BY <2>1, <2>2, <2>3, <2>4, ExitedFinite
  <2> QED
    BY <1>1, <2>1, <2>5 DEF CountIsExited
<1>3. CASE ~RaceOver
  BY <1>1, <1>3 DEF MainNext, StillRunning, PollNothing, PollSigint, ShowPodium, JoinDogs,
     FreeTrack, Return, UserInterrupts, vars, mainVars, MainProceeds, CountIsExited
<1> QED
  BY <1>2, <1>3

(* The podium that main shows is final (etap4.c:98-136): when dogsFinished *)
(* has reached the number of dogs, no dog is left that could write it, for *)
(* any number of dogs.                                                     *)
THEOREM RacePodiumFinal == Spec => PodiumFinal
<1>1. TypeOK /\ CountIsExited /\ [Next]_vars => CountIsExited'
  BY DogFinishStep, MainFinishStep DEF Next, FinishInv
<1>2. CountIsExited /\ [Next]_vars
        => [(mainAt \in {"show_podium", "join"}) => UNCHANGED podium]_vars
  <2> SUFFICES ASSUME CountIsExited, Next, mainAt \in {"show_podium", "join"}
               PROVE  UNCHANGED podium
    OBVIOUS
  <2>1. \A d \in Dogs : at[d] = "exited"
    BY DEF CountIsExited, Exited
  <2>2. CASE \E d \in Dogs : DogNext(d)
    BY <2>1, <2>2 DEF DogNext, StopRunning, ChooseField, Bark, LockNext, LeaveField, EnterField,
       LeaveTrack, PlaceFree, PlaceTaken, PodiumFull, TakePlace, Finish, Proceed
  <2>3. CASE MainNext \/ UserInterrupts
    BY <2>3 DEF MainNext, StillRunning, RaceOver, PollNothing, PollSigint, ShowPodium, JoinDogs,
       FreeTrack, Return, UserInterrupts, resultVars
  <2> QED
    BY <2>2, <2>3 DEF Next
<1> QED
  BY <1>1, <1>2, FinishInit, RaceTypeCorrect, PTL DEF Spec, PodiumFinal
-----------------------------------------------------------------------------
(* The counter of a field counts the dogs that have entered it, and every  *)
(* step changes counter and dogs together.  A dog past the track has left  *)
(* from its last field.                                                    *)
Counted(d, i) == /\ pos[d] = i
                 /\ at[d] \notin {"enter", "look_podium", "take_place", "finish"}
                 /\ ~(at[d] = "exited" /\ i = N - 1)

DogsOn(i) == {d \in Dogs : Counted(d, i)}

EndsLast == \A d \in Dogs :
  at[d] \in {"leave_track", "look_podium", "take_place", "finish"} => pos[d] = N - 1

CountInv == EndsLast /\ TrackCounts

LEMMA TrackCountsIs ==
  /\ TrackCounts <=> \A i \in Fields :
        track[i] = Cardinality(DogsOn(i)) - (IF i = 0 THEN Cardinality(Dogs) ELSE 0)
  /\ TrackCounts' <=> \A i \in Fields :
        track'[i] = Cardinality(DogsOn(i)') - (IF i = 0 THEN Cardinality(Dogs) ELSE 0)
BY DEF TrackCounts, DogsOn, Counted

LEMMA DogsOnFinite == ASSUME NEW i PROVE IsFiniteSet(DogsOn(i)) /\ Cardinality(DogsOn(i)) \in Nat
<1>1. DogsOn(i) \in SUBSET Dogs
  BY DEF DogsOn
<1> QED
  BY <1>1, FS_Subset, FS_CardinalityType, DogsAssumption

LEMMA CountInit == Init => CountInv
<1> SUFFICES ASSUME Init PROVE CountInv
  OBVIOUS
<1>1. ASSUME NEW i \in Fields
      PROVE  track[i] = Cardinality(DogsOn(i)) - (IF i = 0 THEN Cardinality(Dogs) ELSE 0)
  <2>1. i = 0 => DogsOn(i) = Dogs
    BY TrackAssumption DEF Init, DogsOn, Counted
  <2>2. i # 0 => DogsOn(i) = {}
    BY DEF Init, DogsOn, Counted
  <2>3. track[i] = 0 /\ Cardinality(Dogs) \in Nat
    BY FS_CardinalityType, DogsAssumption DEF Init
  <2> QED
    BY <2>1, <2>2, <2>3, FS_EmptySet
<1>2. EndsLast
  BY DEF Init, EndsLast
<1> QED
  BY <1>1, <1>2, TrackCountsIs DEF CountInv

LEMMA EndsLastStep ==
  ASSUME RaceInv, EndsLast, NEW d \in Dogs, DogNext(d)
  PROVE  EndsLast'
<1> USE DEF EndsLast, RaceInv, TypeOK, Proceed, fieldVars
<1>1. CASE EnterField(d)
  BY <1>1, TrackAssumption DEF EnterField, Fields
<1>2. CASE ~EnterField(d)
  BY <1>2 DEF DogNext, StopRunning, ChooseField, Bark, LockNext, LeaveField, LeaveTrack,
     PlaceFree, PlaceTaken, PodiumFull, TakePlace, Finish
<1> QED
  BY <1>1, <1>2

(* A dog comes to field x, or leaves it. *)
LEMMA DogCounted ==
  ASSUME TypeOK, TrackCounts, NEW d \in Dogs, NEW x \in Fields,
         \A e \in Dogs, i \in Fields : (e # d \/ i # x) => (Counted(e, i)' <=> Counted(e, i)),
         \/ ~Counted(d, x) /\ Counted(d, x)' /\ track' = [track EXCEPT ![x] = @ + 1]
         \/ Counted(d, x) /\ ~Counted(d, x)' /\ track' = [track EXCEPT ![x] = @ - 1]
  PROVE  TrackCounts'
<1> SUFFICES ASSUME NEW i \in Fields
             PROVE  track'[i] = Cardinality(DogsOn(i)') - (IF i = 0 THEN Cardinality(Dogs) ELSE 0)
  BY TrackCountsIs
<1>1. track[i] = Cardinality(DogsOn(i)) - (IF i = 0 THEN Cardinality(Dogs) ELSE 0)
  BY TrackCountsIs
<1>2. /\ IsFiniteSet(DogsOn(i)) /\ Cardinality(DogsOn(i)) \in Nat /\ track[i] \in Int
      /\ Cardinality(Dogs) \in Nat
  BY DogsOnFinite, FS_CardinalityType, DogsAssumption DEF TypeOK
<1>3. CASE i # x
  <2>1. DogsOn(i)' = DogsOn(i)
    BY <1>3 DEF DogsOn
  <2> QED
    BY <1>1, <1>3, <2>1 DEF TypeOK
<1>4. CASE i = x /\ Counted(d, x)'
  <2>1. DogsOn(i)' = DogsOn(i) \cup {d} /\ d \notin DogsOn(i)
    BY <1>4 DEF DogsOn
  <2>2. Cardinality(DogsOn(i)') = Cardinality(DogsOn(i)) + 1
    BY <1>2, <2>1, FS_AddElement
  <2>3. track'[i] = track[i] + 1
    BY <1>4 DEF TypeOK
  <2> QED
    BY <1>1, <1>2, <2>2, <2>3
<1>5. CASE i = x /\ ~Counted(d, x)'
  <2>1. DogsOn(i)' = DogsOn(i) \ {d} /\ d \in DogsOn(i)
    BY <1>5 DEF DogsOn
  <2>2. Cardinality(DogsOn(i)') = Cardinality(DogsOn(i)) - 1
    BY <1>2, <2>1, FS_RemoveElement
  <2>3. track'[i] = track[i] - 1
    BY <1>5 DEF TypeOK
  <2> QED
    BY <1>1, <1>2, <2>2, <2>3
<1> QED
  BY <1>3, <1>4, <1>5

LEMMA NobodyMoves ==
  ASSUME TrackCounts, track' = track,
         \A e \in Dogs, i \in Fields : Counted(e, i)' <=> Counted(e, i)
  PROVE  TrackCounts'
<1>1. \A i \in Fields : DogsOn(i)' = DogsOn(i)
  BY DEF DogsOn
<1> QED
  BY <1>1, TrackCountsIs

LEMMA DogCountStep ==
  ASSUME RaceInv, CountInv, NEW d \in Dogs, DogNext(d)
  PROVE  TrackCounts'
<1> USE DEF RaceInv, TypeOK, Proceed, fieldVars
<1>0. TypeOK /\ TrackCounts
  BY DEF CountInv
<1>1. CASE EnterField(d)
  <2>1. PICK x \in Fields : x = nextPos[d]
    OBVIOUS
  <2>2. /\ track' = [track EXCEPT ![x] = @ + 1] /\ at[d] = "enter"
        /\ at'[d] \in {"leave_track", "check_quit"} /\ pos'[d] = x
        /\ \A e \in Dogs \ {d} : at'[e] = at[e] /\ pos'[e] = pos[e]
    BY <1>1, <2>1 DEF EnterField
  <2>3. /\ ~Counted(d, x) /\ Counted(d, x)'
        /\ \A e \in Dogs, i \in Fields : (e # d \/ i # x) => (Counted(e, i)' <=> Counted(e, i))
    BY <2>2 DEF Counted
  <2> QED
    BY <1>0, <2>2, <2>3, DogCounted
<1>2. CASE LeaveField(d) \/ LeaveTrack(d)
  <2>1. PICK x \in Fields : x = pos[d]
    OBVIOUS
  <2>2. /\ track' = [track EXCEPT ![x] = @ - 1] /\ at[d] \in {"lock_pos", "leave_track"}
        /\ at'[d] \in {"enter", "look_podium"} /\ pos' = pos
        /\ \A e \in Dogs \ {d} : at'[e] = at[e]
    BY <1>2, <2>1 DEF LeaveField, LeaveTrack
  <2>3. /\ Counted(d, x) /\ ~Counted(d, x)'
        /\ \A e \in Dogs, i \in Fields : (e # d \/ i # x) => (Counted(e, i)' <=> Counted(e, i))
    BY <2>1, <2>2 DEF Counted
  <2> QED
    BY <1>0, <2>2, <2>3, DogCounted
<1>3. CASE StopRunning(d)
  <2>1. at[d] = "check_quit" /\ pos[d] < N - 1 /\ UNCHANGED <<track, pos>>
        /\ at' = [at EXCEPT ![d] = "exited"]
    BY <1>3 DEF StopRunning, JumpsForward
  <2>2. pos[d] # N - 1
    BY <2>1, TrackAssumption DEF Fields
  <2>3. \A e \in Dogs, i \in Fields : Counted(e, i)' <=> Counted(e, i)
    BY <2>1, <2>2 DEF Counted
  <2> QED
    BY <1>0, <2>1, <2>3, NobodyMoves
<1>4. CASE Finish(d)
  <2>1. at[d] = "finish" /\ pos[d] = N - 1 /\ UNCHANGED <<track, pos>>
        /\ at' = [at EXCEPT ![d] = "exited"]
    BY <1>4 DEF Finish, CountInv, EndsLast
  <2>2. \A e \in Dogs, i \in Fields : Counted(e, i)' <=> Counted(e, i)
    BY <2>1 DEF Counted
  <2> QED
    BY <1>0, <2>1, <2>2, NobodyMoves
<1>5. CASE \/ ChooseField(d) \/ Bark(d) \/ LockNext(d) \/ PlaceFree(d) \/ PlaceTaken(d)
           \/ PodiumFull(d) \/ TakePlace(d)
  <2>1. UNCHANGED <<track, pos>>
    BY <1>5 DEF ChooseField, Bark, LockNext, PlaceFree, PlaceTaken, PodiumFull, TakePlace
  <2>2. \A e \in Dogs, i \in Fields : Counted(e, i)' <=> Counted(e, i)
    BY <1>5, <2>1 DEF ChooseField, Bark, LockNext, PlaceFree, PlaceTaken, PodiumFull, TakePlace,
       Counted
  <2> QED
    BY <1>0, <2>1, <2>2, NobodyMoves
<1> QED
  BY <1>1, <1>2, <1>3, <1>4, <1>5 DEF DogNext

LEMMA CountStep == RaceInv /\ CountInv /\ [Next]_vars => CountInv'
<1> SUFFICES ASSUME RaceInv, CountInv, [Next]_vars PROVE CountInv'
  OBVIOUS
<1>1. CASE MainNext \/ UserInterrupts \/ UNCHANGED vars
  <2>1. UNCHANGED <<track, pos, at>>
    BY <1>1 DEF MainNext, StillRunning, RaceOver, PollNothing, PollSigint, ShowPodium, JoinDogs,
       FreeTrack, Return, UserInterrupts, vars, fieldVars
  <2> QED
    BY <2>1, NobodyMoves DEF CountInv, EndsLast, Counted
<1> QED
  BY <1>1, DogCountStep, EndsLastStep DEF Next, CountInv

(* The counters that main prints are the numbers of dogs on the fields.    *)
THEOREM RaceTrackCounts == Spec => []TrackCounts
<1>1. Init => RaceInv /\ CountInv
  BY RaceInit, CountInit
<1>2. RaceInv /\ CountInv /\ [Next]_vars => (RaceInv /\ CountInv)'
  BY RaceStep, CountStep
<1>3. CountInv => TrackCounts
  BY DEF CountInv
<1> QED
  BY <1>1, <1>2, <1>3, PTL DEF Spec
=============================================================================
