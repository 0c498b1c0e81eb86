------------------------------ MODULE DogRace ------------------------------
(***************************************************************************)
(* The dog race of SOP1/Lab3_tutorial/Zad3/etap4.c: every dog is a thread  *)
(* that jumps along a track with one mutex per field, main watches the     *)
(* race and stops it on SIGINT.                                            *)
(*                                                                         *)
(* A dog holds the mutex of the field it jumps to from the test that the   *)
(* field is free until it stands there; every other critical section has   *)
(* one access to shared state and is one step.  The podium and             *)
(* dogsFinished are also read without their mutexes, in steps of their     *)
(* own.  Main's periodic print of the track, which changes nothing, and    *)
(* failing system calls, which end the process, are left out.              *)
(***************************************************************************)
EXTENDS Integers, FiniteSets

CONSTANTS Dogs,
          N,              \* fields of the track, 0 .. N-1
          MaxDistance,    \* a jump is 1 .. MaxDistance fields long
          Nobody,         \* a free mutex, a free place on the podium (-1)
          MayInterrupt    \* whether the user may press Ctrl+C

ASSUME TrackAssumption == N \in Nat /\ N >= 2 /\ MaxDistance \in Nat \ {0}
ASSUME DogsAssumption == Nobody \notin Dogs /\ IsFiniteSet(Dogs) /\ MayInterrupt \in BOOLEAN

VARIABLES track,          \* track[i]: the counter of field i
          mxTrack,        \* owner of field i's mutex
          podium,         \* firstPlace, secondPlace, thirdPlace
          dogsFinished,
          quitFlag,
          sigint,         \* SIGINT is pending (it is blocked in every thread)
          at,             \* at[d]: next step of dog d
          pos,            \* pos[d]
          nextPos,        \* nextPos[d]
          place,          \* place[d]: the place d looks at, or goes for
          mainAt          \* next step of main

fieldVars == <<track, mxTrack, pos, nextPos>>
resultVars == <<podium, place, dogsFinished>>
mainVars == <<quitFlag, sigint, mainAt>>
vars == <<fieldVars, resultVars, mainVars, at>>

Fields == 0 .. N - 1
Places == 1 .. 3

DogSteps == {"check_quit", "lock_next", "lock_pos", "enter", "leave_track",
             "look_podium", "take_place", "finish", "exited"}
MainSteps == {"watch", "poll", "show_podium", "join", "free", "freed", "returned"}

TypeOK == /\ track \in [Fields -> Int]
          /\ \A i \in Fields : track[i] <= 1
          /\ mxTrack \in [Fields -> Dogs \cup {Nobody}]
          /\ podium \in [Places -> Dogs \cup {Nobody}]
          /\ dogsFinished \in Nat
          /\ quitFlag \in BOOLEAN
          /\ sigint \in BOOLEAN
          /\ at \in [Dogs -> DogSteps]
          /\ pos \in [Dogs -> Fields]
          /\ nextPos \in [Dogs -> Fields]
          /\ place \in [Dogs -> 1 .. 4]
          /\ mainAt \in MainSteps

(* The dogs start on field 0, whose counter does not count them. *)
Init == /\ track = [i \in Fields |-> 0]
        /\ mxTrack = [i \in Fields |-> Nobody]
        /\ podium = [p \in Places |-> Nobody]
        /\ dogsFinished = 0
        /\ quitFlag = FALSE
        /\ sigint = FALSE
        /\ at = [d \in Dogs |-> "check_quit"]
        /\ pos = [d \in Dogs |-> 0]
        /\ nextPos = [d \in Dogs |-> 0]
        /\ place = [d \in Dogs |-> 1]
        /\ mainAt = "watch"

(* The process exists, and with it the track: what a dog does to a track   *)
(* that main has freed is undefined and not modelled.                      *)
Running == mainAt # "returned"
TrackExists == mainAt \notin {"freed", "returned"}

Proceed(d, from, to) == /\ Running
                        /\ at[d] = from
                        /\ at' = [at EXCEPT ![d] = to]
-----------------------------------------------------------------------------
(* DogRun *)

StopRunning(d) == /\ Proceed(d, "check_quit", "exited")
                  /\ quitFlag
                  /\ UNCHANGED <<fieldVars, resultVars, mainVars>>

(* MIN(pos + distance, n - 1) *)
Target(i, distance) == IF i + distance < N - 1 THEN i + distance ELSE N - 1

(* The flag is not set: sleep, and draw the length of the jump. *)
ChooseField(d) == /\ Proceed(d, "check_quit", "lock_next")
                  /\ ~quitFlag
                  /\ \E distance \in 1 .. MaxDistance :
                        nextPos' = [nextPos EXCEPT ![d] = Target(pos[d], distance)]
                  /\ UNCHANGED <<track, mxTrack, pos, resultVars, mainVars>>

Bark(d) == /\ Proceed(d, "lock_next", "check_quit")
           /\ TrackExists
           /\ mxTrack[nextPos[d]] = Nobody
           /\ track[nextPos[d]] # 0
           /\ UNCHANGED <<fieldVars, resultVars, mainVars>>

(* Mutant: the mutex is released after the test, before the jump. *)
TestNext(d) == /\ Proceed(d, "lock_next", "lock_pos")
               /\ TrackExists
               /\ mxTrack[nextPos[d]] = Nobody
               /\ track[nextPos[d]] = 0
               /\ UNCHANGED <<fieldVars, resultVars, mainVars>>

LockNext(d) == /\ Proceed(d, "lock_next", "lock_pos")
               /\ TrackExists
               /\ mxTrack[nextPos[d]] = Nobody
               /\ track[nextPos[d]] = 0
               /\ mxTrack' = [mxTrack EXCEPT ![nextPos[d]] = d]
               /\ UNCHANGED <<track, pos, nextPos, resultVars, mainVars>>

(* Mutant: the dog stays counted on the field that it leaves. *)
LeaveFieldCounted(d) == /\ Proceed(d, "lock_pos", "enter")
                        /\ TrackExists
                        /\ mxTrack[pos[d]] = Nobody
                        /\ UNCHANGED <<fieldVars, resultVars, mainVars>>

LeaveField(d) == /\ Proceed(d, "lock_pos", "enter")
                 /\ TrackExists
                 /\ mxTrack[pos[d]] = Nobody
                 /\ track' = [track EXCEPT ![pos[d]] = @ - 1]
                 /\ UNCHANGED <<mxTrack, pos, nextPos, resultVars, mainVars>>

(* Mutant: the mutex of the new field is not released. *)
EnterFieldKeepsLock(d) == /\ Proceed(d, "enter", IF nextPos[d] >= N - 1 THEN "leave_track"
                                                 ELSE "check_quit")
                          /\ TrackExists
                          /\ track' = [track EXCEPT ![nextPos[d]] = @ + 1]
                          /\ pos' = [pos EXCEPT ![d] = nextPos[d]]
                          /\ UNCHANGED <<mxTrack, nextPos, resultVars, mainVars>>

EnterField(d) == /\ Proceed(d, "enter", IF nextPos[d] >= N - 1 THEN "leave_track"
                                        ELSE "check_quit")
                 /\ TrackExists
                 /\ track' = [track EXCEPT ![nextPos[d]] = @ + 1]
                 /\ mxTrack' = [mxTrack EXCEPT ![nextPos[d]] = Nobody]
                 /\ pos' = [pos EXCEPT ![d] = nextPos[d]]
                 /\ UNCHANGED <<nextPos, resultVars, mainVars>>

LeaveTrack(d) == /\ Proceed(d, "leave_track", "look_podium")
                 /\ TrackExists
                 /\ mxTrack[pos[d]] = Nobody
                 /\ track' = [track EXCEPT ![pos[d]] = @ - 1]
                 /\ UNCHANGED <<mxTrack, pos, nextPos, resultVars, mainVars>>

(* Reads the places one after another without mxPodium ... *)
PlaceFree(d) == /\ Proceed(d, "look_podium", "take_place")
                /\ place[d] \in Places
                /\ podium[place[d]] = Nobody
                /\ UNCHANGED <<fieldVars, resultVars, mainVars>>

PlaceTaken(d) == /\ Running
                 /\ at[d] = "look_podium"
                 /\ place[d] \in Places
                 /\ podium[place[d]] # Nobody
                 /\ place' = [place EXCEPT ![d] = @ + 1]
                 /\ UNCHANGED <<at, fieldVars, podium, dogsFinished, mainVars>>

PodiumFull(d) == /\ Proceed(d, "look_podium", "finish")
                 /\ place[d] \notin Places
                 /\ UNCHANGED <<fieldVars, resultVars, mainVars>>

(* ... and writes the one that it saw free. *)
TakePlace(d) == /\ Proceed(d, "take_place", "finish")
                /\ podium' = [podium EXCEPT ![place[d]] = d]
                /\ UNCHANGED <<fieldVars, place, dogsFinished, mainVars>>

Finish(d) == /\ Proceed(d, "finish", "exited")
             /\ dogsFinished' = dogsFinished + 1
             /\ UNCHANGED <<fieldVars, podium, place, mainVars>>
-----------------------------------------------------------------------------
(* main *)

MainProceeds(from, to) == /\ mainAt = from
                          /\ mainAt' = to

(* while (dogsFinished < m), read without mxFinished *)
StillRunning == /\ dogsFinished < Cardinality(Dogs)
                /\ MainProceeds("watch", "poll")
                /\ UNCHANGED <<fieldVars, resultVars, at, quitFlag, sigint>>

(* Mutant: main does not wait for the last dog. *)
RaceOverEarly == /\ dogsFinished >= Cardinality(Dogs) - 1
                 /\ MainProceeds("watch", "show_podium")
                 /\ UNCHANGED <<fieldVars, resultVars, at, quitFlag, sigint>>

RaceOver == /\ dogsFinished >= Cardinality(Dogs)
            /\ MainProceeds("watch", "show_podium")
            /\ UNCHANGED <<fieldVars, resultVars, at, quitFlag, sigint>>

(* sigpending sees no SIGINT: sleep, print the track, look again. *)
PollNothing == /\ ~sigint
               /\ MainProceeds("poll", "watch")
               /\ UNCHANGED <<fieldVars, resultVars, at, quitFlag, sigint>>

(* sigpending sees SIGINT: the dogs are told to stop and not joined. *)
PollSigint == /\ sigint
              /\ MainProceeds("poll", "free")
              /\ quitFlag' = TRUE
              /\ UNCHANGED <<fieldVars, resultVars, at, sigint>>

ShowPodium == /\ MainProceeds("show_podium", "join")
              /\ UNCHANGED <<fieldVars, resultVars, at, quitFlag, sigint>>

JoinDogs == /\ \A d \in Dogs : at[d] = "exited"
            /\ MainProceeds("join", "free")
            /\ UNCHANGED <<fieldVars, resultVars, at, quitFlag, sigint>>

(* Destroys the mutexes and frees track, mxTrack and dogs. *)
FreeTrack == /\ MainProceeds("free", "freed")
             /\ UNCHANGED <<fieldVars, resultVars, at, quitFlag, sigint>>

(* Returning from main ends the process and whatever threads it has. *)
Return == /\ MainProceeds("freed", "returned")
          /\ UNCHANGED <<fieldVars, resultVars, at, quitFlag, sigint>>

UserInterrupts == /\ MayInterrupt
                  /\ Running
                  /\ ~sigint
                  /\ sigint' = TRUE
                  /\ UNCHANGED <<fieldVars, resultVars, at, quitFlag, mainAt>>

DogNext(d) == \/ StopRunning(d) \/ ChooseField(d) \/ Bark(d) \/ LockNext(d) \/ LeaveField(d)
              \/ EnterField(d) \/ LeaveTrack(d) \/ PlaceFree(d) \/ PlaceTaken(d)
              \/ PodiumFull(d) \/ TakePlace(d) \/ Finish(d)

MainNext == \/ StillRunning \/ RaceOver \/ PollNothing \/ PollSigint \/ ShowPodium
            \/ JoinDogs \/ FreeTrack \/ Return

Next == MainNext \/ UserInterrupts \/ \E d \in Dogs : DogNext(d)

(* Every thread that can run does.  A dog that waits for a mutex waits for *)
(* one of the finitely many jumps of the others.                           *)
Fairness == WF_vars(MainNext) /\ \A d \in Dogs : WF_vars(DogNext(d))

Spec == Init /\ [][Next]_vars
FairSpec == Spec /\ Fairness
-----------------------------------------------------------------------------
(* The dog stands on field i: it has entered it and not left it. *)
StandsOn(d, i) == pos[d] = i /\ at[d] \in {"check_quit", "lock_next", "lock_pos",
                                           "leave_track"}

(* "Waf waf": no dog ever jumps onto an occupied field.  Only the start,   *)
(* field 0, may hold several dogs.                                         *)
OneDogPerField == \A d, e \in Dogs : \A i \in Fields \ {0} :
                     StandsOn(d, i) /\ StandsOn(e, i) => d = e

(* The counters that main prints agree with where the dogs are, except     *)
(* that field 0 counts from minus the number of dogs.  A dog that stops on *)
(* the quit flag stays counted.                                            *)
TrackCounts == \A i \in Fields :
  LET here == {d \in Dogs : pos[d] = i /\ at[d] \notin {"enter", "look_podium", "take_place",
                                                       "finish"}
                            /\ ~(at[d] = "exited" /\ i = N - 1)}
  IN track[i] = Cardinality(here) - (IF i = 0 THEN Cardinality(Dogs) ELSE 0)

(* The podium that main shows is final: no dog writes a place afterwards.  *)
PodiumFinal == [][(mainAt \in {"show_podium", "join"}) => UNCHANGED podium]_vars

(* The race, interrupted or not, ends: no dog waits for ever for a field   *)
(* whose mutex is never released.                                          *)
RaceEnds == <>(mainAt = "returned")

(* KODY-LAB3.txt, stage 4: on SIGINT main ends all the threads.  So none   *)
(* is left when main destroys the mutexes and frees what they use.         *)
ThreadsEndedAtFree == mainAt = "freed" => \A d \in Dogs : at[d] = "exited"

(* "Final podium": three different dogs when three or more have finished.  *)
PodiumHasThree == mainAt = "show_podium" =>
                     \A p, q \in Places : /\ podium[p] # Nobody
                                          /\ podium[p] = podium[q] => p = q
=============================================================================
