---------------------------- MODULE BallThrowers ----------------------------
(***************************************************************************)
(* The Galton board of SOP1/Lab3_tutorial/prog18.c: detached threads drop  *)
(* balls into bins, main polls the number of thrown balls and then sums    *)
(* the bins without their mutexes.                                         *)
(*                                                                         *)
(* Every critical section has one access to shared state and is one step;  *)
(* each bin that main reads is a step of its own.  The mean value and the  *)
(* printing are left out.                                                  *)
(***************************************************************************)
EXTENDS Naturals, FiniteSets

CONSTANTS Throwers,
          BallsCount,     \* argv[1]
          BinCount        \* BIN_COUNT

ASSUME BallsAssumption == /\ BallsCount \in Nat \ {0} /\ BinCount \in Nat \ {0}
                          /\ IsFiniteSet(Throwers)

VARIABLES ballsWaiting, ballsThrown,
          bins,
          throwerAt,      \* throwerAt[t]: next step of thread t
          throwersMainAt, \* next step of main
          nextBin,        \* main's i: the bin it reads next
          realBallsCount

throwersMainVars == <<throwersMainAt, nextBin, realBallsCount>>
throwersVars == <<ballsWaiting, ballsThrown, bins, throwerAt, throwersMainVars>>

Bins == 0 .. BinCount - 1

ThrowersTypeOK == /\ ballsWaiting \in 0 .. BallsCount
                  /\ ballsThrown \in 0 .. BallsCount
                  /\ bins \in [Bins -> 0 .. BallsCount]
                  /\ throwerAt \in [Throwers -> {"take", "drop", "count", "ended"}]
                  /\ throwersMainAt \in {"poll", "sum", "exited"}
                  /\ nextBin \in 0 .. BinCount
                  /\ realBallsCount \in Nat

ThrowersInit == /\ ballsWaiting = BallsCount
                /\ ballsThrown = 0
                /\ bins = [b \in Bins |-> 0]
                /\ throwerAt = [t \in Throwers |-> "take"]
                /\ throwersMainAt = "poll"
                /\ nextBin = 0
                /\ realBallsCount = 0

(* main's exit ends the detached threads. *)
ThrowerStep(t, from, to) == /\ throwersMainAt # "exited"
                            /\ throwerAt[t] = from
                            /\ throwerAt' = [throwerAt EXCEPT ![t] = to]
                            /\ UNCHANGED throwersMainVars
-----------------------------------------------------------------------------
(* throwing_func *)

TakeBall(t) == /\ ThrowerStep(t, "take", "drop")
               /\ ballsWaiting > 0
               /\ ballsWaiting' = ballsWaiting - 1
               /\ UNCHANGED <<ballsThrown, bins>>

NoBallLeft(t) == /\ ThrowerStep(t, "take", "ended")
                 /\ ballsWaiting = 0
                 /\ UNCHANGED <<ballsWaiting, ballsThrown, bins>>

(* throwBall may return any bin. *)
DropBall(t) == /\ ThrowerStep(t, "drop", "count")
               /\ \E b \in Bins : bins' = [bins EXCEPT ![b] = @ + 1]
               /\ UNCHANGED <<ballsWaiting, ballsThrown>>

CountBall(t) == /\ ThrowerStep(t, "count", "take")
                /\ ballsThrown' = ballsThrown + 1
                /\ UNCHANGED <<ballsWaiting, bins>>
-----------------------------------------------------------------------------
(* main *)

(* Mutant: main waits until every ball is taken instead of thrown. *)
AllBallsTaken == /\ throwersMainAt = "poll"
                 /\ ballsWaiting = 0
                 /\ throwersMainAt' = "sum"
                 /\ UNCHANGED <<ballsWaiting, ballsThrown, bins, throwerAt, nextBin,
                                realBallsCount>>

(* bt has reached ballsCount; a look that finds less changes nothing. *)
AllBallsThrown == /\ throwersMainAt = "poll"
                  /\ ballsThrown >= BallsCount
                  /\ throwersMainAt' = "sum"
                  /\ UNCHANGED <<ballsWaiting, ballsThrown, bins, throwerAt, nextBin,
                                 realBallsCount>>

SumBin == /\ throwersMainAt = "sum"
          /\ nextBin < BinCount
          /\ realBallsCount' = realBallsCount + bins[nextBin]
          /\ nextBin' = nextBin + 1
          /\ UNCHANGED <<ballsWaiting, ballsThrown, bins, throwerAt, throwersMainAt>>

ThrowersExit == /\ throwersMainAt = "sum"
                /\ nextBin = BinCount
                /\ throwersMainAt' = "exited"
                /\ UNCHANGED <<ballsWaiting, ballsThrown, bins, throwerAt, nextBin,
                               realBallsCount>>

Throw(t) == TakeBall(t) \/ NoBallLeft(t) \/ DropBall(t) \/ CountBall(t)
ThrowersMain == AllBallsThrown \/ SumBin \/ ThrowersExit

ThrowersNext == ThrowersMain \/ \E t \in Throwers : Throw(t)

ThrowersSpec == ThrowersInit /\ [][ThrowersNext]_throwersVars
-----------------------------------------------------------------------------
(* The bins that main reads without a lock hold every ball exactly once:   *)
(* no thread is still between a ball's bin and its counter when main sums  *)
(* (prog18.c:73-94), although the threads are never joined.                *)
EveryBallSummed == throwersMainAt = "exited" => realBallsCount = BallsCount
=============================================================================
