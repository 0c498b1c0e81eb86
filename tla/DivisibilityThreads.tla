------------------------ MODULE DivisibilityThreads ------------------------
(***************************************************************************)
(* The divisibility threads of SOP1/Lab3_tutorial/Zad1/etap5.c: main       *)
(* counts L up, every thread tests whether L is divisible by its own M and *)
(* counts itself in checkedThreads; a signal thread stops all on SIGINT.   *)
(*                                                                         *)
(* L is read without a mutex, once for the test and once for the printed   *)
(* line.  Every critical section is one step; the sleeps are left out.     *)
(***************************************************************************)
EXTENDS Naturals, FiniteSets

CONSTANTS Testers,
          M,              \* M[t]: the divisor of thread t
          MaxL            \* bound of the model: main stops counting there

ASSUME TestersAssumption == /\ IsFiniteSet(Testers)
                            /\ M \in [Testers -> Nat \ {0}]
                            /\ MaxL \in Nat \ {0}

VARIABLES L,
          checkedThreads, \* values above the number of threads are alike
          divQuit,        \* quitFlag
          divSigint,      \* SIGINT is pending
          watcherAt,      \* next step of the signal thread
          testerAt,       \* testerAt[t]: next step of thread t
          counterAt,      \* next step of main
          tested          \* history: the threads that have tested the present L

stopVars == <<divQuit, divSigint, watcherAt>>
testersVars == <<L, checkedThreads, tested, stopVars, testerAt, counterAt>>

ThreadCount == Cardinality(Testers)

TestersTypeOK == /\ L \in 1 .. MaxL + 1
                 /\ checkedThreads \in 0 .. ThreadCount + 1
                 /\ divQuit \in BOOLEAN
                 /\ divSigint \in BOOLEAN
                 /\ watcherAt \in {"sigwait", "quit", "ended"}
                 /\ testerAt \in [Testers -> {"check", "test", "report", "count", "ended"}]
                 /\ counterAt \in {"check", "count", "join", "exited"}
                 /\ tested \subseteq Testers

TestersInit == /\ L = 1
               /\ checkedThreads = 0
               /\ divQuit = FALSE
               /\ divSigint = FALSE
               /\ watcherAt = "sigwait"
               /\ testerAt = [t \in Testers |-> "check"]
               /\ counterAt = "check"
               /\ tested = {}
-----------------------------------------------------------------------------
(* thread_counter *)

TesterStep(t, from, to) == /\ testerAt[t] = from
                           /\ testerAt' = [testerAt EXCEPT ![t] = to]
                           /\ UNCHANGED <<L, stopVars, counterAt>>

TesterQuits(t) == /\ TesterStep(t, "check", "ended")
                  /\ divQuit
                  /\ UNCHANGED <<checkedThreads, tested>>

TesterGoesOn(t) == /\ TesterStep(t, "check", "test")
                   /\ ~divQuit
                   /\ UNCHANGED <<checkedThreads, tested>>

Divisible(t) == /\ TesterStep(t, "test", "report")
                /\ L % M[t] = 0
                /\ tested' = tested \cup {t}
                /\ UNCHANGED checkedThreads

NotDivisible(t) == /\ TesterStep(t, "test", "count")
                   /\ L % M[t] # 0
                   /\ tested' = tested \cup {t}
                   /\ UNCHANGED checkedThreads

(* printf reads L again. *)
Report(t) == /\ TesterStep(t, "report", "count")
             /\ UNCHANGED <<checkedThreads, tested>>

CountTester(t) == /\ TesterStep(t, "count", "check")
                  /\ checkedThreads' = IF checkedThreads > ThreadCount
                                         THEN checkedThreads ELSE checkedThreads + 1
                  /\ UNCHANGED tested
-----------------------------------------------------------------------------
(* main *)

CounterStep(from, to) == /\ counterAt = from
                         /\ counterAt' = to
                         /\ UNCHANGED <<stopVars, testerAt>>

(* The bound MaxL is here: the code counts on. *)
CounterGoesOn == /\ CounterStep("check", "count")
                 /\ ~divQuit
                 /\ L < MaxL
                 /\ UNCHANGED <<L, checkedThreads, tested>>

(* Once for the threads that are all counted, and once more in any case. *)
CountOn == /\ CounterStep("count", "check")
           /\ L' = L + (IF checkedThreads = ThreadCount THEN 2 ELSE 1)
           /\ checkedThreads' = 0
           /\ tested' = {}

CounterStops == /\ CounterStep("check", "join")
                /\ divQuit
                /\ UNCHANGED <<L, checkedThreads, tested>>

CounterExits == /\ CounterStep("join", "exited")
                /\ \A t \in Testers : testerAt[t] = "ended"
                /\ UNCHANGED <<L, checkedThreads, tested>>
-----------------------------------------------------------------------------
(* signal_handling; SIGINT is blocked in all threads and taken by sigwait. *)

PressDivSigint == /\ counterAt # "exited"
                  /\ divSigint' = TRUE
                  /\ UNCHANGED <<L, checkedThreads, tested, divQuit, watcherAt, testerAt, counterAt>>

WatcherStep(from, to) == /\ watcherAt = from
                         /\ watcherAt' = to
                         /\ UNCHANGED <<L, checkedThreads, tested, testerAt, counterAt>>

WatcherTakesSigint == /\ WatcherStep("sigwait", "quit")
                      /\ divSigint
                      /\ divSigint' = FALSE
                      /\ UNCHANGED divQuit

(* Mutant: the thread ends without the flag. *)
WatcherForgets == /\ WatcherStep("quit", "ended")
                  /\ UNCHANGED <<divQuit, divSigint>>

WatcherQuits == /\ WatcherStep("quit", "ended")
                /\ divQuit' = TRUE
                /\ UNCHANGED divSigint

Test(t) == \/ TesterQuits(t) \/ TesterGoesOn(t) \/ Divisible(t) \/ NotDivisible(t)
           \/ Report(t) \/ CountTester(t)
Counter == CounterGoesOn \/ CountOn \/ CounterStops \/ CounterExits
Watcher == WatcherTakesSigint \/ WatcherQuits

TestersNext == Counter \/ Watcher \/ PressDivSigint \/ \E t \in Testers : Test(t)

TestersSpec == TestersInit /\ [][TestersNext]_testersVars
-----------------------------------------------------------------------------
(* SIGINT ends the program: every thread sees the flag, wherever it is,    *)
(* and main joins them all (etap5.c:90-127).                               *)
SigintEndsCounting == divSigint ~> counterAt = "exited"

(* SOP1/KODY-LAB3.txt:11: "wszystkie wątki muszą zdążyć sprawdzić          *)
(* podzielność", every thread gets to test each L.  Line 107 of the code   *)
(* counts on without waiting for the threads.                              *)
EveryThreadTests == [][L' # L => tested = Testers]_testersVars
=============================================================================
