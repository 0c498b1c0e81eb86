------------------------------ MODULE HelpFirm ------------------------------
(***************************************************************************)
(* The letter firm as SOP1/Lab3_workshop/help.c writes it: deque does not  *)
(* wait, so a worker that finds the ring empty looks whether the scan is   *)
(* over; main waits for an empty ring and wakes the signal thread to end.  *)
(*                                                                         *)
(* The ring is touched under pmxBuf only: an operation is one step and the *)
(* ring is the sequence of the files in it.  All files hold one and the    *)
(* same letter, whose counter each worker increments under its mutex.      *)
(* What the signal thread prints is left out, and so are failing calls.    *)
(***************************************************************************)
EXTENDS Integers, Sequences, FiniteSets, Functions

CONSTANTS HelpWorkers,    \* the k threads of thread_work
          HelpFiles,      \* the regular files under ./data1
          HelpSize,       \* BUF_SIZE
          LowerIn         \* LowerIn[f]: the lower-case letters in file f

ASSUME HelpAssumption == /\ HelpSize \in Nat \ {0}
                         /\ IsFiniteSet(HelpFiles) /\ IsFiniteSet(HelpWorkers)
                         /\ LowerIn \in [HelpFiles -> Nat]

VARIABLES helpUnscanned,  \* files scan_dir has not found yet
          helpRing,       \* the files in the ring, oldest first
          finishedScanning,
          helpQuit,       \* quitFlag
          helpCounter,    \* the letter's counter
          lettersLeft,    \* lettersLeft[w]: letters of w's file still to be read
          helpMainAt, helpWorkerAt, helpSignalAt,   \* next steps of the threads
          helpPending,    \* signals pending for the process
          helpPressed     \* Ctrl+C has been pressed, once at most

ringVars == <<helpUnscanned, helpRing, finishedScanning>>
countVars == <<helpCounter, lettersLeft>>
userVars == <<helpPending, helpPressed>>
helpVars == <<ringVars, countVars, userVars, helpQuit, helpMainAt, helpWorkerAt, helpSignalAt>>

HelpTypeOK ==
  /\ helpUnscanned \subseteq HelpFiles
  /\ helpRing \in Seq(HelpFiles) /\ Len(helpRing) <= HelpSize
  /\ finishedScanning \in BOOLEAN
  /\ helpQuit \in BOOLEAN
  /\ helpCounter \in Nat
  /\ lettersLeft \in [HelpWorkers -> Nat]
  /\ helpMainAt \in {"scan", "wait", "join", "results", "kill", "join_signals", "deinit", "exited"}
  /\ helpWorkerAt \in [HelpWorkers -> {"test_quit", "deque", "test_finished", "read", "gone"}]
  /\ helpSignalAt \in {"test_flag", "sigwait", "gone"}
  /\ helpPending \subseteq {"SIGUSR1", "SIGINT"}
  /\ helpPressed \in BOOLEAN

HelpInit == /\ helpUnscanned = HelpFiles
            /\ helpRing = <<>>
            /\ finishedScanning = FALSE
            /\ helpQuit = FALSE
            /\ helpCounter = 0
            /\ lettersLeft = [w \in HelpWorkers |-> 0]
            /\ helpMainAt = "scan"
            /\ helpWorkerAt = [w \in HelpWorkers |-> "test_quit"]
            /\ helpSignalAt = "test_flag"
            /\ helpPending = {}
            /\ helpPressed = FALSE
-----------------------------------------------------------------------------
(* main and scan_dir *)

HelpMainStep(from, to) == /\ helpMainAt = from
                          /\ helpMainAt' = to
                          /\ UNCHANGED <<countVars, helpWorkerAt, helpSignalAt, helpPressed>>

(* enque waits for room, which it tests under the mutex. *)
Enque == /\ HelpMainStep("scan", "scan")
         /\ Len(helpRing) < HelpSize
         /\ \E f \in helpUnscanned : /\ helpUnscanned' = helpUnscanned \ {f}
                                     /\ helpRing' = Append(helpRing, f)
         /\ UNCHANGED <<finishedScanning, helpQuit, helpPending>>

HelpScanned == /\ HelpMainStep("scan", "wait")
               /\ helpUnscanned = {}
               /\ finishedScanning' = TRUE
               /\ UNCHANGED <<helpUnscanned, helpRing, helpQuit, helpPending>>

(* count is read under a mutex that guards nothing. *)
HelpTick == /\ HelpMainStep("wait", "wait")
            /\ ~helpQuit /\ helpRing # <<>>
            /\ helpPending' = helpPending \cup {"SIGUSR1"}
            /\ UNCHANGED <<ringVars, helpQuit>>

HelpWaitEnds == /\ HelpMainStep("wait", "join")
                /\ helpQuit \/ helpRing = <<>>
                /\ UNCHANGED <<ringVars, helpQuit, helpPending>>

HelpJoins == /\ HelpMainStep("join", "results")
             /\ \A w \in HelpWorkers : helpWorkerAt[w] = "gone"
             /\ UNCHANGED <<ringVars, helpQuit, helpPending>>

HelpRaisesQuit == /\ HelpMainStep("results", "kill")
                  /\ helpQuit' = TRUE
                  /\ UNCHANGED <<ringVars, helpPending>>

(* Mutant: nobody wakes the signal thread, as in etap4.c. *)
HelpForgetsKill == /\ HelpMainStep("kill", "join_signals")
                   /\ UNCHANGED <<ringVars, helpQuit, helpPending>>

HelpKills == /\ HelpMainStep("kill", "join_signals")
             /\ helpPending' = helpPending \cup {"SIGUSR1"}
             /\ UNCHANGED <<ringVars, helpQuit>>

HelpJoinsSignals == /\ HelpMainStep("join_signals", "deinit")
                    /\ helpSignalAt = "gone"
                    /\ UNCHANGED <<ringVars, helpQuit, helpPending>>

(* deinit takes out and frees what is left. *)
HelpDeinit == /\ HelpMainStep("deinit", "exited")
              /\ helpRing' = <<>>
              /\ UNCHANGED <<helpUnscanned, finishedScanning, helpQuit, helpPending>>
-----------------------------------------------------------------------------
(* thread_work *)

HelpWorkerStep(w, from, to) ==
  /\ helpWorkerAt[w] = from
  /\ helpWorkerAt' = [helpWorkerAt EXCEPT ![w] = to]
  /\ UNCHANGED <<helpUnscanned, finishedScanning, helpQuit, helpMainAt, helpSignalAt, userVars>>

HelpTestQuit(w) == /\ HelpWorkerStep(w, "test_quit", IF helpQuit THEN "gone" ELSE "deque")
                   /\ UNCHANGED <<helpRing, countVars>>

Deque(w) == /\ HelpWorkerStep(w, "deque", "read")
            /\ helpRing # <<>>
            /\ helpRing' = Tail(helpRing)
            /\ lettersLeft' = [lettersLeft EXCEPT ![w] = LowerIn[Head(helpRing)]]
            /\ UNCHANGED helpCounter

DequeNull(w) == /\ HelpWorkerStep(w, "deque", "test_finished")
                /\ helpRing = <<>>
                /\ UNCHANGED <<helpRing, countVars>>

(* The ring was empty a moment ago: it may have been filled since. *)
HelpTestFinished(w) ==
  /\ HelpWorkerStep(w, "test_finished", IF finishedScanning THEN "gone" ELSE "test_quit")
  /\ UNCHANGED <<helpRing, countVars>>

CountOne(w) == /\ HelpWorkerStep(w, "read", "read")
               /\ lettersLeft[w] > 0
               /\ helpCounter' = helpCounter + 1
               /\ lettersLeft' = [lettersLeft EXCEPT ![w] = @ - 1]
               /\ UNCHANGED helpRing

HelpFileRead(w) == /\ HelpWorkerStep(w, "read", "test_quit")
                   /\ lettersLeft[w] = 0
                   /\ UNCHANGED <<helpRing, countVars>>
-----------------------------------------------------------------------------
(* signal_handler_thread; it tests quitFlag without its mutex *)

HelpSignalStep(from, to) ==
  /\ helpSignalAt = from
  /\ helpSignalAt' = to
  /\ UNCHANGED <<ringVars, countVars, helpMainAt, helpWorkerAt, helpPressed>>

HelpTestFlag == /\ HelpSignalStep("test_flag", IF helpQuit THEN "gone" ELSE "sigwait")
                /\ UNCHANGED <<helpQuit, helpPending>>

HelpTakesUsr1 == /\ HelpSignalStep("sigwait", "test_flag")
                 /\ "SIGUSR1" \in helpPending
                 /\ helpPending' = helpPending \ {"SIGUSR1"}
                 /\ UNCHANGED helpQuit

HelpTakesInt == /\ HelpSignalStep("sigwait", "gone")
                /\ "SIGINT" \in helpPending
                /\ helpPending' = helpPending \ {"SIGINT"}
                /\ helpQuit' = TRUE

HelpCtrlC == /\ ~helpPressed
             /\ helpMainAt # "exited"
             /\ helpPressed' = TRUE
             /\ helpPending' = helpPending \cup {"SIGINT"}
             /\ UNCHANGED <<ringVars, countVars, helpQuit, helpMainAt, helpWorkerAt, helpSignalAt>>

HelpMain == \/ Enque \/ HelpScanned \/ HelpTick \/ HelpWaitEnds \/ HelpJoins
            \/ HelpRaisesQuit \/ HelpKills \/ HelpJoinsSignals \/ HelpDeinit
HelpWorker(w) == \/ HelpTestQuit(w) \/ Deque(w) \/ DequeNull(w) \/ HelpTestFinished(w)
                 \/ CountOne(w) \/ HelpFileRead(w)
HelpSignals == HelpTestFlag \/ HelpTakesUsr1 \/ HelpTakesInt

HelpNext == HelpMain \/ HelpSignals \/ HelpCtrlC \/ \E w \in HelpWorkers : HelpWorker(w)

HelpFairness == /\ WF_helpVars(HelpMain)
                /\ WF_helpVars(HelpSignals)
                /\ \A w \in HelpWorkers : WF_helpVars(HelpWorker(w))

HelpSpec == HelpInit /\ [][HelpNext]_helpVars /\ HelpFairness
-----------------------------------------------------------------------------
AllCounted == helpCounter = SumFunction(LowerIn)

(* When the workers have been joined (help.c:310-313) every letter of every *)
(* file has been counted, unless Ctrl+C was pressed: no file is left in the *)
(* ring, and none is in the hands of a worker that has gone.                *)
HelpComplete == helpMainAt \in {"results", "kill", "join_signals", "deinit", "exited"}
                   => helpPressed \/ AllCounted

(* After the scan the program ends, the signal thread included, and unless *)
(* Ctrl+C was pressed every letter of every file has been counted then.    *)
(* There is one exception: all workers found the ring empty before the     *)
(* last files came and read finished_scanning after it (help.c:159-163);   *)
(* then main waits for a ring that nobody empties (help.c:297-308).        *)
(* Nothing is said of the time of the scan: Ctrl+C then may leave main in  *)
(* a full ring.                                                            *)
HelpOutcome == helpMainAt = "wait" ~> \/ helpMainAt = "exited" /\ (helpPressed \/ AllCounted)
                                      \/ /\ helpRing # <<>> /\ ~helpQuit
                                         /\ \A w \in HelpWorkers : helpWorkerAt[w] = "gone"
=============================================================================
