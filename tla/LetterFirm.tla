----------------------------- MODULE LetterFirm -----------------------------
(***************************************************************************)
(* The letter firm of SOP1/Lab3_workshop/etap4.c: the main thread scans    *)
(* the directories and enqueues the .txt files, workers dequeue them and   *)
(* count their letters, a signal thread prints the counters on SIGUSR1 and *)
(* raises the quit flag on SIGINT.                                         *)
(*                                                                         *)
(* The threads share the ring of CircularBuffer, whose steps they run      *)
(* while at[t] says they are inside one of its operations.  A critical     *)
(* section with one access to shared state (mxQuitFlag, mxProcessed) is    *)
(* one step; the letter mutexes, under which a counter is read and then    *)
(* written back, are explicit.  The console (mxPrint) is left out, and so  *)
(* are failing system calls: ERR ends the whole process.                   *)
(***************************************************************************)
EXTENDS CircularBuffer, FiniteSets, Functions

CONSTANTS Main,           \* the main thread, the only producer
          SignalThread,   \* runs signal_handler_thread
          LetterCount,    \* letters 1..LetterCount stand for the 52 counters
          LettersIn,      \* LettersIn[f][l]: how often letter l stands in file f
          MayInterrupt    \* whether the user may press Ctrl+C

Files == Items
Workers == Consumers
Letters == 1 .. LetterCount
FirmThreads == Workers \cup {Main, SignalThread}

ASSUME FirmAssumption == /\ Producers = {Main}
                         /\ SignalThread \notin Threads \cup {NoThread}
                         /\ LetterCount \in Nat \ {0}
                         /\ LettersIn \in [Files -> [Letters -> Nat]]
                         /\ IsFiniteSet(Files) /\ IsFiniteSet(Workers)
                         /\ MayInterrupt \in BOOLEAN

VARIABLES at,              \* at[t]: next step of t in the firm's own code
          unscanned,       \* .txt files readdir has not returned yet
          totalFiles,
          processedFiles,
          alphabetCounter,
          mutexes,         \* owner of each letter's mutex
          quitSeen,        \* quitSeen[w]: the local `quit` of worker_func
          letter,          \* letter[t]: loop index over the letters
          loaded,          \* loaded[w]: alphabetCounter[i] as read by +=
          pending,         \* signals pending for the process
          interrupted      \* the user has pressed Ctrl+C

scanVars   == <<unscanned, totalFiles>>
workVars   == <<processedFiles, quitSeen>>
letterVars == <<alphabetCounter, mutexes, letter, loaded>>
signalVars == <<pending, interrupted>>
firmOnlyVars == <<at, scanVars, workVars, letterVars, signalVars>>
firmVars     == <<bufferVars, firmOnlyVars>>

MainSteps == {"scan", "enqueuing", "count_file", "wait", "tick", "set_quit",
              "join_workers", "join_signal", "free", "exited"}
WorkerSteps == {"check_quit", "test_quit", "dequeuing", "count_letters", "add_letter",
                "file_done", "exited"}
SignalSteps == {"test_flag", "sigwait", "print", "raise_quit", "exited"}

FirmTypeOK ==
  /\ BufferTypeOK
  /\ at \in [FirmThreads -> MainSteps \cup WorkerSteps \cup SignalSteps]
  /\ at[Main] \in MainSteps
  /\ at[SignalThread] \in SignalSteps
  /\ \A w \in Workers : at[w] \in WorkerSteps
  /\ unscanned \subseteq Files
  /\ totalFiles \in Nat
  /\ processedFiles \in Nat
  /\ alphabetCounter \in [Letters -> Nat]
  /\ mutexes \in [Letters -> FirmThreads \cup {NoThread}]
  /\ quitSeen \in [Workers -> BOOLEAN]
  /\ letter \in [Workers \cup {SignalThread} -> 1 .. LetterCount + 1]
  /\ loaded \in [Workers -> Nat]
  /\ pending \subseteq {"SIGUSR1", "SIGINT"}
  /\ interrupted \in BOOLEAN

FirmInit ==
  /\ BufferInit
  /\ at = [t \in FirmThreads |-> IF t = Main THEN "scan"
                                 ELSE IF t = SignalThread THEN "test_flag" ELSE "check_quit"]
  /\ unscanned = Files
  /\ totalFiles = 0
  /\ processedFiles = 0
  /\ alphabetCounter = [l \in Letters |-> 0]
  /\ mutexes = [l \in Letters |-> NoThread]
  /\ quitSeen = [w \in Workers |-> FALSE]
  /\ letter = [t \in Workers \cup {SignalThread} |-> 1]
  /\ loaded = [w \in Workers |-> 0]
  /\ pending = {}
  /\ interrupted = FALSE

Proceed(t, from, to) == /\ at[t] = from
                        /\ at' = [at EXCEPT ![t] = to]
-----------------------------------------------------------------------------
(* main and explore_directory *)

(* readdir returns the next .txt file, in no particular order, and main    *)
(* calls circular_buffer_enqueue.                                          *)
FindFile == /\ Proceed(Main, "scan", "enqueuing")
            /\ \E f \in unscanned : /\ unscanned' = unscanned \ {f}
                                    /\ EnqueueCall(Main, f)
            /\ UNCHANGED <<totalFiles, workVars, letterVars, signalVars>>

MainInEnqueue == /\ at[Main] = "enqueuing"
                 /\ EnqueueStep(Main)
                 /\ UNCHANGED firmOnlyVars

EnqueueReturned == /\ pc[Main] = "idle"
                   /\ Proceed(Main, "enqueuing", "count_file")
                   /\ UNCHANGED <<bufferVars, scanVars, workVars, letterVars, signalVars>>

(* totalFiles++ comes after the file may already have been processed. *)
CountFile == /\ Proceed(Main, "count_file", "scan")
             /\ totalFiles' = totalFiles + 1
             /\ UNCHANGED <<bufferVars, unscanned, workVars, letterVars, signalVars>>

ScanDone == /\ unscanned = {}
            /\ Proceed(Main, "scan", "wait")
            /\ UNCHANGED <<bufferVars, scanVars, workVars, letterVars, signalVars>>

WaitAgain == /\ processedFiles # totalFiles
             /\ Proceed(Main, "wait", "tick")
             /\ UNCHANGED <<bufferVars, scanVars, workVars, letterVars, signalVars>>

(* usleep(100000); kill(0, SIGUSR1): a pending SIGUSR1 absorbs another one. *)
Tick == /\ Proceed(Main, "tick", "wait")
        /\ pending' = pending \cup {"SIGUSR1"}
        /\ UNCHANGED <<bufferVars, scanVars, workVars, letterVars, interrupted>>

(* Mutant: main only waits until the ring is empty. *)
AllDequeued == /\ count = 0
               /\ Proceed(Main, "wait", "set_quit")
               /\ UNCHANGED <<bufferVars, scanVars, workVars, letterVars, signalVars>>

AllProcessed == /\ processedFiles = totalFiles
                /\ Proceed(Main, "wait", "set_quit")
                /\ UNCHANGED <<bufferVars, scanVars, workVars, letterVars, signalVars>>

MainSetsQuit == /\ Proceed(Main, "set_quit", "join_workers")
                /\ SetQuitFlag
                /\ UNCHANGED <<scanVars, workVars, letterVars, signalVars>>

JoinWorkers == /\ \A w \in Workers : at[w] = "exited"
               /\ Proceed(Main, "join_workers", "join_signal")
               /\ UNCHANGED <<bufferVars, scanVars, workVars, letterVars, signalVars>>

JoinSignalThread == /\ at[SignalThread] = "exited"
                    /\ Proceed(Main, "join_signal", "free")
                    /\ UNCHANGED <<bufferVars, scanVars, workVars, letterVars, signalVars>>

(* Destroys the mutexes, frees the ring and the arguments, returns. *)
FreeAll == /\ Proceed(Main, "free", "exited")
           /\ UNCHANGED <<bufferVars, scanVars, workVars, letterVars, signalVars>>
-----------------------------------------------------------------------------
(* worker_func and process_file *)

CheckQuit(w) == /\ Proceed(w, "check_quit", "test_quit")
                /\ quitSeen' = [quitSeen EXCEPT ![w] = quitFlag]
                /\ UNCHANGED <<bufferVars, scanVars, processedFiles, letterVars, signalVars>>

(* if (quit && count == 0) break, with no mutex held. *)
WorkerExits(w) == /\ quitSeen[w]
                  /\ count = 0
                  /\ Proceed(w, "test_quit", "exited")
                  /\ UNCHANGED <<bufferVars, scanVars, workVars, letterVars, signalVars>>

WorkerDequeues(w) == /\ ~(quitSeen[w] /\ count = 0)
                     /\ Proceed(w, "test_quit", "dequeuing")
                     /\ DequeueCall(w)
                     /\ UNCHANGED <<scanVars, workVars, letterVars, signalVars>>

WorkerInDequeue(w) == /\ at[w] = "dequeuing"
                      /\ DequeueStep(w)
                      /\ UNCHANGED firmOnlyVars

(* Mutant: the loop over the letters does not start afresh. *)
DequeueReturnedNoReset(w) == /\ Proceed(w, "dequeuing", IF item[w] = NULL THEN "check_quit"
                                                        ELSE "count_letters")
                             /\ DequeueReturn(w)
                             /\ UNCHANGED <<scanVars, workVars, letterVars, signalVars>>

(* A file: process_file counts its letters in localCounter. NULL: sleep.   *)
DequeueReturned(w) == /\ Proceed(w, "dequeuing", IF item[w] = NULL THEN "check_quit"
                                                 ELSE "count_letters")
                      /\ DequeueReturn(w)
                      /\ letter' = [letter EXCEPT ![w] = 1]
                      /\ UNCHANGED <<scanVars, workVars, alphabetCounter, mutexes, loaded, signalVars>>

(* localCounter[i] == 0: on to the next letter. *)
SkipLetter(w) == /\ at[w] = "count_letters"
                 /\ letter[w] \in Letters
                 /\ LettersIn[item[w]][letter[w]] = 0
                 /\ letter' = [letter EXCEPT ![w] = @ + 1]
                 /\ UNCHANGED <<bufferVars, at, scanVars, workVars, alphabetCounter, mutexes, loaded, signalVars>>

(* Mutant: the letter's mutex is not waited for. *)
LockLetterBusy(w) == /\ Proceed(w, "count_letters", "add_letter")
                     /\ letter[w] \in Letters
                     /\ LettersIn[item[w]][letter[w]] > 0
                     /\ mutexes' = [mutexes EXCEPT ![letter[w]] = w]
                     /\ loaded' = [loaded EXCEPT ![w] = alphabetCounter[letter[w]]]
                     /\ UNCHANGED <<bufferVars, scanVars, workVars, alphabetCounter, letter, signalVars>>

(* Locks the letter's mutex and reads its counter ... *)
LockLetter(w) == /\ Proceed(w, "count_letters", "add_letter")
                 /\ letter[w] \in Letters
                 /\ LettersIn[item[w]][letter[w]] > 0
                 /\ mutexes[letter[w]] = NoThread
                 /\ mutexes' = [mutexes EXCEPT ![letter[w]] = w]
                 /\ loaded' = [loaded EXCEPT ![w] = alphabetCounter[letter[w]]]
                 /\ UNCHANGED <<bufferVars, scanVars, workVars, alphabetCounter, letter, signalVars>>

(* Mutant: the letter's mutex is never released. *)
AddLetterKeepsLock(w) == /\ Proceed(w, "add_letter", "count_letters")
                         /\ alphabetCounter' = [alphabetCounter EXCEPT
                                         ![letter[w]] = loaded[w] + LettersIn[item[w]][letter[w]]]
                         /\ letter' = [letter EXCEPT ![w] = @ + 1]
                         /\ UNCHANGED <<bufferVars, scanVars, workVars, mutexes, loaded, signalVars>>

(* ... writes the sum back and releases the mutex. *)
AddLetter(w) == /\ Proceed(w, "add_letter", "count_letters")
                /\ alphabetCounter' = [alphabetCounter EXCEPT
                                         ![letter[w]] = loaded[w] + LettersIn[item[w]][letter[w]]]
                /\ mutexes' = [mutexes EXCEPT ![letter[w]] = NoThread]
                /\ letter' = [letter EXCEPT ![w] = @ + 1]
                /\ UNCHANGED <<bufferVars, scanVars, workVars, loaded, signalVars>>

FileCounted(w) == /\ letter[w] \notin Letters
                  /\ Proceed(w, "count_letters", "file_done")
                  /\ UNCHANGED <<bufferVars, scanVars, workVars, letterVars, signalVars>>

(* free(file_path); processedFiles++ under mxProcessed *)
FileDone(w) == /\ Proceed(w, "file_done", "check_quit")
               /\ processedFiles' = processedFiles + 1
               /\ UNCHANGED <<bufferVars, scanVars, quitSeen, letterVars, signalVars>>
-----------------------------------------------------------------------------
(* signal_handler_thread and print_alphabet_counters *)

TestFlag == /\ Proceed(SignalThread, "test_flag", IF quitFlag THEN "exited" ELSE "sigwait")
            /\ UNCHANGED <<bufferVars, scanVars, workVars, letterVars, signalVars>>

WaitUsr1 == /\ "SIGUSR1" \in pending
            /\ pending' = pending \ {"SIGUSR1"}
            /\ Proceed(SignalThread, "sigwait", "print")
            /\ letter' = [letter EXCEPT ![SignalThread] = 1]
            /\ UNCHANGED <<bufferVars, scanVars, workVars, alphabetCounter, mutexes, loaded, interrupted>>

(* Mutant: SIGINT is taken for SIGUSR1. *)
WaitIntPrints == /\ "SIGINT" \in pending
                 /\ pending' = pending \ {"SIGINT"}
                 /\ Proceed(SignalThread, "sigwait", "print")
                 /\ letter' = [letter EXCEPT ![SignalThread] = 1]
                 /\ UNCHANGED <<bufferVars, scanVars, workVars, alphabetCounter, mutexes, loaded, interrupted>>

WaitInt == /\ "SIGINT" \in pending
           /\ pending' = pending \ {"SIGINT"}
           /\ Proceed(SignalThread, "sigwait", "raise_quit")
           /\ UNCHANGED <<bufferVars, scanVars, workVars, letterVars, interrupted>>

(* Prints one counter under its mutex. *)
PrintLetter == /\ at[SignalThread] = "print"
               /\ letter[SignalThread] \in Letters
               /\ mutexes[letter[SignalThread]] = NoThread
               /\ letter' = [letter EXCEPT ![SignalThread] = @ + 1]
               /\ UNCHANGED <<bufferVars, at, scanVars, workVars, alphabetCounter, mutexes, loaded, signalVars>>

Printed == /\ letter[SignalThread] \notin Letters
           /\ Proceed(SignalThread, "print", "test_flag")
           /\ UNCHANGED <<bufferVars, scanVars, workVars, letterVars, signalVars>>

SignalRaisesQuit == /\ Proceed(SignalThread, "raise_quit", "exited")
                    /\ SetQuitFlag
                    /\ UNCHANGED <<scanVars, workVars, letterVars, signalVars>>
-----------------------------------------------------------------------------
(* The user presses Ctrl+C, at most once, at any time before the program ends. *)
UserInterrupts == /\ MayInterrupt
                  /\ ~interrupted
                  /\ at[Main] # "exited"
                  /\ interrupted' = TRUE
                  /\ pending' = pending \cup {"SIGINT"}
                  /\ UNCHANGED <<bufferVars, at, scanVars, workVars, letterVars>>

MainNext == \/ FindFile \/ MainInEnqueue \/ EnqueueReturned \/ CountFile \/ ScanDone
            \/ WaitAgain \/ Tick \/ AllProcessed \/ MainSetsQuit \/ JoinWorkers
            \/ JoinSignalThread \/ FreeAll

WorkerNext(w) == \/ CheckQuit(w) \/ WorkerExits(w) \/ WorkerDequeues(w)
                 \/ WorkerInDequeue(w) \/ DequeueReturned(w) \/ SkipLetter(w)
                 \/ LockLetter(w) \/ AddLetter(w) \/ FileCounted(w) \/ FileDone(w)

SignalNext == \/ TestFlag \/ WaitUsr1 \/ WaitInt \/ PrintLetter \/ Printed
              \/ SignalRaisesQuit

FirmNext == \/ MainNext
            \/ \E w \in Workers : WorkerNext(w)
            \/ SignalNext
            \/ UserInterrupts

(* The scheduler runs every thread that can run, and a thread that keeps   *)
(* trying to lock a mutex which is free again and again gets it: every     *)
(* holder sleeps (usleep, sigwait) or leaves between two acquisitions.     *)
Fairness == /\ SF_firmVars(MainNext)
            /\ \A w \in Workers : SF_firmVars(WorkerNext(w))
            /\ SF_firmVars(SignalNext)

FirmSpec == FirmInit /\ [][FirmNext]_firmVars
FairFirmSpec == FirmSpec /\ Fairness
-----------------------------------------------------------------------------
(* What the program must get right *)

(* The file in w's hand: taken out of the ring and not yet reported. *)
InHand(w) == \/ pc[w] = "deq_done" /\ item[w] # NULL
             \/ at[w] \in {"count_letters", "add_letter", "file_done"}

MainHolds == at[Main] = "enqueuing" /\ pc[Main] # "idle"

Enqueued == Range(Contents)

Processed == Files \ (unscanned \cup Enqueued \cup {item[w] : w \in {v \in Workers : InHand(v)}}
                      \cup (IF MainHolds THEN {item[Main]} ELSE {}))

(* Files whose occurrences of letter l are not in alphabetCounter yet. *)
Owed(l) == unscanned \cup Enqueued \cup (IF MainHolds THEN {item[Main]} ELSE {})
           \cup {item[w] : w \in {v \in Workers : /\ InHand(v)
                                                  /\ at[v] # "file_done"
                                                  /\ at[v] = "dequeuing" \/ letter[v] <= l}}

SumOver(files, l) == SumFunctionOnSet([f \in Files |-> LettersIn[f][l]], files)

(* Every file that has been found is in exactly one place - the main       *)
(* thread's hand, one slot of the ring, one worker's hand - or has been    *)
(* processed and reported once: none is lost or handled twice.             *)
FilesConserved ==
  LET hands == {w \in Workers : InHand(w)}
  IN /\ Cardinality(Processed) = processedFiles
     /\ Cardinality(Files) = Cardinality(unscanned) + count + Cardinality(hands)
                             + (IF MainHolds THEN 1 ELSE 0) + processedFiles

(* At every moment each counter is the sum over the files that have added  *)
(* the letter: no concurrent += is lost, no file is added twice.           *)
LettersAccounted == \A l \in Letters : alphabetCounter[l] = SumOver(Files \ Owed(l), l)

(* Every += on a counter adds the file's letters to the value the counter   *)
(* has at that moment: no addition of another worker is overwritten.       *)
AdditionsApplied ==
  [][\A w \in Workers : AddLetter(w) =>
       alphabetCounter' = [alphabetCounter EXCEPT ![letter[w]] = @ + LettersIn[item[w]][letter[w]]]
    ]_firmVars

(* When main leaves the wait loop, with or without Ctrl+C, every file of   *)
(* the directory tree is in the final counters.                            *)
ResultComplete == at[Main] \in {"set_quit", "join_workers", "join_signal", "free", "exited"} =>
                     \A l \in Letters : alphabetCounter[l] = SumOver(Files, l)

(* Without Ctrl+C every file is processed and all workers end.             *)
WorkersFinish == [](~interrupted) => <>(at[Main] = "join_signal")

(* Ctrl+C after the scan ends the program and frees its resources.         *)
InterruptAfterScanEnds == (at[Main] \in {"wait", "tick"} /\ "SIGINT" \in pending) ~> (at[Main] = "exited")

(* Zadanie.txt, stage 4: after SIGINT, at any moment, "Program konczy sie, *)
(* zwalniajac wszystkie zasoby".                                           *)
InterruptEnds == interrupted ~> (at[Main] = "exited")

(* The quit flag that main sets when all files are processed ends the      *)
(* program (the comment at the flag: setting the end-of-work flag).        *)
QuitFlagEnds == (at[Main] = "join_workers") ~> (at[Main] = "exited")
=============================================================================
