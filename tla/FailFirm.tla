------------------------------ MODULE FailFirm ------------------------------
(***************************************************************************)
(* The letter firm of SOP1/Lab3_workshop/etap4Fail.c: a worker prints all  *)
(* counters when it has added a file, main only waits.  No signal is       *)
(* blocked: sigwait does not keep SIGINT or SIGUSR1 from killing the       *)
(* process, and the signal thread does nothing else.                       *)
(*                                                                         *)
(* The threads run the steps of CircularBuffer.  A counter is touched      *)
(* under its letter's mutex only, so an access is one step; mxPrint, held  *)
(* while a worker prints letter after letter, is explicit.  Every file     *)
(* holds each letter once.  Failing calls are left out.                    *)
(***************************************************************************)
EXTENDS CircularBuffer, FiniteSets

CONSTANTS FailLetters     \* letters 1..FailLetters stand for the 52 counters

ASSUME FailAssumption == /\ FailLetters \in Nat \ {0}
                         /\ \E p \in Producers : Producers = {p}
                         /\ IsFiniteSet(Consumers)
                         /\ IsFiniteSet(Items)

VARIABLES failMainAt, failWorkerAt,   \* next steps of main and of the workers
          failUnscanned,  \* .txt files readdir has not returned yet
          failTotal,      \* totalFiles
          failProcessed,  \* processedFiles
          failCounter,    \* alphabetCounter
          failLetter,     \* failLetter[w]: loop index over the letters
          failPrinter,    \* owner of mxPrint
          failShown       \* failShown[l]: the last number printed for letter l

failScan == <<failUnscanned, failTotal>>
failCount == <<failProcessed, failCounter, failLetter, failPrinter, failShown>>
failVars == <<failMainAt, failWorkerAt, failScan, failCount>>

FailMain == CHOOSE p \in Producers : TRUE

FailTypeOK ==
  /\ failMainAt \in {"scan", "enqueuing", "wait", "set_quit", "join", "free", "exited", "killed"}
  /\ failWorkerAt \in [Consumers -> {"test_quit", "test_count", "dequeuing", "add", "print",
                                     "file_done", "gone"}]
  /\ failUnscanned \subseteq Items
  /\ failTotal \in Nat
  /\ failProcessed \in Nat
  /\ failCounter \in [1 .. FailLetters -> Nat]
  /\ failLetter \in [Consumers -> 1 .. FailLetters + 1]
  /\ failPrinter \in Consumers \cup {NoThread}
  /\ failShown \in [1 .. FailLetters -> Nat]

FailInit == /\ failMainAt = "scan"
            /\ failWorkerAt = [w \in Consumers |-> "test_quit"]
            /\ failUnscanned = Items
            /\ failTotal = 0
            /\ failProcessed = 0
            /\ failCounter = [l \in 1 .. FailLetters |-> 0]
            /\ failLetter = [w \in Consumers |-> 1]
            /\ failPrinter = NoThread
            /\ failShown = [l \in 1 .. FailLetters |-> 0]
-----------------------------------------------------------------------------
(* main and explore_directory *)

FailMainStep(from, to) == /\ failMainAt = from
                          /\ failMainAt' = to
                          /\ UNCHANGED <<failWorkerAt, failCount>>

FailFinds == /\ FailMainStep("scan", "enqueuing")
             /\ \E f \in failUnscanned : /\ failUnscanned' = failUnscanned \ {f}
                                         /\ EnqueueCall(FailMain, f)
             /\ UNCHANGED failTotal

FailInEnqueue == /\ failMainAt = "enqueuing"
                 /\ EnqueueStep(FailMain)
                 /\ UNCHANGED failVars

(* totalFiles++ when a worker may already have processed the file *)
FailCountsFile == /\ FailMainStep("enqueuing", "scan")
                  /\ pc[FailMain] = "idle"
                  /\ failTotal' = failTotal + 1
                  /\ UNCHANGED <<bufferVars, failUnscanned>>

FailScanned == /\ FailMainStep("scan", "wait")
               /\ failUnscanned = {}
               /\ UNCHANGED <<bufferVars, failScan>>

FailAllProcessed == /\ FailMainStep("wait", "set_quit")
                    /\ failProcessed = failTotal
                    /\ UNCHANGED <<bufferVars, failScan>>

FailSetsQuit == /\ FailMainStep("set_quit", "join")
                /\ SetQuitFlag
                /\ UNCHANGED failScan

FailJoins == /\ FailMainStep("join", "free")
             /\ \A w \in Consumers : failWorkerAt[w] = "gone"
             /\ UNCHANGED <<bufferVars, failScan>>

(* Mutexes, ring and arguments are given back; the return from main ends   *)
(* the signal thread.                                                      *)
FailFrees == /\ FailMainStep("free", "exited")
             /\ UNCHANGED <<bufferVars, failScan>>

(* SIGINT, or a SIGUSR1 from outside: no thread blocks it. *)
FailKilled == /\ failMainAt \notin {"exited", "killed"}
              /\ failMainAt' = "killed"
              /\ UNCHANGED <<bufferVars, failWorkerAt, failScan, failCount>>
-----------------------------------------------------------------------------
(* worker_func and process_file *)

FailWorkerStep(w, from, to) == /\ failMainAt # "killed"
                               /\ failWorkerAt[w] = from
                               /\ failWorkerAt' = [failWorkerAt EXCEPT ![w] = to]
                               /\ UNCHANGED <<failMainAt, failScan>>

FailTestQuit(w) == /\ FailWorkerStep(w, "test_quit", IF quitFlag THEN "test_count" ELSE "dequeuing")
                   /\ IF quitFlag THEN UNCHANGED bufferVars ELSE DequeueCall(w)
                   /\ UNCHANGED failCount

(* if (quit && count == 0) break, with no mutex held *)
FailTestCount(w) == /\ FailWorkerStep(w, "test_count", IF count = 0 THEN "gone" ELSE "dequeuing")
                    /\ IF count = 0 THEN UNCHANGED bufferVars ELSE DequeueCall(w)
                    /\ UNCHANGED failCount

FailInDequeue(w) == /\ FailWorkerStep(w, "dequeuing", "dequeuing")
                    /\ DequeueStep(w)
                    /\ UNCHANGED failCount

FailDequeued(w) == /\ FailWorkerStep(w, "dequeuing", IF item[w] = NULL THEN "test_quit" ELSE "add")
                   /\ DequeueReturn(w)
                   /\ failLetter' = [failLetter EXCEPT ![w] = 1]
                   /\ UNCHANGED <<failProcessed, failCounter, failPrinter, failShown>>

FailAdds(w) == /\ FailWorkerStep(w, "add", "add")
               /\ failLetter[w] <= FailLetters
               /\ failCounter' = [failCounter EXCEPT ![failLetter[w]] = @ + 1]
               /\ failLetter' = [failLetter EXCEPT ![w] = @ + 1]
               /\ UNCHANGED <<bufferVars, failProcessed, failPrinter, failShown>>

(* Mutant: trylock; a worker that finds the console in use does not print. *)
FailTriesConsole(w) ==
  /\ FailWorkerStep(w, "add", IF failPrinter = NoThread THEN "print" ELSE "file_done")
  /\ failLetter[w] > FailLetters
  /\ failPrinter' = IF failPrinter = NoThread THEN w ELSE failPrinter
  /\ failLetter' = [failLetter EXCEPT ![w] = 1]
  /\ UNCHANGED <<bufferVars, failProcessed, failCounter, failShown>>

FailTakesConsole(w) == /\ FailWorkerStep(w, "add", "print")
                       /\ failLetter[w] > FailLetters
                       /\ failPrinter = NoThread
                       /\ failPrinter' = w
                       /\ failLetter' = [failLetter EXCEPT ![w] = 1]
                       /\ UNCHANGED <<bufferVars, failProcessed, failCounter, failShown>>

(* print_alphabet_counters: other workers add while it runs. *)
FailPrints(w) == /\ FailWorkerStep(w, "print", "print")
                 /\ failLetter[w] <= FailLetters
                 /\ failShown' = [failShown EXCEPT ![failLetter[w]] = failCounter[failLetter[w]]]
                 /\ failLetter' = [failLetter EXCEPT ![w] = @ + 1]
                 /\ UNCHANGED <<bufferVars, failProcessed, failCounter, failPrinter>>

FailGivesConsole(w) == /\ FailWorkerStep(w, "print", "file_done")
                       /\ failLetter[w] > FailLetters
                       /\ failPrinter' = NoThread
                       /\ UNCHANGED <<bufferVars, failProcessed, failCounter, failLetter, failShown>>

FailFileDone(w) == /\ FailWorkerStep(w, "file_done", "test_quit")
                   /\ failProcessed' = failProcessed + 1
                   /\ UNCHANGED <<bufferVars, failCounter, failLetter, failPrinter, failShown>>

FailNext == \/ FailFinds \/ FailInEnqueue \/ FailCountsFile \/ FailScanned
            \/ FailAllProcessed \/ FailSetsQuit \/ FailJoins \/ FailFrees \/ FailKilled
            \/ \E w \in Consumers :
                 \/ FailTestQuit(w) \/ FailTestCount(w) \/ FailInDequeue(w)
                 \/ FailDequeued(w) \/ FailAdds(w) \/ FailTakesConsole(w) \/ FailPrints(w)
                 \/ FailGivesConsole(w) \/ FailFileDone(w)

FailSpec == BufferInit /\ FailInit /\ [][FailNext]_<<bufferVars, failVars>>
-----------------------------------------------------------------------------
(* Nobody prints at the end: the last numbers on the console, which no     *)
(* single worker need have printed after the last addition, are the sums   *)
(* over all files when main has joined the workers (etap4Fail.c:412-434,   *)
(* 578-594).                                                               *)
LastNumbersComplete == failMainAt \in {"free", "exited"} =>
                          \A l \in 1 .. FailLetters : failShown[l] = Cardinality(Items)
=============================================================================
