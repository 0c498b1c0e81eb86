-------------------------- MODULE LetterFirmProofs --------------------------
(***************************************************************************)
(* Proofs about the letter firm for every number of workers, files and     *)
(* letters and every BufferSize.  The firm is shown to use the ring only   *)
(* through its operations and with one producer, so what is proved of the  *)
(* ring holds of the firm; on top of that come the firm's own types, the   *)
(* letter mutexes and the way of the files.                                *)
(***************************************************************************)
EXTENDS LetterFirm, CircularBufferProofs, FoldSums, FunctionTheorems

LEMMA OneProducer == SingleProducer
BY FirmAssumption DEF SingleProducer

LEMMA FirmStepIsBufferStep ==
  ASSUME unscanned \subseteq Files, [FirmNext]_firmVars
  PROVE  [BufferNext]_bufferVars
<1>1. Main \in Producers
  BY FirmAssumption
<1>2. CASE MainNext
  BY <1>1, <1>2
  DEF MainNext, FindFile, MainInEnqueue, EnqueueReturned, CountFile, ScanDone, WaitAgain, Tick,
      AllProcessed, MainSetsQuit, JoinWorkers, JoinSignalThread, FreeAll, BufferNext, Files
<1>3. CASE \E w \in Workers : WorkerNext(w)
  BY <1>3
  DEF WorkerNext, CheckQuit, WorkerExits, WorkerDequeues, WorkerInDequeue, DequeueReturned,
      SkipLetter, LockLetter, AddLetter, FileCounted, FileDone, BufferNext, Workers
<1>4. CASE SignalNext
  BY <1>4
  DEF SignalNext, TestFlag, WaitUsr1, WaitInt, PrintLetter, Printed, SignalRaisesQuit, BufferNext
<1>5. CASE UserInterrupts \/ UNCHANGED firmVars
  BY <1>5 DEF UserInterrupts, firmVars
<1>6. QED
  BY <1>2, <1>3, <1>4, <1>5 DEF FirmNext

LEMMA UnscannedStep ==
  ASSUME unscanned \subseteq Files, [FirmNext]_firmVars
  PROVE  unscanned' \subseteq Files
BY DEF FirmNext, MainNext, FindFile, MainInEnqueue, EnqueueReturned, CountFile, ScanDone,
       WaitAgain, Tick, AllProcessed, MainSetsQuit, JoinWorkers, JoinSignalThread, FreeAll,
       WorkerNext, CheckQuit, WorkerExits, WorkerDequeues, WorkerInDequeue, DequeueReturned,
       SkipLetter, LockLetter, AddLetter, FileCounted, FileDone, SignalNext, TestFlag,
       WaitUsr1, WaitInt, PrintLetter, Printed, SignalRaisesQuit, UserInterrupts, firmVars,
       firmOnlyVars, scanVars

(* The firm uses the ring through its operations alone.                    *)
THEOREM FirmImplementsBuffer == FirmSpec => BufferSpec
<1>1. FirmInit => BufferInit /\ unscanned \subseteq Files
  BY DEF FirmInit
<1>2. unscanned \subseteq Files /\ [FirmNext]_firmVars =>
         [BufferNext]_bufferVars /\ (unscanned \subseteq Files)'
  BY FirmStepIsBufferStep, UnscannedStep
<1>3. QED
  BY <1>1, <1>2, PTL DEF FirmSpec, BufferSpec

(* In the firm enqueue never stores into a full ring.                      *)
THEOREM FirmNeverOverfull == FirmSpec => []NeverOverfull
BY FirmImplementsBuffer, EnqueueNeverOverfills, OneProducer, PTL

(* In the firm the ring is a bounded FIFO queue of file names.             *)
THEOREM FirmUsesTaskQueue == FirmSpec => RefinesTaskQueue
BY FirmImplementsBuffer, RingImplementsTaskQueue, OneProducer, PTL
-----------------------------------------------------------------------------
(* A worker is inside the ring exactly while at[w] says so, it holds a     *)
(* file while it counts, and it holds the mutex of the letter it adds.     *)
WorkersCoupled == \A w \in Workers :
  /\ pc[w] # "idle" <=> at[w] = "dequeuing"
  /\ at[w] \in {"count_letters", "add_letter", "file_done"} => item[w] \in Files
  /\ at[w] = "add_letter" => letter[w] \in Letters

LettersLocked == \A w \in Workers :
  at[w] = "add_letter" => /\ mutexes[letter[w]] = w
                          /\ loaded[w] = alphabetCounter[letter[w]]

FirmInv == FirmTypeOK /\ BufferInv /\ WorkersCoupled /\ LettersLocked

LEMMA FirmInvInit == FirmInit => FirmInv
<1> SUFFICES ASSUME FirmInit PROVE FirmInv
  OBVIOUS
<1> USE DEF FirmInit
<1>1. BufferInv
  BY BufferInvInit
<1>2. FirmTypeOK
  <2>1. /\ Main \in FirmThreads /\ SignalThread \in FirmThreads /\ Main # SignalThread
        /\ \A w \in Workers : w \in FirmThreads /\ w # Main /\ w # SignalThread
    BY FirmAssumption, ThreadsAssumption DEF FirmThreads, Workers, Threads
  <2>2. 1 \in 1 .. LetterCount + 1
    BY FirmAssumption
  <2>3. /\ at \in [FirmThreads -> MainSteps \cup WorkerSteps \cup SignalSteps]
        /\ at[Main] \in MainSteps
        /\ at[SignalThread] \in SignalSteps
        /\ \A w \in Workers : at[w] \in WorkerSteps
    BY <2>1 DEF MainSteps, WorkerSteps, SignalSteps
  <2>4. QED
    BY <1>1, <2>2, <2>3 DEF FirmTypeOK, BufferInv
<1>3. WorkersCoupled /\ LettersLocked
  BY FirmAssumption, ThreadsAssumption
  DEF BufferInit, WorkersCoupled, LettersLocked, Workers, Threads, FirmThreads
<1>4. QED
  BY <1>1, <1>2, <1>3 DEF FirmInv
(* Who is who. *)
LEMMA ThreadsDistinct ==
  /\ Main \in Threads /\ Main \notin Workers
  /\ SignalThread # Main /\ SignalThread \notin Workers
  /\ Workers \subseteq Threads /\ Workers \subseteq FirmThreads
  /\ Main \in FirmThreads /\ SignalThread \in FirmThreads
BY FirmAssumption, ThreadsAssumption DEF Workers, Threads, FirmThreads

(* What main and the signal thread do moves no worker. *)
LEMMA OtherThreads ==
  ASSUME FirmInv, MainNext \/ SignalNext \/ UserInterrupts
  PROVE  /\ \A w \in Workers : at'[w] = at[w] /\ pc'[w] = pc[w] /\ item'[w] = item[w]
         /\ \A w \in Workers : letter'[w] = letter[w]
         /\ UNCHANGED <<alphabetCounter, mutexes, loaded>>
<1> USE ThreadsDistinct DEF FirmInv, FirmTypeOK, BufferTypeOK, BufferInv, Goto, Proceed
<1>1. CASE MainNext
  BY <1>1
  DEF MainNext, FindFile, MainInEnqueue, EnqueueReturned, CountFile, ScanDone, WaitAgain, Tick,
      AllProcessed, MainSetsQuit, JoinWorkers, JoinSignalThread, FreeAll, EnqueueCall,
      EnqueueStep, EnqueueFullCheck, EnqueueLock, EnqueueStore, EnqueuePublish, SetQuitFlag,
      bufferVars, letterVars, firmOnlyVars
<1>2. CASE SignalNext
  BY <1>2
  DEF SignalNext, TestFlag, WaitUsr1, WaitInt, PrintLetter, Printed, SignalRaisesQuit,
      SetQuitFlag, bufferVars, letterVars
<1>3. CASE UserInterrupts
  BY <1>3 DEF UserInterrupts, bufferVars, letterVars
<1>4. QED
  BY <1>1, <1>2, <1>3

AtTypeOK == /\ at \in [FirmThreads -> MainSteps \cup WorkerSteps \cup SignalSteps]
            /\ at[Main] \in MainSteps
            /\ at[SignalThread] \in SignalSteps
            /\ \A w \in Workers : at[w] \in WorkerSteps

LEMMA MainProceeds ==
  ASSUME AtTypeOK, NEW from, NEW to \in MainSteps, Proceed(Main, from, to)
  PROVE  AtTypeOK'
BY ThreadsDistinct DEF AtTypeOK, Proceed

LEMMA WorkerProceeds ==
  ASSUME AtTypeOK, NEW w \in Workers, NEW from, NEW to \in WorkerSteps, Proceed(w, from, to)
  PROVE  AtTypeOK'
BY ThreadsDistinct DEF AtTypeOK, Proceed

LEMMA SignalProceeds ==
  ASSUME AtTypeOK, NEW from, NEW to \in SignalSteps, Proceed(SignalThread, from, to)
  PROVE  AtTypeOK'
BY ThreadsDistinct DEF AtTypeOK, Proceed

(* The steps main may take keep its variables typed. *)
LEMMA MainTypeStep ==
  ASSUME FirmInv, BufferTypeOK', MainNext
  PROVE  FirmTypeOK'
<1> USE DEF scanVars, workVars, letterVars, signalVars
<1>1. AtTypeOK'
  <2>1. AtTypeOK
    BY DEF FirmInv, FirmTypeOK, AtTypeOK
  <2>2. CASE MainInEnqueue
    BY <2>1, <2>2 DEF MainInEnqueue, firmOnlyVars, AtTypeOK
  <2>3. CASE ~MainInEnqueue
    <3>1. PICK to \in MainSteps : \E from \in MainSteps : Proceed(Main, from, to)
      BY <2>3 DEF MainNext, FindFile, EnqueueReturned, CountFile, ScanDone, WaitAgain, Tick,
         AllProcessed, MainSetsQuit, JoinWorkers, JoinSignalThread, FreeAll, MainSteps
    <3>2. QED
      BY <2>1, <3>1, MainProceeds
  <2>4. QED
    BY <2>2, <2>3
<1>2. /\ unscanned' \subseteq Files /\ totalFiles' \in Nat
      /\ pending' \subseteq {"SIGUSR1", "SIGINT"}
  <2>1. CASE FindFile
    BY <2>1 DEF FindFile, FirmInv, FirmTypeOK
  <2>2. CASE CountFile
    BY <2>2 DEF CountFile, FirmInv, FirmTypeOK
  <2>3. CASE Tick
    BY <2>3 DEF Tick, FirmInv, FirmTypeOK
  <2>4. CASE ~(FindFile \/ CountFile \/ Tick)
    <3>1. UNCHANGED <<unscanned, totalFiles, pending>>
      BY <2>4 DEF MainNext, MainInEnqueue, EnqueueReturned, ScanDone, WaitAgain, AllProcessed,
         MainSetsQuit, JoinWorkers, JoinSignalThread, FreeAll, firmOnlyVars
    <3>2. QED
      BY <3>1 DEF FirmInv, FirmTypeOK
  <2>5. QED
    BY <2>1, <2>2, <2>3, <2>4
<1>3. UNCHANGED <<workVars, letterVars, interrupted>>
  BY DEF MainNext, FindFile, MainInEnqueue, EnqueueReturned, CountFile, ScanDone, WaitAgain,
         Tick, AllProcessed, MainSetsQuit, JoinWorkers, JoinSignalThread, FreeAll, firmOnlyVars
<1>4. QED
  BY <1>1, <1>2, <1>3 DEF FirmInv, FirmTypeOK, AtTypeOK

LEMMA WorkerTypeStep ==
  ASSUME FirmInv, BufferTypeOK', NEW w \in Workers, WorkerNext(w)
  PROVE  FirmTypeOK'
<1> USE DEF scanVars, workVars, letterVars, signalVars
<1>0. FirmTypeOK
  BY DEF FirmInv
<1>1. AtTypeOK'
  <2>1. AtTypeOK
    BY <1>0 DEF FirmTypeOK, AtTypeOK
  <2>2. CASE WorkerInDequeue(w) \/ SkipLetter(w)
    BY <2>1, <2>2 DEF WorkerInDequeue, SkipLetter, firmOnlyVars, AtTypeOK
  <2>3. CASE ~(WorkerInDequeue(w) \/ SkipLetter(w))
    <3>1. PICK to \in WorkerSteps : \E from \in WorkerSteps : Proceed(w, from, to)
      BY <2>3 DEF WorkerNext, CheckQuit, WorkerExits, WorkerDequeues, DequeueReturned, LockLetter,
         AddLetter, FileCounted, FileDone, WorkerSteps
    <3>2. QED
      BY <2>1, <3>1, WorkerProceeds
  <2>4. QED
    BY <2>2, <2>3
<1>2. processedFiles' \in Nat /\ quitSeen' \in [Workers -> BOOLEAN]
  BY DEF FirmInv, FirmTypeOK, BufferTypeOK, WorkerNext, CheckQuit, WorkerExits, WorkerDequeues,
         WorkerInDequeue, DequeueReturned, SkipLetter, LockLetter, AddLetter, FileCounted,
         FileDone, firmOnlyVars
<1>3. CASE AddLetter(w)
  <2>1. letter[w] \in Letters /\ item[w] \in Files
    BY <1>3 DEF AddLetter, Proceed, FirmInv, WorkersCoupled
  <2>2. LettersIn[item[w]][letter[w]] \in Nat
    BY <2>1, FirmAssumption
  <2>3. letter' \in [Workers \cup {SignalThread} -> 1 .. LetterCount + 1]
    BY <1>3, <2>1, FirmAssumption DEF AddLetter, FirmInv, FirmTypeOK, Letters
  <2>4. /\ alphabetCounter' \in [Letters -> Nat]
        /\ mutexes' \in [Letters -> FirmThreads \cup {NoThread}]
    BY <1>3, <2>1, <2>2 DEF AddLetter, FirmInv, FirmTypeOK
  <2>5. QED
    BY <1>0, <1>1, <1>2, <1>3, <2>3, <2>4 DEF AddLetter, FirmTypeOK, AtTypeOK
<1>4. CASE LockLetter(w)
  BY <1>1, <1>2, <1>4, ThreadsDistinct DEF LockLetter, FirmInv, FirmTypeOK, AtTypeOK
<1>5. CASE DequeueReturned(w)
  BY <1>1, <1>2, <1>5, FirmAssumption DEF DequeueReturned, FirmInv, FirmTypeOK, AtTypeOK
<1>6. CASE SkipLetter(w)
  <2>1. letter' \in [Workers \cup {SignalThread} -> 1 .. LetterCount + 1]
    BY <1>6, FirmAssumption DEF SkipLetter, FirmInv, FirmTypeOK, Letters
  <2>2. QED
    BY <1>0, <1>1, <1>2, <1>6, <2>1 DEF SkipLetter, FirmTypeOK, AtTypeOK
<1>7. CASE CheckQuit(w) \/ WorkerExits(w) \/ WorkerDequeues(w) \/ WorkerInDequeue(w)
             \/ FileCounted(w) \/ FileDone(w)
  <2>1. UNCHANGED <<scanVars, letterVars, signalVars>>
    BY <1>7 DEF CheckQuit, WorkerExits, WorkerDequeues, WorkerInDequeue, FileCounted, FileDone,
       firmOnlyVars
  <2>2. QED
    BY <1>1, <1>2, <2>1 DEF FirmInv, FirmTypeOK, AtTypeOK
<1>8. QED
  BY <1>3, <1>4, <1>5, <1>6, <1>7 DEF WorkerNext

LEMMA SignalTypeStep ==
  ASSUME FirmInv, BufferTypeOK', SignalNext
  PROVE  FirmTypeOK'
<1> USE DEF scanVars, workVars, letterVars, signalVars
<1>1. AtTypeOK'
  <2>1. AtTypeOK
    BY DEF FirmInv, FirmTypeOK, AtTypeOK
  <2>2. CASE PrintLetter
    BY <2>1, <2>2 DEF PrintLetter, AtTypeOK
  <2>3. CASE ~PrintLetter
    <3>1. PICK to \in SignalSteps : \E from \in SignalSteps : Proceed(SignalThread, from, to)
      BY <2>3 DEF SignalNext, TestFlag, WaitUsr1, WaitInt, Printed, SignalRaisesQuit, SignalSteps
    <3>2. QED
      BY <2>1, <3>1, SignalProceeds
  <2>4. QED
    BY <2>2, <2>3
<1>2. letter' \in [Workers \cup {SignalThread} -> 1 .. LetterCount + 1]
  BY FirmAssumption
  DEF FirmInv, FirmTypeOK, SignalNext, TestFlag, WaitUsr1, WaitInt, PrintLetter, Printed,
      SignalRaisesQuit, Letters
<1>3. /\ pending' \subseteq {"SIGUSR1", "SIGINT"}
      /\ UNCHANGED <<scanVars, workVars, alphabetCounter, mutexes, loaded, interrupted>>
  BY DEF FirmInv, FirmTypeOK, SignalNext, TestFlag, WaitUsr1, WaitInt, PrintLetter, Printed,
         SignalRaisesQuit
<1>4. QED
  BY <1>1, <1>2, <1>3 DEF FirmInv, FirmTypeOK, AtTypeOK

LEMMA FirmTypeStep ==
  ASSUME FirmInv, BufferInv', [FirmNext]_firmVars
  PROVE  FirmTypeOK'
<1>1. BufferTypeOK'
  BY DEF BufferInv
<1>2. CASE UserInterrupts
  BY <1>1, <1>2
  DEF UserInterrupts, scanVars, workVars, letterVars, FirmInv, FirmTypeOK
<1>3. CASE UNCHANGED firmVars
  BY <1>1, <1>3
  DEF firmVars, firmOnlyVars, scanVars, workVars, letterVars, signalVars, FirmInv, FirmTypeOK
<1>4. QED
  BY <1>1, <1>2, <1>3, MainTypeStep, WorkerTypeStep, SignalTypeStep DEF FirmNext

(* Steps of one worker keep what is known of every worker. *)
LEMMA WorkerStep ==
  ASSUME FirmInv, NEW w \in Workers, WorkerNext(w)
  PROVE  WorkersCoupled' /\ LettersLocked'
<1> USE ThreadsDistinct
    DEF FirmInv, FirmTypeOK, BufferInv, BufferTypeOK, Proceed, Goto, WorkersCoupled, LettersLocked
<1>1. CASE CheckQuit(w)
  BY <1>1 DEF CheckQuit, bufferVars, letterVars
<1>2. CASE WorkerExits(w)
  BY <1>2 DEF WorkerExits, bufferVars, letterVars
<1>3. CASE FileCounted(w)
  BY <1>3 DEF FileCounted, bufferVars, letterVars
<1>4. CASE FileDone(w)
  BY <1>4 DEF FileDone, bufferVars, letterVars
<1>5. CASE WorkerDequeues(w)
  BY <1>5 DEF WorkerDequeues, DequeueCall, letterVars
<1>6. CASE WorkerInDequeue(w)
  BY <1>6
  DEF WorkerInDequeue, DequeueStep, DequeueLock, DequeueRead, DequeueTake, DequeueNull,
      DequeueRetry, firmOnlyVars, letterVars
<1>7. CASE DequeueReturned(w)
  BY <1>7 DEF DequeueReturned, DequeueReturn, Files
<1>8. CASE SkipLetter(w)
  BY <1>8 DEF SkipLetter, bufferVars
<1>9. CASE LockLetter(w)
  BY <1>9, ThreadsAssumption DEF LockLetter, bufferVars
<1>10. CASE AddLetter(w)
  BY <1>10 DEF AddLetter, bufferVars
<1>11. QED
  BY <1>1, <1>2, <1>3, <1>4, <1>5, <1>6, <1>7, <1>8, <1>9, <1>10 DEF WorkerNext

LEMMA FirmInvStep == FirmInv /\ [FirmNext]_firmVars => FirmInv'
<1> SUFFICES ASSUME FirmInv, [FirmNext]_firmVars PROVE FirmInv'
  OBVIOUS
<1>1. BufferInv'
  BY FirmStepIsBufferStep, BufferInvStep, OneProducer DEF FirmInv, FirmTypeOK
<1>2. FirmTypeOK'
  BY <1>1, FirmTypeStep
<1>3. WorkersCoupled' /\ LettersLocked'
  <2>1. CASE \E w \in Workers : WorkerNext(w)
    BY <2>1, WorkerStep
  <2>2. CASE MainNext \/ SignalNext \/ UserInterrupts
    BY <2>2, OtherThreads DEF FirmInv, WorkersCoupled, LettersLocked
  <2>3. CASE UNCHANGED firmVars
    BY <2>3 DEF firmVars, firmOnlyVars, bufferVars, letterVars, FirmInv, WorkersCoupled, LettersLocked
  <2>4. QED
    BY <2>1, <2>2, <2>3 DEF FirmNext
<1>4. QED
  BY <1>1, <1>2, <1>3 DEF FirmInv

THEOREM FirmInvariance == FirmSpec => []FirmInv
BY FirmInvInit, FirmInvStep, PTL DEF FirmSpec

(* Every variable of the firm keeps its type. *)
THEOREM FirmTypeCorrect == FirmSpec => []FirmTypeOK
<1>1. FirmInv => FirmTypeOK
  BY DEF FirmInv
<1>2. QED
  BY <1>1, FirmInvariance, PTL

(* No += on a letter counter overwrites another worker's addition. *)
THEOREM FirmAdditionsApplied == FirmSpec => AdditionsApplied
<1>1. ASSUME FirmInv
      PROVE  \A w \in Workers : AddLetter(w) =>
               alphabetCounter' = [alphabetCounter EXCEPT
                                     ![letter[w]] = @ + LettersIn[item[w]][letter[w]]]
  BY <1>1 DEF FirmInv, FirmTypeOK, LettersLocked, WorkersCoupled, AddLetter, Proceed
<1>2. QED
  BY <1>1, FirmInvariance, PTL DEF FirmSpec, AdditionsApplied
-----------------------------------------------------------------------------
(* The way of the files.  FilesInv is inductive together with FirmInv: one *)
(* lemma for every way a step can disturb it, then one per thread.         *)

(* Where a file can be: unscanned, in main's hand, in the ring, in the     *)
(* hand of a worker, or processed.                                         *)
Hands == {w \in Workers : InHand(w)}
InHands == {item[w] : w \in Hands}
InMain == IF MainHolds THEN {item[Main]} ELSE {}

(* No file is in two places, in two slots or in two hands.                 *)
FilesApart ==
  /\ unscanned \cup Enqueued \cup InHands \cup InMain \subseteq Files
  /\ unscanned \cap Enqueued = {}
  /\ unscanned \cap InHands = {}
  /\ Enqueued \cap InHands = {}
  /\ InMain \cap (unscanned \cup Enqueued \cup InHands) = {}
  /\ \A i, j \in 1 .. count : Contents[i] = Contents[j] => i = j
  /\ \A v, w \in Hands : item[v] = item[w] => v = w

ProcessedCounted == Cardinality(Processed) = processedFiles

(* w has not added letter l of the file in its hand. *)
Owes(w, l) == at[w] # "file_done" /\ (at[w] = "dequeuing" \/ letter[w] <= l)

FilesInv == FilesApart /\ ProcessedCounted /\ LettersAccounted

LEMMA ProcessedIs ==
  /\ Processed = Files \ (unscanned \cup Enqueued \cup InHands \cup InMain)
  /\ Processed' = Files \ (unscanned \cup Enqueued \cup InHands \cup InMain)'
BY DEF Processed, Hands, InHands, InMain

OwedInHands(l) == {item[w] : w \in {v \in Hands : Owes(v, l)}}

LEMMA OwedIs ==
  ASSUME NEW l
  PROVE  /\ Owed(l) = unscanned \cup Enqueued \cup InMain \cup OwedInHands(l)
         /\ Owed(l)' = (unscanned \cup Enqueued \cup InMain \cup OwedInHands(l))'
BY DEF Owed, OwedInHands, Hands, InMain, Owes

(* Steps that move no file and add no letter. *)
HandsKept == \A w \in Workers : /\ InHand(w)' <=> InHand(w)
                                /\ InHand(w) => item'[w] = item[w]
OwesKept == \A w \in Workers, l \in Letters : InHand(w) => (Owes(w, l)' <=> Owes(w, l))

LEMMA NoFileMoves ==
  ASSUME FilesInv, HandsKept, OwesKept, InMain' = InMain, Contents' = Contents,
         UNCHANGED <<unscanned, processedFiles, alphabetCounter, count>>
  PROVE  FilesInv'
<1>1. Hands' = Hands /\ \A w \in Hands : item'[w] = item[w]
  BY DEF Hands, HandsKept
<1>2. InHands' = InHands
  BY <1>1 DEF InHands
<1>3. Enqueued' = Enqueued
  BY DEF Enqueued
<1>4. FilesApart'
  BY <1>1, <1>2, <1>3 DEF FilesInv, FilesApart
<1>5. ProcessedCounted'
  BY <1>2, <1>3, ProcessedIs DEF FilesInv, ProcessedCounted
<1>6. ASSUME NEW l \in Letters PROVE Owed(l)' = Owed(l)
  <2>1. {v \in Hands : Owes(v, l)}' = {v \in Hands : Owes(v, l)}
    BY <1>1 DEF Hands, OwesKept
  <2>2. OwedInHands(l)' = OwedInHands(l)
    BY <1>1, <2>1 DEF OwedInHands
  <2> QED
    BY <1>3, <2>2, OwedIs
<1>7. LettersAccounted'
  BY <1>6 DEF FilesInv, LettersAccounted, SumOver
<1> QED
  BY <1>4, <1>5, <1>7 DEF FilesInv

(* readdir: from the directory into main's hand. *)
LEMMA FileFound ==
  ASSUME FilesInv, HandsKept, OwesKept, Contents' = Contents, NEW f \in unscanned,
         unscanned' = unscanned \ {f}, InMain = {}, InMain' = {f},
         UNCHANGED <<processedFiles, alphabetCounter, count>>
  PROVE  FilesInv'
<1>1. Hands' = Hands /\ \A w \in Hands : item'[w] = item[w]
  BY DEF Hands, HandsKept
<1>2. InHands' = InHands /\ Enqueued' = Enqueued
  BY <1>1 DEF InHands, Enqueued
<1>3. FilesApart'
  BY <1>1, <1>2 DEF FilesInv, FilesApart
<1>4. Processed' = Processed
  BY <1>2, ProcessedIs
<1>5. ASSUME NEW l \in Letters PROVE Owed(l)' = Owed(l)
  <2>1. {v \in Hands : Owes(v, l)}' = {v \in Hands : Owes(v, l)}
    BY <1>1 DEF Hands, OwesKept
  <2>2. OwedInHands(l)' = OwedInHands(l)
    BY <1>1, <2>1 DEF OwedInHands
  <2> QED
    BY <1>2, <2>2, OwedIs
<1>6. LettersAccounted'
  BY <1>5 DEF FilesInv, LettersAccounted, SumOver
<1> QED
  BY <1>3, <1>4, <1>6 DEF FilesInv, ProcessedCounted

LEMMA ContentsOfFiles ==
  ASSUME FirmInv, FilesInv
  PROVE  Contents \in Seq(Files) /\ Len(Contents) = count /\ count \in Nat
<1>1. count \in Nat
  BY DEF FirmInv, BufferInv, BufferTypeOK
<1>2. \A i \in 1 .. count : Contents[i] \in Files
  BY DEF FilesInv, FilesApart, Enqueued, Range, Contents
<1> QED
  BY <1>1, <1>2, ContentsIsSeq DEF Contents

(* circular_buffer_enqueue: from main's hand into the ring. *)
LEMMA FilePublished ==
  ASSUME FirmInv, FilesInv, HandsKept, OwesKept, NEW f \in Files, Contents' = Append(Contents, f),
         count' = count + 1, InMain = {f}, InMain' = {},
         UNCHANGED <<unscanned, processedFiles, alphabetCounter>>
  PROVE  FilesInv'
<1>1. Hands' = Hands /\ \A w \in Hands : item'[w] = item[w]
  BY DEF Hands, HandsKept
<1>2. InHands' = InHands
  BY <1>1 DEF InHands
<1>3. Enqueued' = Enqueued \cup {f}
  BY ContentsOfFiles, RangeOfAppend DEF Enqueued
<1>4. \A i, j \in 1 .. count + 1 : Contents'[i] = Contents'[j] => i = j
  <2> SUFFICES ASSUME NEW i \in 1 .. count + 1, NEW j \in 1 .. count + 1,
                      Contents'[i] = Contents'[j]
               PROVE  i = j
    OBVIOUS
  <2>1. /\ count \in Nat
        /\ \A k \in 1 .. count : Contents'[k] = Contents[k] /\ Contents[k] \in Enqueued
        /\ Contents'[count + 1] = f
    BY ContentsOfFiles DEF Enqueued, Range
  <2>2. f \notin Enqueued
    BY DEF FilesInv, FilesApart
  <2>3. \A k, m \in 1 .. count : Contents[k] = Contents[m] => k = m
    BY DEF FilesInv, FilesApart
  <2> QED
    BY <2>1, <2>2, <2>3
<1>5. FilesApart'
  <2>1. \A u, v \in Hands' : item'[u] = item'[v] => u = v
    BY <1>1 DEF FilesInv, FilesApart
  <2>2. /\ unscanned \cup (Enqueued \cup {f}) \cup InHands \subseteq Files
        /\ unscanned \cap (Enqueued \cup {f}) = {}
        /\ unscanned \cap InHands = {}
        /\ (Enqueued \cup {f}) \cap InHands = {}
    BY DEF FilesInv, FilesApart
  <2> QED
    BY <1>2, <1>3, <1>4, <2>1, <2>2 DEF FilesApart
<1>6. Processed' = Processed
  BY <1>2, <1>3, ProcessedIs
<1>7. ASSUME NEW l \in Letters PROVE Owed(l)' = Owed(l)
  <2>1. {v \in Hands : Owes(v, l)}' = {v \in Hands : Owes(v, l)}
    BY <1>1 DEF Hands, OwesKept
  <2>2. OwedInHands(l)' = OwedInHands(l)
    BY <1>1, <2>1 DEF OwedInHands
  <2>3. Owed(l) = unscanned \cup Enqueued \cup {f} \cup OwedInHands(l)
    BY OwedIs
  <2>4. Owed(l)' = unscanned \cup (Enqueued \cup {f}) \cup {} \cup OwedInHands(l)
    BY <1>3, <2>2, OwedIs, Zenon
  <2> QED
    BY <2>3, <2>4
<1>8. LettersAccounted'
  BY <1>7 DEF FilesInv, LettersAccounted, SumOver
<1> QED
  BY <1>5, <1>6, <1>8 DEF FilesInv, ProcessedCounted

(* circular_buffer_dequeue: from the ring into the worker's hand. *)
LEMMA FileTaken ==
  ASSUME FirmInv, FilesInv, NEW w \in Workers, ~InHand(w), InHand(w)', Contents # <<>>,
         item'[w] = Head(Contents), Contents' = Tail(Contents), count' = count - 1,
         \A v \in Workers \ {w} : InHand(v)' <=> InHand(v),
         \A v \in Workers : InHand(v) => item'[v] = item[v], OwesKept,
         \A l \in Letters : Owes(w, l)', InMain' = InMain,
         UNCHANGED <<unscanned, processedFiles, alphabetCounter>>
  PROVE  FilesInv'
<1>1. Hands' = Hands \cup {w} /\ w \notin Hands /\ \A v \in Hands : item'[v] = item[v]
  BY DEF Hands
<1> DEFINE f == Head(Contents)
<1>2. InHands' = InHands \cup {f}
  BY <1>1 DEF InHands
<1>3. /\ Enqueued = Enqueued' \cup {f} /\ f \notin Enqueued'
      /\ \A i, j \in 1 .. count' : Contents'[i] = Contents'[j] => i = j
  BY ContentsOfFiles, RangeOfTail DEF Enqueued, FilesInv, FilesApart
<1>4. f \in Files /\ f \notin InHands
  BY <1>3 DEF FilesInv, FilesApart
<1> HIDE DEF f
<1>5. \A u, v \in Hands' : item'[u] = item'[v] => u = v
  <2>1. \A v \in Hands : item'[v] # f
    BY <1>1, <1>4 DEF InHands
  <2>2. item'[w] = f
    BY DEF f
  <2> QED
    BY <1>1, <2>1, <2>2 DEF FilesInv, FilesApart
<1>6. FilesApart'
  <2>1. /\ unscanned \cup Enqueued' \cup (InHands \cup {f}) \cup InMain \subseteq Files
        /\ unscanned \cap Enqueued' = {}
        /\ unscanned \cap (InHands \cup {f}) = {}
        /\ Enqueued' \cap (InHands \cup {f}) = {}
        /\ InMain \cap (unscanned \cup Enqueued' \cup (InHands \cup {f})) = {}
    BY <1>3, <1>4 DEF FilesInv, FilesApart
  <2> QED
    BY <1>2, <1>3, <1>5, <2>1 DEF FilesApart
<1>7. Processed' = Processed
  BY <1>2, <1>3, ProcessedIs
<1>8. ASSUME NEW l \in Letters PROVE Owed(l)' = Owed(l)
  <2>1. {v \in Hands : Owes(v, l)}' = {v \in Hands : Owes(v, l)} \cup {w}
    BY <1>1 DEF Hands, OwesKept
  <2>2. OwedInHands(l)' = OwedInHands(l) \cup {f}
    BY <1>1, <2>1 DEF OwedInHands, f
  <2>3. Owed(l) = unscanned \cup (Enqueued' \cup {f}) \cup InMain \cup OwedInHands(l)
    BY <1>3, OwedIs
  <2>4. Owed(l)' = unscanned \cup Enqueued' \cup InMain \cup (OwedInHands(l) \cup {f})
    BY <2>2, OwedIs
  <2> QED
    BY <2>3, <2>4
<1>9. LettersAccounted'
  BY <1>8 DEF FilesInv, LettersAccounted, SumOver
<1> QED
  BY <1>6, <1>7, <1>9 DEF FilesInv, ProcessedCounted

LEMMA FileSetsFinite ==
  /\ \A S \in SUBSET Files : IsFiniteSet(S) /\ Cardinality(S) \in Nat
  /\ IsFiniteSet(Files) /\ Cardinality(Files) \in Nat
BY FirmAssumption, FS_Subset, FS_CardinalityType

(* processedFiles++: out of the worker's hand. *)
LEMMA FileReported ==
  ASSUME FilesInv, NEW w \in Workers, InHand(w), ~InHand(w)', processedFiles \in Nat,
         processedFiles' = processedFiles + 1,
         \A v \in Workers \ {w} : InHand(v)' <=> InHand(v),
         \A v \in Workers : InHand(v) => item'[v] = item[v],
         \A v \in Workers \ {w}, l \in Letters : Owes(v, l)' <=> Owes(v, l),
         \A l \in Letters : ~Owes(w, l), Contents' = Contents, InMain' = InMain,
         UNCHANGED <<unscanned, alphabetCounter, count>>
  PROVE  FilesInv'
<1>1. Hands = Hands' \cup {w} /\ w \notin Hands' /\ \A v \in Hands : item'[v] = item[v]
  BY DEF Hands
<1> DEFINE f == item[w]
<1>2. InHands = InHands' \cup {f} /\ f \notin InHands'
  BY <1>1 DEF InHands, FilesInv, FilesApart
<1>3. Enqueued' = Enqueued
  BY DEF Enqueued
<1> HIDE DEF f
<1>4. FilesApart'
  <2>1. \A u, v \in Hands' : item'[u] = item'[v] => u = v
    BY <1>1 DEF FilesInv, FilesApart
  <2> QED
    BY <1>2, <1>3, <2>1 DEF FilesInv, FilesApart
<1>5. Processed' = Processed \cup {f} /\ f \notin Processed
  BY <1>2, <1>3, ProcessedIs DEF FilesInv, FilesApart
<1>6. ProcessedCounted'
  <2>1. IsFiniteSet(Processed)
    BY FileSetsFinite, ProcessedIs
  <2> QED
    BY <1>5, <2>1, FS_AddElement DEF FilesInv, ProcessedCounted
<1>7. ASSUME NEW l \in Letters PROVE Owed(l)' = Owed(l)
  <2>1. {v \in Hands : Owes(v, l)}' = {v \in Hands : Owes(v, l)}
    BY <1>1 DEF Hands
  <2>2. OwedInHands(l)' = OwedInHands(l)
    BY <1>1, <2>1 DEF OwedInHands
  <2> QED
    BY <1>3, <2>2, OwedIs
<1>8. LettersAccounted'
  BY <1>7 DEF FilesInv, LettersAccounted, SumOver
<1> QED
  BY <1>4, <1>6, <1>8 DEF FilesInv

(* One letter of one file: from owed to counted. *)
LEMMA SumOfOneMore ==
  ASSUME NEW l \in Letters, NEW S \in SUBSET Files, NEW f \in Files, f \notin S
  PROVE  /\ SumOver(S, l) \in Int
         /\ SumOver(S \cup {f}, l) = SumOver(S, l) + LettersIn[f][l]
<1> DEFINE g == [x \in Files |-> LettersIn[x][l]]
<1>1. \A x \in Files : g[x] \in Int /\ g[x] = LettersIn[x][l]
  BY FirmAssumption
<1>2. IsFiniteSet(S)
  BY FileSetsFinite
<1>3. SumOver(S, l) = SumFunctionOnSet(g, S) /\ SumOver(S \cup {f}, l) = SumFunctionOnSet(g, S \cup {f})
  BY DEF SumOver
<1> HIDE DEF g
<1>4. SumFunctionOnSet(g, S \cup {f}) = SumFunctionOnSet(g, S) + g[f]
  BY <1>1, <1>2, SumAdds
<1>5. SumFunctionOnSet(g, S) \in Int
  BY <1>1, <1>2, SumInt
<1> QED
  BY <1>1, <1>3, <1>4, <1>5

LEMMA LetterCounted ==
  ASSUME FirmInv, FilesInv, HandsKept, NEW w \in Workers, InHand(w), NEW f, f = item[w],
         NEW k \in Letters, Owes(w, k), ~Owes(w, k)',
         \A v \in Workers, l \in Letters : (v # w \/ l # k) => (Owes(v, l)' <=> Owes(v, l)),
         alphabetCounter' = [alphabetCounter EXCEPT ![k] = @ + LettersIn[f][k]],
         Contents' = Contents, InMain' = InMain, UNCHANGED <<unscanned, processedFiles, count>>
  PROVE  FilesInv'
<1>1. Hands' = Hands /\ w \in Hands /\ \A v \in Hands : item'[v] = item[v]
  BY DEF Hands, HandsKept
<1>2. InHands' = InHands
  BY <1>1 DEF InHands
<1>3. Enqueued' = Enqueued
  BY DEF Enqueued
<1>4. FilesApart'
  BY <1>1, <1>2, <1>3 DEF FilesInv, FilesApart
<1>5. ProcessedCounted'
  BY <1>2, <1>3, ProcessedIs DEF FilesInv, ProcessedCounted
<1>6. ASSUME NEW l \in Letters, l # k PROVE Owed(l)' = Owed(l)
  <2>1. {v \in Hands : Owes(v, l)}' = {v \in Hands : Owes(v, l)}
    BY <1>1, <1>6 DEF Hands
  <2>2. OwedInHands(l)' = OwedInHands(l)
    BY <1>1, <2>1 DEF OwedInHands
  <2> QED
    BY <1>3, <2>2, OwedIs
<1>7. Owed(k) = Owed(k)' \cup {f} /\ f \notin Owed(k)' /\ f \in Files
  <2>0. /\ Hands \subseteq Workers /\ Owes(w, k) /\ ~Owes(w, k)'
        /\ \A v \in Workers \ {w} : Owes(v, k)' <=> Owes(v, k)
    BY DEF Hands
  <2>1. {v \in Hands : Owes(v, k)} = {v \in Hands : Owes(v, k)}' \cup {w}
        /\ w \notin {v \in Hands : Owes(v, k)}'
    BY <1>1, <2>0
  <2>2. OwedInHands(k) = OwedInHands(k)' \cup {f}
    BY <1>1, <2>1 DEF OwedInHands
  <2>3. f \notin OwedInHands(k)'
    BY <1>1, <2>1 DEF OwedInHands, FilesInv, FilesApart
  <2>4. f \in InHands
    BY <1>1 DEF InHands
  <2>5. Owed(k)' = unscanned \cup Enqueued \cup InMain \cup OwedInHands(k)'
    BY <1>3, OwedIs
  <2>6. Owed(k) = unscanned \cup Enqueued \cup InMain \cup OwedInHands(k)
    BY OwedIs
  <2>7. f \notin unscanned /\ f \notin Enqueued /\ f \notin InMain /\ f \in Files
    BY <2>4 DEF FilesInv, FilesApart
  <2> QED
    BY <2>2, <2>3, <2>5, <2>6, <2>7
<1>8. alphabetCounter'[k] = SumOver(Files \ Owed(k)', k)
  <2> DEFINE S == Files \ Owed(k)
  <2>1. Files \ Owed(k)' = S \cup {f} /\ f \notin S
    BY <1>7
  <2>2. SumOver(S \cup {f}, k) = SumOver(S, k) + LettersIn[f][k]
    BY <1>7, <2>1, SumOfOneMore
  <2>3. alphabetCounter'[k] = alphabetCounter[k] + LettersIn[f][k]
    BY DEF FirmInv, FirmTypeOK
  <2>4. alphabetCounter[k] = SumOver(S, k)
    BY DEF FilesInv, LettersAccounted
  <2> QED
    BY <2>1, <2>2, <2>3, <2>4
<1>9. ASSUME NEW l \in Letters, l # k PROVE alphabetCounter'[l] = SumOver(Files \ Owed(l)', l)
  BY <1>6, <1>9 DEF FilesInv, LettersAccounted, FirmInv, FirmTypeOK
<1>10. LettersAccounted'
  <2> SUFFICES ASSUME NEW l \in Letters PROVE alphabetCounter'[l] = SumOver(Files \ Owed(l)', l)
    BY DEF LettersAccounted, SumOver
  <2> QED
    BY <1>8, <1>9
<1> QED
  BY <1>4, <1>5, <1>10 DEF FilesInv

LEMMA FilesInvInit == FirmInit => FilesInv
<1> SUFFICES ASSUME FirmInit PROVE FilesInv
  OBVIOUS
<1> USE DEF FirmInit, BufferInit
<1>1. Contents = <<>> /\ Enqueued = {} /\ count = 0
  BY DEF Contents, Enqueued, Range
<1>2. Hands = {} /\ InHands = {} /\ InMain = {} /\ unscanned = Files
  BY ThreadsDistinct DEF Hands, InHands, InMain, InHand, MainHolds, FirmThreads
<1>3. FilesApart
  BY <1>1, <1>2 DEF FilesApart
<1>4. ProcessedCounted
  BY <1>1, <1>2, ProcessedIs, FS_EmptySet DEF ProcessedCounted
<1>5. ASSUME NEW l \in Letters PROVE alphabetCounter[l] = SumOver(Files \ Owed(l), l)
  <2>1. Files \ Owed(l) = {}
    BY <1>2, OwedIs
  <2>2. SumOver({}, l) = 0
    BY SumEmpty DEF SumOver
  <2> QED
    BY <2>1, <2>2
<1> QED
  BY <1>3, <1>4, <1>5 DEF FilesInv, LettersAccounted

LEMMA ContentsKept ==
  ASSUME UNCHANGED <<slots, tail, count>>
  PROVE  Contents' = Contents
BY DEF Contents, SlotOf

(* Steps of the other threads leave the workers' hands alone. *)
LEMMA OthersKeepHands ==
  ASSUME FirmInv, MainNext \/ SignalNext \/ UserInterrupts
  PROVE  HandsKept /\ OwesKept /\ UNCHANGED <<processedFiles, alphabetCounter>>
<1>1. HandsKept /\ OwesKept /\ UNCHANGED alphabetCounter
  BY OtherThreads DEF HandsKept, OwesKept, InHand, Owes
<1>2. UNCHANGED processedFiles
  BY DEF MainNext, FindFile, MainInEnqueue, EnqueueReturned, CountFile, ScanDone, WaitAgain, Tick,
     AllProcessed, MainSetsQuit, JoinWorkers, JoinSignalThread, FreeAll, SignalNext, TestFlag,
     WaitUsr1, WaitInt, PrintLetter, Printed, SignalRaisesQuit, UserInterrupts, workVars, firmOnlyVars
<1> QED
  BY <1>1, <1>2

LEMMA MainFilesStep ==
  ASSUME FirmInv, FilesInv, MainNext
  PROVE  FilesInv'
<1> USE ThreadsDistinct
<1>0. /\ HandsKept /\ OwesKept /\ UNCHANGED <<processedFiles, alphabetCounter>>
      /\ at \in [FirmThreads -> MainSteps \cup WorkerSteps \cup SignalSteps]
      /\ pc \in [Threads -> {"idle"} \cup EnqueueSteps \cup DequeueSteps]
      /\ item \in [Threads -> Items \cup {NULL}]
  BY OthersKeepHands DEF FirmInv, FirmTypeOK, BufferTypeOK
<1>1. CASE FindFile
  <2>1. PICK f \in unscanned : unscanned' = unscanned \ {f} /\ EnqueueCall(Main, f)
    BY <1>1 DEF FindFile
  <2>2. InMain = {} /\ InMain' = {f}
    BY <1>0, <1>1, <2>1 DEF FindFile, Proceed, EnqueueCall, Goto, InMain, MainHolds
  <2>3. Contents' = Contents /\ UNCHANGED count
    BY <2>1, ContentsKept DEF EnqueueCall
  <2> QED
    BY <1>0, <2>1, <2>2, <2>3, FileFound
<1>2. CASE MainInEnqueue /\ EnqueuePublish(Main)
  <2> DEFINE f == item[Main]
  <2>1. f \in Files /\ Main \in Producers
    BY <1>2, FirmAssumption DEF EnqueuePublish, FirmInv, BufferInv, RolesKept, Files
  <2>2. Contents' = Append(Contents, f)
    BY <1>2, <2>1, PublishAppends DEF FirmInv
  <2>3. InMain = {f} /\ InMain' = {} /\ count' = count + 1 /\ UNCHANGED unscanned
    BY <1>0, <1>2 DEF EnqueuePublish, MainInEnqueue, Goto, InMain, MainHolds, firmOnlyVars, scanVars
  <2> HIDE DEF f
  <2> QED
    BY <1>0, <2>1, <2>2, <2>3, FilePublished
<1>3. CASE MainInEnqueue /\ ~EnqueuePublish(Main)
  <2>1. /\ EnqueueFullCheck(Main) \/ EnqueueLock(Main) \/ EnqueueStore(Main)
        /\ UNCHANGED firmOnlyVars
    BY <1>3 DEF MainInEnqueue, EnqueueStep
  <2>2. InMain' = InMain
    BY <1>0, <2>1 DEF EnqueueFullCheck, EnqueueLock, EnqueueStore, Goto, InMain, MainHolds,
       firmOnlyVars
  <2>3. Contents' = Contents
    <3>1. CASE EnqueueFullCheck(Main) \/ EnqueueLock(Main)
      BY <3>1, ContentsKept DEF EnqueueFullCheck, EnqueueLock
    <3>2. CASE EnqueueStore(Main)
      <4>1. count < BufferSize /\ slots \in [Indices -> Items \cup {NULL}]
        BY <3>2, FirmAssumption DEF EnqueueStore, FirmInv, BufferInv, RoomReserved, BufferTypeOK
      <4>2. \A i \in 1 .. count : slots'[SlotOf(i)] = slots[SlotOf(i)]
        BY <3>2, <4>1, HeadIsFree DEF EnqueueStore, FirmInv
      <4> QED
        BY <3>2, <4>2 DEF EnqueueStore, Contents, SlotOf
    <3> QED
      BY <2>1, <3>1, <3>2
  <2>4. UNCHANGED <<unscanned, count>>
    BY <2>1 DEF EnqueueFullCheck, EnqueueLock, EnqueueStore, firmOnlyVars, scanVars
  <2> QED
    BY <1>0, <2>2, <2>3, <2>4, NoFileMoves
<1>4. CASE ~FindFile /\ ~MainInEnqueue
  <2>1. UNCHANGED <<slots, tail, count, pc, item, unscanned>>
    BY <1>4 DEF MainNext, EnqueueReturned, CountFile, ScanDone, WaitAgain, Tick,
       AllProcessed, MainSetsQuit, JoinWorkers, JoinSignalThread, FreeAll, SetQuitFlag, bufferVars,
       scanVars
  <2>2. InMain' = InMain
    <3>1. CASE EnqueueReturned
      BY <1>0, <2>1, <3>1 DEF EnqueueReturned, Proceed, InMain, MainHolds
    <3>2. CASE ~EnqueueReturned
      <4>1. at[Main] # "enqueuing" /\ at'[Main] # "enqueuing"
        BY <1>0, <1>4, <3>2 DEF MainNext, CountFile, ScanDone, WaitAgain, Tick, AllProcessed,
           MainSetsQuit, JoinWorkers, JoinSignalThread, FreeAll, Proceed
      <4> QED
        BY <4>1 DEF InMain, MainHolds
    <3> QED
      BY <3>1, <3>2
  <2> QED
    BY <1>0, <2>1, <2>2, ContentsKept, NoFileMoves
<1> QED
  BY <1>1, <1>2, <1>3, <1>4

LEMMA SignalFilesStep ==
  ASSUME FirmInv, FilesInv, SignalNext \/ UserInterrupts
  PROVE  FilesInv'
<1> USE ThreadsDistinct
<1>1. UNCHANGED <<slots, tail, count, pc, item, unscanned>>
  BY DEF SignalNext, TestFlag, WaitUsr1, WaitInt, PrintLetter, Printed, SignalRaisesQuit,
     UserInterrupts, SetQuitFlag, bufferVars, scanVars
<1>2. at'[Main] = at[Main]
  BY DEF FirmInv, FirmTypeOK, SignalNext, TestFlag, WaitUsr1, WaitInt, PrintLetter, Printed,
     SignalRaisesQuit, UserInterrupts, Proceed
<1>3. InMain' = InMain
  BY <1>1, <1>2 DEF InMain, MainHolds
<1> QED
  BY <1>1, <1>3, OthersKeepHands, ContentsKept, NoFileMoves

(* A worker leaves main and the directory alone. *)
LEMMA WorkerLeavesMain ==
  ASSUME FirmInv, NEW w \in Workers, WorkerNext(w)
  PROVE  /\ InMain' = InMain /\ UNCHANGED unscanned
         /\ \A v \in Workers \ {w} : /\ InHand(v)' <=> InHand(v)
                                     /\ item'[v] = item[v]
                                     /\ \A l : Owes(v, l)' <=> Owes(v, l)
<1> USE ThreadsDistinct
<1>1. \A t \in FirmThreads \ {w} : at'[t] = at[t]
  BY DEF FirmInv, FirmTypeOK, WorkerNext, CheckQuit, WorkerExits, WorkerDequeues, WorkerInDequeue,
     DequeueReturned, SkipLetter, LockLetter, AddLetter, FileCounted, FileDone, Proceed,
     firmOnlyVars
<1>2. \A t \in Threads \ {w} : pc'[t] = pc[t] /\ item'[t] = item[t]
  BY DEF FirmInv, FirmTypeOK, BufferTypeOK, WorkerNext, CheckQuit, WorkerExits, WorkerDequeues,
     WorkerInDequeue, DequeueStep, DequeueLock, DequeueRead, DequeueTake, DequeueNull,
     DequeueRetry, DequeueCall, DequeueReturned, DequeueReturn, SkipLetter, LockLetter,
     AddLetter, FileCounted, FileDone, Goto, bufferVars
<1>3. \A v \in Workers \ {w} : letter'[v] = letter[v]
  BY DEF FirmInv, FirmTypeOK, WorkerNext, CheckQuit, WorkerExits, WorkerDequeues, WorkerInDequeue,
     DequeueReturned, SkipLetter, LockLetter, AddLetter, FileCounted, FileDone, firmOnlyVars,
     letterVars
<1>4. UNCHANGED unscanned
  BY DEF WorkerNext, CheckQuit, WorkerExits, WorkerDequeues, WorkerInDequeue, DequeueReturned,
     SkipLetter, LockLetter, AddLetter, FileCounted, FileDone, firmOnlyVars, scanVars
<1>5. InMain' = InMain
  BY <1>1, <1>2 DEF InMain, MainHolds
<1>6. Workers \ {w} \subseteq FirmThreads \ {w} /\ Workers \ {w} \subseteq Threads \ {w}
  OBVIOUS
<1> QED
  BY <1>1, <1>2, <1>3, <1>4, <1>5, <1>6 DEF InHand, Owes

(* The steps of w that move no file and add no letter. *)
LEMMA QuietWorkerStep ==
  ASSUME FirmInv, NEW w \in Workers,
         \/ CheckQuit(w) \/ WorkerExits(w) \/ WorkerDequeues(w) \/ LockLetter(w) \/ FileCounted(w)
         \/ DequeueReturned(w)
         \/ WorkerInDequeue(w) /\ ~DequeueTake(w)
  PROVE  /\ InHand(w)' <=> InHand(w)
         /\ InHand(w) => item'[w] = item[w]
         /\ \A l \in Letters : InHand(w) => (Owes(w, l)' <=> Owes(w, l))
         /\ Contents' = Contents
         /\ UNCHANGED <<processedFiles, alphabetCounter, count>>
<1> USE ThreadsDistinct
    DEF FirmInv, FirmTypeOK, BufferInv, BufferTypeOK, Proceed, Goto, InHand, Owes, WorkersCoupled
<1>1. CASE CheckQuit(w) \/ WorkerExits(w)
  <2>1. UNCHANGED <<slots, tail, count, pc, item, processedFiles, alphabetCounter>>
    BY <1>1 DEF CheckQuit, WorkerExits, bufferVars, letterVars, workVars
  <2> QED
    BY <1>1, <2>1, ContentsKept DEF CheckQuit, WorkerExits
<1>2. CASE WorkerDequeues(w)
  <2>1. UNCHANGED <<slots, tail, count, item, processedFiles, alphabetCounter>>
    BY <1>2 DEF WorkerDequeues, DequeueCall, letterVars, workVars
  <2> QED
    BY <1>2, <2>1, ContentsKept DEF WorkerDequeues, DequeueCall
<1>3. CASE LockLetter(w)
  <2>1. UNCHANGED <<slots, tail, count, pc, item, processedFiles, alphabetCounter, letter>>
    BY <1>3 DEF LockLetter, bufferVars, workVars
  <2> QED
    BY <1>3, <2>1, ContentsKept DEF LockLetter
<1>4. CASE FileCounted(w)
  <2>1. UNCHANGED <<slots, tail, count, pc, item, processedFiles, alphabetCounter, letter>>
    BY <1>4 DEF FileCounted, bufferVars, workVars, letterVars
  <2>2. letter[w] = LetterCount + 1
    BY <1>4, FirmAssumption DEF FileCounted, Letters
  <2>3. \A l \in Letters : ~ (letter[w] <= l)
    BY <2>2, FirmAssumption DEF Letters
  <2> QED
    BY <1>4, <2>1, <2>3, ContentsKept DEF FileCounted
<1>5. CASE DequeueReturned(w)
  <2>1. UNCHANGED <<slots, tail, count, item, processedFiles, alphabetCounter>>
    BY <1>5 DEF DequeueReturned, DequeueReturn, workVars
  <2>2. /\ at[w] = "dequeuing" /\ pc[w] = "deq_done" /\ pc'[w] = "idle"
        /\ at'[w] = (IF item[w] = NULL THEN "check_quit" ELSE "count_letters")
        /\ letter'[w] = 1
    BY <1>5 DEF DequeueReturned, DequeueReturn
  <2>3. \A l \in Letters : 1 <= l
    BY DEF Letters
  <2> QED
    BY <2>1, <2>2, <2>3, ContentsKept
<1>6. CASE WorkerInDequeue(w) /\ ~DequeueTake(w)
  <2>1. /\ DequeueLock(w) \/ DequeueRead(w) \/ DequeueNull(w) \/ DequeueRetry(w)
        /\ at[w] = "dequeuing" /\ UNCHANGED firmOnlyVars
    BY <1>6 DEF WorkerInDequeue, DequeueStep
  <2>2. UNCHANGED <<slots, tail, count>>
    BY <2>1 DEF DequeueLock, DequeueRead, DequeueNull, DequeueRetry
  <2>3. ~InHand(w) /\ ~InHand(w)'
    BY <2>1 DEF DequeueLock, DequeueRead, DequeueNull, DequeueRetry, firmOnlyVars
  <2> QED
    BY <2>1, <2>2, <2>3, ContentsKept DEF firmOnlyVars, workVars, letterVars
<1> QED
  BY <1>1, <1>2, <1>3, <1>4, <1>5, <1>6

LEMMA WorkerFilesStep ==
  ASSUME FirmInv, FilesInv, NEW w \in Workers, WorkerNext(w)
  PROVE  FilesInv'
<1> USE ThreadsDistinct
<1>0. /\ InMain' = InMain /\ UNCHANGED unscanned
      /\ \A v \in Workers \ {w} : /\ InHand(v)' <=> InHand(v)
                                  /\ item'[v] = item[v]
                                  /\ \A l : Owes(v, l)' <=> Owes(v, l)
  BY WorkerLeavesMain
<1>1. CASE \/ CheckQuit(w) \/ WorkerExits(w) \/ WorkerDequeues(w) \/ LockLetter(w) \/ FileCounted(w)
           \/ DequeueReturned(w)
           \/ WorkerInDequeue(w) /\ ~DequeueTake(w)
  <2>1. HandsKept /\ OwesKept
    BY <1>0, <1>1, QuietWorkerStep DEF HandsKept, OwesKept
  <2> QED
    BY <1>0, <1>1, <2>1, QuietWorkerStep, NoFileMoves
<1>2. CASE WorkerInDequeue(w) /\ DequeueTake(w)
  <2>1. /\ Contents # <<>> /\ item[w] = Head(Contents) /\ Contents' = Tail(Contents)
        /\ count' = count - 1 /\ item' = item
    BY <1>2, TakeDropsHead DEF FirmInv, Workers, DequeueTake
  <2>2. item[w] # NULL
    <3>1. Head(Contents) \in Files
      BY <2>1, ContentsOfFiles
    <3> QED
      BY <2>1, <3>1, ItemsAssumption DEF Files
  <2>3. at[w] = "dequeuing" /\ pc[w] = "deq_take" /\ pc'[w] = "deq_done" /\ UNCHANGED firmOnlyVars
    BY <1>2 DEF WorkerInDequeue, DequeueTake, Goto, FirmInv, FirmTypeOK, BufferTypeOK
  <2>4. ~InHand(w) /\ InHand(w)'
    BY <2>1, <2>2, <2>3 DEF InHand
  <2>5. OwesKept
    BY <1>0, <2>4 DEF OwesKept
  <2>6. \A l \in Letters : Owes(w, l)'
    BY <2>3 DEF Owes, firmOnlyVars
  <2>7. UNCHANGED <<processedFiles, alphabetCounter>>
    BY <2>3 DEF firmOnlyVars, workVars, letterVars
  <2> QED
    BY <1>0, <2>1, <2>4, <2>5, <2>6, <2>7, FileTaken
<1>3. CASE SkipLetter(w) \/ AddLetter(w)
  <2>0. item[w] \in Files /\ letter[w] \in Letters
    BY <1>3 DEF SkipLetter, AddLetter, Proceed, FirmInv, WorkersCoupled
  <2>1. PICK f \in Files, k \in Letters : f = item[w] /\ k = letter[w] /\ LettersIn[f][k] \in Nat
    BY <2>0, FirmAssumption
  <2>2. /\ at[w] \in {"count_letters", "add_letter"} /\ at'[w] = "count_letters"
        /\ letter'[w] = k + 1
    BY <1>3, <2>1 DEF SkipLetter, AddLetter, Proceed, FirmInv, FirmTypeOK
  <2>3. UNCHANGED <<slots, tail, count, pc, item, processedFiles>>
    BY <1>3 DEF SkipLetter, AddLetter, bufferVars, workVars
  <2>4. alphabetCounter' = [alphabetCounter EXCEPT ![k] = @ + LettersIn[f][k]]
    <3>1. CASE AddLetter(w)
      BY <2>1, <3>1 DEF AddLetter, Proceed, FirmInv, FirmTypeOK, LettersLocked
    <3>2. CASE SkipLetter(w)
      BY <2>1, <3>2 DEF SkipLetter, FirmInv, FirmTypeOK
    <3> QED
      BY <1>3, <3>1, <3>2
  <2>5. InHand(w) /\ InHand(w)' /\ Owes(w, k) /\ ~Owes(w, k)'
    <3>1. InHand(w) /\ InHand(w)'
      BY <2>2 DEF InHand
    <3>2. k = letter[w] /\ k \in Int /\ k <= k /\ ~ (k + 1 <= k)
      BY <2>1 DEF Letters
    <3>3. letter'[w] = k + 1
      BY <2>2
    <3> QED
      BY <2>2, <3>1, <3>2, <3>3 DEF Owes
  <2>6. \A l \in Letters : l # k => (Owes(w, l)' <=> Owes(w, l))
    <3>1. \A l \in Letters : l # k => (k + 1 <= l <=> k <= l)
      BY <2>1 DEF Letters
    <3> QED
      BY <2>1, <2>2, <3>1 DEF Owes
  <2>7. \A v \in Workers, l \in Letters : (v # w \/ l # k) => (Owes(v, l)' <=> Owes(v, l))
    BY <1>0, <2>6
  <2>8. HandsKept /\ Contents' = Contents
    BY <1>0, <2>3, <2>5, ContentsKept DEF HandsKept
  <2> QED
    BY <1>0, <2>1, <2>3, <2>4, <2>5, <2>7, <2>8, LetterCounted
<1>4. CASE FileDone(w)
  <2>1. UNCHANGED <<slots, tail, count, pc, item, alphabetCounter>>
    BY <1>4 DEF FileDone, bufferVars, letterVars
  <2>2. /\ at[w] = "file_done" /\ at'[w] = "check_quit" /\ pc[w] = "idle"
        /\ processedFiles' = processedFiles + 1 /\ processedFiles \in Nat
    BY <1>4 DEF FileDone, Proceed, FirmInv, FirmTypeOK, BufferTypeOK, BufferInv, WorkersCoupled
  <2>3. InHand(w) /\ ~InHand(w)' /\ \A l \in Letters : ~Owes(w, l)
    BY <2>1, <2>2 DEF InHand, Owes
  <2> QED
    BY <1>0, <2>1, <2>2, <2>3, ContentsKept, FileReported
<1> QED
  BY <1>1, <1>2, <1>3, <1>4 DEF WorkerNext

LEMMA FilesInvStep == FirmInv /\ FilesInv /\ [FirmNext]_firmVars => FilesInv'
<1> SUFFICES ASSUME FirmInv, FilesInv, [FirmNext]_firmVars PROVE FilesInv'
  OBVIOUS
<1>1. CASE UNCHANGED firmVars
  <2>1. UNCHANGED <<slots, tail, count, at, pc, item, unscanned, processedFiles, alphabetCounter, letter>>
    BY <1>1 DEF firmVars, firmOnlyVars, bufferVars, scanVars, workVars, letterVars
  <2>2. HandsKept /\ OwesKept /\ InMain' = InMain
    BY <2>1 DEF HandsKept, OwesKept, InHand, Owes, InMain, MainHolds
  <2> QED
    BY <2>1, <2>2, ContentsKept, NoFileMoves
<1> QED
  BY <1>1, MainFilesStep, WorkerFilesStep, SignalFilesStep DEF FirmNext

THEOREM FilesInvariance == FirmSpec => []FilesInv
<1>1. FirmInit => FirmInv /\ FilesInv
  BY FirmInvInit, FilesInvInit
<1>2. FirmInv /\ FilesInv /\ [FirmNext]_firmVars => (FirmInv /\ FilesInv)'
  BY FirmInvStep, FilesInvStep
<1> QED
  BY <1>1, <1>2, PTL DEF FirmSpec

(* At every moment each letter counter is the sum over the files that have  *)
(* added the letter.                                                       *)
THEOREM FirmLettersAccounted == FirmSpec => []LettersAccounted
<1>1. FilesInv => LettersAccounted
  BY DEF FilesInv
<1> QED
  BY <1>1, FilesInvariance, PTL

LEMMA DisjointFiles ==
  ASSUME NEW S \in SUBSET Files, NEW T \in SUBSET Files, S \cap T = {}
  PROVE  Cardinality(S \cup T) = Cardinality(S) + Cardinality(T)
<1>1. IsFiniteSet(S) /\ IsFiniteSet(T) /\ Cardinality(S) \in Nat /\ Cardinality(T) \in Nat
  BY FileSetsFinite
<1>2. Cardinality(S \cup T) = Cardinality(S) + Cardinality(T) - Cardinality(S \cap T)
  BY <1>1, FS_Union
<1>3. Cardinality(S \cap T) = 0
  BY FS_EmptySet
<1> QED
  BY <1>1, <1>2, <1>3

LEMMA FilesCounted == FirmInv /\ FilesInv => FilesConserved
<1> SUFFICES ASSUME FirmInv, FilesInv PROVE FilesConserved
  OBVIOUS
<1>1. Hands = {w \in Workers : InHand(w)} /\ IsFiniteSet(Hands)
  BY FirmAssumption, FS_Subset DEF Hands
<1>2. Cardinality(InHands) = Cardinality(Hands)
  <2> DEFINE held == [w \in Hands |-> item[w]]
  <2>1. held \in Bijection(Hands, InHands)
    BY Fun_IsBij DEF FilesInv, FilesApart, InHands
  <2> QED
    BY <1>1, <2>1, FS_Bijection DEF ExistsBijection
<1>3. Cardinality(Enqueued) = count
  <2>1. count \in Nat /\ DOMAIN Contents = 1 .. count
    BY DEF FirmInv, FirmTypeOK, BufferTypeOK, Contents
  <2>2. Contents \in Bijection(1 .. count, Enqueued)
    <3>1. \A i \in 1 .. count : Contents[i] \in Enqueued
      BY <2>1 DEF Enqueued, Range
    <3>2. \A f \in Enqueued : \E i \in 1 .. count : Contents[i] = f
      BY <2>1 DEF Enqueued, Range
    <3>3. Contents \in [1 .. count -> Enqueued]
      BY <3>1 DEF Contents
    <3>4. \A i, j \in 1 .. count : Contents[i] = Contents[j] => i = j
      BY DEF FilesInv, FilesApart
    <3> QED
      BY <3>2, <3>3, <3>4, Fun_IsBij
  <2>3. IsFiniteSet(1 .. count) /\ Cardinality(1 .. count) = count
    BY <2>1, FS_Interval
  <2> QED
    BY <2>2, <2>3, FS_Bijection DEF ExistsBijection
<1>4. Cardinality(InMain) = IF MainHolds THEN 1 ELSE 0
  BY FS_Singleton, FS_EmptySet DEF InMain
<1>5. Cardinality(Files) = Cardinality(unscanned) + Cardinality(Enqueued) + Cardinality(InHands)
                           + Cardinality(InMain) + Cardinality(Processed)
  <2> DEFINE A == unscanned \cup Enqueued
             B == A \cup InHands
             C == B \cup InMain
  <2>1. C \subseteq Files /\ Processed = Files \ C
    BY ProcessedIs DEF FilesInv, FilesApart
  <2>2. unscanned \cap Enqueued = {} /\ A \cap InHands = {} /\ B \cap InMain = {} /\ C \cap Processed = {}
    BY <2>1 DEF FilesInv, FilesApart
  <2>3. /\ unscanned \subseteq Files /\ Enqueued \subseteq Files /\ InHands \subseteq Files
        /\ InMain \subseteq Files /\ A \subseteq Files /\ B \subseteq Files /\ Processed \subseteq Files
    BY <2>1
  <2> HIDE DEF A, B, C
  <2>4. Cardinality(A) = Cardinality(unscanned) + Cardinality(Enqueued)
    BY <2>2, <2>3, DisjointFiles DEF A
  <2>5. Cardinality(B) = Cardinality(A) + Cardinality(InHands)
    BY <2>2, <2>3, DisjointFiles DEF B
  <2>6. Cardinality(C) = Cardinality(B) + Cardinality(InMain)
    BY <2>2, <2>3, DisjointFiles DEF C
  <2>7. Cardinality(C \cup Processed) = Cardinality(C) + Cardinality(Processed) /\ C \cup Processed = Files
    BY <2>1, <2>2, <2>3, DisjointFiles
  <2>8. /\ Cardinality(unscanned) \in Nat /\ Cardinality(Enqueued) \in Nat /\ Cardinality(InHands) \in Nat
        /\ Cardinality(InMain) \in Nat /\ Cardinality(Processed) \in Nat
    BY <2>3, FileSetsFinite
  <2> QED
    BY <2>4, <2>5, <2>6, <2>7, <2>8
<1> QED
  BY <1>1, <1>2, <1>3, <1>4, <1>5 DEF FilesConserved, FilesInv, ProcessedCounted

(* Every file is in exactly one place or has been processed once.          *)
THEOREM FirmFilesConserved == FirmSpec => []FilesConserved
BY FilesCounted, FirmInvariance, FilesInvariance, PTL
-----------------------------------------------------------------------------
(* totalFiles runs at most one file behind the scan, and once main has      *)
(* left the wait loop every file has been reported.                        *)
ScanSteps == {"scan", "enqueuing", "count_file"}
AfterWait == {"set_quit", "join_workers", "join_signal", "free", "exited"}

ScanCounted ==
  /\ Cardinality(Files \ unscanned)
       = totalFiles + (IF at[Main] \in {"enqueuing", "count_file"} THEN 1 ELSE 0)
  /\ at[Main] \notin ScanSteps => unscanned = {}
  /\ at[Main] \in AfterWait => processedFiles = Cardinality(Files)

LEMMA AllReported ==
  ASSUME FilesInv, processedFiles = Cardinality(Files)
  PROVE  Processed = Files
<1>1. Processed \subseteq Files /\ Cardinality(Processed) = Cardinality(Files)
  BY ProcessedIs DEF FilesInv, ProcessedCounted
<1> QED
  BY <1>1, FileSetsFinite, FS_Subset

LEMMA ScanCountedInit == FirmInit => ScanCounted
<1> SUFFICES ASSUME FirmInit PROVE ScanCounted
  OBVIOUS
<1>1. at[Main] = "scan" /\ unscanned = Files /\ totalFiles = 0
  BY ThreadsDistinct DEF FirmInit
<1>2. Cardinality(Files \ unscanned) = 0
  BY <1>1, FS_EmptySet
<1> QED
  BY <1>1, <1>2 DEF ScanCounted, ScanSteps, AfterWait

LEMMA ScanCountedStep == FirmInv /\ FilesInv /\ ScanCounted /\ [FirmNext]_firmVars => ScanCounted'
<1> SUFFICES ASSUME FirmInv, FilesInv, ScanCounted, [FirmNext]_firmVars PROVE ScanCounted'
  OBVIOUS
<1> USE ThreadsDistinct
<1>0. /\ at \in [FirmThreads -> MainSteps \cup WorkerSteps \cup SignalSteps]
      /\ totalFiles \in Nat /\ processedFiles \in Nat /\ Cardinality(Files) \in Nat
  BY FileSetsFinite DEF FirmInv, FirmTypeOK
<1>1. CASE FindFile
  <2>1. PICK f \in unscanned : unscanned' = unscanned \ {f}
    BY <1>1 DEF FindFile
  <2>2. Files \ unscanned' = (Files \ unscanned) \cup {f} /\ f \notin Files \ unscanned
    BY <2>1 DEF FirmInv, FirmTypeOK
  <2>3. Cardinality(Files \ unscanned') = Cardinality(Files \ unscanned) + 1
    BY <2>2, FileSetsFinite, FS_AddElement
  <2>4. at[Main] = "scan" /\ at'[Main] = "enqueuing" /\ UNCHANGED totalFiles
    BY <1>0, <1>1 DEF FindFile, Proceed
  <2> QED
    BY <1>0, <2>3, <2>4 DEF ScanCounted, ScanSteps, AfterWait
<1>2. CASE CountFile
  BY <1>0, <1>2 DEF CountFile, Proceed, ScanCounted, ScanSteps, AfterWait
<1>3. CASE ScanDone
  BY <1>0, <1>3 DEF ScanDone, Proceed, scanVars, ScanCounted, ScanSteps, AfterWait
<1>4. CASE AllProcessed
  <2>1. at[Main] = "wait" /\ processedFiles = totalFiles /\ UNCHANGED <<unscanned, totalFiles, processedFiles>>
    BY <1>4 DEF AllProcessed, Proceed, scanVars, workVars
  <2>2. unscanned = {} /\ Cardinality(Files \ unscanned) = totalFiles
    BY <1>0, <2>1 DEF ScanCounted, ScanSteps
  <2>3. totalFiles = Cardinality(Files)
    BY <2>2
  <2>4. at'[Main] = "set_quit"
    BY <1>0, <1>4 DEF AllProcessed, Proceed
  <2> QED
    BY <2>1, <2>2, <2>3, <2>4 DEF ScanCounted, ScanSteps
<1>5. CASE \E w \in Workers : FileDone(w)
  <2>1. PICK w \in Workers : FileDone(w)
    BY <1>5
  <2>2. UNCHANGED <<unscanned, totalFiles>> /\ at'[Main] = at[Main] /\ InHand(w)
    BY <1>0, <2>1 DEF FileDone, Proceed, scanVars, InHand
  <2>3. item[w] \notin Processed /\ item[w] \in Files
    BY <2>2, ProcessedIs DEF FilesInv, FilesApart, InHands, Hands
  <2>4. processedFiles # Cardinality(Files)
    BY <2>3, AllReported
  <2>5. at[Main] \notin AfterWait
    BY <2>4 DEF ScanCounted
  <2> QED
    BY <2>2, <2>5 DEF ScanCounted
<1>6. CASE ~ (FindFile \/ CountFile \/ ScanDone \/ AllProcessed \/ \E w \in Workers : FileDone(w))
  <2>1. UNCHANGED <<unscanned, totalFiles, processedFiles>>
    BY <1>6 DEF FirmNext, MainNext, MainInEnqueue, EnqueueReturned, WaitAgain, Tick,
       MainSetsQuit, JoinWorkers, JoinSignalThread, FreeAll,
       WorkerNext, CheckQuit, WorkerExits, WorkerDequeues, WorkerInDequeue, DequeueReturned,
       SkipLetter, LockLetter, AddLetter, FileCounted, SignalNext, TestFlag,
       WaitUsr1, WaitInt, PrintLetter, Printed, SignalRaisesQuit, UserInterrupts, firmVars,
       firmOnlyVars, scanVars, workVars
  <2>2. \/ at'[Main] = at[Main]
        \/ at[Main] = "enqueuing" /\ at'[Main] = "count_file"
        \/ at[Main] \in {"wait", "tick"} /\ at'[Main] \in {"wait", "tick"}
        \/ at[Main] \in AfterWait /\ at'[Main] \in AfterWait
    BY <1>0, <1>6 DEF FirmNext, MainNext, MainInEnqueue, EnqueueReturned, WaitAgain, Tick,
       MainSetsQuit, JoinWorkers, JoinSignalThread, FreeAll,
       WorkerNext, CheckQuit, WorkerExits, WorkerDequeues, WorkerInDequeue, DequeueReturned,
       SkipLetter, LockLetter, AddLetter, FileCounted, SignalNext, TestFlag,
       WaitUsr1, WaitInt, PrintLetter, Printed, SignalRaisesQuit, UserInterrupts, firmVars,
       firmOnlyVars, Proceed, AfterWait
  <2> QED
    BY <2>1, <2>2 DEF ScanCounted, ScanSteps, AfterWait
<1> QED
  BY <1>1, <1>2, <1>3, <1>4, <1>5, <1>6

LEMMA CompleteAfterWait == FilesInv /\ ScanCounted => ResultComplete
<1> SUFFICES ASSUME FilesInv, ScanCounted, at[Main] \in AfterWait, NEW l \in Letters
             PROVE  alphabetCounter[l] = SumOver(Files, l)
  BY DEF ResultComplete, AfterWait
<1>1. Processed = Files
  BY AllReported DEF ScanCounted
<1>2. unscanned \cup Enqueued \cup InHands \cup InMain = {}
  BY <1>1, ProcessedIs DEF FilesInv, FilesApart
<1>3. OwedInHands(l) \subseteq InHands
  BY DEF OwedInHands, InHands
<1>4. Files \ Owed(l) = Files
  BY <1>2, <1>3, OwedIs
<1> QED
  BY <1>4 DEF FilesInv, LettersAccounted

(* When main leaves the wait loop every file is in the final counters.     *)
THEOREM FirmResultComplete == FirmSpec => []ResultComplete
<1>1. FirmInit => FirmInv /\ FilesInv /\ ScanCounted
  BY FirmInvInit, FilesInvInit, ScanCountedInit
<1>2. FirmInv /\ FilesInv /\ ScanCounted /\ [FirmNext]_firmVars => (FirmInv /\ FilesInv /\ ScanCounted)'
  BY FirmInvStep, FilesInvStep, ScanCountedStep
<1> QED
  BY <1>1, <1>2, CompleteAfterWait, PTL DEF FirmSpec
=============================================================================
