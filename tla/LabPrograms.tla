----------------------------- MODULE LabPrograms -----------------------------
(***************************************************************************)
(* The programs of the repository that are small enough to be checked side *)
(* by side.  They never run together and share nothing: program says which *)
(* of them runs, and the variables of the others stay as they start.       *)
(***************************************************************************)
EXTENDS CircularBuffer, BallThrowers, Students, ArrayThinning, DivisibilityThreads,
        CharCount, Channel, RollCall, PipeStar, FileParts, ChildReaping,
        HelpFirm, FailFirm, Integral, WordChain, BlockWriters, SignalCounter,
        BlockCopy, Fifo

VARIABLE program

Programs == {"ring", "throwers", "students", "array", "testers", "chars", "channel",
             "roll", "star", "parts", "reaping", "help", "fail", "integral", "chain",
             "blocks", "counter", "copy", "fifo"}

labVars == <<program, bufferVars, throwersVars, studentsVars, arrayVars, testersVars,
             charVars, channelVars, rollVars, starVars, partVars, reaperVars,
             helpVars, failVars, integralVars, chainVars, blockVars, counterVars,
             copyVars, fifoVars>>

(* The variables of a program that does not run keep their first values.   *)
LabTypeOK == /\ program \in {"ring", "fail"} => BufferTypeOK
             /\ program = "throwers" => ThrowersTypeOK
             /\ program = "students" => StudentsTypeOK
             /\ program = "array" => ArrayTypeOK
             /\ program = "testers" => TestersTypeOK
             /\ program = "chars" => CharTypeOK
             /\ program = "channel" => ChannelTypeOK
             /\ program = "roll" => RollTypeOK
             /\ program = "star" => StarTypeOK
             /\ program = "parts" => PartsTypeOK
             /\ program = "reaping" => ReapingTypeOK
             /\ program = "help" => HelpTypeOK
             /\ program = "fail" => FailTypeOK
             /\ program = "integral" => IntegralTypeOK
             /\ program = "chain" => ChainTypeOK
             /\ program = "blocks" => BlockTypeOK
             /\ program = "counter" => CounterTypeOK
             /\ program = "copy" => CopyTypeOK
             /\ program = "fifo" => FifoTypeOK

LabInit == /\ program \in Programs
           /\ BufferInit
           /\ ThrowersInit
           /\ StudentsInit
           /\ ArrayInit
           /\ TestersInit
           /\ CharInit
           /\ ChannelInit
           /\ RollInit
           /\ StarInit
           /\ PartsInit
           /\ ReapingInit
           /\ HelpInit
           /\ FailInit
           /\ IntegralInit
           /\ ChainInit
           /\ BlockInit
           /\ CounterInit
           /\ CopyInit
           /\ FifoInit

(* Program p takes a step, the other programs do not run.  The ring is run *)
(* by itself and by the firm of etap4Fail.c.                               *)
Only(p) == /\ program = p
           /\ UNCHANGED program
           /\ p \notin {"ring", "fail"} => UNCHANGED bufferVars
           /\ p # "throwers" => UNCHANGED throwersVars
           /\ p # "students" => UNCHANGED studentsVars
           /\ p # "array" => UNCHANGED arrayVars
           /\ p # "testers" => UNCHANGED testersVars
           /\ p # "chars" => UNCHANGED charVars
           /\ p # "channel" => UNCHANGED channelVars
           /\ p # "roll" => UNCHANGED rollVars
           /\ p # "star" => UNCHANGED starVars
           /\ p # "parts" => UNCHANGED partVars
           /\ p # "reaping" => UNCHANGED reaperVars
           /\ p # "help" => UNCHANGED helpVars
           /\ p # "fail" => UNCHANGED failVars
           /\ p # "integral" => UNCHANGED integralVars
           /\ p # "chain" => UNCHANGED chainVars
           /\ p # "blocks" => UNCHANGED blockVars
           /\ p # "counter" => UNCHANGED counterVars
           /\ p # "copy" => UNCHANGED copyVars
           /\ p # "fifo" => UNCHANGED fifoVars

LabNext == \/ Only("ring") /\ BufferNext
           \/ Only("throwers") /\ ThrowersNext
           \/ Only("students") /\ StudentsNext
           \/ Only("array") /\ ArrayNext
           \/ Only("testers") /\ TestersNext
           \/ Only("chars") /\ CharNext
           \/ Only("channel") /\ ChannelNext
           \/ Only("roll") /\ RollNext
           \/ Only("star") /\ StarNext
           \/ Only("parts") /\ PartsNext
           \/ Only("reaping") /\ ReapingNext
           \/ Only("help") /\ HelpNext
           \/ Only("fail") /\ FailNext
           \/ Only("integral") /\ IntegralNext
           \/ Only("chain") /\ ChainNext
           \/ Only("blocks") /\ BlockNext
           \/ Only("counter") /\ CounterNext
           \/ Only("copy") /\ CopyNext
           \/ Only("fifo") /\ FifoNext

(* The fairness of the programs with a liveness property. *)
LabFairness ==
  /\ WF_testersVars(program = "testers" /\ Counter)
  /\ WF_testersVars(program = "testers" /\ Watcher)
  /\ \A t \in Testers : WF_testersVars(program = "testers" /\ Test(t))
  /\ WF_starVars(program = "star" /\ Center)
  /\ WF_starVars(program = "star" /\ CenterHandles)
  /\ WF_partVars(program = "parts" /\ Split)
  /\ \A i \in Parts :
        /\ WF_partVars(program = "parts" /\ WritePart(i))
        /\ WF_partVars(program = "parts" /\ PartInterrupted(i))
  /\ WF_helpVars(program = "help" /\ HelpMain)
  /\ WF_helpVars(program = "help" /\ HelpSignals)
  /\ \A w \in HelpWorkers : WF_helpVars(program = "help" /\ HelpWorker(w))
  /\ \A c \in Chain : WF_chainVars(program = "chain" /\ ChainChild(c))
  /\ WF_blockVars(program = "blocks" /\ BlockParent)
  /\ \A c \in BlockKids :
        /\ WF_blockVars(program = "blocks" /\ BlockKid(c))
        /\ WF_blockVars(program = "blocks" /\ (HandleUsr1(c) \/ HandleAlarm(c)))

LabSpec == LabInit /\ [][LabNext]_labVars /\ LabFairness
=============================================================================
