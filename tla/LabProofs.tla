------------------------------ MODULE LabProofs ------------------------------
(***************************************************************************)
(* The programs of processes, signals, pipes and files, whose safety is    *)
(* proved for any number of children, blocks, writers, parts and signals,  *)
(* wherever the signals fall; and the programs of LabPrograms side by side.*)
(***************************************************************************)
EXTENDS LabPrograms, SharedMemoryProofs
-----------------------------------------------------------------------------
LEMMA ZombiesInit == ReapingInit => NoZombieForgotten
BY DEF ReapingInit, NoZombieForgotten, Zombies

LEMMA ZombiesStep == NoZombieForgotten /\ [ReapingNext]_reaperVars => NoZombieForgotten'
<1> USE DEF NoZombieForgotten, Zombies
<1> SUFFICES ASSUME NoZombieForgotten, [ReapingNext]_reaperVars PROVE NoZombieForgotten'
  OBVIOUS
<1>1. ASSUME NEW k \in Kids, KidExits(k) PROVE NoZombieForgotten'
  BY <1>1 DEF KidExits
<1>2. CASE HandlerStarts
  BY <1>2 DEF HandlerStarts
<1>3. ASSUME NEW k \in Kids, HandlerReaps(k) PROVE NoZombieForgotten'
  BY <1>3 DEF HandlerReaps
<1>4. CASE HandlerReturns
  BY <1>4 DEF HandlerReturns
<1>5. CASE AlarmEndsLoop
  BY <1>5 DEF AlarmEndsLoop, ReaperStep
<1>6. ASSUME NEW k \in Kids, WaitReaps(k) PROVE NoZombieForgotten'
  BY <1>6 DEF WaitReaps, ReaperStep
<1>7. CASE NoChildLeft \/ ReaperExits
  BY <1>7 DEF NoChildLeft, ReaperExits, ReaperStep
<1>8. CASE UNCHANGED reaperVars
  BY <1>8 DEF reaperVars
<1> QED
  BY <1>1, <1>2, <1>3, <1>4, <1>5, <1>6, <1>7, <1>8 DEF ReapingNext, Reaper

(* No zombie is left without a SIGCHLD to come while the parent is in its  *)
(* loop (prog14.c:32-50).  The property is inductive: the handler clears   *)
(* the signal before it begins to reap, and goes on until nothing is left. *)
THEOREM ReapingForgetsNoZombie == ReapingSpec => []NoZombieForgotten
BY ZombiesInit, ZombiesStep, PTL DEF ReapingSpec

(* The types of prog14.c. *)
LEMMA ReapingTypesInit == ReapingInit => ReapingTypeOK
BY DEF ReapingInit, ReapingTypeOK

LEMMA ReapingTypesStep == ReapingTypeOK /\ [ReapingNext]_reaperVars => ReapingTypeOK'
<1> SUFFICES ASSUME ReapingTypeOK, [ReapingNext]_reaperVars PROVE ReapingTypeOK'
  OBVIOUS
<1> USE DEF ReapingTypeOK
<1>1. ASSUME NEW k \in Kids, KidExits(k) \/ HandlerReaps(k) \/ WaitReaps(k) PROVE ReapingTypeOK'
  BY <1>1 DEF KidExits, HandlerReaps, WaitReaps, ReaperStep, Reap
<1>2. CASE HandlerStarts
  BY <1>2 DEF HandlerStarts
<1>3. CASE HandlerReturns \/ AlarmEndsLoop \/ NoChildLeft \/ ReaperExits
  BY <1>3 DEF HandlerReturns, AlarmEndsLoop, NoChildLeft, ReaperExits, ReaperStep
<1>4. CASE UNCHANGED reaperVars
  BY <1>4 DEF reaperVars
<1> QED
  BY <1>1, <1>2, <1>3, <1>4 DEF ReapingNext, Reaper
-----------------------------------------------------------------------------
(* The counts of prog15.c never overtake one another: shown, noted,        *)
(* handled, sent.  A SIGUSR2 that is pending has been sent and not handled.*)
CountsInOrder == /\ {shownCount, printedCount, usr2Count, usr2Sent} \subseteq Nat
                 /\ printedCount <= usr2Count
                 /\ printedCount > 0 => shownCount < printedCount
                 /\ usr2Count <= usr2Sent
                 /\ "SIGUSR2" \in usrPending => usr2Count < usr2Sent

(* Outside sigsuspend no signal is handled: what was noted stays true.     *)
NotedAsleep == /\ sigParentAt \in {"suspend", "suspended"} => printedCount = usr2Count
               /\ sigParentAt = "print" => printedCount # usr2Count

CounterInv == CountsInOrder /\ NotedAsleep

LEMMA CounterStepInv == CounterInv /\ [CounterNext]_counterVars => CounterInv'
<1> SUFFICES ASSUME CounterInv, [CounterNext]_counterVars PROVE CounterInv'
  OBVIOUS
<1> USE DEF CounterInv, CountsInOrder, NotedAsleep
<1>1. CASE SendsUsr1
  BY <1>1 DEF SendsUsr1
<1>2. CASE SendsUsr2
  BY <1>2 DEF SendsUsr2
<1>3. ASSUME NEW s \in {"SIGUSR1", "SIGUSR2"}, HandleSignal(s) PROVE CounterInv'
  BY <1>3 DEF HandleSignal, Delivered
<1>4. CASE SigSuspend \/ SuspendReturns
  BY <1>4 DEF SigSuspend, SuspendReturns, SigParentStep
<1>5. CASE TestPrinted
  BY <1>5 DEF TestPrinted, SigParentStep
<1>6. CASE PrintCount
  BY <1>6 DEF PrintCount, SigParentStep
<1>7. CASE UNCHANGED counterVars
  BY <1>7 DEF counterVars
<1> QED
  BY <1>1, <1>2, <1>3, <1>4, <1>5, <1>6, <1>7 DEF CounterNext

LEMMA CounterInvInit == CounterInit => CounterInv
BY DEF CounterInit, CounterInv, CountsInOrder, NotedAsleep

LEMMA CounterInvNotes == CounterInv => CountNoted
BY DEF CounterInv, CountsInOrder, NotedAsleep, CountNoted

(* The parent never sleeps on a SIGUSR2 it has handled and not noted, for  *)
(* any number of signals (prog15.c:69-84).                                 *)
THEOREM CounterNotesAll == CounterSpec => []CountNoted
BY CounterInvInit, CounterInvNotes, CounterStepInv, PTL DEF CounterSpec

LEMMA CounterTypesInit == CounterInit => CounterTypeOK
BY CounterAssumption DEF CounterInit, CounterTypeOK

LEMMA CounterTypesStep ==
  CounterTypeOK /\ CounterInv /\ CounterInv' /\ [CounterNext]_counterVars => CounterTypeOK'
<1> SUFFICES ASSUME CounterTypeOK, CounterInv, CounterInv', [CounterNext]_counterVars
             PROVE  CounterTypeOK'
  OBVIOUS
<1> USE CounterAssumption DEF CounterTypeOK, CounterInv, CountsInOrder
<1>1. CASE SendsUsr1 \/ SendsUsr2
  <2>1. usrPending' \subseteq {"SIGUSR1", "SIGUSR2"}
    BY <1>1 DEF SendsUsr1, SendsUsr2
  <2>3. /\ (burst' = burst + 1 /\ burst < Usr1PerUsr2) \/ burst' = 0
        /\ (usr2Sent' = usr2Sent + 1 /\ usr2Sent < MaxUsr2) \/ usr2Sent' = usr2Sent
    BY <1>1 DEF SendsUsr1, SendsUsr2
  <2>4. burst' \in 0 .. Usr1PerUsr2 /\ usr2Sent' \in 0 .. MaxUsr2
    BY <2>3
  <2>2. UNCHANGED <<sigParentAt, usr2Count, printedCount, shownCount>>
    BY <1>1 DEF SendsUsr1, SendsUsr2
  <2> QED
    BY <2>1, <2>2, <2>4
<1>2. ASSUME NEW s \in {"SIGUSR1", "SIGUSR2"}, HandleSignal(s) PROVE CounterTypeOK'
  BY <1>2 DEF HandleSignal
<1>3. CASE SigSuspend \/ SuspendReturns \/ TestPrinted \/ PrintCount
  BY <1>3 DEF SigSuspend, SuspendReturns, TestPrinted, PrintCount, SigParentStep
<1>4. CASE UNCHANGED counterVars
  BY <1>4 DEF counterVars
<1> QED
  BY <1>1, <1>2, <1>3, <1>4 DEF CounterNext
-----------------------------------------------------------------------------
CopySteps == {"next", "read", "write", "kill", "wait", "exited"}
Lengths == {copied, gotLen, askedLen, outSize} \subseteq Nat

(* bulk_read has been asked for a whole block, and so bulk_write too; the  *)
(* file holds the blocks before and what has been written of this one.     *)
BlocksWhole == /\ copierAt \in CopySteps
               /\ copierAt \in {"read", "write"} => /\ askedLen = BlockLen
                                                    /\ gotLen <= askedLen
                                                    /\ copied < BlockCount
               /\ copied <= BlockCount
               /\ copierAt \in {"kill", "wait", "exited"} => copied = BlockCount
               /\ outSize = copied * BlockLen + (IF copierAt = "write" THEN gotLen ELSE 0)

CopyInv == Lengths /\ BlocksWhole

(* One more block. *)
LEMMA OneBlockMore == ASSUME NEW n \in Nat
                      PROVE  (n + 1) * BlockLen = n * BlockLen + BlockLen /\ n * BlockLen \in Nat
  BY CopyAssumption

LEMMA CopyStepInv == CopyInv /\ [CopyNext]_copyVars => CopyInv'
<1> SUFFICES ASSUME CopyInv, [CopyNext]_copyVars PROVE CopyInv'
  OBVIOUS
<1> USE CopyAssumption DEF CopyInv, Lengths, BlocksWhole, CopySteps
<1>0. (copied + 1) * BlockLen = copied * BlockLen + BlockLen /\ copied * BlockLen \in Nat
  BY OneBlockMore
<1>1. CASE SenderResets \/ SenderSends
  BY <1>1 DEF SenderResets, SenderSends
<1>2. CASE NextBlock
  BY <1>2 DEF NextBlock, CopyStep
<1>3. CASE ReadSome
  BY <1>3 DEF ReadSome, CopyStep
<1>4. CASE BlockIsRead
  BY <1>0, <1>4 DEF BlockIsRead, AllDone, CopyStep
<1>5. CASE WriteSome
  BY <1>0, <1>5 DEF WriteSome, CopyStep
<1>6. CASE BlockIsWritten
  BY <1>0, <1>6 DEF BlockIsWritten, AllDone, CopyStep
<1>7. CASE CopyHandles
  BY <1>7 DEF CopyHandles
<1>8. CASE KillGroup
  BY <1>8 DEF KillGroup
<1>9. CASE CopyWaits
  BY <1>9 DEF CopyWaits, CopyStep
<1>10. CASE UNCHANGED copyVars
  BY <1>10 DEF copyVars
<1> QED
  BY <1>1, <1>2, <1>3, <1>4, <1>5, <1>6, <1>7, <1>8, <1>9, <1>10 DEF CopyNext

LEMMA CopyInvInit == CopyInit => CopyInv
BY CopyAssumption DEF CopyInit, CopyInv, Lengths, BlocksWhole, CopySteps

LEMMA CopyInvCompletes == CopyInv => CopyComplete
<1> SUFFICES ASSUME CopyInv PROVE CopyComplete
  OBVIOUS
<1>1. copied * BlockLen \in Nat /\ copied \in Nat
  BY OneBlockMore DEF CopyInv, Lengths
<1>2. copierAt # "write" => outSize = copied * BlockLen
  BY <1>1 DEF CopyInv, BlocksWhole
<1>3. copierAt \in {"kill", "wait", "exited"} => copied = BlockCount
  BY DEF CopyInv, BlocksWhole
<1> QED
  BY <1>2, <1>3 DEF CopyComplete

(* The file holds whole blocks, and all of them at the end, for any number *)
(* and length of blocks (prog16b.c:40-101).                                *)
THEOREM CopyIsComplete == CopySpec => []CopyComplete
BY CopyInvInit, CopyInvCompletes, CopyStepInv, PTL DEF CopySpec

LEMMA CopyTypesInit == CopyInit => CopyTypeOK
<1>1. BlockCount * BlockLen \in Nat
  BY CopyAssumption
<1>2. 0 \in 0 .. BlockCount /\ 0 \in 0 .. BlockLen /\ 0 \in 0 .. BlockCount * BlockLen
  BY <1>1, CopyAssumption
<1> QED
  BY <1>2 DEF CopyInit, CopyTypeOK

(* What has been written fits into the blocks. *)
LEMMA OutputFits == CopyInv /\ gotLen <= BlockLen => outSize \in 0 .. BlockCount * BlockLen
<1> SUFFICES ASSUME CopyInv, gotLen <= BlockLen PROVE outSize \in 0 .. BlockCount * BlockLen
  OBVIOUS
<1>1. /\ copied \in Nat /\ gotLen \in Nat /\ BlockCount \in Nat /\ BlockLen \in Nat
      /\ copied <= BlockCount /\ (copierAt = "write" => copied + 1 <= BlockCount)
  BY CopyAssumption DEF CopyInv, Lengths, BlocksWhole
<1>2. (copied + 1) * BlockLen = copied * BlockLen + BlockLen
  BY <1>1, OneBlockMore
<1>3. copied * BlockLen \in Nat /\ copied * BlockLen <= BlockCount * BlockLen
  BY <1>1, ProductGrows
<1>4. copierAt = "write" => (copied + 1) * BlockLen <= BlockCount * BlockLen
  BY <1>1, ProductGrows
<1>5. BlockCount * BlockLen \in Nat
  BY <1>1, ProductGrows
<1>6. outSize = copied * BlockLen + (IF copierAt = "write" THEN gotLen ELSE 0)
  BY DEF CopyInv, BlocksWhole
<1>7. ASSUME NEW c \in Nat, NEW b \in Nat, NEW g \in Nat, c <= b, NEW l \in Nat, g <= l,
             copierAt = "write" => c + l <= b
      PROVE  c + (IF copierAt = "write" THEN g ELSE 0) \in 0 .. b
  BY <1>7
<1> QED
  BY <1>1, <1>2, <1>3, <1>4, <1>5, <1>6, <1>7

LEMMA CopyTypesStep ==
  CopyTypeOK /\ CopyInv /\ CopyInv' /\ [CopyNext]_copyVars => CopyTypeOK'
<1> SUFFICES ASSUME CopyTypeOK, CopyInv, CopyInv', [CopyNext]_copyVars PROVE CopyTypeOK'
  OBVIOUS
<1> DEFINE Rest == /\ gotLen \in 0 .. BlockLen /\ askedLen \in 0 .. BlockLen
                   /\ senderAt \in {"inherits", "default", "killed"}
                   /\ copyUsr1 \in BOOLEAN
<1>1. Rest'
  <2> Rest /\ BlockLen \in Nat
    BY CopyAssumption DEF CopyTypeOK
  <2>1. CASE SenderResets \/ SenderSends \/ CopyHandles \/ KillGroup \/ CopyWaits
    BY <2>1 DEF SenderResets, SenderSends, CopyHandles, KillGroup, CopyWaits, CopyStep
  <2>2. CASE NextBlock \/ BlockIsRead \/ BlockIsWritten
    BY <2>2 DEF NextBlock, BlockIsRead, BlockIsWritten, CopyStep
  <2>3. CASE ReadSome \/ WriteSome
    BY <2>3 DEF ReadSome, WriteSome, CopyStep
  <2>4. CASE UNCHANGED copyVars
    BY <2>4 DEF copyVars
  <2> QED
    BY <2>1, <2>2, <2>3, <2>4 DEF CopyNext
<1>2. copierAt' \in CopySteps /\ copied' \in 0 .. BlockCount
  BY CopyAssumption DEF CopyInv, Lengths, BlocksWhole
<1>3. outSize' \in 0 .. BlockCount * BlockLen
  <2>1. gotLen' <= BlockLen
    BY <1>1, CopyAssumption
  <2>2. (CopyInv /\ gotLen <= BlockLen => outSize \in 0 .. BlockCount * BlockLen)'
    BY OutputFits, PTL
  <2> QED
    BY <2>1, <2>2
<1> QED
  BY <1>1, <1>2, <1>3 DEF CopyTypeOK, CopySteps
-----------------------------------------------------------------------------
(* A student has work to do: a question to read, or one to answer.         *)
Busy(i) == questions[i] \/ calledAt[i] = "answer"

(* While the teacher listens exactly one message is under way - question,  *)
(* question that is read, or answer - and it is that of the student asked; *)
(* while the teacher asks there is none.                                   *)
OneUnderWay ==
  /\ \A i \in Called : Busy(i) => teacherAt = "listen" /\ i = asking /\ answerPipe = <<>>
  /\ \A i \in Called : ~(questions[i] /\ calledAt[i] = "answer")
  /\ answerPipe # <<>> => teacherAt = "listen" /\ answerPipe = <<asking>>

HeardInTurn == Len(heard) = asking - 1 /\ AnswersInTurn

RollInv == RollTypeOK /\ OneUnderWay /\ HeardInTurn
-----------------------------------------------------------------------------
LEMMA RollInitInv == RollInit => RollInv
  BY RollCallAssumption
  DEF RollInit, RollInv, RollTypeOK, OneUnderWay, Busy, HeardInTurn, AnswersInTurn, Called

(* The answer that is read goes to the place of the student asked.         *)
LEMMA ListenKeepsTurn ==
  ASSUME RollInv, Listen PROVE RollInv'
<1> USE RollCallAssumption DEF RollInv, Listen
<1>1. answerPipe = <<asking>>
  BY DEF OneUnderWay
<1>2. asking \in Called /\ Head(answerPipe) = asking /\ Tail(answerPipe) = <<>>
  BY <1>1 DEF RollTypeOK, Called
<1>3. heard' = Append(heard, asking) /\ answerPipe' = <<>> /\ asking' = asking + 1
  BY <1>2
<1>4. RollTypeOK'
  BY <1>2, <1>3 DEF RollTypeOK, Called
<1>5. OneUnderWay'
  BY <1>1, <1>3 DEF OneUnderWay, Busy, Called
<1>6. HeardInTurn'
  <2>1. heard \in Seq(Called) /\ asking \in Nat \ {0} /\ Len(heard) = asking - 1
    BY DEF RollTypeOK, HeardInTurn
  <2>2. /\ Len(heard') = Len(heard) + 1
        /\ heard'[Len(heard) + 1] = asking
        /\ \A k \in 1 .. Len(heard) : heard'[k] = heard[k]
        /\ DOMAIN heard' = 1 .. Len(heard')
    BY <1>2, <1>3, <2>1, AppendProperties
  <2>3. \A k \in 1 .. Len(heard) : heard[k] = k
    BY <2>1 DEF HeardInTurn, AnswersInTurn
  <2> HIDE DEF RollInv, Listen
  <2> QED
    BY <1>3, <2>1, <2>2, <2>3 DEF HeardInTurn, AnswersInTurn
<1> QED
  BY <1>4, <1>5, <1>6

LEMMA RollStepInv == RollInv /\ [RollNext]_rollVars => RollInv'
<1> SUFFICES ASSUME RollInv, [RollNext]_rollVars PROVE RollInv'
  OBVIOUS
<1>1. ASSUME NEW i \in Called, ReadQuestion(i) PROVE RollInv'
  BY <1>1 DEF ReadQuestion, RollInv, RollTypeOK, OneUnderWay, Busy, HeardInTurn, AnswersInTurn
<1>2. ASSUME NEW i \in Called, AnswerHere(i) PROVE RollInv'
  <2> USE <1>2 DEF AnswerHere, RollInv
  <2>1. i = asking /\ answerPipe = <<>> /\ teacherAt = "listen"
    BY DEF OneUnderWay, Busy
  <2>2. answerPipe' = <<asking>>
    BY <2>1 DEF RollTypeOK
  <2>3. RollTypeOK'
    BY <2>1, <2>2 DEF RollTypeOK
  <2>4. OneUnderWay'
    BY <2>1, <2>2 DEF RollTypeOK, OneUnderWay, Busy
  <2>5. HeardInTurn'
    BY DEF HeardInTurn, AnswersInTurn
  <2> QED
    BY <2>3, <2>4, <2>5
<1>3. CASE Ask
  <2> USE <1>3 DEF Ask, RollInv
  <2>1. asking \in Called
    BY RollCallAssumption DEF RollTypeOK, Called
  <2>2. answerPipe = <<>> /\ \A i \in Called : ~Busy(i)
    BY DEF OneUnderWay
  <2>3. RollTypeOK' /\ HeardInTurn'
    BY <2>1 DEF RollTypeOK, HeardInTurn, AnswersInTurn
  <2>4. OneUnderWay'
    BY <2>1, <2>2 DEF RollTypeOK, OneUnderWay, Busy
  <2> QED
    BY <2>3, <2>4
<1>4. CASE Listen
  BY <1>4, ListenKeepsTurn
<1>5. CASE CloseRoll
  BY <1>5 DEF CloseRoll, RollInv, RollTypeOK, OneUnderWay, Busy, HeardInTurn, AnswersInTurn
<1>6. CASE UNCHANGED rollVars
  BY <1>6 DEF rollVars, RollInv, RollTypeOK, OneUnderWay, Busy, HeardInTurn, AnswersInTurn
<1> QED
  BY <1>1, <1>2, <1>3, <1>4, <1>5, <1>6 DEF RollNext, Teach, Answer

LEMMA RollInvAnswers == RollInv => AnswersInTurn
BY DEF RollInv, HeardInTurn

(* The k-th answer the teacher reads is that of student k, although all    *)
(* students write to one pipe (etap2.c:25-63), for any number of them.     *)
THEOREM RollAnswersInTurn == RollSpec => []AnswersInTurn
BY RollInvAnswers, RollInitInv, RollStepInv, PTL DEF RollSpec
-----------------------------------------------------------------------------
(* The packets of w in a fifo.                                             *)
PacketsIn(s, w) == {i \in 1 .. Len(s) : s[i] = w}

(* Every packet is printed, in the fifo, or still to be sent.              *)
PacketsConserved == \A w \in FifoWriters :
  fifoPrinted[w] + Cardinality(PacketsIn(fifo, w)) + packetsLeft[w] = PacketsOf[w]

DoneHasSent == \A w \in FifoWriters : fifoWriterAt[w] = "done" => packetsLeft[w] = 0

(* After the end only late writers are left, and only they have packets in *)
(* the fifo.                                                               *)
OnlyLateAfterEnd == fifoReaderAt \in {"close", "unlink", "done"} =>
  /\ \A i \in 1 .. Len(fifo) : fifo[i] \in late
  /\ \A w \in FifoWriters : fifoWriterAt[w] = "send" => w \in late

FifoTypes == /\ fifo \in Seq(FifoWriters)
             /\ fifoPrinted \in [FifoWriters -> Nat]
             /\ fifoWriterAt \in [FifoWriters -> {"make", "open", "opening", "send", "done", "failed"}]
             /\ packetsLeft \in [FifoWriters -> Nat]

FifoInv == FifoTypes /\ PacketsConserved /\ DoneHasSent /\ OnlyLateAfterEnd
-----------------------------------------------------------------------------
LEMMA PacketsFinite ==
  ASSUME NEW S, NEW s \in Seq(S), NEW w
  PROVE  IsFiniteSet(PacketsIn(s, w)) /\ Cardinality(PacketsIn(s, w)) \in Nat
<1>1. IsFiniteSet(1 .. Len(s))
  BY FS_Interval
<1>2. PacketsIn(s, w) \in SUBSET (1 .. Len(s))
  BY DEF PacketsIn
<1> QED
  BY <1>1, <1>2, FS_Subset, FS_CardinalityType

LEMMA PacketsOfAppend ==
  ASSUME NEW S, NEW s \in Seq(S), NEW e \in S, NEW w
  PROVE  Cardinality(PacketsIn(Append(s, e), w))
           = Cardinality(PacketsIn(s, w)) + (IF e = w THEN 1 ELSE 0)
<1> DEFINE n == Len(s)
<1>1. /\ n \in Nat
      /\ Len(Append(s, e)) = n + 1
      /\ \A i \in 1 .. n : Append(s, e)[i] = s[i]
      /\ Append(s, e)[n + 1] = e
  BY AppendProperties
<1>2. \A i : i \in 1 .. (n + 1) <=> i \in 1 .. n \/ i = n + 1
  BY <1>1
<1> HIDE DEF n
<1>3. CASE e = w
  <2>1. PacketsIn(Append(s, e), w) = PacketsIn(s, w) \cup {n + 1}
    BY <1>1, <1>2, <1>3 DEF PacketsIn, n
  <2>2. n + 1 \notin PacketsIn(s, w)
    BY <1>1 DEF PacketsIn, n
  <2> QED
    BY <1>3, <2>1, <2>2, PacketsFinite, FS_AddElement
<1>4. CASE e # w
  <2>1. PacketsIn(Append(s, e), w) = PacketsIn(s, w)
    BY <1>1, <1>2, <1>4 DEF PacketsIn, n
  <2> QED
    BY <1>4, <2>1, PacketsFinite
<1> QED
  BY <1>3, <1>4

(* Taking the head shifts the others by one place.                         *)
LEMMA PacketsOfTail ==
  ASSUME NEW S, NEW s \in Seq(S), s # <<>>, NEW w
  PROVE  Cardinality(PacketsIn(s, w))
           = Cardinality(PacketsIn(Tail(s), w)) + (IF Head(s) = w THEN 1 ELSE 0)
<1> DEFINE n == Len(s)
           rest == PacketsIn(s, w) \ {1}
           after == PacketsIn(Tail(s), w)
           shift == [i \in rest |-> i - 1]
<1>1. n \in Nat \ {0} /\ Head(s) = s[1]
  BY EmptySeq
<1>2. Len(Tail(s)) = n - 1 /\ \A i \in 1 .. (n - 1) : Tail(s)[i] = s[i + 1]
  BY <1>1, HeadTailProperties
<1>3. \A i : i \in rest <=> i \in 1 .. n /\ s[i] = w /\ i # 1
  BY DEF PacketsIn
<1>4. \A i : i \in after <=> i \in 1 .. (n - 1) /\ s[i + 1] = w
  BY <1>2 DEF PacketsIn
<1> HIDE DEF n, rest, after
<1>5. \A i \in rest : i \in Nat /\ i - 1 \in after
  <2> TAKE i \in rest
  <2>1. i \in 1 .. n /\ s[i] = w /\ i # 1
    BY <1>3
  <2>2. i \in Nat /\ i - 1 \in 1 .. (n - 1) /\ (i - 1) + 1 = i
    BY <1>1, <2>1
  <2> QED
    BY <1>4, <2>1, <2>2
<1>6. \A j \in after : j \in Nat /\ j + 1 \in rest
  <2> TAKE j \in after
  <2>1. j \in 1 .. (n - 1) /\ s[j + 1] = w
    BY <1>4
  <2>2. j \in Nat /\ j + 1 \in 1 .. n /\ j + 1 # 1
    BY <1>1, <2>1
  <2> QED
    BY <1>3, <2>1, <2>2
<1>7. shift \in Bijection(rest, after)
  <2>1. shift \in [rest -> after]
    BY <1>5
  <2>2. \A i, k \in rest : shift[i] = shift[k] => i = k
    BY <1>5
  <2>3. \A j \in after : \E i \in rest : shift[i] = j
    <3> TAKE j \in after
    <3>1. j + 1 \in rest /\ shift[j + 1] = j
      BY <1>6
    <3> QED
      BY <3>1
  <2> QED
    BY <2>1, <2>2, <2>3 DEF Bijection, Injection, Surjection, IsInjective
<1>8. ExistsBijection(rest, after)
  BY <1>7 DEF ExistsBijection
<1>9. IsFiniteSet(PacketsIn(s, w)) /\ Cardinality(PacketsIn(s, w)) \in Nat
  BY PacketsFinite
<1>10. IsFiniteSet(rest) /\ Cardinality(rest) = IF 1 \in PacketsIn(s, w)
                                                THEN Cardinality(PacketsIn(s, w)) - 1
                                                ELSE Cardinality(PacketsIn(s, w))
  BY <1>9, FS_RemoveElement DEF rest
<1>11. Cardinality(after) = Cardinality(rest)
  BY <1>8, <1>10, FS_Bijection
<1>12. 1 \in PacketsIn(s, w) <=> Head(s) = w
  BY <1>1 DEF PacketsIn, n
<1> QED
  BY <1>9, <1>10, <1>11, <1>12 DEF after
-----------------------------------------------------------------------------
LEMMA FifoInitInv == FifoInit => FifoInv
<1> SUFFICES ASSUME FifoInit PROVE FifoInv
  OBVIOUS
<1> USE FifoAssumption DEF FifoInit
<1>1. fifo \in Seq(FifoWriters) /\ Len(fifo) = 0
  BY EmptySeq
<1>2. \A w : PacketsIn(fifo, w) = {}
  BY <1>1 DEF PacketsIn
<1>3. PacketsConserved
  <2>1. \A w \in FifoWriters : Cardinality(PacketsIn(fifo, w)) = 0
    BY <1>2, FS_EmptySet
  <2>2. \A w \in FifoWriters : fifoPrinted[w] = 0 /\ packetsLeft[w] = PacketsOf[w]
                               /\ PacketsOf[w] \in Nat
    OBVIOUS
  <2> QED
    BY <2>1, <2>2 DEF PacketsConserved
<1> QED
  BY <1>1, <1>3 DEF FifoInv, FifoTypes, DoneHasSent, OnlyLateAfterEnd

(* The steps in which no packet moves.                                     *)
LEMMA NoPacketMoves ==
  ASSUME FifoInv, UNCHANGED <<fifo, fifoPrinted, packetsLeft>>,
         fifoWriterAt' \in [FifoWriters -> {"make", "open", "opening", "send", "done", "failed"}],
         \A w \in FifoWriters : fifoWriterAt'[w] = "done" => packetsLeft[w] = 0,
         OnlyLateAfterEnd'
  PROVE  FifoInv'
<1>1. FifoTypes' /\ PacketsConserved'
  BY DEF FifoInv, FifoTypes, PacketsConserved
<1> QED
  BY <1>1 DEF FifoInv, DoneHasSent

LEMMA FifoWriterInv ==
  ASSUME FifoInv, NEW w \in FifoWriters,
         \/ WriterMakes(w) \/ WriterOpens(w) \/ WriterOpened(w) \/ SendToNobody(w) \/ FileSent(w)
  PROVE  FifoInv'
<1> USE DEF FifoWriterStep
<1>1. UNCHANGED <<fifo, fifoPrinted, packetsLeft, fifoReaderAt>>
  BY DEF WriterMakes, WriterOpens, WriterOpened, SendToNobody, FileSent
<1>2. fifoWriterAt' \in [FifoWriters -> {"make", "open", "opening", "send", "done", "failed"}]
  BY DEF WriterMakes, WriterOpens, WriterOpened, SendToNobody, FileSent, FifoInv, FifoTypes
<1>3. \A v \in FifoWriters : fifoWriterAt'[v] = "done" => packetsLeft[v] = 0
  BY DEF WriterMakes, WriterOpens, WriterOpened, SendToNobody, FileSent, FifoInv, FifoTypes,
    DoneHasSent
<1>4. OnlyLateAfterEnd'
  <2>1. CASE WriterOpened(w)
    <3>1. /\ late \subseteq late'
          /\ fifoReaderAt = "close" => w \in late'
          /\ fifoReaderAt \notin {"unlink", "done"}
          /\ \A v \in FifoWriters : v # w => fifoWriterAt'[v] = fifoWriterAt[v]
      BY <2>1 DEF WriterOpened, HasReader, FifoInv, FifoTypes
    <3> QED
      BY <1>1, <3>1 DEF FifoInv, OnlyLateAfterEnd
  <2>2. CASE ~WriterOpened(w)
    <3>1. late' = late /\ \A v \in FifoWriters : fifoWriterAt'[v] = "send" => fifoWriterAt[v] = "send"
      BY <2>2 DEF WriterMakes, WriterOpens, SendToNobody, FileSent, FifoInv, FifoTypes
    <3> QED
      BY <1>1, <3>1 DEF FifoInv, OnlyLateAfterEnd
  <2> QED
    BY <2>1, <2>2
<1> QED
  BY <1>1, <1>2, <1>3, <1>4, NoPacketMoves

LEMMA SendPacketInv ==
  ASSUME FifoInv, NEW w \in FifoWriters, SendPacket(w) PROVE FifoInv'
<1>1. /\ fifoWriterAt[w] = "send"
      /\ fifoWriterAt' = [fifoWriterAt EXCEPT ![w] = "send"]
      /\ packetsLeft[w] > 0
      /\ fifo' = Append(fifo, w)
      /\ packetsLeft' = [packetsLeft EXCEPT ![w] = @ - 1]
      /\ UNCHANGED <<fifoReaderAt, fifoPrinted, late>>
  BY DEF SendPacket, FifoWriterStep
<1>2. FifoTypes
  BY DEF FifoInv
<1>3. /\ fifo' \in Seq(FifoWriters)
      /\ Len(fifo) \in Nat
      /\ Len(fifo') = Len(fifo) + 1
      /\ \A i \in 1 .. Len(fifo) : fifo'[i] = fifo[i]
      /\ fifo'[Len(fifo) + 1] = w
  BY <1>1, <1>2, AppendProperties DEF FifoTypes
<1>4. fifoWriterAt' = fifoWriterAt
  BY <1>1, <1>2 DEF FifoTypes
<1>5. /\ packetsLeft' \in [FifoWriters -> Nat]
      /\ packetsLeft'[w] = packetsLeft[w] - 1
      /\ \A v \in FifoWriters : v # w => packetsLeft'[v] = packetsLeft[v]
  BY <1>1, <1>2 DEF FifoTypes
<1>6. FifoTypes'
  BY <1>1, <1>2, <1>3, <1>4, <1>5 DEF FifoTypes
<1>7. PacketsConserved'
  <2> SUFFICES ASSUME NEW v \in FifoWriters
               PROVE  fifoPrinted[v] + Cardinality(PacketsIn(fifo', v)) + packetsLeft'[v]
                        = PacketsOf[v]
    BY <1>1 DEF PacketsConserved, PacketsIn
  <2>1. Cardinality(PacketsIn(fifo', v)) = Cardinality(PacketsIn(fifo, v)) + (IF w = v THEN 1 ELSE 0)
    BY <1>1, <1>2, PacketsOfAppend DEF FifoTypes
  <2>2. Cardinality(PacketsIn(fifo, v)) \in Nat
    BY <1>2, PacketsFinite DEF FifoTypes
  <2>3. fifoPrinted[v] + Cardinality(PacketsIn(fifo, v)) + packetsLeft[v] = PacketsOf[v]
    BY DEF FifoInv, PacketsConserved
  <2>4. fifoPrinted[v] \in Nat /\ packetsLeft[v] \in Nat
    BY <1>2 DEF FifoTypes
  <2> QED
    BY <1>5, <2>1, <2>2, <2>3, <2>4
<1>8. DoneHasSent'
  BY <1>1, <1>4, <1>5 DEF FifoInv, DoneHasSent
<1>9. OnlyLateAfterEnd'
  <2> SUFFICES ASSUME fifoReaderAt \in {"close", "unlink", "done"}
               PROVE  /\ \A i \in 1 .. Len(fifo') : fifo'[i] \in late
                      /\ \A v \in FifoWriters : fifoWriterAt[v] = "send" => v \in late
    BY <1>1, <1>4 DEF OnlyLateAfterEnd
  <2>1. \A i \in 1 .. Len(fifo') : i \in 1 .. Len(fifo) \/ i = Len(fifo) + 1
    BY <1>3
  <2> QED
    BY <1>1, <1>3, <2>1 DEF FifoInv, OnlyLateAfterEnd
<1> QED
  BY <1>6, <1>7, <1>8, <1>9 DEF FifoInv

LEMMA ReadPacketInv ==
  ASSUME FifoInv, ReadPacket PROVE FifoInv'
<1>1. /\ fifoReaderAt' = "read"
      /\ fifo # <<>>
      /\ fifo' = Tail(fifo)
      /\ fifoPrinted' = [fifoPrinted EXCEPT ![Head(fifo)] = @ + 1]
      /\ UNCHANGED <<fifoWriterAt, packetsLeft, late>>
  BY DEF ReadPacket, FifoReaderStep
<1>2. FifoTypes
  BY DEF FifoInv
<1>3. fifo' \in Seq(FifoWriters) /\ Head(fifo) \in FifoWriters
  BY <1>1, <1>2, HeadTailProperties DEF FifoTypes
<1>4. /\ fifoPrinted' \in [FifoWriters -> Nat]
      /\ fifoPrinted'[Head(fifo)] = fifoPrinted[Head(fifo)] + 1
      /\ \A v \in FifoWriters : v # Head(fifo) => fifoPrinted'[v] = fifoPrinted[v]
  BY <1>1, <1>2, <1>3 DEF FifoTypes
<1>5. FifoTypes'
  BY <1>1, <1>2, <1>3, <1>4 DEF FifoTypes
<1>6. PacketsConserved'
  <2> SUFFICES ASSUME NEW v \in FifoWriters
               PROVE  fifoPrinted'[v] + Cardinality(PacketsIn(fifo', v)) + packetsLeft[v]
                        = PacketsOf[v]
    BY <1>1 DEF PacketsConserved, PacketsIn
  <2>1. Cardinality(PacketsIn(fifo, v))
          = Cardinality(PacketsIn(fifo', v)) + (IF Head(fifo) = v THEN 1 ELSE 0)
    BY <1>1, <1>2, PacketsOfTail DEF FifoTypes
  <2>2. Cardinality(PacketsIn(fifo', v)) \in Nat
    BY <1>3, PacketsFinite
  <2>3. fifoPrinted[v] + Cardinality(PacketsIn(fifo, v)) + packetsLeft[v] = PacketsOf[v]
    BY DEF FifoInv, PacketsConserved
  <2>4. fifoPrinted[v] \in Nat /\ packetsLeft[v] \in Nat
    BY <1>2 DEF FifoTypes
  <2> QED
    BY <1>4, <2>1, <2>2, <2>3, <2>4
<1>7. DoneHasSent' /\ OnlyLateAfterEnd'
  BY <1>1 DEF FifoInv, DoneHasSent, OnlyLateAfterEnd
<1> QED
  BY <1>5, <1>6, <1>7 DEF FifoInv

(* At the end of file the fifo is empty and nobody sends.                  *)
LEMMA FifoReaderInv ==
  ASSUME FifoInv,
         ReaderMakes \/ ReaderOpens \/ ReaderOpened \/ ReadEndOfFile \/ ReaderCloses \/ ReaderUnlinks
  PROVE  FifoInv'
<1> USE DEF FifoReaderStep
<1>1. UNCHANGED <<fifo, fifoPrinted, packetsLeft, fifoWriterAt, late>>
  BY DEF ReaderMakes, ReaderOpens, ReaderOpened, ReadEndOfFile, ReaderCloses, ReaderUnlinks
<1>2. OnlyLateAfterEnd'
  <2>1. CASE ReadEndOfFile
    <3>1. Len(fifo) = 0 /\ \A w \in FifoWriters : fifoWriterAt[w] # "send"
      BY <2>1, EmptySeq DEF ReadEndOfFile, EndOfFile, HasWriter
    <3> QED
      BY <1>1, <3>1 DEF OnlyLateAfterEnd
  <2>2. CASE ~ReadEndOfFile
    BY <1>1, <2>2 DEF ReaderMakes, ReaderOpens, ReaderOpened, ReaderCloses, ReaderUnlinks,
      FifoInv, OnlyLateAfterEnd
  <2> QED
    BY <2>1, <2>2
<1> QED
  BY <1>1, <1>2, NoPacketMoves DEF FifoInv, FifoTypes, DoneHasSent

LEMMA FifoStepInv == FifoInv /\ [FifoNext]_fifoVars => FifoInv'
<1> SUFFICES ASSUME FifoInv, [FifoNext]_fifoVars PROVE FifoInv'
  OBVIOUS
<1>1. CASE FifoNext
  BY <1>1, FifoWriterInv, SendPacketInv, ReadPacketInv, FifoReaderInv DEF FifoNext
<1>2. CASE UNCHANGED fifoVars
  <2>1. OnlyLateAfterEnd'
    BY <1>2 DEF fifoVars, FifoInv, OnlyLateAfterEnd
  <2> QED
    BY <1>2, <2>1, NoPacketMoves DEF fifoVars, FifoInv, FifoTypes, DoneHasSent
<1> QED
  BY <1>1, <1>2

LEMMA FifoInvCompletes == FifoInv => FifoComplete
<1> SUFFICES ASSUME FifoInv, fifoReaderAt \in {"close", "unlink", "done"},
                    NEW w \in FifoWriters \ late, fifoWriterAt[w] \in {"send", "done"}
             PROVE  fifoPrinted[w] = PacketsOf[w]
  BY DEF FifoComplete
<1>1. fifoWriterAt[w] = "done" /\ packetsLeft[w] = 0
  BY DEF FifoInv, OnlyLateAfterEnd, DoneHasSent
<1>2. PacketsIn(fifo, w) = {}
  BY DEF FifoInv, OnlyLateAfterEnd, PacketsIn
<1>3. fifoPrinted[w] + 0 + 0 = PacketsOf[w] /\ fifoPrinted[w] \in Nat
  BY <1>1, <1>2, FS_EmptySet DEF FifoInv, FifoTypes, PacketsConserved
<1> QED
  BY <1>3

(* Every packet of every writer that opened the fifo before the end is     *)
(* printed (etap2.c:20-40, etap3.c:28-62), for any number of writers,      *)
(* files and any capacity.                                                 *)
THEOREM FifoIsComplete == FifoSpec => []FifoComplete
BY FifoStepInv, FifoInvCompletes, FifoInitInv, PTL DEF FifoSpec

LEMMA FifoTypesInit == FifoInit => FifoTypeOK
<1> SUFFICES ASSUME FifoInit PROVE FifoTypeOK
  OBVIOUS
<1>1. <<>> \in Seq(FifoWriters) /\ Len(<<>>) <= FifoCapacity
  BY FifoAssumption
<1> QED
  BY <1>1, FifoAssumption DEF FifoInit, FifoTypeOK

LEMMA FifoTypesStep ==
  FifoTypeOK /\ FifoInv /\ FifoInv' /\ [FifoNext]_fifoVars => FifoTypeOK'
<1> SUFFICES ASSUME FifoTypeOK, FifoInv, FifoInv', [FifoNext]_fifoVars PROVE FifoTypeOK'
  OBVIOUS
<1> DEFINE Rest == /\ fifoThere \in BOOLEAN
                   /\ fifoReaderAt \in {"make", "open", "opening", "read", "close", "unlink", "done"}
                   /\ late \subseteq FifoWriters
<1>0. Rest /\ Len(fifo) <= FifoCapacity /\ fifo \in Seq(FifoWriters) /\ FifoCapacity \in Nat
  BY FifoAssumption DEF FifoTypeOK
<1>1. Rest' /\ Len(fifo') <= FifoCapacity
  <2>1. ASSUME NEW w \in FifoWriters, WriterMakes(w) \/ WriterOpens(w) \/ WriterOpened(w)
                                      \/ SendToNobody(w) \/ FileSent(w)
        PROVE  Rest' /\ Len(fifo') <= FifoCapacity
    BY <1>0, <2>1 DEF WriterMakes, WriterOpens, WriterOpened, SendToNobody, FileSent, FifoWriterStep
  <2>2. ASSUME NEW w \in FifoWriters, SendPacket(w) PROVE Rest' /\ Len(fifo') <= FifoCapacity
    BY <1>0, <2>2 DEF SendPacket, FifoWriterStep
  <2>3. CASE ReadPacket
    BY <1>0, <2>3 DEF ReadPacket, FifoReaderStep
  <2>4. CASE ReaderMakes \/ ReaderOpens \/ ReaderOpened \/ ReadEndOfFile \/ ReaderCloses \/ ReaderUnlinks
    BY <1>0, <2>4 DEF ReaderMakes, ReaderOpens, ReaderOpened, ReadEndOfFile, ReaderCloses,
                      ReaderUnlinks, FifoReaderStep
  <2>5. CASE UNCHANGED fifoVars
    BY <1>0, <2>5 DEF fifoVars
  <2> HIDE DEF Rest
  <2> QED
    BY <2>1, <2>2, <2>3, <2>4, <2>5 DEF FifoNext
<1> QED
  BY <1>1 DEF FifoInv, FifoTypes, FifoTypeOK
-----------------------------------------------------------------------------
(* The star of etap2.c: what is in the pipe to a child, on the way there   *)
(* (last_signal) and to come (a pending SIGINT) was pressed.               *)
CharactersPressed == \A i \in Rays :
  rayPipe[i] + (IF lastSignal THEN 1 ELSE 0)
             + (IF "SIGINT" \in centerSignals THEN 1 ELSE 0) <= sigints

StarInv == StarTypeOK /\ CharactersPressed

LEMMA StarInvInit == StarInit => StarInv
<1> SUFFICES ASSUME StarInit PROVE StarInv
  OBVIOUS
<1>1. 0 \in 0 .. MaxSigints /\ <<>> \in Seq(Rays)
  BY StarAssumption
<1>2. CharactersPressed
  BY <1>1, StarAssumption DEF StarInit, CharactersPressed
<1>3. StarTypeOK
  BY <1>1 DEF StarInit, StarTypeOK
<1> QED
  BY <1>2, <1>3 DEF StarInv

LEMMA StarStepInv == StarInv /\ [StarNext]_starVars => StarInv'
<1> SUFFICES ASSUME StarInv, [StarNext]_starVars PROVE StarInv'
  OBVIOUS
<1> USE StarAssumption DEF StarInv, StarTypeOK, CharactersPressed, signalVars
<1>1. ASSUME NEW i \in Rays, RayReads(i) PROVE StarInv'
  BY <1>1 DEF RayReads, RayStep
<1>2. ASSUME NEW i \in Rays, RayWrites(i) PROVE StarInv'
  <2>1. blocksInR' \in Seq(Rays)
    BY <1>2 DEF RayWrites
  <2>2. /\ rayAt' \in [Rays -> {"read", "write", "gone"}]
        /\ UNCHANGED <<rayPipe, centerAt, lastSignal, sigintFor, centerSignals, sigints>>
    BY <1>2 DEF RayWrites, RayStep
  <2> QED
    BY <2>1, <2>2
<1>3. ASSUME NEW i \in Rays, RaySurvives(i) \/ RayDies(i) PROVE StarInv'
  <2>1. /\ sigintFor' \subseteq Rays /\ rayAt' \in [Rays -> {"read", "write", "gone"}]
        /\ centerSignals' \subseteq {"SIGINT", "SIGCHLD"}
        /\ "SIGINT" \in centerSignals' <=> "SIGINT" \in centerSignals
    BY <1>3 DEF RaySurvives, RayDies
  <2>2. UNCHANGED <<rayPipe, blocksInR, centerAt, lastSignal, sigints>>
    BY <1>3 DEF RaySurvives, RayDies
  <2> QED
    BY <2>1, <2>2
<1>4. CASE PressStarSigint
  BY <1>4 DEF PressStarSigint
<1>5. CASE CenterHandles
  <2>1. PICK s \in centerSignals : /\ centerSignals' = centerSignals \ {s}
                                   /\ lastSignal' = (lastSignal \/ s = "SIGINT")
                                   /\ centerAt' \in AfterHandler(s)
    BY <1>5 DEF CenterHandles
  <2>2. centerAt' \in {"test", "read", "eintr", "killed", "closed"}
    BY <2>1 DEF AfterHandler
  <2>3. UNCHANGED <<rayPipe, blocksInR, rayAt, sigintFor, sigints>>
    BY <1>5 DEF CenterHandles
  <2>4. CharactersPressed'
    BY <2>1, <2>3
  <2>5. lastSignal' \in BOOLEAN /\ centerSignals' \subseteq {"SIGINT", "SIGCHLD"}
    BY <2>1
  <2> QED
    BY <2>2, <2>3, <2>4, <2>5
<1>6. CASE ReadInterrupted \/ NoSigint \/ WriteToGoneRay \/ EndOfR
  <2>1. /\ centerAt' \in {"test", "read", "killed", "closed"}
        /\ UNCHANGED <<rayPipe, blocksInR, rayAt, lastSignal, sigintFor, centerSignals, sigints>>
    BY <1>6 DEF ReadInterrupted, NoSigint, WriteToGoneRay, EndOfR, CenterStep
  <2> QED
    BY <2>1
<1>7. CASE WriteToRay
  <2>1. PICK i \in Rays : rayPipe' = [rayPipe EXCEPT ![i] = @ + 1]
    BY <1>7 DEF WriteToRay
  <2>2. /\ centerAt' = "read" /\ lastSignal = TRUE /\ lastSignal' = FALSE
        /\ UNCHANGED <<blocksInR, rayAt, sigintFor, centerSignals, sigints>>
    BY <1>7 DEF WriteToRay, CenterStep
  <2>3. CharactersPressed'
    BY <2>1, <2>2
  <2>4. rayPipe' \in [Rays -> 0 .. MaxSigints]
    <3> DEFINE toCome == IF "SIGINT" \in centerSignals THEN 1 ELSE 0
    <3>0. /\ rayPipe[i] + 1 + toCome <= sigints
          /\ rayPipe[i] \in Nat /\ sigints \in Nat /\ toCome \in {0, 1}
      BY <2>2
    <3> HIDE DEF toCome
    <3>1. rayPipe[i] + 1 <= sigints
      BY <3>0
    <3>2. rayPipe[i] + 1 \in 0 .. MaxSigints
      BY <3>1
    <3> QED
      BY <2>1, <3>2
  <2> QED
    BY <2>2, <2>3, <2>4
<1>8. CASE ReadBlock
  <2>1. blocksInR' \in Seq(Rays)
    BY <1>8 DEF ReadBlock
  <2>2. /\ centerAt' = "test"
        /\ UNCHANGED <<rayPipe, rayAt, lastSignal, sigintFor, centerSignals, sigints>>
    BY <1>8 DEF ReadBlock, CenterStep
  <2> QED
    BY <2>1, <2>2
<1>9. CASE UNCHANGED starVars
  BY <1>9 DEF starVars
<1> QED
  BY <1>1, <1>2, <1>3, <1>4, <1>5, <1>6, <1>7, <1>8, <1>9 DEF StarNext, Center, Ray, RayHandles
-----------------------------------------------------------------------------
(* etap4.c of SOP1/Lab2_tutorial: sig_count never falls below zero, though *)
(* sig_count-- may write an old value back, and never exceeds what was     *)
(* sent.  A child that is past the test of sig_count has found it positive,*)
(* and no other of its steps lowers it.                                    *)
SignalsCounted == \A c \in BlockKids :
  /\ sigCount[c] + (IF c \in usr1Waiting THEN 1 ELSE 0) <= sent
  /\ blockAt[c] = "write" => sigCount[c] > 0
  /\ blockAt[c] = "store" => 0 < loadedCount[c] /\ loadedCount[c] <= sigCount[c]

BlockInv == BlockTypeOK /\ SignalsCounted

LEMMA BlockInvInit == BlockInit => BlockInv
BY BlockAssumption DEF BlockInit, BlockInv, BlockTypeOK, SignalsCounted

LEMMA BlockStepInv == BlockInv /\ [BlockNext]_blockVars => BlockInv'
<1> SUFFICES ASSUME BlockInv, [BlockNext]_blockVars PROVE BlockInv'
  OBVIOUS
<1> USE BlockAssumption DEF BlockInv, BlockTypeOK, SignalsCounted, LiveKids, kidVars
<1>1. CASE SendUsr1
  BY <1>1 DEF SendUsr1
<1>2. CASE AllSent \/ BlockParentExits
  BY <1>2 DEF AllSent, BlockParentExits
<1>3. ASSUME NEW c \in BlockKids, HandleUsr1(c) PROVE BlockInv'
  BY <1>3 DEF HandleUsr1, Handler
<1>4. ASSUME NEW c \in BlockKids, HandleAlarm(c) PROVE BlockInv'
  BY <1>4 DEF HandleAlarm, Handler
<1>5. ASSUME NEW c \in BlockKids, StartAlarm(c) \/ TestAlarm(c) \/ Suspends(c) \/ TestCount(c)
      PROVE  BlockInv'
  BY <1>5 DEF StartAlarm, TestAlarm, Suspends, TestCount, KidStep
<1>6. ASSUME NEW c \in BlockKids, WriteBlock(c) PROVE BlockInv'
  BY <1>6 DEF WriteBlock, KidStep
<1>7. ASSUME NEW c \in BlockKids, CountDown(c) PROVE BlockInv'
  BY <1>7 DEF CountDown, KidStep
<1>8. CASE UNCHANGED blockVars
  BY <1>8 DEF blockVars
<1> QED
  BY <1>1, <1>2, <1>3, <1>4, <1>5, <1>6, <1>7, <1>8 DEF BlockNext, BlockParent, BlockKid

(* sig_count stays between zero and what was sent, although the handler    *)
(* may interrupt sig_count-- (etap4.c:53-56, 81), for any number of        *)
(* children.                                                               *)
THEOREM BlocksCountSignals == BlockSpec => []SignalsCounted
<1>1. BlockInv => SignalsCounted
  BY DEF BlockInv
<1> QED
  BY <1>1, BlockInvInit, BlockStepInv, PTL DEF BlockSpec
-----------------------------------------------------------------------------
(* The word chain of etap2.c: a sentence under way has been started, only  *)
(* forked children take steps, and the last words are conserved.           *)
ChainInv == /\ ChainTypeOK
            /\ sentences + (IF parentAt = "send" THEN 1 ELSE 0) <= started
            /\ \A c \in Chain : c > childCount => chainAt[c] = "unborn"
            /\ LastWordsConserved

LEMMA EndedFinite == IsFiniteSet(Ended) /\ Cardinality(Ended) \in Nat
<1>1. IsFiniteSet(Chain)
  BY FS_Interval, ChainAssumption DEF Chain
<1>2. Ended \in SUBSET Chain
  BY DEF Ended
<1> QED
  BY <1>1, <1>2, FS_Subset, FS_CardinalityType

LEMMA ChainInvInit == ChainInit => ChainInv
<1> SUFFICES ASSUME ChainInit PROVE ChainInv
  OBVIOUS
<1>1. Ended = {}
  BY DEF ChainInit, Ended
<1>2. LastWordsConserved
  BY <1>1, FS_EmptySet DEF ChainInit, LastWordsConserved
<1> QED
  BY <1>2, ChainAssumption DEF ChainInit, ChainInv, ChainTypeOK, MaxMsg

LEMMA RoomLeft ==
  ASSUME NEW p \in 0 .. 2, NEW l \in 0 .. 2, p + l <= 2, NEW q \in 0 .. p
  PROVE  q \in 0 .. 2 /\ q + l <= 2
OBVIOUS

(* A step of a child that neither ends it nor takes a last word.           *)
LEMMA ChainChildStaysUnended ==
  ASSUME ChainInv, NEW c \in Chain, NEW to \in {"open_write", "receive", "failed"},
         chainAt[c] \notin {"done", "unborn"}, chainAt' = [chainAt EXCEPT ![c] = to],
         UNCHANGED <<parentAt, childCount, last, toSend, started, sentences>>,
         queueThere' \subseteq Chain, plain' \in 0 .. plain
  PROVE  ChainInv'
<1>1. Ended' = Ended
  BY DEF Ended, ChainInv, ChainTypeOK
<1>2. LastWordsConserved'
  BY <1>1 DEF ChainInv, LastWordsConserved
<1>3. ChainTypeOK'
  <2>1. plain' \in 0 .. 2 /\ last' \in 0 .. 2 /\ plain' + last' <= 2
    <3>1. plain \in 0 .. 2 /\ last \in 0 .. 2 /\ plain + last <= 2
      BY DEF ChainInv, ChainTypeOK, MaxMsg
    <3>2. last' = last /\ plain' \in 0 .. plain
      OBVIOUS
    <3> QED
      BY <3>1, <3>2, RoomLeft
  <2>2. chainAt' \in [Chain -> {"unborn", "open_read", "open_write", "receive", "done", "failed"}]
    BY DEF ChainInv, ChainTypeOK
  <2> QED
    BY <2>1, <2>2 DEF ChainInv, ChainTypeOK, MaxMsg
<1>4. \A d \in Chain : d > childCount => chainAt'[d] = "unborn"
  BY DEF ChainInv, ChainTypeOK
<1> QED
  BY <1>2, <1>3, <1>4 DEF ChainInv

LEMMA TakeLastInv ==
  ASSUME ChainInv, NEW c \in Chain, TakeLast(c)
  PROVE  ChainInv'
<1> USE DEF TakeLast, ChainStep
<1>1. Ended' = Ended \cup {c} /\ c \notin Ended
  BY DEF Ended, ChainInv, ChainTypeOK
<1>2. Cardinality(Ended') = Cardinality(Ended) + 1
  BY <1>1, EndedFinite, FS_AddElement
<1>3. LastWordsConserved'
  BY <1>2, EndedFinite DEF ChainInv, ChainTypeOK, LastWordsConserved
<1>4. ChainTypeOK'
  BY DEF ChainInv, ChainTypeOK, MaxMsg
<1>5. \A d \in Chain : d > childCount => chainAt'[d] = "unborn"
  BY DEF ChainInv, ChainTypeOK
<1> QED
  BY <1>3, <1>4, <1>5 DEF ChainInv

LEMMA ChainParentInv ==
  ASSUME ChainInv, ForkChild \/ ReadStart \/ ReadEnd \/ SendPlain \/ SendLast \/ ChainWaits
  PROVE  ChainInv'
<1> USE DEF ParentStep
<1>0. /\ childCount \in 0 .. MaxForks /\ started \in 0 .. MaxStarts /\ sentences \in 0 .. MaxStarts
      /\ toSend \in 0 .. PlainWords /\ plain \in 0 .. 2 /\ last \in 0 .. 2 /\ plain + last <= 2
      /\ {MaxForks, MaxStarts, PlainWords} \subseteq Nat
  BY ChainAssumption DEF ChainInv, ChainTypeOK, MaxMsg
<1>1. CASE ForkChild
  <2>1. childCount + 1 \in Chain /\ chainAt[childCount + 1] = "unborn"
    BY <1>0, <1>1 DEF ForkChild, ChainInv, Chain
  <2>2. Ended' = Ended
    BY <1>1, <2>1 DEF ForkChild, Ended, ChainInv, ChainTypeOK
  <2>3. LastWordsConserved'
    BY <1>1, <2>2 DEF ForkChild, ChainInv, LastWordsConserved
  <2>4. ChainTypeOK'
    <3>1. childCount' \in 0 .. MaxForks
      BY <1>0, <1>1 DEF ForkChild
    <3>2. chainAt' \in [Chain -> {"unborn", "open_read", "open_write", "receive", "done", "failed"}]
      BY <1>1, <2>1 DEF ForkChild, ChainInv, ChainTypeOK
    <3>3. UNCHANGED <<parentAt, queueThere, plain, last, toSend, started, sentences>>
      BY <1>1 DEF ForkChild
    <3> QED
      BY <1>0, <3>1, <3>2, <3>3 DEF ChainInv, ChainTypeOK, MaxMsg
  <2>5. \A c \in Chain : c > childCount' => chainAt'[c] = "unborn"
    BY <1>0, <1>1, <2>1 DEF ForkChild, ChainInv, ChainTypeOK, Chain
  <2> QED
    BY <1>1, <2>3, <2>4, <2>5 DEF ForkChild, ChainInv
<1>2. CASE ReadStart \/ ReadEnd \/ SendPlain \/ ChainWaits
  <2>1. UNCHANGED <<chainAt, childCount, last, sentences, queueThere>>
    BY <1>2 DEF ReadStart, ReadEnd, SendPlain, ChainWaits
  <2>2. LastWordsConserved'
    BY <2>1 DEF ChainInv, LastWordsConserved, Ended
  <2>3. ChainTypeOK'
    BY <1>0, <1>2, <2>1 DEF ReadStart, ReadEnd, SendPlain, ChainWaits, ChainInv, ChainTypeOK, MaxMsg
  <2>4. sentences + (IF parentAt' = "send" THEN 1 ELSE 0) <= started'
    BY <1>0, <1>2 DEF ReadStart, ReadEnd, SendPlain, ChainWaits, ChainInv
  <2> QED
    BY <2>1, <2>2, <2>3, <2>4 DEF ChainInv
<1>3. CASE SendLast
  <2>1. /\ UNCHANGED <<chainAt, childCount, plain, toSend, started, queueThere>>
        /\ parentAt = "send" /\ parentAt' \in {"wait", "read"}
        /\ last' = last + 1 /\ sentences' = sentences + 1
    BY <1>3 DEF SendLast, AfterSentence
  <2>2. LastWordsConserved'
    BY <1>0, <2>1, EndedFinite DEF ChainInv, LastWordsConserved, Ended
  <2>3. last' \in 0 .. 2 /\ plain' + last' <= 2 /\ sentences' <= started
    BY <1>0, <1>3, <2>1 DEF SendLast, ChainInv, MaxMsg
  <2>4. ChainTypeOK'
    BY <1>0, <2>1, <2>3 DEF ChainInv, ChainTypeOK, MaxMsg
  <2> QED
    BY <2>1, <2>2, <2>3, <2>4 DEF ChainInv
<1> QED
  BY <1>1, <1>2, <1>3

LEMMA ChainStepInv == ChainInv /\ [ChainNext]_chainVars => ChainInv'
<1> SUFFICES ASSUME ChainInv, [ChainNext]_chainVars PROVE ChainInv'
  OBVIOUS
<1>1. ASSUME NEW c \in Chain, CreateFirst(c) \/ OpenPrevious(c) \/ CreateOwn(c) PROVE ChainInv'
  <2>1. PICK to \in {"open_write", "receive", "failed"} :
           chainAt[c] \in {"open_read", "open_write"} /\ chainAt' = [chainAt EXCEPT ![c] = to]
    BY <1>1 DEF CreateFirst, OpenPrevious, CreateOwn, ChainStep
  <2>2. /\ UNCHANGED <<parentAt, childCount, last, toSend, started, sentences, plain>>
        /\ queueThere' \subseteq Chain /\ plain \in 0 .. plain
    BY <1>1 DEF CreateFirst, OpenPrevious, CreateOwn, ChainStep, ChainInv, ChainTypeOK
  <2> QED
    BY <2>1, <2>2, ChainChildStaysUnended
<1>2. ASSUME NEW c \in Chain, TakePlain(c) PROVE ChainInv'
  <2>1. chainAt[c] = "receive" /\ chainAt' = [chainAt EXCEPT ![c] = "receive"]
    BY <1>2 DEF TakePlain, ChainStep
  <2>2. /\ UNCHANGED <<parentAt, childCount, last, toSend, started, sentences>>
        /\ queueThere' \subseteq Chain /\ plain' \in 0 .. plain
    BY <1>2 DEF TakePlain, ChainStep, ChainInv, ChainTypeOK
  <2> QED
    BY <2>1, <2>2, ChainChildStaysUnended
<1>3. CASE UNCHANGED chainVars
  BY <1>3 DEF chainVars, ChainInv, ChainTypeOK, LastWordsConserved, Ended
<1> QED
  BY <1>1, <1>2, <1>3, TakeLastInv, ChainParentInv DEF ChainNext, ChainChild

(* Every last word that was sent is in the queue or has ended a child      *)
(* (etap2.c:49-63, 110-127), for any number of children and sentences.     *)
THEOREM ChainKeepsLastWords == ChainSpec => []LastWordsConserved
<1>1. ChainInv => LastWordsConserved
  BY DEF ChainInv
<1> QED
  BY <1>1, ChainInvInit, ChainStepInv, PTL DEF ChainSpec
-----------------------------------------------------------------------------
(* The parts of sop-l2.c.  Part i + 1 begins where part i ends, and the    *)
(* reader is BufSize characters ahead with every part, or at the end of    *)
(* the file; PartCount parts of BufSize characters are more than the file. *)
PartsTyped == /\ fileOffset \in 0 .. FileSize
              /\ partLen \in 0 .. BufSize /\ partLen <= fileOffset
              /\ partFrom \in [Parts -> Nat] /\ partTo \in [Parts -> Nat]
              /\ partAt \in [Parts -> {"unborn", "start", "suspended", "write", "done"}]
              /\ gotSigint \in [{Splitter} \cup Parts -> BOOLEAN]
              /\ partWritten \in [Parts -> Nat]
              /\ splitterAt \in {"read", "fork", "unblock", "kill", "wait", "killed", "exited"}
              /\ nextPart \in 1 .. PartCount + 1
              /\ ctrlC \in Nat

PartsCut ==
  /\ \A i \in Parts : i < nextPart => partFrom[i] <= partTo[i] /\ partTo[i] <= fileOffset - partLen
  /\ \A i, j \in Parts : i < j /\ j < nextPart => partTo[i] <= partFrom[j]
  /\ \A p \in 1 .. fileOffset - partLen :
        \E i \in Parts : i < nextPart /\ partFrom[i] < p /\ p <= partTo[i]

ReadAhead == fileOffset = FileSize \/ fileOffset = (nextPart - 1) * BufSize + partLen

SplitterOrder ==
  /\ splitterAt \in {"read", "fork"} => nextPart <= PartCount
  /\ splitterAt = "fork" => partLen = BufSize \/ fileOffset = FileSize
  /\ splitterAt \in {"unblock", "kill", "wait", "exited"} => nextPart = PartCount + 1 /\ partLen = 0

(* A child that is done has written its part, unless Ctrl+C stopped it.    *)
PartsWritten ==
  /\ \A i \in Parts : partAt[i] = "unborn" <=> i >= nextPart
  /\ \A i \in Parts : partAt[i] = "done" => gotSigint[i] \/ partWritten[i] = partTo[i] - partFrom[i]
  /\ splitterAt = "exited" => \A i \in Parts : partAt[i] = "done"
  /\ ctrlC = 0 => intPending = {} /\ \A q \in {Splitter} \cup Parts : ~gotSigint[q]

PartsInv == PartsTyped /\ PartsCut /\ ReadAhead /\ SplitterOrder /\ PartsWritten

LEMMA PartsAreEnough ==
  /\ BufSize \in Nat \ {0} /\ FileSize < PartCount * BufSize
<1>1. ASSUME NEW m \in Nat, NEW n \in Nat \ {0} PROVE m \div n \in Nat /\ m < n * (m \div n) + n
  OBVIOUS
<1>2. ASSUME NEW m \in Nat, NEW n \in Nat \ {0}, m \div n \in Nat, m < n * (m \div n) + n
      PROVE  m < n * (m \div n + 1)
  BY <1>2
<1> QED
  BY <1>1, <1>2, PartsAssumption DEF BufSize

LEMMA PartsInvInit == PartsInit => PartsInv
<1> SUFFICES ASSUME PartsInit PROVE PartsInv
  OBVIOUS
<1> USE PartsAssumption, PartsAreEnough DEF PartsInit, Parts
<1>1. PartsTyped
  BY DEF PartsTyped
<1>2. PartsCut /\ SplitterOrder /\ PartsWritten
  BY DEF PartsCut, SplitterOrder, PartsWritten
<1>3. ReadAhead
  <2>1. (1 - 1) * BufSize + 0 = 0
    OBVIOUS
  <2> QED
    BY <2>1 DEF ReadAhead
<1> QED
  BY <1>1, <1>2, <1>3 DEF PartsInv

LEMMA ForkPartStep ==
  ASSUME PartsInv, ForkPart
  PROVE  PartsInv'
<1> USE PartsAssumption, PartsAreEnough DEF PartsInv
<1>1. /\ splitterAt = "fork" /\ splitterAt' = IF nextPart = PartCount THEN "unblock" ELSE "read"
      /\ nextPart \in Parts /\ nextPart' = nextPart + 1 /\ partLen' = 0
      /\ partFrom' = [partFrom EXCEPT ![nextPart] = fileOffset - partLen]
      /\ partTo' = [partTo EXCEPT ![nextPart] = fileOffset]
      /\ partAt' = [partAt EXCEPT ![nextPart] = "start"]
      /\ gotSigint' = [gotSigint EXCEPT ![nextPart] = gotSigint[Splitter]]
      /\ UNCHANGED <<fileOffset, partWritten, intPending, ctrlC>>
  BY DEF ForkPart, SplitterStep, SplitterOrder, PartsTyped, Parts
<1>2. PartsTyped'
  BY <1>1 DEF PartsTyped, Parts, Splitter
<1>3. PartsCut'
  <2> DEFINE k == nextPart
             from == fileOffset - partLen
  <2>0. /\ k \in Parts /\ \A i \in Parts : i \in Int /\ (i < k + 1 => i < k \/ i = k)
        /\ from \in Nat /\ from <= fileOffset /\ fileOffset \in Nat
    BY <1>1 DEF PartsTyped, Parts
  <2>1. /\ partFrom'[k] = from /\ partTo'[k] = fileOffset
        /\ \A i \in Parts : i < k => partFrom'[i] = partFrom[i] /\ partTo'[i] = partTo[i]
    BY <1>1 DEF PartsTyped, Parts
  <2>2. \A i \in Parts : i < k => partFrom[i] <= partTo[i] /\ partTo[i] <= from /\ partTo[i] \in Nat
    BY DEF PartsTyped, PartsCut
  <2>3. \A i \in Parts : i < k + 1 => partFrom'[i] <= partTo'[i] /\ partTo'[i] <= fileOffset
    BY <2>0, <2>1, <2>2
  <2>4. \A i, j \in Parts : i < j /\ j < k + 1 => partTo'[i] <= partFrom'[j]
    <3> SUFFICES ASSUME NEW i \in Parts, NEW j \in Parts, i < j, j < k + 1
                 PROVE  partTo'[i] <= partFrom'[j]
      OBVIOUS
    <3>1. i < k /\ (j < k \/ j = k)
      BY <2>0
    <3>2. j < k => partTo[i] <= partFrom[j]
      BY DEF PartsCut
    <3> QED
      BY <2>1, <2>2, <3>1, <3>2
  <2>5. \A p \in 1 .. fileOffset : \E i \in Parts : i < k + 1 /\ partFrom'[i] < p /\ p <= partTo'[i]
    <3> SUFFICES ASSUME NEW p \in 1 .. fileOffset
                 PROVE  \E i \in Parts : i < k + 1 /\ partFrom'[i] < p /\ p <= partTo'[i]
      OBVIOUS
    <3>1. CASE p <= from
      <4>1. PICK i \in Parts : i < k /\ partFrom[i] < p /\ p <= partTo[i]
        BY <2>0, <3>1 DEF PartsCut
      <4> QED
        BY <2>0, <2>1, <4>1
    <3>2. CASE ~(p <= from)
      BY <2>0, <2>1, <3>2
    <3> QED
      BY <3>1, <3>2
  <2>6. fileOffset' - partLen' = fileOffset /\ nextPart' = k + 1
    BY <1>1, <2>0
  <2> QED
    BY <2>3, <2>4, <2>5, <2>6 DEF PartsCut
<1>4. ReadAhead'
  <2>1. fileOffset = FileSize \/ fileOffset = (nextPart - 1) * BufSize + BufSize
    BY <1>1 DEF ReadAhead, SplitterOrder
  <2>2. (nextPart - 1) * BufSize + BufSize = ((nextPart + 1) - 1) * BufSize + 0
    BY <1>1 DEF Parts
  <2> QED
    BY <1>1, <2>1, <2>2 DEF ReadAhead, BufSize
<1>5. SplitterOrder'
  BY <1>1 DEF SplitterOrder, Parts
<1>6. PartsWritten'
  <2> DEFINE k == nextPart
  <2>1. /\ k \in Parts /\ partAt'[k] = "start"
        /\ \A i \in Parts : i # k => /\ partAt'[i] = partAt[i] /\ gotSigint'[i] = gotSigint[i]
                                   /\ partFrom'[i] = partFrom[i] /\ partTo'[i] = partTo[i]
    BY <1>1 DEF PartsTyped
  <2>2. \A i \in Parts : i >= k + 1 <=> i >= k /\ i # k
    BY <2>1 DEF Parts
  <2>3. \A i \in Parts : partAt'[i] = "unborn" <=> i >= nextPart'
    BY <1>1, <2>1, <2>2 DEF PartsWritten
  <2>4. \A i \in Parts : partAt'[i] = "done" =>
          gotSigint'[i] \/ partWritten'[i] = partTo'[i] - partFrom'[i]
    BY <1>1, <2>1 DEF PartsWritten
  <2>5. ctrlC' = 0 => intPending' = {} /\ \A q \in {Splitter} \cup Parts : ~gotSigint'[q]
    BY <1>1 DEF PartsWritten, PartsTyped, Parts, Splitter
  <2>6. splitterAt' # "exited"
    BY <1>1
  <2> QED
    BY <2>3, <2>4, <2>5, <2>6 DEF PartsWritten
<1> QED
  BY <1>2, <1>3, <1>4, <1>5, <1>6

LEMMA ReadPieceStep ==
  ASSUME PartsInv, ReadPiece
  PROVE  PartsInv'
<1> USE PartsAssumption, PartsAreEnough DEF PartsInv
<1>1. PICK c \in 1 .. BufSize - partLen :
         /\ fileOffset + c <= FileSize /\ fileOffset' = fileOffset + c /\ partLen' = partLen + c
         /\ splitterAt = "read" /\ splitterAt' = "read"
         /\ UNCHANGED <<nextPart, writerVars, partFrom, partTo, intPending, ctrlC>>
  BY DEF ReadPiece, SplitterStep
<1>2. PartsTyped'
  BY <1>1 DEF PartsTyped, writerVars
<1>3. PartsCut'
  <2>1. fileOffset' - partLen' = fileOffset - partLen
    BY <1>1 DEF PartsTyped
  <2> QED
    BY <1>1, <2>1 DEF PartsCut
<1>4. ReadAhead'
  <2>1. BufSize' = BufSize
    BY DEF BufSize
  <2>2. fileOffset # FileSize
    BY <1>1 DEF PartsTyped
  <2>3. fileOffset = (nextPart - 1) * BufSize + partLen
    BY <2>2 DEF ReadAhead
  <2>4. (nextPart - 1) * BufSize \in Int
    BY DEF PartsTyped
  <2>5. fileOffset + c = (nextPart - 1) * BufSize + (partLen + c)
    BY <1>1, <2>3, <2>4 DEF PartsTyped
  <2> QED
    BY <1>1, <2>1, <2>5 DEF ReadAhead
<1>5. SplitterOrder' /\ PartsWritten'
  BY <1>1 DEF SplitterOrder, PartsWritten, writerVars
<1> QED
  BY <1>2, <1>3, <1>4, <1>5

(* The other steps leave the cutting alone. *)
LEMMA CutKept ==
  ASSUME PartsInv, UNCHANGED <<fileOffset, partLen, partFrom, partTo, nextPart>>
  PROVE  PartsCut' /\ ReadAhead'
BY DEF PartsInv, PartsCut, ReadAhead, BufSize

LEMMA SplitterPartsStep ==
  ASSUME PartsInv, \/ PartRead \/ UnblockUsr1 \/ KillUsr1 \/ WaitForParts
                   \/ SplitterHandles \/ PressCtrlC \/ UNCHANGED partVars
  PROVE  PartsInv'
<1> USE PartsAssumption DEF PartsInv
<1>1. UNCHANGED <<fileOffset, partLen, partFrom, partTo, nextPart, partAt, partWritten>>
  BY DEF PartRead, UnblockUsr1, KillUsr1, WaitForParts, SplitterHandles, SplitterFlags,
     SplitterPassesOn, SplitterKilled, PressCtrlC, partVars, inputVars, writerVars
<1>2. PartsTyped'
  <2>1. splitterAt' \in {"read", "fork", "unblock", "kill", "wait", "killed", "exited"}
    BY DEF PartsTyped, PartRead, UnblockUsr1, KillUsr1, WaitForParts, SplitterHandles,
       SplitterFlags, SplitterPassesOn, SplitterKilled, PressCtrlC, partVars, SplitterStep
  <2>2. ctrlC' \in Nat
    BY DEF PartsTyped, PartRead, UnblockUsr1, KillUsr1, WaitForParts, SplitterHandles,
       SplitterFlags, SplitterPassesOn, SplitterKilled, PressCtrlC, partVars, SplitterStep
  <2>3. gotSigint' \in [{Splitter} \cup Parts -> BOOLEAN]
    <3>1. gotSigint' = gotSigint \/ gotSigint' = [gotSigint EXCEPT ![Splitter] = TRUE]
      BY DEF PartRead, UnblockUsr1, KillUsr1, WaitForParts, SplitterHandles, SplitterFlags,
         SplitterPassesOn, SplitterKilled, PressCtrlC, partVars, writerVars
    <3> QED
      BY <3>1 DEF PartsTyped
  <2> QED
    BY <1>1, <2>1, <2>2, <2>3 DEF PartsTyped, BufSize
<1>3. SplitterOrder'
  <2>1. CASE PartRead
    BY <1>1, <2>1 DEF PartRead, SplitterStep, SplitterOrder, BufSize
  <2>2. CASE ~PartRead
    BY <1>1, <2>2 DEF SplitterOrder, BufSize, UnblockUsr1, KillUsr1, WaitForParts, SplitterHandles,
       SplitterFlags, SplitterPassesOn, SplitterKilled, PressCtrlC, partVars, SplitterStep
  <2> QED
    BY <2>1, <2>2
<1>4. PartsWritten'
  <2>1. \A i \in Parts : partAt[i] = "unborn" <=> i >= nextPart
    BY DEF PartsWritten
  <2>2. /\ \A i \in Parts : gotSigint'[i] = gotSigint[i]
        /\ ctrlC' = 0 => ctrlC = 0 /\ intPending' = {} /\ gotSigint' = gotSigint
    <3>1. CASE SplitterHandles
      <4>1. SplitterSigint /\ ctrlC' = ctrlC
        BY <3>1 DEF SplitterHandles, SplitterFlags, SplitterPassesOn, SplitterKilled
      <4>2. ctrlC # 0
        BY <4>1 DEF PartsWritten, SplitterSigint
      <4>3. \A i \in Parts : i # Splitter
        BY DEF Parts, Splitter
      <4>4. \A i \in Parts : gotSigint'[i] = gotSigint[i]
        BY <3>1, <4>3 DEF SplitterHandles, SplitterFlags, SplitterPassesOn, SplitterKilled,
           PartsTyped, writerVars
      <4> QED
        BY <4>1, <4>2, <4>4
    <3>2. CASE PressCtrlC
      <4>1. ctrlC \in Nat /\ ctrlC' = ctrlC + 1 /\ gotSigint' = gotSigint
        BY <3>2 DEF PressCtrlC, PartsTyped, writerVars
      <4> QED
        BY <4>1
    <3>3. CASE ~SplitterHandles /\ ~PressCtrlC
      <4>1. UNCHANGED <<ctrlC, intPending, gotSigint>>
        BY <3>3 DEF PartRead, UnblockUsr1, KillUsr1, WaitForParts, SplitterStep, partVars, writerVars
      <4> QED
        BY <4>1 DEF PartsWritten
    <3> QED
      BY <3>1, <3>2, <3>3
  <2>3. splitterAt' = "exited" => \A i \in Parts : partAt[i] = "done"
    <3>1. CASE WaitForParts
      <4>1. ASSUME NEW i \in Parts PROVE partAt[i] # "unborn"
        <5>1. i \in Int /\ nextPart = PartCount + 1 /\ i <= PartCount
          BY <3>1 DEF Parts, WaitForParts, SplitterStep, SplitterOrder
        <5>2. ~(i >= nextPart)
          BY <5>1
        <5> QED
          BY <2>1, <5>2
      <4> QED
        BY <3>1, <4>1 DEF WaitForParts, Writing
    <3>2. CASE ~WaitForParts
      BY <3>2 DEF PartsWritten, PartRead, UnblockUsr1, KillUsr1, SplitterHandles,
         SplitterFlags, SplitterPassesOn, SplitterKilled, PressCtrlC, partVars, SplitterStep
    <3> QED
      BY <3>1, <3>2
  <2> QED
    BY <1>1, <2>1, <2>2, <2>3 DEF PartsWritten
<1> QED
  BY <1>1, <1>2, <1>3, <1>4, CutKept

LEMMA WriterPartsStep ==
  ASSUME PartsInv, NEW i \in Parts, WritePart(i) \/ PartInterrupted(i)
  PROVE  PartsInv'
<1> USE PartsAssumption DEF PartsInv
<1>1. UNCHANGED <<fileOffset, partLen, partFrom, partTo, nextPart, splitterAt, ctrlC>>
  BY DEF WritePart, Suspend, StartWriting, WriteCharacter, PartDone, PartInterrupted, PartStep,
     inputVars
<1>2. PartsTyped'
  <2>1. partAt' \in [Parts -> {"unborn", "start", "suspended", "write", "done"}]
    BY DEF PartsTyped, WritePart, Suspend, StartWriting, WriteCharacter, PartDone,
       PartInterrupted, PartStep
  <2>2. partWritten' = partWritten \/ partWritten' = [partWritten EXCEPT ![i] = @ + 1]
    BY DEF WritePart, Suspend, StartWriting, WriteCharacter, PartDone, PartInterrupted, PartStep
  <2>3. gotSigint' = gotSigint \/ gotSigint' = [gotSigint EXCEPT ![i] = TRUE]
    BY DEF WritePart, Suspend, StartWriting, WriteCharacter, PartDone, PartInterrupted, PartStep
  <2>4. partWritten' \in [Parts -> Nat]
    <3>1. partWritten \in [Parts -> Nat] /\ partWritten[i] + 1 \in Nat
      BY DEF PartsTyped
    <3> QED
      BY <2>2, <3>1
  <2>5. gotSigint' \in [{Splitter} \cup Parts -> BOOLEAN]
    <3>1. gotSigint \in [{Splitter} \cup Parts -> BOOLEAN]
      BY DEF PartsTyped
    <3> QED
      BY <2>3, <3>1
  <2> QED
    BY <1>1, <2>1, <2>4, <2>5 DEF PartsTyped, BufSize
<1>3. SplitterOrder'
  BY <1>1 DEF SplitterOrder, BufSize
<1>4. PartsWritten'
  <2>1. /\ partAt[i] \notin {"unborn", "done"} /\ partAt'[i] # "unborn"
        /\ \A j \in Parts \ {i} : partAt'[j] = partAt[j] /\ gotSigint'[j] = gotSigint[j]
                                  /\ partWritten'[j] = partWritten[j]
    BY DEF PartsTyped, WritePart, Suspend, StartWriting, WriteCharacter, PartDone, PartInterrupted,
       PartStep, Writing
  <2>2. partAt'[i] = "done" => gotSigint'[i] \/ partWritten'[i] = partTo[i] - partFrom[i]
    BY <2>1 DEF PartsTyped, WritePart, Suspend, StartWriting, WriteCharacter, PartDone,
       PartInterrupted, PartStep
  <2>3. ctrlC = 0 => intPending' = {} /\ gotSigint' = gotSigint
    BY DEF PartsWritten, WritePart, Suspend, StartWriting, WriteCharacter, PartDone,
       PartInterrupted, PartStep
  <2> QED
    BY <1>1, <2>1, <2>2, <2>3 DEF PartsWritten
<1> QED
  BY <1>1, <1>2, <1>3, <1>4, CutKept
LEMMA PartsStepInv == PartsInv /\ [PartsNext]_partVars => PartsInv'
BY ForkPartStep, ReadPieceStep, SplitterPartsStep, WriterPartsStep DEF PartsNext, Split


THEOREM PartsInvariance == PartsSpec => []PartsInv
BY PartsStepInv, PartsInvInit, PTL DEF PartsSpec

LEMMA PartsInvFile == PartsInv => PartsAreTheFile
<1> SUFFICES ASSUME PartsInv, splitterAt = "exited", ctrlC = 0
             PROVE  /\ \A i \in Parts : partWritten[i] = partTo[i] - partFrom[i]
                    /\ \A p \in 1 .. FileSize :
                          \E i \in Parts : \A j \in Parts :
                             (partFrom[j] < p /\ p <= partTo[j]) <=> j = i
  BY DEF PartsAreTheFile
<1> USE DEF PartsInv
<1>1. \A i \in Parts : partWritten[i] = partTo[i] - partFrom[i]
  BY DEF PartsWritten
<1>2. nextPart = PartCount + 1 /\ partLen = 0
  BY DEF SplitterOrder
<1>3. fileOffset = FileSize
  <2>1. (nextPart - 1) * BufSize + partLen = PartCount * BufSize
    BY <1>2, PartsAreEnough, PartsAssumption
  <2>2. fileOffset <= FileSize /\ fileOffset \in Nat /\ FileSize \in Nat /\ PartCount * BufSize \in Nat
    BY PartsAreEnough, PartsAssumption DEF PartsTyped
  <2> QED
    BY <2>1, <2>2, PartsAreEnough DEF ReadAhead
<1>4. /\ \A i \in Parts : i \in Int /\ i < nextPart
      /\ fileOffset - partLen = FileSize
  BY <1>2, <1>3, PartsAssumption DEF Parts
<1>5. ASSUME NEW p \in 1 .. FileSize
      PROVE  \E i \in Parts : \A j \in Parts : (partFrom[j] < p /\ p <= partTo[j]) <=> j = i
  <2>1. PICK i \in Parts : partFrom[i] < p /\ p <= partTo[i]
    BY <1>4 DEF PartsCut
  <2>2. ASSUME NEW j \in Parts, partFrom[j] < p, p <= partTo[j] PROVE j = i
    <3>1. /\ partFrom[i] \in Nat /\ partTo[i] \in Nat /\ partFrom[j] \in Nat /\ partTo[j] \in Nat
      BY DEF PartsTyped
    <3>2. /\ i < j => partTo[i] <= partFrom[j]
          /\ j < i => partTo[j] <= partFrom[i]
      BY <1>4 DEF PartsCut
    <3>3. ~(i < j) /\ ~(j < i)
      BY <2>1, <2>2, <3>1, <3>2
    <3> QED
      BY <1>4, <3>3
  <2> QED
    BY <2>1, <2>2
<1> QED
  BY <1>1, <1>5

(* Without Ctrl+C every character of the file is in one part and written   *)
(* once, however the reads are cut (sop-l2.c:16-32, 108-120, 151-181).     *)
THEOREM SplitterPartsAreTheFile == PartsSpec => []PartsAreTheFile
BY PartsInvFile, PartsInvariance, PTL

LEMMA BufSizeFits == BufSize \in Nat /\ BufSize <= FileSize + 1
<1>1. ASSUME NEW m \in Nat, NEW n \in Nat \ {0} PROVE m \div n \in Nat /\ m \div n <= m
  OBVIOUS
<1> QED
  BY <1>1, PartsAssumption DEF BufSize

LEMMA PartsTypesInit == PartsInit => PartsTypeOK
BY PartsAssumption DEF PartsInit, PartsTypeOK

LEMMA PartsTypesStep ==
  PartsTypeOK /\ PartsInv /\ PartsInv' /\ [PartsNext]_partVars => PartsTypeOK'
<1> SUFFICES ASSUME PartsTypeOK, PartsInv, PartsInv', [PartsNext]_partVars PROVE PartsTypeOK'
  OBVIOUS
<1> DEFINE Ranges == /\ partFrom \in [Parts -> 0 .. FileSize]
                     /\ partTo \in [Parts -> 0 .. FileSize]
                     /\ partWritten \in [Parts -> 0 .. FileSize]
           Rest == /\ onSigint \in {"flag", "pass_on", "default"}
                   /\ usr1Pending \subseteq Parts
                   /\ intPending \subseteq {Splitter} \cup Parts
                   /\ ctrlC \in 0 .. MaxCtrlC
<1>0. Ranges /\ Rest /\ FileSize \in Nat /\ MaxCtrlC \in Nat /\ Writing \subseteq Parts
      /\ fileOffset \in 0 .. FileSize /\ partLen \in Nat /\ partLen <= fileOffset
  BY PartsAssumption, BufSizeFits DEF PartsTypeOK, Writing, PartsInv, PartsTyped
<1>1. Ranges' /\ Rest'
  <2>1. CASE ForkPart
    <3>1. fileOffset - partLen \in 0 .. FileSize /\ fileOffset \in 0 .. FileSize
      BY <1>0
    <3> QED
      BY <1>0, <2>1, <3>1 DEF ForkPart, SplitterStep
  <2>2. CASE ReadPiece \/ PartRead \/ UnblockUsr1 \/ KillUsr1 \/ WaitForParts
    BY <1>0, <2>2 DEF ReadPiece, PartRead, UnblockUsr1, KillUsr1, WaitForParts, SplitterStep,
                      inputVars, writerVars
  <2>3. CASE SplitterHandles
    BY <1>0, <2>3 DEF SplitterHandles, SplitterFlags, SplitterPassesOn, SplitterKilled,
                      inputVars, writerVars
  <2>4. CASE PressCtrlC
    BY <1>0, <2>4 DEF PressCtrlC, inputVars, writerVars
  <2>5. ASSUME NEW i \in Parts, WriteCharacter(i) PROVE Ranges' /\ Rest'
    <3>1. partWritten[i] + 1 \in 0 .. FileSize
      BY <1>0, <2>5 DEF WriteCharacter
    <3> QED
      BY <1>0, <2>5, <3>1 DEF WriteCharacter, PartStep, inputVars
  <2>6. ASSUME NEW i \in Parts, Suspend(i) \/ StartWriting(i) \/ PartDone(i) \/ PartInterrupted(i)
        PROVE  Ranges' /\ Rest'
    BY <1>0, <2>6 DEF Suspend, StartWriting, PartDone, PartInterrupted, PartStep, inputVars
  <2>7. CASE UNCHANGED partVars
    BY <1>0, <2>7 DEF partVars, inputVars, writerVars
  <2> HIDE DEF Ranges, Rest
  <2> QED
    BY <2>1, <2>2, <2>3, <2>4, <2>5, <2>6, <2>7 DEF PartsNext, Split, WritePart
<1>2. partLen' \in 0 .. FileSize + 1
  BY <1>0, BufSizeFits DEF PartsInv, PartsTyped
<1> QED
  BY <1>1, <1>2 DEF PartsInv, PartsTyped, PartsTypeOK
-----------------------------------------------------------------------------
(* All programs side by side, as LabPrograms runs them.  A program that    *)
(* does not run stays in its first state, so that the invariant of each    *)
(* program holds whichever runs.  The ring has two users: by itself its    *)
(* calls come from anywhere, while the firm of etap4Fail.c does nothing.   *)
RingOrFirm == IF program = "ring" THEN failMainAt = "scan" ELSE FailInv

ThreadsInv == BallsInv /\ YearsInv /\ ThinningInv /\ TestersInv /\ HelpInv
SharersInv == IntegralTypes /\ ChannelInv /\ CharTypeOK /\ CharInv
PipesInv == RollInv /\ StarInv /\ ChainInv /\ FifoTypeOK /\ FifoInv
SignalsInv == /\ ReapingTypeOK /\ NoZombieForgotten /\ BlockInv
              /\ CounterTypeOK /\ CounterInv
              /\ CopyTypeOK /\ CopyInv
              /\ PartsTypeOK /\ PartsInv

LabInv == /\ program \in Programs
          /\ BufferInv /\ RingOrFirm
          /\ ThreadsInv /\ SharersInv /\ PipesInv /\ SignalsInv

LEMMA LabInvInit == LabInit => LabInv
<1> SUFFICES ASSUME LabInit PROVE LabInv
  OBVIOUS
<1>1. BufferInv /\ RingOrFirm
  BY BufferInvInit, FailInvInit DEF LabInit, RingOrFirm, FailInit
<1>2. ThreadsInv
  BY BallsInit, YearsInit, ThinningInitInv, TestersInvInit, HelpInvInit DEF LabInit, ThreadsInv
<1>3. SharersInv
  BY IntegralInitInv, IntegralTypesInit, ChannelInitInv, CharInvInit, CharTypesInit
  DEF LabInit, SharersInv, IntegralTypes
<1>4. PipesInv
  BY RollInitInv, StarInvInit, ChainInvInit, FifoInitInv, FifoTypesInit DEF LabInit, PipesInv
<1>5. SignalsInv
  BY ReapingTypesInit, ZombiesInit, BlockInvInit, CounterInvInit, CounterTypesInit, CopyInvInit,
     CopyTypesInit, PartsInvInit, PartsTypesInit
  DEF LabInit, SignalsInv
<1> QED
  BY <1>1, <1>2, <1>3, <1>4, <1>5 DEF LabInit, LabInv

(* A step of the whole is a step of the program that runs and leaves the   *)
(* others alone.                                                           *)
LEMMA ThreadsStep ==
  ASSUME [LabNext]_labVars
  PROVE  /\ [ThrowersNext]_throwersVars /\ [StudentsNext]_studentsVars /\ [ArrayNext]_arrayVars
         /\ [TestersNext]_testersVars /\ [HelpNext]_helpVars
<1>1. [ThrowersNext]_throwersVars
  BY DEF LabNext, Only, labVars
<1>2. [StudentsNext]_studentsVars
  BY DEF LabNext, Only, labVars
<1>3. [ArrayNext]_arrayVars
  BY DEF LabNext, Only, labVars
<1>4. [TestersNext]_testersVars
  BY DEF LabNext, Only, labVars
<1>5. [HelpNext]_helpVars
  BY DEF LabNext, Only, labVars
<1> QED
  BY <1>1, <1>2, <1>3, <1>4, <1>5

LEMMA SharersStep ==
  ASSUME [LabNext]_labVars
  PROVE  [IntegralNext]_integralVars /\ [ChannelNext]_channelVars /\ [CharNext]_charVars
<1>1. [IntegralNext]_integralVars
  BY DEF LabNext, Only, labVars
<1>2. [ChannelNext]_channelVars
  BY DEF LabNext, Only, labVars
<1>3. [CharNext]_charVars
  BY DEF LabNext, Only, labVars
<1> QED
  BY <1>1, <1>2, <1>3

LEMMA PipesStep ==
  ASSUME [LabNext]_labVars
  PROVE  /\ [RollNext]_rollVars /\ [StarNext]_starVars /\ [ChainNext]_chainVars
         /\ [FifoNext]_fifoVars
<1>1. [RollNext]_rollVars
  BY DEF LabNext, Only, labVars
<1>2. [StarNext]_starVars
  BY DEF LabNext, Only, labVars
<1>3. [ChainNext]_chainVars
  BY DEF LabNext, Only, labVars
<1>4. [FifoNext]_fifoVars
  BY DEF LabNext, Only, labVars
<1> QED
  BY <1>1, <1>2, <1>3, <1>4

LEMMA SignalsStep ==
  ASSUME [LabNext]_labVars
  PROVE  /\ [ReapingNext]_reaperVars /\ [BlockNext]_blockVars /\ [CounterNext]_counterVars
         /\ [CopyNext]_copyVars /\ [PartsNext]_partVars
<1>1. [ReapingNext]_reaperVars
  BY DEF LabNext, Only, labVars
<1>2. [BlockNext]_blockVars
  BY DEF LabNext, Only, labVars
<1>3. [CounterNext]_counterVars
  BY DEF LabNext, Only, labVars
<1>4. [CopyNext]_copyVars
  BY DEF LabNext, Only, labVars
<1>5. [PartsNext]_partVars
  BY DEF LabNext, Only, labVars
<1> QED
  BY <1>1, <1>2, <1>3, <1>4, <1>5

LEMMA RingStep ==
  ASSUME [LabNext]_labVars
  PROVE  /\ program' = program
         /\ program = "ring" => [BufferNext]_bufferVars /\ UNCHANGED failVars
         /\ program # "ring" => [FailNext]_<<bufferVars, failVars>>
<1>1. program' = program
  BY DEF LabNext, Only, labVars
<1>2. program = "ring" => [BufferNext]_bufferVars /\ UNCHANGED failVars
  BY DEF LabNext, Only, labVars
<1>3. program # "ring" => [FailNext]_<<bufferVars, failVars>>
  BY DEF LabNext, Only, labVars
<1> QED
  BY <1>1, <1>2, <1>3

LEMMA LabBufferStep ==
  ASSUME LabInv, [LabNext]_labVars PROVE [BufferNext]_bufferVars
<1>1. program # "ring" => failUnscanned \subseteq Items
  BY DEF LabInv, RingOrFirm, FailInv, FailTypeOK
<1> QED
  BY <1>1, RingStep, FailStepIsBufferStep

LEMMA RingOrFirmStep ==
  ASSUME LabInv, [LabNext]_labVars PROVE BufferInv' /\ RingOrFirm'
<1>1. BufferInv'
  BY LabBufferStep, BufferInvStep, FailThreads DEF LabInv
<1>2. ASSUME program = "ring" PROVE RingOrFirm'
  <2>1. program' = "ring" /\ UNCHANGED failVars
    BY <1>2, RingStep
  <2>2. failMainAt' = failMainAt
    BY <2>1 DEF failVars, failScan
  <2> QED
    BY <1>2, <2>1, <2>2 DEF LabInv, RingOrFirm
<1>3. ASSUME program # "ring" PROVE RingOrFirm'
  <2>1. program' = program /\ [FailNext]_<<bufferVars, failVars>>
    BY <1>3, RingStep
  <2>2. FailInv
    BY <1>3 DEF LabInv, RingOrFirm
  <2>3. FailInv'
    BY <2>1, <2>2, FailStepInv
  <2> QED
    BY <1>3, <2>1, <2>3 DEF RingOrFirm
<1> QED
  BY <1>1, <1>2, <1>3

LEMMA LabInvStep == LabInv /\ [LabNext]_labVars => LabInv'
<1> SUFFICES ASSUME LabInv, [LabNext]_labVars PROVE LabInv'
  OBVIOUS
<1>1. ThreadsInv'
  <2>1. BallsInv' /\ YearsInv'
    BY ThreadsStep, BallsStepInv, YearsStepInv DEF LabInv, ThreadsInv
  <2>2. ThinningInv' /\ TestersInv' /\ HelpInv'
    BY ThreadsStep, ThinningStepInv, TestersStepInv, HelpStepInv DEF LabInv, ThreadsInv
  <2> QED
    BY <2>1, <2>2 DEF ThreadsInv
<1>2. SharersInv'
  <2>1. IntegralInv'
    BY SharersStep, IntegralStepInv DEF LabInv, SharersInv, IntegralTypes
  <2>2. IntegralTypes'
    BY <2>1, SharersStep, IntegralTypesStep DEF LabInv, SharersInv
  <2>3. ChannelInv' /\ CharInv'
    BY SharersStep, ChannelStepInv, CharStepInv DEF LabInv, SharersInv
  <2>4. CharTypeOK'
    BY <2>3, SharersStep, CharTypesStep DEF LabInv, SharersInv
  <2> QED
    BY <2>2, <2>3, <2>4 DEF SharersInv
<1>3. PipesInv'
  <2>1. RollInv' /\ StarInv' /\ ChainInv'
    BY PipesStep, RollStepInv, StarStepInv, ChainStepInv DEF LabInv, PipesInv
  <2>2. FifoInv'
    BY PipesStep, FifoStepInv DEF LabInv, PipesInv
  <2>3. FifoTypeOK'
    BY <2>2, PipesStep, FifoTypesStep DEF LabInv, PipesInv
  <2> QED
    BY <2>1, <2>2, <2>3 DEF PipesInv
<1>4. SignalsInv'
  <2>1. ReapingTypeOK' /\ NoZombieForgotten' /\ BlockInv'
    BY SignalsStep, ReapingTypesStep, ZombiesStep, BlockStepInv DEF LabInv, SignalsInv
  <2>2. CounterInv' /\ CopyInv' /\ PartsInv'
    BY SignalsStep, CounterStepInv, CopyStepInv, PartsStepInv DEF LabInv, SignalsInv
  <2>3. CounterTypeOK' /\ CopyTypeOK' /\ PartsTypeOK'
    BY <2>2, SignalsStep, CounterTypesStep, CopyTypesStep, PartsTypesStep DEF LabInv, SignalsInv
  <2> QED
    BY <2>1, <2>2, <2>3 DEF SignalsInv
<1>5. BufferInv' /\ RingOrFirm' /\ program' \in Programs
  BY RingOrFirmStep, RingStep DEF LabInv
<1> QED
  BY <1>1, <1>2, <1>3, <1>4, <1>5 DEF LabInv

(* The invariant of all programs side by side. *)
THEOREM LabInvariance == LabSpec => []LabInv
BY LabInvInit, LabInvStep, PTL DEF LabSpec

(* Type correctness of every program: what a counter, a queue or a pipe    *)
(* can hold; in particular the ring's count and the students' counters are *)
(* never lowered below zero, and the fifo and the ring of help.c are never *)
(* filled beyond their capacity, for every value of the constants.         *)
THEOREM LabTypesHold == LabSpec => []LabTypeOK
<1>1. LabInv => LabTypeOK
  <2> SUFFICES ASSUME LabInv PROVE LabTypeOK
    OBVIOUS
  <2>1. /\ BufferTypeOK
        /\ program = "fail" => FailTypeOK
    BY DEF LabInv, BufferInv, RingOrFirm, FailInv
  <2>2. ThrowersTypeOK /\ StudentsTypeOK /\ ArrayTypeOK /\ TestersTypeOK /\ HelpTypeOK
    BY BallsInvTypes, YearsInvTypes DEF LabInv, ThreadsInv, ThinningInv, TestersInv, HelpInv
  <2>3. IntegralTypeOK /\ ChannelTypeOK /\ CharTypeOK
    BY IntegralTypesFollow DEF LabInv, SharersInv, IntegralTypes, ChannelInv
  <2>4. RollTypeOK /\ StarTypeOK /\ ChainTypeOK /\ FifoTypeOK
    BY DEF LabInv, PipesInv, RollInv, StarInv, ChainInv
  <2>5. ReapingTypeOK /\ BlockTypeOK /\ CounterTypeOK /\ CopyTypeOK /\ PartsTypeOK
    BY DEF LabInv, SignalsInv, BlockInv
  <2> QED
    BY <2>1, <2>2, <2>3, <2>4, <2>5 DEF LabTypeOK
<1> QED
  BY <1>1, LabInvariance, PTL

(* Each program keeps its own promise when they stand side by side: balls, *)
(* students, letters, characters, packets, answers, signals and last words *)
(* are all accounted for.  What the run of LabPrograms checks on a small   *)
(* instance, for every value of the constants.                             *)
THEOREM LabSafety ==
  LabSpec => [](/\ EveryBallSummed /\ NobodyLeftInAYear /\ PrintIsSnapshot /\ CountsAreTheFiles
                /\ AnswersInTurn /\ PartsAreTheFile /\ NoZombieForgotten /\ LastNumbersComplete
                /\ CountersTrue /\ CountNoted /\ CopyComplete /\ FifoComplete
                /\ HelpComplete /\ LastWordsConserved /\ SignalsCounted)
<1> DEFINE Safe ==
         /\ EveryBallSummed /\ NobodyLeftInAYear /\ PrintIsSnapshot /\ CountsAreTheFiles
         /\ AnswersInTurn /\ PartsAreTheFile /\ NoZombieForgotten /\ LastNumbersComplete
         /\ CountersTrue /\ CountNoted /\ CopyComplete /\ FifoComplete
         /\ HelpComplete /\ LastWordsConserved /\ SignalsCounted
<1>1. LabInv => Safe
  <2> SUFFICES ASSUME LabInv PROVE Safe
    OBVIOUS
  <2>1. EveryBallSummed /\ NobodyLeftInAYear /\ PrintIsSnapshot /\ HelpComplete
    BY BallsInvSums, YearsInvNobodyLeft, ThinningInvPrints, HelpInvCompletes DEF LabInv, ThreadsInv
  <2>2. CountersTrue /\ CountsAreTheFiles
    BY IntegralInvCounters, CharInvCounts DEF LabInv, SharersInv, IntegralTypes
  <2>3. AnswersInTurn /\ FifoComplete /\ LastWordsConserved
    BY RollInvAnswers, FifoInvCompletes DEF LabInv, PipesInv, ChainInv
  <2>4. PartsAreTheFile /\ NoZombieForgotten /\ CountNoted /\ CopyComplete /\ SignalsCounted
    BY PartsInvFile, CounterInvNotes, CopyInvCompletes DEF LabInv, SignalsInv, BlockInv
  <2>5. LastNumbersComplete
    <3>1. CASE program = "ring"
      BY <3>1 DEF LabInv, RingOrFirm, LastNumbersComplete
    <3>2. CASE program # "ring"
      BY <3>2, FailInvLastNumbers DEF LabInv, RingOrFirm
    <3> QED
      BY <3>1, <3>2
  <2> QED
    BY <2>1, <2>2, <2>3, <2>4, <2>5
<1> QED
  BY <1>1, LabInvariance, PTL

(* The ring implements the task queue also under the firm of etap4Fail.c,  *)
(* whose main and workers are its callers, and the channel the one-place   *)
(* channel.                                                                *)
THEOREM LabImplementsQueues == LabSpec => RefinesTaskQueue /\ RefinesOneSlot
<1>1. LabInit => Queue!QueueInit /\ Slot!Init
  BY AnswersInit DEF LabInit, ChannelInit, Slot!Init
<1>2. LabInv /\ [LabNext]_labVars => [Queue!QueueNext]_(Queue!qvars)
  BY LabBufferStep, BufferStepRefines DEF LabInv
<1>3. LabInv /\ [LabNext]_labVars => [Slot!Next]_(Slot!slotVars)
  BY SharersStep, ChannelStepSimulates DEF LabInv, SharersInv
<1> QED
  BY <1>1, <1>2, <1>3, LabInvariance, PTL
  DEF LabSpec, RefinesTaskQueue, Queue!QueueSpec, RefinesOneSlot, Slot!Spec
=============================================================================
