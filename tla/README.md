# Verification of the SOPy programs

The repository holds the programs of an operating systems course (SOP1, SOP2): threads with mutexes,
processes with shared memory, message queues, pipes and signals. They are independent of each other;
each one is a small concurrent system. This directory holds TLA+ models of them, TLC configurations
and TLAPS proofs. All paths below are relative to `src/`.

## Inventory

| Component | Source | State | Operations | What is hard |
|---|---|---|---|---|
| circular buffer | `SOP1/Lab3_workshop/circular_buffer.c` | slots, head, tail, count, mutex, pointer to the quit flag | init, enqueue, dequeue, deinit | the full check is made without the mutex; busy waiting; wrap-around; the end of the program |
| letter firm | `SOP1/Lab3_workshop/etap4.c` | totals, 52 counters with a mutex each, quit flag, pending signals | main: scan, wait, stop, join; worker: dequeue, count; signal thread | counting files that are still being found; two ways to stop; `sigwait` against `join` |
| letter firm with an empty-ring test | `SOP1/Lab3_workshop/help.c` | ring, `finished_scanning`, quit flag, counters | main: scan, wait for an empty ring, stop; worker: deque, look whether the scan is over, count; signal thread | workers that find the ring empty leave; main waits for an empty ring |
| letter firm that prints file by file | `SOP1/Lab3_workshop/etap4Fail.c` | ring, counters with a mutex each, `mxPrint` | main: scan, wait, join; worker: add, print all counters | printing while others add; no signal is blocked, so that Ctrl+C kills |
| dog race | `SOP1/Lab3_tutorial/Zad3/etap4.c` | track with a mutex per field, podium, finish counter, quit flag | dog: jump, finish; main: watch, stop, free | hand over hand locking; check-then-act on the podium; freeing what threads use |
| board game | `Lab3_tutorial/l7-2_server.c`, `l7-2_client.c` | board and robust mutex in shared memory, flag and mutex of the server | client: lock, search, die; server: show; signal thread: stop | death with the mutex held; unlock by a thread that is not the owner |
| calculator | `Lab2_tutorial/Zad1/Etap3/server.c`, `client.c` | three request queues, one answer queue per client | client: ask, wait 100 ms; worker: answer; main: stop message | late answers, full queues, crash of the server, stop with requests queued |
| ball throwers | `SOP1/Lab3_tutorial/prog18.c` | bins, two counters | throw; sum up | detached threads |
| array thinning | `SOP1/Lab3_tutorial/prog19.c` | array with a mutex, quit flag | remove, print | signal thread against printing |
| students | `SOP1/Lab3_tutorial/prog20.c` | a counter per year | advance, graduate, kick | cancellation with cleanup handlers |
| pi threads | `SOP1/Lab3_tutorial/prog17.c` | none | estimate | nothing |
| divisibility threads | `SOP1/Lab3_tutorial/Zad1/etap5.c` | L, counter of threads that have tested it | count, test, stop | main counts on without waiting |
| integral | `Lab3_tutorial/Zad2/kod.c` | shared memory, semaphore, robust mutex, number of processes | attach, add a batch, die, leave | creation race, death with the mutex held, death during the repair |
| channel | `Lab3_tutorial/Zad3/kod.c` | slot, status, mutex, two condition variables | open, produce, consume, close | two openers; wake-ups for nothing |
| character count | `Lab3_tutorial/Zad1/etap4.c` | shared counters, failure flag | count, abort | aborting children, the remainder of the division |
| word chain | `Lab2_tutorial/Zad3/etap2.c` | message queues with priorities, children | fork, send a sentence, receive | the last word overtakes the others; two children read one queue |
| roll call | `Lab1_tutorial/Zad3/etap2.c` | a pipe to each student, one pipe back | ask, answer | all answers come through one pipe |
| pipe star | `Lab1_tutorial/tutorial/Zad2/etap2.c` | pipe to each child, pipe R, pending signals | write, read, die | end of file needs every writer to close; interrupted reads |
| FIFO | `Lab1_tutorial/tutorial/Zad1` | the fifo and its name | open, write, read, close, unlink | writers come and go; end of file |
| block writers | `SOP1/Lab2_tutorial/Zad1/etap4.c` | per child: `sig_count`, `got_alarm`, alarm | signal the group, append a block, end on the alarm | an alarm before `sigsuspend`; `sig_count--` against its handler |
| signal counter | `SOP1/Lab2_tutorial/prog15.c` | `sigusr2_count`, signal mask | send, handle, print | signals merge; test and sleep |
| block copy | `SOP1/Lab2_tutorial/prog16b.c` | position in the block, the file | read, write, signal the group | calls that are interrupted or short |
| child reaping | `SOP1/Lab2_tutorial/prog14.c` | children, pending SIGCHLD | exit, reap, wait | standard signals merge |
| file parts | `SOP1/Lab2_workshop/src/sop-l2.c` | parts of a file, pending SIGUSR1 and SIGINT | read, fork, suspend, write, pass SIGINT on | a signal before `sigsuspend`; short reads |
| other signal programs | `SOP1/Lab2_tutorial/prog13b.c`, `prog16a.c`, `SOP1/Lab2_workshop/src/etap4_1.c` | as above | as above | earlier stages and a variant of the above |
| file tools | `SOP1/Lab0*`, `SOP1/Lab1*` | none | read arguments, files, directories | sequential input and output, not modelled |

Many directories hold stages (`etap1.c` ... ) of one program; the last stage is the one that is modelled.
`help.c` and `etap4Fail.c` of the workshop solve the same task as `etap4.c` with other protocols and are
modelled on their own.

### What makes each modelled component correct

* circular buffer: it is a bounded FIFO queue; NULL is returned only when it is empty and the program ends.
* letter firm: every file is counted exactly once, no `+=` is lost, the counters are complete when main
  stops waiting, the workers end, Ctrl+C ends the program.
* dog race: one dog per field, a podium that is final when it is shown, an end of the race, no freed memory in use.
* board game: no points lost or found twice, wherever a client dies; the mutex stays usable; nobody waits for the dead.
* calculator: an answer belongs to the request asked last; nothing is lost or doubled; SIGINT ends the server.
* ball throwers: every ball is in a bin when main sums up.
* students: wherever a cancellation hits, at the end nobody is counted in a year and all who were not removed are engineers.
* array thinning: what is printed is one state of the array, although another thread removes items.
* divisibility threads: every thread tests every L (which the code does not do), SIGINT ends the count.
* character count: the counts that are printed are those of the whole file, or nothing is printed.
* channel: it is a queue of one place for any number of writers and readers, whoever opens it first.
* roll call: the answer the teacher reads is that of the student asked.
* pipe star: the parent ends when its children are dead.
* file parts: every character is in one part; no child waits for ever for its signal, unless a second Ctrl+C
  kills the parent before it has sent it.
* child reaping: no zombie is left behind because signals merge.
* firm of `help.c`: when it ends every letter is counted, or a named interleaving leaves main waiting.
* firm of `etap4Fail.c`: the last numbers on the console are the sums, although nobody prints at the end.
* integral: the number of processes that the segment counts is right, wherever processes die.
* word chain: each sentence ends a child, although its last word overtakes the others.
* block writers: all children end, except one that misses its alarm.
* signal counter: the parent never sleeps on a signal it has not noted, and shows how many it has received
  (which it does not: it shows the number before).
* block copy: only whole blocks get into the file.
* FIFO: whatever was sent by who came before the end is printed.

## Modules

| Module | Models | Corresponds to |
|---|---|---|
| `TaskQueue` | abstract specification: a bounded FIFO queue that can be closed | what `circular_buffer.h` promises |
| `CircularBuffer` | enqueue and dequeue as steps of `pc[t]` | one action per access to `count`, per lock and per return |
| `LetterFirm` | extends `CircularBuffer` with the threads of `etap4.c` | `at[t]` is the place in main, `worker_func`/`process_file`, `signal_handler_thread`; while it is `"enqueuing"` or `"dequeuing"` the thread runs the buffer's steps |
| `DogRace` | `DogRun` and main | `at[d]`, `mainAt`; the mutex of a field is `mxTrack[i]` |
| `BoardGame` | clients, server main, server signal thread | `owner` and `mxState` are the robust mutex, `sigMutex` the server's private one |
| `RequestReply` | abstract specification: each question is answered at most once, and rightly | what `client.c` expects of `server.c` |
| `MqCalculator` | clients, three workers, server main | `requests`, `stopQueued`, `answers` are the queues, `up` the server's process |
| `BallThrowers` | throwers and main of `prog18.c` | `throwerAt[h]`: waiting, between bin and counter, between the counters |
| `ArrayThinning` | signal thread and main of `prog19.c` | one step per cell printed |
| `Students` | students and main of `prog20.c` | a step per cancellation point and per counter |
| `DivisibilityThreads` | testers, main, signal thread of `Zad1/etap5.c` | L and `checkedThreads`, one step per lock or access |
| `CharCount` | children and parent of `Lab3_tutorial/Zad1/etap4.c` | a step per mapping, per counter, per exit |
| `OneSlot` | abstract specification: a queue of one place | what `channel_produce` and `channel_consume` promise |
| `Channel` | `channel_open`, `channel_produce`, `channel_consume` | one step per lock, wait, wake-up and unlock |
| `RollCall` | teacher and students | the pipes are sequences or a single message |
| `PipeStar` | parent, children, SIGINT and SIGCHLD | pipes as numbers of blocks, handlers as steps |
| `FileParts` | parent and children of `sop-l2.c` | parts as intervals of the file |
| `ChildReaping` | parent and children of `prog14.c` | the handler is a step of its own per `waitpid` |
| `HelpFirm` | main, workers and signal thread of `help.c` | an operation on the ring is one step, as its mutex is held throughout; a step per letter |
| `FailFirm` | extends `CircularBuffer` with main and workers of `etap4Fail.c` | a step per counter added or printed; `failPrinter` is `mxPrint` |
| `Integral` | the processes of `Zad2/kod.c` | `procAt` is the place in main, `lockAt` the place in `safe_lock` |
| `WordChain` | parent and children of `Lab2_tutorial/Zad3/etap2.c` | a queue is the number of its messages of each priority |
| `BlockWriters` | parent and children of `SOP1/Lab2_tutorial/Zad1/etap4.c` | handlers are steps between any two steps of their process |
| `SignalCounter` | child and parent of `prog15.c` | handlers run in `sigsuspend` only |
| `BlockCopy` | parent and child of `prog16b.c` | a step per call of `read` or `write` and per handler |
| `Fifo` | writers of `etap2.c`, reader of `etap3.c` of `Lab1_tutorial/tutorial/Zad1` | the fifo is a sequence of packets, a packet is its writer |
| `LabPrograms` | the small programs, each on its own | see below |
| `CircularBufferProofs`, `LetterFirmProofs`, `DogRaceProofs`, `BoardGameProofs`, `MqCalculatorProofs` | theorems about the module of that name | |
| `SharedMemoryProofs` | theorems about the programs whose threads or processes share memory: `Integral`, `Channel`, `CharCount`, `ArrayThinning`, `BallThrowers`, `Students`, `DivisibilityThreads`, `HelpFirm`, `FailFirm` | |
| `LabProofs` | theorems about the programs of processes, pipes and signals: `ChildReaping`, `SignalCounter`, `BlockCopy`, `RollCall`, `Fifo`, `PipeStar`, `BlockWriters`, `WordChain`, `FileParts`; and about `LabPrograms`, all small programs together | |
| `FoldSums` | lemmas about sums over a finite set and about what a sequence holds, for the proofs | |
| `MCLetterFirm`, `MCBoardGame`, `MCMqCalculator`, `MCLabPrograms` | constants for TLC | |

`LetterFirm` composes the ring with its users by EXTENDS: every action of the firm that works on the ring
contains an action of `CircularBuffer`, and the theorem `FirmImplementsBuffer` says that the firm's
behaviours are behaviours of the ring.

`LabPrograms` lets TLC check the ring and the small programs in one run. The programs share nothing and
never meet: `program` is chosen in `LabInit` and never changes, `LabNext` takes the steps of the program
chosen and leaves the variables of the others at their initial values. A property of one program
therefore says about this run exactly what it says about the specification of that program alone. Most
theorems are about the specification of one program; `LabInvariance` and what follows from it are about
`LabSpec`, the specification that the run checks.

An operator whose comment begins with "Mutant:" is not part of the model. It is a seeded fault, an
action or a helper with a plausible bug, that shows that the property beside it is able to fail.

### Level of detail

* An access to shared memory without a mutex is a step. A critical section with a single access to
  shared state is one step; longer ones are lock, access, unlock (slots and count of the ring, the read
  and the write of a letter's counter, the two fields of a jump, the search of a field).
* A loop that sleeps and looks again (`usleep`, `sleep`) is either an action back to the look, or no
  step at all when nothing changes.
* A file is a value with a given count of each letter (`LettersIn`); fields, points and numbers are
  small sets. Printing, argument parsing and system calls that fail where the program just exits are left out.
* A pending standard signal absorbs a second one (`pending` is a set).
* In `BoardGame` the signal thread unlocks a mutex that main may hold, which POSIX leaves undefined for
  a normal mutex; glibc frees it and the model does what glibc does. A destroyed robust mutex cannot be
  locked: the client's lock fails and `ERR` ends it.
* In `DogRace` the steps of dogs on the freed track are undefined behaviour; the model stops a dog that
  would touch it, and `ThreadsEndedAtFree` is about the moment of the free.
* In `Integral` a mutex that is locked before it is initialised, initialised twice or destroyed while
  others need it is undefined behaviour: it is "spoilt", locking it lets everybody in, and no property
  is stated for that time. `founders` is a history variable.
* In `Fifo` a packet has `PIPE_BUF` bytes, which a write puts in at once; `late` is a history variable.
* In `MqCalculator` a queue is a sequence plus the stop message, which has the higher priority. A queue
  keeps its content when its users die.

## Runs

| Run | What it shows | Instance |
|---|---|---|
| `lab_programs` | every variable keeps its type: `LabTypeOK` | all below |
| | the ring: `RefinesTaskQueue` | 1 producer, 2 consumers, 2 slots, 2 items |
| | ball throwers: `EveryBallSummed` | 3 throwers, 3 balls, 2 bins |
| | students: `NobodyLeftInAYear` | 2 students |
| | array thinning: `PrintIsSnapshot` | 3 items |
| | divisibility threads: `SigintEndsCounting` | testers of 2 and 3, L up to 4 |
| | character count: `CountsAreTheFiles` | 5 characters, 2 children |
| | channel: `RefinesOneSlot` | 2 writers, 2 readers, 2 messages |
| | roll call: `AnswersInTurn` | 3 students, the least the program accepts |
| | pipe star: `StarEnds` | 2 children, 3 times Ctrl+C |
| | file parts: `PartsAreTheFile`, `SplitEnds` | 3 characters, 2 parts, Ctrl+C twice |
| | child reaping: `NoZombieForgotten` | 3 children |
| | firm of `help.c`: `HelpOutcome` | 2 workers, files of 1 and 2 letters, ring of 1 |
| | firm of `etap4Fail.c`: `LastNumbersComplete` | the ring's threads and items, 2 letters |
| | integral: `CountersTrue` | 3 processes |
| | word chain: `SentenceEndsChild` | P = 3, up to 3 forks and 2 sentences of 2 words and a last one |
| | block writers: `BlockOutcome` | 2 children, 2 signals |
| | signal counter: `CountNoted` | p = 1, up to 3 SIGUSR2 |
| | block copy: `CopyComplete` | 2 blocks of 3 pieces |
| | FIFO: `FifoComplete` | 3 writers with 2, 1 and 0 packets, room for 1 |
| `every_thread_tests` | violated: L counts on before every thread has tested it | as `lab_programs` |
| `two_producers` | `NeverOverfull` violated: two producers overfill the ring | 2 producers, 2 slots |
| `shown_count` | violated: the parent of `prog15.c` shows the number of SIGUSR2 of the time before | p = 1, up to 3 SIGUSR2 |
| `firm` | `FilesConserved`, `LettersAccounted`, `ResultComplete`, `AdditionsApplied`, `WorkersFinish`, `InterruptAfterScanEnds`, Ctrl+C at any time | 2 files, 1 slot, 2 workers, 2 letters |
| `interrupt_during_scan` | violated: Ctrl+C during the scan leaves main waiting | as `firm`, 1 letter |
| `quit_flag` | violated: without Ctrl+C main joins a signal thread that sleeps in `sigwait` | as `firm`, 1 letter, no Ctrl+C |
| `dogs` | `OneDogPerField`, `TrackCounts`, `PodiumFinal`, `RaceEnds` | 4 dogs, 3 fields, jumps of 1 |
| `dogs_interrupted` | violated: the track is freed under running dogs | 3 dogs, 4 fields, jumps of 1 or 2 |
| `dogs_podium` | violated: two dogs take the same place | as `dogs_interrupted`, no Ctrl+C |
| `board` | points conserved, field not stale, mutex recoverable, no waiting for the dead, the ends of a shutdown | 2 clients, 2 fields |
| `calculator` | answers match, one outstanding request, one service that answers rightly (`RefinesCalls`), SIGINT stops the server | 2 clients on one queue, queues of 1 message |

The type invariants of the firm, the race, the board game and the calculator are proved and not checked
again by the runs, and so is `NeverOverfull` for one producer.

The bounds: the ring has fewer slots than there are files, so it gets full in `firm`; in `lab_programs` it
has two slots and wraps after two items. Two workers compete for each mutex and there are two letters so
that one is skipped. The track has the start, the last field and one (`dogs`) or two between them, so
dogs block each other.
A jump beyond the end is cut only where dogs jump 2 fields, in `dogs_interrupted` and `dogs_podium`; that
`OneDogPerField` and `TrackCounts` hold with such jumps is proved. Three dogs are the least the program
accepts and fill the podium; a fourth one finishes behind it. The code has at least 21 fields and jumps of 1
to 5. Two fields make it possible that a client finds a field empty or full. Queues of one message block
both clients and main; the code has 10. `MayInterrupt` says whether Ctrl+C may happen. Of the small
programs: the number of characters is not a multiple of the number of children, so that there is a
remainder; three processes are enough for one to act between two steps of another while a third one waits;
two Ctrl+C are what takes the parent of `sop-l2.c` through both its handlers. One place in the ring of
`help.c` and in the fifo makes both full and empty again and again; the file of no packets is a writer that
may be gone before the reader has opened. Three processes of the integral are needed for one to die while
another repairs the mutex after a third one. P = 3 is a chain with a child whose queue nobody writes. Three
pieces let a call of `read` stop in two places.
`MaxProduced`, `MaxL`, `MaxSigints`, `MaxCtrlC`, `MaxForks`, `MaxStarts` and `MaxUsr2` cap
counters that the programs do not cap; `MaxSignals` is 100 in the program.
`CHECK_DEADLOCK FALSE` stands where the program ends, or hangs as a property says.

### Fairness

* Firm: strong fairness of main, each worker and the signal thread. A thread waits only for mutexes
  that their holders give back before they sleep (`usleep`, `sigwait`) or for data; it gets the mutex
  some time. Nothing is assumed of the user.
* Race: weak fairness of main and each dog; a lock that is taken is given back after two steps.
* Board: strong fairness of the clients and of the server's main thread (holders sleep for 1 s or 3 s
  after each unlock), weak fairness of the signal thread.
* Calculator: weak fairness of the server's threads, strong fairness of main, because the kernel serves a
  sender that is blocked on a full queue when a message is taken out. Nothing is assumed of the clients.

* Small programs (`LabSpec`): weak fairness of each thread of the divisibility program, of the parent of
  the pipe star, of the parent of `sop-l2.c`, of its children
  and of the delivery of their pending SIGINT, of main, the workers and the signal thread
  of `help.c`, of the children of the word chain, and of the parent, the children and the handlers of the
  block writers (a signal that is pending and not blocked is delivered). None of them waits for a mutex that
  can be taken again before it gets it; a process that can run is run. Nothing is assumed of the user,
  nothing of the children of the pipe star, which may be slow, and nothing of the parent of the word chain,
which waits for input.

### What the violations show

1. `circular_buffer_enqueue` tests for room without the mutex and not again with it: `etap1.c`, which has
   two producers, can overwrite an item. One producer (`etap2.c` to `etap4.c`) is safe, which is proved.
2. Ctrl+C during the directory scan: the workers leave an empty ring, main enqueues for nobody.
3. Unless Ctrl+C comes after all, the program of the firm does not end: main has set the flag and joins the
   signal thread, which only a SIGINT wakes from `sigwait`.
4. The interrupted race frees the track and destroys the mutexes while dogs run.
5. The podium is tested without its mutex: two dogs take one place.
6. `SOP1/KODY-LAB3.txt:11` says that every thread tests the number L, and line 19 that main raises L
   only when they all have; `etap5.c` raises L (106-107) whether or not they have.
7. `SOP1/KODY-LAB2.txt:6` says that the parent of `prog15.c` counts the SIGUSR2 it receives and shows their
   number; line 80 prints `count` before line 81 takes over the number the handler has reached. What the
   parent does right, it does in `CountNoted`: it never sleeps on a signal it has not noted.

More outcomes are part of the passing runs:

* The server of the board game can end only through a narrow window and otherwise hangs in one of the two
  ways that `ShutdownOutcome` names.
* One late answer or one division by zero takes the calculator's server down for all its clients
  (`WorkerOpenFails`, `WorkerTraps`).
* `help.c`: if every worker finds the ring empty before main has put the last files in, and reads
  `finished_scanning` afterwards, all leave and main waits for ever for the ring to be emptied. This is the
  second disjunct of `HelpOutcome`, which begins with the end of the scan: Ctrl+C during the scan may leave
  main in a full ring.
* `Zad1/etap4.c` of `SOP1/Lab2_tutorial`: an alarm between the test of `got_alarm` and `sigsuspend` is
  lost and the child sleeps on (`MissedAlarm`); the write-back of `sig_count--` may undo what the handler counted.
  `BlockOutcome` is about the end of the children, not about the text's block after every signal.
* `sop-l2.c`: a child that handles SIGINT before `sigsuspend` goes to sleep all the same. Ctrl+C after line 185
  runs the parent's handler, which leaves the default action behind; a second Ctrl+C before line 187 kills the
  parent, and SIGUSR1 is never sent. A child that has handled both before `sigsuspend` sleeps for ever
  (`LeftSuspended`), where `sop-l2.txt:32` has SIGINT end it. `SplitEnds` names this exception.
* `Zad2/kod.c`: the semaphore is raised before it is waited for and excludes nobody; every process that
  leaves destroys the mutex for the others; `CountersTrue` is about the time before any of this. A death
  during the repair of another is taken for the first and may never be deducted: then `counters` is only
  known not to be too small, as the second part of `CountersTrue` says.
* Word chain: child 2 reads the queue that child 1 reads, and the queues of the later children are
  written by nobody, so they wait for ever.
* `etap4Fail.c` blocks no signal, so Ctrl+C kills it instead of printing (`FailKilled`).

## Proofs

The theorems hold for every value of the constants that satisfies the modules' assumptions.

* `CircularBufferProofs` (assumption: one producer). The inductive invariant says who holds the mutex at
  which step, that `head` is `tail + count` modulo the size, that `count` is at most the size, and that a
  producer past its full check has room: other threads only take items out, which is why one producer is
  enough. `RingImplementsTaskQueue` maps each step to a step of `TaskQueue` or a stutter; the arithmetic
  of `SlotOf` and `Wrap` is in lemmas of its own.
* `LetterFirmProofs`. `FirmImplementsBuffer` shows that every step of the firm is a step of the ring or
  leaves it alone, so the ring's theorems hold inside the firm. The invariant behind `FirmTypeCorrect` and
  `FirmAdditionsApplied` says that a worker between the read and the write of a counter owns the
  letter's mutex and has loaded the counter's present value.
  The way of the files has an invariant on top of that, `FilesInv`. `FilesConserved` alone is not
  inductive: it counts files, and a file that is in the ring twice would be counted right and added twice.
  `FilesApart` says that unscanned files, main's file, the ring and the workers' hands are disjoint and
  that no file is in two slots or two hands. From there a step either leaves all these places alone or moves
  one file to the next, and the sum that a counter stands for (`LettersAccounted`) changes by one file.
  `FirmResultComplete` needs one more part, `ScanCounted`: `totalFiles` is at most one behind the scan, so
  `processedFiles == totalFiles` after the scan means that every file has been processed.
* `DogRaceProofs`. `RaceOneDogPerField`: a dog between its test and its arrival holds the mutex of the
  field, and a field on which a dog stands has a positive counter. For the latter the proof needs that
  no dog lowers a counter it has not raised, except on field 0. `RaceTrackCounts` has the counter equal to
  the number of dogs on the field, for which it has to know that a dog past its last jump is at the end
  of the track.
  `RacePodiumFinal` has an invariant of its own: unless the race is interrupted, `dogsFinished` is the
  number of dogs that have ended, so main sees it complete only when no dog is left to write the podium.
* `BoardGameProofs`. Whoever is between lock and unlock owns the mutex, and an inconsistent mutex is in
  the hands of a dead client or of someone who has yet to repair it; `BoardFieldNotStale` and
  `BoardMutexRecoverable` follow. `BoardPointsConserved`: a client credits what it has read before it clears
  the field, and by `FieldNotStale` the field still holds that; so clearing takes from the board what
  `Taken` gains, and a death in between leaves the field uncleared and the credit unclaimed.
* `MqCalculatorProofs`. A request is in the server's queue, in a worker's hands or answered, in one of the
  three places only, and while it is in any of them its client has not come back to its input. So the
  request and the answer always carry the numbers asked last (`CalculatorAnswersMatch`), and the count of
  requests under way follows from sets of at most one element (`CalculatorOneOutstanding`). The proof holds
  for any assignment of clients to the three queues, where the run has both on one.
  `CalculatorImplementsCalls` maps the queues, the threads and the clients to the service of `RequestReply`:
  a client that waits has a question, and what is in its queue is the reply. Sending asks, because the
  invariant says that nothing is left of an earlier question; the worker's send answers, because it is
  the only answer and the numbers are those of the question; if the client has left, the same send
  changes nothing that the service knows of. Leaving, for whatever reason, is the service's `Stop`.
* `SharedMemoryProofs`.
  Integral: the invariant is conditional on one founder and on nobody having left: the founder is alone
  until it has set `counters`, nobody touches the mutex until the founder has initialised it, whoever is in
  a critical section owns the mutex. A death moves one from the processes at work to the mutex's mark, the
  repair moves it to the repairing process, and the second lock deducts it. A death in the middle of a
  repair loses a mark, so from then on the equation is an inequality.
  Channel: the invariant says who holds the channel's mutex, that the semaphore lets one process
  at a time through the opening and nobody past it before the channel is set up, that a writer or reader
  that has tested the status with the mutex finds it unchanged when it acts, and that the place holds
  what has been produced and not consumed. `ChannelImplementsOneSlot` follows step by step.
  Character counter: a counter is the number of positions that some child has counted. The parts do not
  overlap (`PartsOfText`) and leave no position out (`EveryPositionHasAPart`); both are arithmetic of the
  integer division, whose remainder goes to the last child.
  `prog19.c`: the array's mutex is with the printing thread, and what is printed so far is what
  the array holds up to there.
  `prog18.c` (`BallsInv`): balls waiting, about to fall, in a bin and uncounted, and counted add up; so when
  main sees all balls thrown, nobody is between a bin and the counter, and main's sum is that of the bins.
  `prog20.c` (`YearsInv`): the counter of a year is the number of threads in it. The cleanup handler lowers
  it for a thread cancelled in the year, and who has ended without being cancelled is an engineer.
  `help.c` (`HelpInv`): the letters of a file are still to be scanned, in the ring, in a worker's hands or
  counted (`LettersConserved`), no file is in the ring twice, and without Ctrl+C main is past its wait only
  when the ring is empty. `deinit` throws files away, but finds some only after Ctrl+C. When main prints, the workers are
  gone and nothing is in the other three places, so `HelpFirmCountsAll`. That is the safety half of
  `HelpOutcome`; that main gets there or is stuck in the way named there is left to TLC.
  `etap4Fail.c` (`FailInv`): every file is still to be found, in `enqueue`, in the ring, in a worker's hands
  or processed, and the last number printed for a letter is true or a worker is still to print it. Once
  every file is processed no hand holds one, so the second alternative is gone.
  Types: that of the integral's semaphore needs to know that a process raises it once (`EachOnce`), those
  of balls and students follow from the sums that their invariants state.
* `LabProofs`. `NoZombieForgotten` is inductive as it stands: the handler clears the signal before it
  reaps. The others have a small invariant each.
  `prog15.c`: the counts are in the order shown, noted, handled, sent, and the noted one is the handled one
  whenever the parent is about to sleep.
  `prog16b.c`: the file is as long as the blocks done and the part of the current call.
  Roll call: one question or answer is under way at a time.
  Fifo: packets printed, in the fifo and not yet sent add up to the file, and after the end only late
  writers have packets in it. Taking the head of a sequence shifts the others, and a bijection shows that it
  lowers the count of one writer's packets by one.
  Word chain: a last word is in the queue or has ended a child (`ChainKeepsLastWords`); a child ends
  by nothing else.
  Block writers: a child past the test of `sig_count` has found it positive, and its handler only raises
  it; so `sig_count--` may lose what the handler has counted but never goes below zero
  (`BlocksCountSignals`).
  `sop-l2.c` (`PartsInv`): a part begins where the one before ends, and unless the file has ended the reader
  is `BufSize` ahead with every part. As n parts of `BufSize` are more than the file, the last part ends
  with it, however short the reads are.
  The programs together (`LabInv`): a program that does not run stays in its first state, and a step of
  `LabSpec` is a step of each program or leaves it alone. So the conjunction of all invariants is inductive,
  and `LabTypesHold`, `LabSafety` and `LabImplementsQueues` state the invariants, the types and the two
  refinements of the run `lab_programs` for every value of the constants. The ring has two users there,
  whose invariants differ (`RingOrFirm`): on its own its calls come from anywhere, under `etap4Fail.c` from
  the firm's threads.
* `FoldSums`. The sums of the models are folds of the community modules over a finite set, defined by an
  arbitrary choice of the next element. The lemmas show that the choice does not matter: a set can be summed
  beginning with any element (`SumTakes`), and an update of one element changes the sum by the difference
  (`SumChanges`). They need induction over finite sets; it is done by the smallest set for which the lemma
  would fail, which exists because the strict subsets of a finite set are well-founded (`SmallestSet`).

Assumptions: those named in the modules. They say what a program gets by its start: at least one thread,
child or letter, sizes that are numbers, different names for different things, and finite sets of threads,
testers, processes and files wherever they are counted or summed. `CircularBufferProofs` adds that there is one
producer; the two firms that use the ring have it as an assumption on their threads, since only main scans.
None of the theorems has a hypothesis on the behaviour, and none assumes fairness.

Each inductive invariant was checked by TLC on an instance like that of the runs before it was proved; the
runs themselves check only the properties, which are what a reader wants to know.

Only model-checked: liveness, which the prover does not reach (`WorkersFinish`, `InterruptAfterScanEnds`,
`RaceEnds`, `DeathDoesNotBlock`, `ShutdownOutcome`, `SigintStops`, `SigintEndsCounting`, `StarEnds`,
`SplitEnds`, `HelpOutcome`, `SentenceEndsChild`, `BlockOutcome`). Every other property of the passing runs
is proved: the invariants, the action properties and the three refinements.

## Plan

Done: every module of the table above, with its runs, and the proofs above. Nothing of the plan is left.
What could be added are programs of the list below, and liveness proofs for a prover that has ENABLED.

## Not modelled

* The earlier stages of a program (`etap1.c` and so on, `prog13b.c`, `prog16a.c`): the last stage contains
  what they do. `etap1.c` of the workshop lives on as the run `two_producers`. `etap4_1.c` of
  `SOP1/Lab2_workshop` is a variant of `sop-l2.c`.
* `prog17.c` and `l7-1.c`: independent threads and processes that share nothing they contend for; what they
  compute is a floating-point estimate.
* The file and directory tools of `SOP1/Lab0*` and `SOP1/Lab1*`: sequential input and output.
* `prog14.c` is modelled partly: the SIGUSR1 and SIGUSR2 that change what its children print are left out.
