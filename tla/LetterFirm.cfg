\* Two files through a ring of one slot and two workers, fair scheduling, Ctrl+C at any time.
SPECIFICATION FairFirmSpec
CONSTANTS
  Producers = {main}
  Consumers = {w1, w2}
  f1 = f1
  f2 = f2
  Items = {f1, f2}
  BufferSize = 1
  NULL = NULL
  NoThread = NoThread
  NoAnswer = NoAnswer
  Main = main
  SignalThread = signal_thread
  LetterCount = 2
  LettersIn <- MCLettersIn
  MayInterrupt = TRUE
INVARIANTS
  FilesConserved
  LettersAccounted
  ResultComplete
PROPERTIES
  AdditionsApplied
  WorkersFinish
  InterruptAfterScanEnds
CHECK_DEADLOCK FALSE
