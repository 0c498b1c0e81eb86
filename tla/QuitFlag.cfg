\* No Ctrl+C: main raises the quit flag itself.
SPECIFICATION FairFirmSpec
CONSTANTS
  Producers = {main}
  Consumers = {w1, w2}
  f1 = f1
  f2 = f2
  Items = {f1, f2}
  BufferSize = 1
  NULL = NULL
  NoThread = NoThread
  NoAnswer = NoAnswer
  Main = main
  SignalThread = signal_thread
  LetterCount = 1
  LettersIn <- MCLettersIn
  MayInterrupt = FALSE
PROPERTY
  QuitFlagEnds
CHECK_DEADLOCK FALSE
