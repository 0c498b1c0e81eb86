\* Does every thread test every L before it grows?
SPECIFICATION LabSpec
CONSTANTS
  Producers = {main}
  Consumers = {w1, w2}
  Items = {x, y}
  BufferSize = 2
  NULL = NULL
  NoThread = NoThread
  NoAnswer = NoAnswer
  Throwers = {h1, h2, h3}
  BallsCount = 3
  BinCount = 2
  Pupils = {s1, s2}
  ArraySize = 3
  t2 = t2
  t3 = t3
  Testers = {t2, t3}
  M <- MCM
  MaxL = 4
  ChildCount = 2
  Text <- MCText
  Writers = {p1, p2}
  Readers = {r1, r2}
  Payloads = {m1, m2}
  MaxProduced = 2
  Nil = Nil
  StudentCount = 3
  Rays = {c1, c2}
  MaxSigints = 3
  PartCount = 2
  FileSize = 3
  MaxCtrlC = 2
  Kids = {k1, k2, k3}
  HelpWorkers = {w1, w2}
  HelpFiles = {x, y}
  x = x
  y = y
  HelpSize = 1
  LowerIn <- MCLowerIn
  FailLetters = 2
  Procs = {i1, i2, i3}
  NoProc = NoProc
  ChainSize = 3
  MaxForks = 3
  MaxStarts = 2
  PlainWords = 2
  BlockKids = {b1, b2}
  MaxSignals = 2
  Usr1PerUsr2 = 1
  MaxUsr2 = 3
  BlockCount = 2
  BlockLen = 3
  q1 = q1
  q2 = q2
  q3 = q3
  FifoWriters = {q1, q2, q3}
  PacketsOf <- MCPackets
  FifoCapacity = 1
PROPERTY
  EveryThreadTests
CHECK_DEADLOCK FALSE
