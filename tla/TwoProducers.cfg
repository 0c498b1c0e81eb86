\* Two producers, as in etap1.c: the full check is stale for the second one.
SPECIFICATION BufferSpec
CONSTANTS
  Producers = {p1, p2}
  Consumers = {w1, w2}
  Items = {x, y}
  BufferSize = 2
  NULL = NULL
  NoThread = NoThread
  NoAnswer = NoAnswer
INVARIANTS
  NeverOverfull
