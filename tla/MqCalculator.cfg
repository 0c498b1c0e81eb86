\* Two clients on one queue, queues of one message.
SPECIFICATION FairSpec
CONSTANTS
  Clients = {c1, c2}
  ServerQueue <- MCServerQueue
  Inputs <- MCInputs
  MaxMsg = 1
  NoJob = NoJob
INVARIANTS
  AnswersMatch
  OneOutstanding
PROPERTIES
  RefinesCalls
  SigintStops
CHECK_DEADLOCK FALSE
