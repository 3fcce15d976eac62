SPECIFICATION FairSpec
CONSTANTS
  main = main
  w1 = w1
  w2 = w2
  h1 = h1
  Thread <- AllThreads
  App <- OnlyMain
  Busy = {w1}
  Handler = {h1}
  SendPairs <- ToWorkers
  MaxCalls = 3
  None = None
INVARIANTS Inv NoDanglingReady
PROPERTIES CallsReturn PostDelivered
CHECK_DEADLOCK FALSE
