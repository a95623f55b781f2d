SPECIFICATION FairSpec
CONSTANTS
  j1 = j1
  j2 = j2
  n1 = n1
  a1 = a1
  Jobs = {j1, j2}
  Named = {n1}
  Anonymous = {a1}
  Batches <- RaceBatches
  Backends = {"inprocess", "redis"}
  NumWorkers = 1
  MaxFaults = 1
  MaxStops = 1
  Null = Null
INVARIANTS TypeOK NoTransactionLost ResultAccounts LettersInOrder NamedScoredOnce QueuedOnce FramesAccount
PROPERTIES LedgerSpec EveryFrameEnds EveryRowSettles
CHECK_DEADLOCK FALSE
