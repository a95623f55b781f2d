SPECIFICATION Spec
CONSTANTS
  j1 = j1
  j2 = j2
  n1 = n1
  a1 = a1
  Jobs = {j1, j2}
  Named = {n1}
  Anonymous = {a1}
  Batches <- RaceBatches
  Backends = {"inprocess", "redis"}
  NumWorkers = 1
  MaxFaults = 0
  MaxStops = 0
  Null = Null
CHECK_DEADLOCK FALSE
INVARIANT BadRecordIsIsolated
