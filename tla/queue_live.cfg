CONSTANTS
  Runs = {r1, r2}
  Workers = {w1}
  VMIDs = {v1}
  None = None
  Concurrency = 1
  Faults = {"crash"}
  MaxOutages = 2
  KeepOnFailure = {}
  KeepOnSuccess = {}
SPECIFICATION FairSpec
PROPERTIES QueuedRunsSettle WorkerStops
CHECK_DEADLOCK FALSE
