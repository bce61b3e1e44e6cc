CONSTANTS
  NumRuns = 1
  MaxRunning = 1
  Outcomes <- MCOne
  Channels = {c1}
  Steady = {}
  Dispatchers = {d1, d2}
  Batch = 1
  MaxAttempts = 2
  Faults = {"down", "store", "lostreply", "age"}
  MaxOutages = 1
SPECIFICATION FairSpec
INVARIANTS NotTwice
PROPERTIES DrillsAreConsidered MessagesSettle
CHECK_DEADLOCK FALSE
