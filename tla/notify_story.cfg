CONSTANTS
  NumRuns = 4
  MaxRunning = 1
  Outcomes <- MCOutcomes
  Channels = {c1}
  Steady = {c1}
  Dispatchers = {d1}
  Batch = 1
  MaxAttempts = 1
  Faults = {}
  MaxOutages = 0
SPECIFICATION Spec
INVARIANTS LastWordIsTrue
CHECK_DEADLOCK FALSE
