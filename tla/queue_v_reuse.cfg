CONSTANTS
  Runs = {r1, r2}
  Workers = {w1, w2}
  VMIDs = {v1}
  None = None
  Concurrency = 1
  Faults = {"crash"}
  MaxOutages = 1
  KeepOnFailure = {}
  KeepOnSuccess = {}
SPECIFICATION Spec
SYMMETRY WorkersAndIds
PROPERTIES LiveWorkloadIsSafe
CHECK_DEADLOCK FALSE
