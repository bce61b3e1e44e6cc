CONSTANTS
  Runs = {r1}
  Workers = {w1, w2}
  VMIDs = {v1, v2}
  None = None
  Concurrency = 1
  Faults = {"crash", "store", "lostreply", "provider", "operator"}
  MaxOutages = 2
  KeepOnFailure = {r1}
  KeepOnSuccess = {}
SPECIFICATION Spec
SYMMETRY WorkersAndIds
INVARIANTS SettledMeansOver
PROPERTIES FirstWriterDecides ImplementsLifecycle
CHECK_DEADLOCK FALSE
