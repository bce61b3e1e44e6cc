CONSTANTS
  Runs = {r1, r2}
  Workers = {w1, w2}
  VMIDs = {v1, v2}
  None = None
  Concurrency = 1
  Faults = {"crash", "operator"}
  MaxOutages = 1
  KeepOnFailure = {r1}
  KeepOnSuccess = {r2}
SPECIFICATION Spec
SYMMETRY WorkersAndIds
INVARIANTS NoSilentOrphan LeftoverIsNamed NeverStranded RecordedBeforeCreated
CHECK_DEADLOCK FALSE
