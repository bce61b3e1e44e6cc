CONSTANTS
  NumTokens = 2
  Sessions = {s1}
  Extra = {"operate"}
  Lifetime = 1
  TouchInterval = 2
  MaxTime = 2
  None = None
  Scripts <- MCScripts
  NumSteps = 2
  JournalFaults = {"store", "kill", "cut", "drain"}
  MaxFaults = 2
SPECIFICATION Spec
INVARIANTS LastUseIsKnown ReportIsWhole StreamIsFaithful
PROPERTIES RevokedIsRefused StreamsEnd
CHECK_DEADLOCK FALSE
