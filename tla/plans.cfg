CONSTANTS
  Nil = Nil
  Clients = {c1, c2}
  Documents <- MCDocuments
  Adhoc <- MCAdhoc
  Abbreviates <- MCAbbreviates
  MaxPlans = 2
  MaxWrites = 3
  MaxQueued = 1
  Checks <- MCChecks
  Contents = {0, 4}
  Situations <- MCSituations
  DriftWindow = 3
  HistoryDepth = 3
  MaxDrills = 4
  Period = 1
  Waits = {0, 17}
  Backups = {"none", "fresh"}
SYMMETRY Symmetry
SPECIFICATION Spec
INVARIANTS ProvenanceIsTrue CollapseIsOutvoted DataWasRead SuccessNeverLowers
PROPERTIES GuardedPutIsSafe SilenceDecidesNothing
CHECK_DEADLOCK FALSE
