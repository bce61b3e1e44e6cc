CONSTANTS
  NumPlans = 1
  Workload <- MCWorkloadOne
  Cron <- MCCronOne
  Broken = {}
  Wall <- MCWall
  Schedulers = {s1, s2}
  Clients = {c1}
  Asks <- MCAsks
  None = None
  Grace = 1
  MaxQueueDepth = 2
  ListLimit = 1
  MaxCollapse = 1
  Faults = {"crash", "lostreply"}
  MaxTime = 3
  MaxOutages = 2
SPECIFICATION FairSpec
INVARIANTS RunsAreAccounted 
PROPERTIES DueSlotsAreDecided
CHECK_DEADLOCK FALSE
