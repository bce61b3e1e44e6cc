CONSTANTS
  NumPlans = 5
  Workload <- MCWorkload
  Cron <- MCCron
  Broken = {5}
  Wall <- MCWall
  Schedulers = {s1}
  Clients = {}
  Asks <- MCAsks
  None = None
  Grace = 1
  MaxQueueDepth = 2
  ListLimit = 5
  MaxCollapse = 1
  Faults = {"crash", "store"}
  MaxTime = 4
  MaxOutages = 1
SPECIFICATION Spec
INVARIANTS OncePerWallClock QueueStaysShallow
CHECK_DEADLOCK FALSE
