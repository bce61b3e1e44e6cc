CONSTANTS
  Ids = {i1, i2}
  Secrets = {s1}
  Requests = {c1, c2}
  Commands = {p1, p2}
  MaxEdits = 2
  None = None
  Callers = {a1, a2}
  Asked <- MCAsked
  Roles <- MCRoles
  RoleNames <- MCRoleNames
  StorageRole <- MCStorageRole
  NetworkRole <- MCNetworkRole
  Knows = {"audit", "space", "destroy", "agent", "sdn"}
  Bridges = {"absent", "used"}
  MaxCalls = 2
  MaxFaults = 2
SPECIFICATION Spec
SYMMETRY Equals
INVARIANTS EditsAreKept OneKey DestroysOnlyInPool StoredSecretFits OneSetupAtATime
CHECK_DEADLOCK FALSE
