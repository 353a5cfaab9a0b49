SPECIFICATION MCSpec
CONSTANTS
  p1 = p1
  p2 = p2
  u1 = u1
  u2 = u2
  Publishers = {p1}
  PgGateways = {}
  MirrorGateways = {}
  PrefixOf <- MCNoPrefix
  NTables = 2
  NRegions = 1
  MirrorOn = TRUE
  MaxCommands = 2
  MaxExits = 0
  Pullers = {u1}
  Region = 1
  MaxPullFailures = 1
  Parts = {"pull", "join"}
  None = None
  Admins = {"a1", "a2"}
  Peers = {"p1"}
  Deployments = {"d1"}
  Slugs = {"eu", "us"}
  Closed = {"us"}
  MaxTokens = 3
  MaxAdminCommands = 3
  MaxRevision = 1
  MaxFaults = 1
INVARIANTS
  CursorMeansApplied
  CursorMeansConfigured
  RevokedStaysOut
  SealedIsCurrent
  DisabledStaysOut
PROPERTIES
  RegionCatchesUp
CHECK_DEADLOCK FALSE
