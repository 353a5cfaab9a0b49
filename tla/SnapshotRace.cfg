SPECIFICATION FairSpec
CONSTANTS
  p1 = p1
  p2 = p2
  g1 = g1
  g2 = g2
  g3 = g3
  Publishers = {p1, p2}
  PgGateways = {g1}
  MirrorGateways = {g3}
  PrefixOf <- MCRegionPrefix
  NTables = 2
  NRegions = 1
  MirrorOn = TRUE
  MaxCommands = 2
  MaxExits = 1
INVARIANTS
  MirrorAgreesWithPrimary
  SnapshotCoversItsStart
PROPERTIES
  FeedSpec
  PgCatchesUp
CHECK_DEADLOCK FALSE
