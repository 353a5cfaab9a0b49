SPECIFICATION Spec
CONSTANTS
  p1 = p1
  p2 = p2
  g1 = g1
  g2 = g2
  g3 = g3
  Publishers = {p1, p2}
  PgGateways = {g1}
  MirrorGateways = {}
  PrefixOf <- MCNoPrefix
  NTables = 1
  NRegions = 0
  MirrorOn = FALSE
  MaxCommands = 2
  MaxExits = 0
INVARIANTS
  NewestHoldsAcked
CHECK_DEADLOCK FALSE
