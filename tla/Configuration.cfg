SPECIFICATION MCSpec
CONSTANTS
  Parts = {"store", "region"}
  a1 = a1
  a2 = a2
  Admins = {a1, a2}
  Orgs = {1, 2}
  Bases <- MCBases
  Payloads <- MCPayloads
  MaxCommands = 4
  MaxFaults = 1
  None = None
  Handlers = {a1, a2}
  Providers = {"p1", "p2"}
  Foreign = {"px"}
  Routes = {"r1", "r2"}
  Models = {"m", "n"}
  Policies = {"a", "b", "c"}
  WasmHooks = {"w"}
  MCPBackends = {"b1", "b2"}
  A2AAgents = {"g"}
  Aliases = {"x", "y"}
  Priorities = {1, 2}
  Orders <- MCOrders
  Credentials = {"c1", "c2", "c3"}
  SigningKeys = {"s1", "s2"}
  APIKeys = {"k1", "k2"}
  Seeds <- MCSeeds
  MaxStoreCommands = 2
SYMMETRY MCSymmetry
INVARIANTS
  AsAsked
  SlotsKept
  Settled
  OverlayReplaces
CHECK_DEADLOCK FALSE
