SPECIFICATION MCSpec
CONSTANTS
  r1 = r1
  r2 = r2
  r3 = r3
  apiKey = apiKey
  org = org
  Requests = {r1, r2, r3}
  Keys <- MCKeys
  Scopes <- MCScopes
  Snapshots <- MCSnapshots
  NWindows = 2
  Timed = {1}
  Ceiling <- MCCeiling
  MaxTokens = 1
  MaxCalls = 4
  MaxRolls = 1
  Parts = {"quota", "single", "hooks"}
  Kinds = {"embedding", "image", "mcp", "a2a", "card"}
  OpenAILike = {"openai"}
  Types = {"openai", "anthropic"}
  Signed = {1}
  Deliveries = {1, 2}
  Skew = 1
  ReplayTTL = 2
  MaxTime = 4
  MaxRestarts = 1
  MaxImages = 2
  Calls = {1, 2}
  Orgs = {"o1", "o2"}
  OrgOf <- MCOrgOf
  Manifests <- MCManifests
  Snaps <- MCSnaps
  Contents = {"b1", "b2"}
  Exports <- MCExports
  PoolSize = 1
  MaxUploads = 1
SYMMETRY MCSymmetry
INVARIANTS
  OvershootBounded
  ServedOnce
  RecordedOnce
  OneCallPerInstance
  GatedInOrder
  NothingLeaks
CHECK_DEADLOCK FALSE
