SPECIFICATION MCSpec
CONSTANTS
  Parts = {"call", "stream"}
  Backends = {"openai", "anthropic", "gemini", "bedrock", "plugin"}
  Dialects = {"openai", "anthropic", "gemini"}
  Cap = 1
  MaxPieces = 2
  MaxStreamCalls = 1
  NTargets = 3
  MaxTries = 3
  Modes <- MCModes
  Asks <- MCAsks
  Prices <- MCPrices
INVARIANTS
  DenialIsFree
  EveryCandidateTried
  NoDeniedSecret
PROPERTIES
  CallEnds
  StreamEnds
CHECK_DEADLOCK FALSE
