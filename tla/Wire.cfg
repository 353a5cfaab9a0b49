SPECIFICATION Spec
CONSTANTS
  Modes = {"stream", "whole"}
  Dialects = {"openai", "anthropic", "gemini"}
  Backends = {"openai", "anthropic", "gemini", "bedrock"}
  Plugins = {"plugin"}
  Cap = 1
  MaxPieces = 2
  MaxStreamCalls = 2
  Tools = {"look", "book"}
  OwnIds = TRUE
  MaxAnswers = 2
  MaxCalls = 2
  NoId = NoId
INVARIANTS
  NothingLost
  FramesNest
  CutIsReported
  PairsKept
CHECK_DEADLOCK FALSE
