SPECIFICATION Spec
CONSTANTS
  NTargets = 3
  MaxTries = 2
  Modes <- MCStream
INVARIANTS
  LastFailureReported
CHECK_DEADLOCK FALSE
