SPECIFICATION MCSpec
CONSTANTS
  e1 = e1
  e2 = e2
  w1 = w1
  w2 = w2
  Emitters = {e1, e2}
  Workers = {w1, w2}
  MaxRows = 3
  BatchSize = 2
  Poison = {3}
  MaxFaults = 1
  Parts = {"outbox", "page"}
  Peers = {"p1", "p2"}
  Models = {"m1", "m2"}
  ListMax = 2
  ListDefault = 1
  ReportMax = 2
  Window = 2
  Limits = {0, 2, 3}
  MaxEvents = 3
INVARIANTS
  RedeliveredByFaults
  ListNewest
PROPERTIES
  KeepsPromise
  EventuallyProcessed
CHECK_DEADLOCK FALSE
