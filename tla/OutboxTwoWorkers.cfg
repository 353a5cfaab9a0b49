SPECIFICATION MCSpec
CONSTANTS
  e1 = e1
  e2 = e2
  w1 = w1
  w2 = w2
  Emitters = {e1}
  Workers = {w1, w2}
  MaxRows = 2
  BatchSize = 2
  Poison = {}
  MaxFaults = 0
  Parts = {"outbox"}
  Peers = {"p1", "p2"}
  Models = {"m1", "m2"}
  ListMax = 2
  ListDefault = 1
  ReportMax = 2
  Window = 2
  Limits = {0, 2, 3}
  MaxEvents = 3
INVARIANTS
  DeliveredOnce
CHECK_DEADLOCK FALSE
