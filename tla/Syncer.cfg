SPECIFICATION Spec
CONSTANTS
  Conns = {c1, c2, c3}
  Alone = {}
  Required = {c1}
  Workers = {w1}
  MaxFailed = 1
  MaxDelta = 2
  MaxUpdates = 1
  MaxConnects = 3
  MaxEnds = 1
  None = None
INVARIANTS
  NoneSkipped
PROPERTIES
  QueueDrains
CHECK_DEADLOCK FALSE
