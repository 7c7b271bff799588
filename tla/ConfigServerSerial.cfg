SPECIFICATION Spec
CONSTANTS
  Workers = {w1}
  IDs = {1}
  Names = {n1, n2}
  Data = {d1, d2}
  Ops = {"add", "update", "release", "rollback", "namespace", "reload"}
  MaxVersion = 3
  MaxRelease = 2
  Null = Null
SYMMETRY Symmetry
INVARIANTS
  LatestIsNewest
  RollbackTarget
  StatusAccurate
  HistoryTrue
