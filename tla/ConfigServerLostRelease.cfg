SPECIFICATION Spec
CONSTANTS
  Workers = {w1, w2}
  IDs = {1}
  Names = {n1}
  Data = {d1, d2}
  Ops = {"add", "update", "release"}
  MaxVersion = 3
  MaxRelease = 2
  Null = Null
SYMMETRY Symmetry
INVARIANTS
  LatestReleaseIsNewest
