SPECIFICATION Spec
CONSTANTS
  Files = {f1, f2}
  Contents = {a, b}
  Writers = {w1, w2}
  Readers = {r1}
  MaxCrashes = 1
  Torn = Torn
  None = None
INVARIANTS
  AckedIsReadable
  DigestDescribesData
PROPERTIES
  CasImplementsStore
CHECK_DEADLOCK FALSE
SYMMETRY Symmetry
