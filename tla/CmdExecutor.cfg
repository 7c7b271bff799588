SPECIFICATION Spec
CONSTANTS
  Cmds = {c1, c2}
  Streams = {c1}
  MaxReadLines = 2
  BufferSize = 2
  MaxLines = 4
INVARIANTS
  StreamIntact
PROPERTIES
  LinesSent
  ClosedStreamEnds
CHECK_DEADLOCK FALSE
