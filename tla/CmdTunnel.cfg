SPECIFICATION Spec
CONSTANTS
    Cmds = {c1, c2}
    Async = {c2}
    Streams = {c1}
    BufferSize = 2
    MaxPackages = 2
INVARIANTS
    NoSendOnClosed
PROPERTIES
    SyncReturns
    BufferedResponseCalls
    ConsumerStops
    
CHECK_DEADLOCK FALSE
