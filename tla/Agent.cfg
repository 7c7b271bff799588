SPECIFICATION AgentSpec
CONSTANTS
  Files = {f1}
  MaxVersion = 2
  FileWorkers = {w1}
  PackageWorkers = {w1}
  Faults = {}
  MaxFailed = 1
  Syncs = {s1}
  MaxReleases = 1
  MaxConnects = 2
  MaxRequests = 1
  MaxCrashes = 1
  NotFound = NotFound
  Corrupt = Corrupt
  None = None
PROPERTIES
  SyncCatchesUp
  SyncImplementsWork
CHECK_DEADLOCK FALSE
