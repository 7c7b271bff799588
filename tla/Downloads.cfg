SPECIFICATION Spec
CONSTANTS
  Files = {f1}
  MaxVersion = 2
  FileWorkers = {w1, w2}
  PackageWorkers = {w1}
  Faults = {"request", "digest", "untar"}
  MaxFailed = 1
  MaxTasks = 3
  NotFound = NotFound
  Corrupt = Corrupt
  None = None
PROPERTIES
  FileTaskSettles
  UpdateNotified
  PipelineImplementsWork
CHECK_DEADLOCK FALSE
