SPECIFICATION QuietSpec
CONSTANTS
  NumCores = 3
  MaxCoreCount = 4
  MaxRequests = 3
  Timeouts = {0, 1}
  MsrTimeout = 1
CHECK_DEADLOCK FALSE
INVARIANTS
  StartMeansRunning
  NoJobOverwritten
  QueuedJobKept
  FaultFlagExact
  ResultIsOwn
PROPERTY
  ImplementsService
