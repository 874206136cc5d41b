SPECIFICATION Spec
CONSTANTS
  NumCores = 2
  MaxCoreCount = 2
  MaxRequests = 2
  Timeouts = {0, 1}
  MsrTimeout = 1
CHECK_DEADLOCK FALSE
INVARIANTS
  NoTimeoutMeansCompleted
