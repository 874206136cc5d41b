SPECIFICATION Spec
CONSTANTS
  NumCores = 2
  MaxCoreCount = 2
  MaxRequests = 1
  Timeouts = {0, 1}
  MsrTimeout = 1
CHECK_DEADLOCK FALSE
INVARIANTS
  CoreIdsInRange
