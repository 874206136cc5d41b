SPECIFICATION BootFairSpec
CONSTANTS
  NumCores = 3
  MaxCoreCount = 2
  MaxRequests = 3
  Timeouts = {0, 2}
  MsrTimeout = 1
CHECK_DEADLOCK FALSE
INVARIANTS
  TypeOK
  LockNotLeaked
  MutualExclusion
  CompletionTruthful
  StatusConsistent
PROPERTIES
  RunsOnce
  AsyncReturns
  QueuedAccepted
  PolledAccepted
  SyncAnswered
