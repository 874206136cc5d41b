SPECIFICATION Spec
CONSTANTS
  PageEntries = 2
  PerPacket = 3
  Low = 1
  BasePages = 6
  FreePages = 11
  Tables <- MCTables
  Unbacked = {2, 17}
  NumCores = 3
  MaxCoreCount = 4
  MaxRequests = 1
CHECK_DEADLOCK FALSE
INVARIANTS
  TypeOK
  AnswerExact
  MinimalMapping
PROPERTY
  TablesInUseKept
