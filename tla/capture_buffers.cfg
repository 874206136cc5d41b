SPECIFICATION FairSpec
CONSTANTS
  MaxEntries = 3
  PerPacket = 2
  Header = 1
  Capacity = 5
  Wrap = 32
  Starts = {0, 1, 3}
  Counts = {0, 1, 3}
  MaxCalls = 4
CHECK_DEADLOCK FALSE
INVARIANTS
  TypeOK
  TransferExact
  NoUnderflow
PROPERTY
  TransferEnds
