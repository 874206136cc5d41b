SPECIFICATION Spec
CONSTANTS
  NULL = NULL
  DbEntries <- MCDbEntries
  Cpuids = {1, 2, 3, 4}
  FALLBACK_CPUID = 9
  DbUpdates <- MCDbUpdates
  Cores = {0, 1}
  UCODE_SLOTS = 2
  MACHINE_CODE_SLOTS = 1
  UpdateBytes = 2
  ByteBits = 2
  Updates = {{0, 3}, {1}}
  Accepted = {{0}, {0, 3}}
  Garbage = {{3}}
  Flips <- MCFlips
  Images = {"a", "b"}
  Vectors = {32}
  MaxRequests = 3
CHECK_DEADLOCK FALSE
INVARIANT
  FallbackNumber
