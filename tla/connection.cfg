SPECIFICATION FairSpec
CONSTANTS
  HeaderCells = 2
  MinBody = 2
  Capacity = 4
  Kinds = {"empty", "short", "version", "ping_malformed", "ping_oversized", "overlong",
           "ping", "multiping", "get_msg_size", "reboot", "reboot_short", "unknown"}
  PingCounts = {0, 1, 3}
  MaxMessages = 2
  MaxClients = 2
CHECK_DEADLOCK FALSE
INVARIANTS
  TypeOK
  Framed
  RepliesMatch
  RxEventsClosed
  StopsForCause
  CleanedUp
PROPERTIES
  MessagesHandled
  ListensAgain
