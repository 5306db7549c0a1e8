SPECIFICATION Spec
CONSTANTS
  a = a
  b = b
  con = con
  Gateways <- MCGateways
  Console <- con
  ChatTo <- MCTo
  SayTo <- MCTo
  LogTo <- MCLogTo
  ChatAccess = 0
  TriggerAccess = 1
  Levels <- MCVoice
  Position <- MCPosition
  Rank <- MCRank
  MaxRank = 2
  Cap = 1
  MaxEvents = 2
  MaxFails = 0
INVARIANTS
  RelayedOnce
  OriginOrder
  ReplyAfterQuestion
CHECK_DEADLOCK FALSE
