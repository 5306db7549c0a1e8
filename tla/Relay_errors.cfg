SPECIFICATION FairSpec
CONSTANTS
  a = a
  b = b
  con = con
  Gateways <- MCGateways
  Console <- con
  ChatTo <- MCToAll
  SayTo <- MCToAll
  LogTo <- MCLogTo
  ChatAccess = 0
  TriggerAccess = 1
  Levels <- MCKickToVoice
  Position <- MCPosition
  Rank <- MCRank
  MaxRank = 2
  Cap = 1
  MaxEvents = 1
  MaxFails = 2
INVARIANTS
  DepthBound
  DropsReported
PROPERTIES
  FireReturns
CHECK_DEADLOCK FALSE
