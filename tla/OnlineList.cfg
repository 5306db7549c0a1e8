SPECIFICATION FairSpec
CONSTANTS
  Gateways = {g1, g2}
  Users = {u1}
  Levels = {0, 1}
  JoinAccess = 0
  Fit = 1
  MaxEvents = 3
  MaxFails = 1
  MaxDeletes = 1
INVARIANTS
  ListIsOnline
  SingleMessage
PROPERTIES
  ShownUnlessEmpty
CHECK_DEADLOCK FALSE
