SPECIFICATION Spec
CONSTANTS
  Gateways = {g1, g2}
  Users = {u1}
  Levels = {0, 1}
  JoinAccess = 1
  Fit = 1
  MaxEvents = 4
  MaxFails = 0
  MaxDeletes = 0
INVARIANTS
  ListedAreOnline
CHECK_DEADLOCK FALSE
