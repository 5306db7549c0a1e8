SPECIFICATION Spec
CONSTANTS
  Gateways = {g1}
  Users = {u1}
  Levels = {0}
  JoinAccess = 0
  Fit = 1
  MaxEvents = 3
  MaxFails = 1
  MaxDeletes = 0
INVARIANTS
  OneAtATime
CHECK_DEADLOCK FALSE
