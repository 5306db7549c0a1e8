SPECIFICATION Spec
CONSTANTS
  Names = {n1, n2}
  None = None
  Calls = {c1, c2}
  MaxSessions = 4
  MaxConnections = 2
INVARIANTS
  UsersArePresent
  PresentAreListed
  OthersSpared
CHECK_DEADLOCK FALSE
