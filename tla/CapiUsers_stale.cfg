SPECIFICATION Spec
CONSTANTS
  Names = {n1, n2}
  None = None
  Calls = {c1}
  MaxSessions = 3
  MaxConnections = 2
INVARIANTS
  OthersNeverStruck
CHECK_DEADLOCK FALSE
