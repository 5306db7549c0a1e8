SPECIFICATION TimersSpec
CONSTANTS
  Timer = {m1, m2, m3}
INVARIANTS
  ActiveAreRegistered
PROPERTIES
  CancelHonest
  RegisteredAreStopped
CHECK_DEADLOCK FALSE
