SPECIFICATION Spec
CONSTANTS
  Value = {0, 1, 2}
  Absent = Absent
  Defs <- MCBare
  Command = {c1, c2}
  Removals = FALSE
  MaxChanges = 2
  MaxFails = 0
  MaxCrashes = 0
INVARIANTS
  ConfIsAsked
CHECK_DEADLOCK FALSE
