SPECIFICATION Spec
CONSTANTS
  Value = {0, 1, 2}
  Absent = Absent
  Defs <- MCEntry
  Command = {c1}
  Removals = TRUE
  MaxChanges = 1
  MaxFails = 0
  MaxCrashes = 0
INVARIANTS
  AllChangesSaved
CHECK_DEADLOCK FALSE
