SPECIFICATION Spec
CONSTANTS
  Value = {0, 1, 2}
  Absent = Absent
  Defs <- MCBare
  Command = {c1}
  Removals = FALSE
  MaxChanges = 2
  MaxFails = 0
  MaxCrashes = 1
PROPERTIES
  CrashKeepsSaved
CHECK_DEADLOCK FALSE
