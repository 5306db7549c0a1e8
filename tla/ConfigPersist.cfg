SPECIFICATION FairSpec
CONSTANTS
  Value = {0, 1, 2}
  Absent = Absent
  Defs <- MCDefs
  Command = {c1}
  Removals = TRUE
  MaxChanges = 3
  MaxFails = 1
  MaxCrashes = 1
INVARIANTS
  SaveRestores
  HashOfFile
  ConversionsAgree
  OthersKept
  RelaysKept
PROPERTIES
  ChangesReachFile
CHECK_DEADLOCK FALSE
