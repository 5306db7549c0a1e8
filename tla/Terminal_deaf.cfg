SPECIFICATION FairSpec
CONSTANTS
  Reads = {TRUE, FALSE}
  MaxRuns = 2
  MaxLines = 2
PROPERTY TypedIsForwarded
CHECK_DEADLOCK FALSE
