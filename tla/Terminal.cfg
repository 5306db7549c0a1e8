SPECIFICATION FairSpec
CONSTANTS
  Reads = {TRUE}
  MaxRuns = 3
  MaxLines = 4
PROPERTY TypedIsForwarded
CHECK_DEADLOCK FALSE
