SPECIFICATION FairSpec
CONSTANTS
  Clients = {b1}
  Discord = {}
  Console = con
  Delay = 1
  Low = 1
  High = 1
  MaxOpens = 1
  MaxFailures = 1
  MaxRuns = 1
PROPERTIES
  QuitEnds
