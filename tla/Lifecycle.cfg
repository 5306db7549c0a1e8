SPECIFICATION FairSpec
CONSTANTS
  Clients = {b1}
  Discord = {d1}
  Console = con
  Delay = 0
  Low = 1
  High = 3
  MaxOpens = 2
  MaxFailures = 4
  MaxRuns = 2
INVARIANTS
  BackoffIsExponential
  StopIsLast
PROPERTIES
  ShutdownEnds
  SignalHonoured
