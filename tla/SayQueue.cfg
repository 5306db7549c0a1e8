SPECIFICATION FairSpec
CONSTANTS
  Callers = {c1, c2}
  None = None
  BufSize = 1
  MaxCalls = 2
INVARIANTS
  WireOrdered
  SayEventsOrdered
PROPERTIES
  SaychWrittenOnce
  ImplementsFifo
  AcceptedIsHandled
  SayReturns
CHECK_DEADLOCK FALSE
