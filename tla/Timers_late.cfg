SPECIFICATION TimersSpec
CONSTANTS
  Timer = {m1, m2, m3}
PROPERTIES
  NoneAfterStop
CHECK_DEADLOCK FALSE
