SPECIFICATION Spec
CONSTANTS
  u = u
  any = any
  arg = arg
  MaxInt32 = 63
  NLevels = 12
  ConLevels <- MCLevels
  Users = {u}
  Anybody = any
  Placeholder = arg
  BaseAccess <- MCVoice
  DefaultUser <- MCZero
  InitAccess <- MCAccess
  Operator = TRUE
  Issuers <- MCIssuers
  Inputs <- MCInputs
  Alias <- MCAlias
  Cap = 2
  MaxCommands = 1
  MaxEvents = 2
INVARIANTS
  AliasNamesUser
CHECK_DEADLOCK FALSE
