SPECIFICATION Spec
CONSTANTS
  u = u
  any = any
  arg = arg
  MaxInt32 = 63
  NLevels = 12
  ConLevels <- MCLevels
  Users = {u}
  Anybody = any
  Placeholder = arg
  BaseAccess <- MCVoice
  DefaultUser <- MCDefaultBan
  InitAccess <- MCAccess
  Operator = TRUE
  Issuers <- MCIssuers
  Inputs <- MCInputs
  Alias <- MCAlias
  Cap = 2
  MaxCommands = 2
  MaxEvents = 2
INVARIANTS
  BansAgree
CHECK_DEADLOCK FALSE
