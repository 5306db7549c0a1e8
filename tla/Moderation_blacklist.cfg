SPECIFICATION Spec
CONSTANTS
  u = u
  any = any
  arg = arg
  MaxInt32 = 63
  NLevels = 12
  ConLevels <- MCLevels
  Users = {u}
  Anybody = any
  Placeholder = arg
  BaseAccess <- MCVoice
  DefaultUser <- MCZero
  InitAccess <- MCBlacklist
  Operator = TRUE
  Issuers <- MCMods
  Inputs <- MCInputs
  Alias <- MCAlias
  Cap = 2
  MaxCommands = 2
  MaxEvents = 0
INVARIANTS
  BlacklistHolds
CHECK_DEADLOCK FALSE
