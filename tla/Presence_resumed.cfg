SPECIFICATION Spec
CONSTANTS
  g1 = g1
  g2 = g2
  c1 = c1
  c2 = c2
  c3 = c3
  Guilds = {g1}
  ChannelsOf <- MCOneGuild
  Configured = {c1, c2}
  Users = {u1}
  MaxChanges = 1
  MaxDrops = 1
  MaxFails = 0
INVARIANTS
  ResumedAreAnnounced
CHECK_DEADLOCK FALSE
