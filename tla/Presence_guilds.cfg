SPECIFICATION Spec
CONSTANTS
  g1 = g1
  g2 = g2
  c1 = c1
  c2 = c2
  c3 = c3
  Guilds = {g1, g2}
  ChannelsOf <- MCTwoGuilds
  Configured = {c1, c2}
  Users = {u1}
  MaxChanges = 2
  MaxDrops = 0
  MaxFails = 0
INVARIANTS
  AnnouncedAreOnline
CHECK_DEADLOCK FALSE
