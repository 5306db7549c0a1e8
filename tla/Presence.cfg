SPECIFICATION Spec
CONSTANTS
  g1 = g1
  g2 = g2
  c1 = c1
  c2 = c2
  c3 = c3
  Guilds = {g1}
  ChannelsOf <- MCOneGuild
  Configured = {c1, c2}
  Users = {u1, u2}
  MaxChanges = 3
  MaxDrops = 1
  MaxFails = 2
INVARIANTS
  TrackedAreAnnounced
  AnnouncedAreOnline
  OnlineAreAnnounced
CHECK_DEADLOCK FALSE
