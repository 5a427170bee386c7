SPECIFICATION Spec
CONSTANTS
  k1 = k1
  k2 = k2
  k3 = k3
  old = old
  new = new
  ann = ann
  ben = ben
  hal = hal
  bot1 = bot1
  bot2 = bot2
  r1 = r1
  r2 = r2
  Keys <- MCKeys
  Times <- MCTimes
  Never = Never
  MaxVersion = 5
  Servers <- MCServers
  Nobody = Nobody
  Seated <- MCSeated
  Ttl = 1
  SnapshotEvery = 2
  MaxLog = 4
  MaxCrashes = 2
  MaxSeq = 5
  MaxEvents = 3
  Humans <- MCHumans
  Bots <- MCBots
  Order <- MCOrder
  None = None
  Wrap = 8
  MaxBehind = 3
  Rooms <- MCRooms
  Nothing = Nothing
  MaxAsked = 3
  MaxReloads = 2
  StandardRadius = 2
  IslandOffset = 5
  ContinentHexes = 31
  ContinentRadius = 4
  PortCount = 9
  MaxPlayers = 4
INVARIANTS
  ReplayOfMatch
CHECK_DEADLOCK FALSE
