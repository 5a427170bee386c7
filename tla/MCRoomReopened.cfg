SPECIFICATION Spec
CONSTANTS
  c1 = c1
  c2 = c2
  u1 = u1
  u2 = u2
  Bot = Bot
  None = None
  Rooms = {1}
  Conns = {c1, c2}
  Users = {u1, u2}
  User <- MCUser
  MaxSeats = 2
  MinPlayers = 2
  Scenarios <- MCReopened
PROPERTIES
  ClosedForGood
CHECK_DEADLOCK FALSE
