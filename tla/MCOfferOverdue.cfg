SPECIFICATION Spec
CONSTANTS
  h = h
  b = b
  c = c
  None = None
  Humans <- MCHumans
  Bots <- MCOneBot
  Order <- MCTwoSeats
  RollTime = 2
  ActionTime = 6
  Window = 2
  BotDelay = 1
  Fallback = 1
  RetryCap = 2
  StallTickLimit = 20
  MaxPerMinute = 4
  Minute = 3
  MaxLag = 1
  MaxAway = 2
  MaxTroubles = 0
INVARIANT OffersCloseInTime
CHECK_DEADLOCK FALSE
