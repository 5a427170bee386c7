SPECIFICATION Spec
CONSTANTS
  h = h
  b = b
  c = c
  None = None
  Humans <- MCHumans
  Bots <- MCBots
  Order <- MCOrder
  RollTime = 2
  ActionTime = 3
  Window = 2
  BotDelay = 1
  Fallback = 1
  RetryCap = 2
  StallTickLimit = 3
  MaxPerMinute = 3
  Minute = 1
  MaxLag = 1
  MaxAway = 1
  MaxTroubles = 1
INVARIANTS
  NoLostWakeup
  StallsOnlyOnOffers
PROPERTIES
  FullTurn
  TurnsPass
CHECK_DEADLOCK FALSE
