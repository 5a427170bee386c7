SPECIFICATION LiveSpec
CONSTANTS
  t1 = t1
  t2 = t2
  u1 = u1
  u2 = u2
  None = None
  Tabs = {t1}
  Users = {u1}
  User <- MCOneTab
  Commands = {x}
  MaxSends = 1
  MaxAuto = 1
  MaxDrops = 1
  MaxCrashes = 1
  MaxFailures = 1
  MaxUnknown = 0
  MaxStalls = 1
  MaxLimited = 1
PROPERTIES
  CommandsSettle
CHECK_DEADLOCK FALSE
