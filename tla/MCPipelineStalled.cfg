SPECIFICATION Spec
CONSTANTS
  t1 = t1
  t2 = t2
  u1 = u1
  u2 = u2
  None = None
  Tabs = {t1}
  Users = {u1}
  User <- MCOneTab
  Commands = {x}
  MaxSends = 1
  MaxAuto = 0
  MaxDrops = 1
  MaxCrashes = 0
  MaxFailures = 0
  MaxUnknown = 0
  MaxStalls = 1
  MaxLimited = 0
PROPERTIES
  RetryNeverRefused
CHECK_DEADLOCK FALSE
