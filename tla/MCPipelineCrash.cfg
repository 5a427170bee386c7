SPECIFICATION Spec
CONSTANTS
  t1 = t1
  t2 = t2
  u1 = u1
  u2 = u2
  None = None
  Tabs = {t1}
  Users = {u1}
  User <- MCOneTab
  Commands = {x}
  MaxSends = 2
  MaxAuto = 1
  MaxDrops = 1
  MaxCrashes = 1
  MaxFailures = 1
  MaxUnknown = 1
  MaxStalls = 0
  MaxLimited = 0
INVARIANTS
  TypeOK
  VerdictsAgree
  ExecutedAtSeen
  MemoryFollowsLog
  TabsTrue
PROPERTIES
  TableNeverGoesBack
  RetryNeverRefused
CHECK_DEADLOCK FALSE
