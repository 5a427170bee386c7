SPECIFICATION Spec
CONSTANTS
  t1 = t1
  t2 = t2
  u1 = u1
  u2 = u2
  None = None
  Tabs = {t1, t2}
  Users = {u1}
  User <- MCSharedStorage
  Commands = {x, y}
  MaxSends = 1
  MaxAuto = 0
  MaxDrops = 1
  MaxCrashes = 0
  MaxFailures = 0
  MaxUnknown = 0
  MaxStalls = 0
  MaxLimited = 0
SYMMETRY MCTabsAlike
INVARIANTS
  AtMostOnce
  VerdictsKept
PROPERTIES
  ImplementsLedger
CHECK_DEADLOCK FALSE
