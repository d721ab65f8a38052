SPECIFICATION Spec
CONSTANTS
  MaxScan = 2
  Finds = {}
  Dst = {}
  c1 = c1
  c2 = c2
  c3 = c3
  Call = {c1, c2, c3}
  Scenes <- MCScenes
INVARIANTS CacheTrue HardIsAlert SecondDomainAlerts
PROPERTIES IsolateAtHome
CHECK_DEADLOCK FALSE
