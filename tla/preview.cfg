SPECIFICATION FairSpec
CONSTANTS
  s1 = s1
  s2 = s2
  q1 = q1
  NoPid = NoPid
  Torn = Torn
  Start = {s1, s2}
  Stop = {q1}
  MaxPort = 2
  MaxRestart = 1
INVARIANTS
  OnRecord
  
PROPERTIES
  CallReturns
CHECK_DEADLOCK FALSE
