SPECIFICATION FairSpec
CONSTANTS
  r1 = r1
  r2 = r2
  NoJob = NoJob
  Request = {r1, r2}
  Name = {"watch"}
  Playbook = {"watch"}
  KeepDone = 1
  MaxRestart = 1
  MaySignal = TRUE
PROPERTIES
  StartReturns
  WatchdogEnds
  FinishedIsRemembered
