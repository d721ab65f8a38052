SPECIFICATION Spec
CONSTANTS
  r1 = r1
  r2 = r2
  NoJob = NoJob
  Request = {r1, r2}
  Name = {"scan", "watch"}
  Playbook = {"watch"}
  KeepDone = 1
  MaxRestart = 1
  MaySignal = TRUE
INVARIANTS
  TypeOK
  DoneMeansGone
  OneshotUnlessRaced
PROPERTIES
  KeepsPromise
  RunningSurvivesRestart
SYMMETRY Symmetry
