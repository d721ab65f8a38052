SPECIFICATION Spec
CONSTANTS
  r1 = r1
  r2 = r2
  NoJob = NoJob
  Request = {r1, r2}
  Name = {"scan"}
  Playbook = {}
  KeepDone = 1
  MaxRestart = 0
  MaySignal = FALSE
INVARIANTS
  DoneMeansGone
