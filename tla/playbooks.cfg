SPECIFICATION Spec
CONSTANTS
  MaxScan = 2
  Finds <- MCFinds
  Dst = {}
  sudo = sudo
  helper = helper
  proton = proton
  Path <- MCPath
  Class <- MCClass
  Dir <- MCDir
  f1 = f1
  f2 = f2
  Freezer = {f1, f2}
  Asked <- MCAsked
  Others <- MCOthers
  MaxVersion = 2
  Policies = {"clean_only", "always_prompt"}
  Pid = {2}
  Name = {"nc", "python3"}
  Ours = {"python3"}
  Scene <- MCScene
  Killer = {"k1"}
  MaxAct = 2
  MaxBorn = 2
CHECK_DEADLOCK FALSE
INVARIANTS   KillsWhatWasAsked
PROPERTIES  PrefixesKept
