SPECIFICATION Spec
CONSTANTS
  fA = fA
  fB = fB
  fN = fN
  f1 = f1
  f2 = f2
  c1 = c1
  c2 = c2
  c3 = c3
  Folder = {fA, fB, fN}
  File = {f1, f2}
  Call = {c1, c2, c3}
  Default = fA
  Made = {fA, fB}
  None = None
  MaxRecents = 2
  Repos = {fA, fB}
  WallE = {fB}
  Scenes <- MCScenes
SYMMETRY Symm
INVARIANTS FolderReturns BashLeaves 
PROPERTIES EditKeepsText 
CHECK_DEADLOCK FALSE
