SPECIFICATION IsolateSpec
CONSTANTS
  i1 = i1
  i2 = i2
  u1 = u1
  u2 = u2
  d1 = d1
  d2 = d2
  Dst = {d1, d2}
  Isolation = {i1, i2}
  Undo = {u1}
  MaxScan = 2
  Finds <- MCFinds
INVARIANTS
  UndoRemovesAll
SYMMETRY Symmetry
CHECK_DEADLOCK FALSE
