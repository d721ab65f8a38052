SPECIFICATION Spec
CONSTANTS
  c1 = c1
  c2 = c2
  w1 = w1
  w2 = w2
  w3 = w3
  s1 = s1
  s2 = s2
  s3 = s3
  t1 = t1
  t2 = t2
  t3 = t3
  Call = {c1, c2}
  Writer = {w1, w2, w3}
  Session = {s1, s2, s3}
  Term = {t1, t2, t3}
  MaxIndex = 2
  MaxSessions = 2
  Scenes <- MCScenes
INVARIANTS NearIsRecalled
CHECK_DEADLOCK FALSE
