CONSTANTS
  k1 = k1
  k2 = k2
  t1 = t1
  t2 = t2
  t3 = t3
  Keys = {k1, k2}
  Threads = {t1, t2}
  MaxVersions = 2
  MaxChanges = 3
SPECIFICATION Spec
CHECK_DEADLOCK FALSE
INVARIANTS
  TypeOK
  EtagCountsCommits
  CountExact
PROPERTIES
  OldVersionsShrink
  RequestsEnd
