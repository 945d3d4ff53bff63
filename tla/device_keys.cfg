CONSTANTS
  k1 = k1
  k2 = k2
  f1 = f1
  i1 = i1
  i2 = i2
  g1 = g1
  g2 = g2
  s1 = s1
  s2 = s2
  t1 = t1
  t2 = t2
  KeyIds = {k1, k2}
  Fallbacks = {f1}
  Identities = {i1}
  Usages = {"master"}
  Generations = {g1, g2}
  Signers = {s1, s2}
  Threads = {t1, t2}
  MaxRows = 2
SYMMETRY Symmetry
SPECIFICATION Spec
CHECK_DEADLOCK FALSE
INVARIANTS
  TypeOK
  OneClaimPerInsert
  CrossSignaturesMatch
  SignaturesKept
