CONSTANTS
  alice = alice
  bob = bob
  d1 = d1
  d2 = d2
  t1 = t1
  t2 = t2
  Users = {alice, bob}
  Devices = {d1, d2}
  Owner <- OneEach
  Threads = {t1, t2}
  MaxTokens = 4
SYMMETRY Symmetry
SPECIFICATION Spec
CHECK_DEADLOCK FALSE
INVARIANTS
  TypeOK
  LogoutEndsSession
PROPERTIES
  DeadTokensStayDead
