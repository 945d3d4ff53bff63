CONSTANTS
  roomA = roomA
  ta = ta
  tb = tb
  d1 = d1
  s1 = s1
  m1 = m1
  t1 = t1
  t2 = t2
  Paths = {roomA}
  Types = {ta, tb}
  TxnIds = {m1}
  Devices = {d1}
  Wild = {d1}
  Servers = {s1}
  Threads = {t1, t2}
  MaxTokens = 2
  MaxBegun = 2
  MaxTries = 2
  MaxFaults = 1
SPECIFICATION Spec
CHECK_DEADLOCK FALSE
INVARIANTS
  TypeOK
  AnswerHasItsWork
  EveryCopyHasACause
PROPERTIES
  EventuallyAnswered
