CONSTANTS
  e1 = e1
  e2 = e2
  d1 = d1
  d2 = d2
  Events = {e1, e2}
  Servers = {d1, d2}
  Target <- InviteAndMessage
  MaxRetries = 5
  MaxCopies = 1
SPECIFICATION LiveSpec
INVARIANTS TypeOK NothingVanishes CopiesBounded
PROPERTIES EventuallySettled EventuallySent
CHECK_DEADLOCK FALSE
