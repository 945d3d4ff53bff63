CONSTANTS
  Devices = {d1}
  MaxOrdering = 2
  MaxMail = 0
  OpenEvents = 1
  OpenMail = 0
  MailLimit = 1
SPECIFICATION Spec
INVARIANTS NothingSkipped
CHECK_DEADLOCK FALSE
