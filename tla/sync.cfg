CONSTANTS
  Devices = {d1}
  MaxOrdering = 2
  MaxMail = 3
  OpenEvents = 2
  OpenMail = 2
  MailLimit = 1
SPECIFICATION LiveSpec
INVARIANTS TypeOK NoRedelivery OnlyOvertakenLost
PROPERTIES SubscribersWake
CHECK_DEADLOCK FALSE
