CONSTANTS
  Event <- SmallRoom
  Inputs <- SmallInputs
SPECIFICATION Spec
CHECK_DEADLOCK FALSE
INVARIANTS
  TypeOK
  ServersAgree
  WinnersAuthorized
  AgreedStateKept
PROPERTIES
  AuthFirst
