CONSTANTS
  alice = alice
  bob = bob
  carol = carol
  t1 = t1
  t2 = t2
  Users <- TwoServers
  LocalUsers <- OneLocal
  Creator = alice
  Threads = {t1, t2}
  MaxEvents = 6
  ClientState <- RulePairs
  InitialState <- NoPairs
  RemoteState <- RemotePairs
  PreviewState <- NoPairs
  MaxTips = 1
  MaxFetch = 1
  MaxPreviews = 0
SYMMETRY Symmetry
SPECIFICATION Spec
CHECK_DEADLOCK FALSE
INVARIANTS
  LocalTipsChildless
  MembershipBacked
PROPERTIES
  ImplementsEventGraph
