CONSTANTS
  alice = alice
  bob = bob
  carol = carol
  t1 = t1
  t2 = t2
  Users <- TwoServers
  LocalUsers <- OneLocal
  Creator = carol
  Threads = {t1}
  MaxEvents = 6
  ClientState <- NoPairs
  InitialState <- NoPairs
  RemoteState <- RemotePairs
  PreviewState <- RulePreview
  MaxTips = 1
  MaxFetch = 1
  MaxPreviews = 1
SYMMETRY Symmetry
SPECIFICATION Spec
CHECK_DEADLOCK FALSE
INVARIANTS
  DagConnected
  MembershipBacked
