CONSTANTS
  alice = alice
  bob = bob
  carol = carol
  t1 = t1
  t2 = t2
  Users <- TwoLocals
  LocalUsers <- TwoLocals
  Creator = alice
  Threads = {t1, t2}
  MaxEvents = 7
  ClientState <- BanPair
  InitialState <- TopicPairs
  RemoteState <- NoPairs
  PreviewState <- NoPairs
  MaxTips = 1
  MaxFetch = 1
  MaxPreviews = 0
SYMMETRY Symmetry
SPECIFICATION Spec
CHECK_DEADLOCK FALSE
INVARIANTS
  TypeOK
  DagConnected
  OneTipPerWriter
  DepthAboveParents
  MembershipBacked
