SPECIFICATION Spec
CONSTANTS
  p1 = p1
  p2 = p2
  s1 = s1
  s2 = s2
  None = None
  Peer = {p1, p2}
  PeerChain <- PairFork
  Busy = {p2}
  Bad <- BadBlock
  LightPeer = {p2}
  Sync = {s1}
  MaxBlocksPerSync = 2
  Threshold = 2
  MaxCheckPeers = 2
  MaxSyncTries = 3
  MayBeLate = {"locate", "check", "blocks"}
  MaxStarts = 1
INVARIANTS SyncedOrPending CompleteSync
PROPERTIES  SyncEnds
CHECK_DEADLOCK FALSE
