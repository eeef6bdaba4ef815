SPECIFICATION Spec
CONSTANTS
  g = g
  a1 = a1
  a2 = a2
  a3 = a3
  b1 = b1
  b2 = b2
  b3 = b3
  c2 = c2
  c3 = c3
  f1 = f1
  f2 = f2
  None = None
  Block <- TwoSideBlock
  Genesis = g
  Parent <- TreeTwoSide
  Height <- TwoSideHeight
  Anc <- TwoSideAnc
  MaxHeight = 3
  Stamp <- OwnStamp
  Keeper <- OneKeeper
  Malformed = {}
  BadHeight = {b3}
  Invalid = {c3}
  Own = {a1,a2,b2}
  Certified = {a2}
  Finalizer = {f1}
  Threshold = 2
  MaxCrashes = 1
INVARIANTS Storage MainChainVerified
PROPERTIES ReorgAtomic Unlocks
