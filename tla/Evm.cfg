SPECIFICATION SpecW
CHECK_DEADLOCK FALSE
CONSTANTS
  Nibbles = {0, 1}
  Addrs = {"u", "a", "b", "n"}
  Keys = {"k1", "k2", "k3"}
  Path <- MCPath
  Txs = {1, 2}
  Users = {"u"}
  Codes = {"code"}
  Values = {0, 1}
  CreateAddress <- MCCreateAddress
  CreateAddress2 <- MCCreateAddress2
  CallCreateDepth = 2
  Scenes <- MCScenes
INVARIANTS CanonicalRoot StaticOnlyReads
PROPERTY Implements
