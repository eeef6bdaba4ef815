SPECIFICATION Spec
CONSTANTS
  ta = ta
  tb = tb
  tc = tc
  td = td
  tu = tu
  tv = tv
  coin = coin
  sender = sender
  None = None
  TxSeq <- MCTxSeq
  Vin <- MCVin
  Vout <- MCVout
  Contract <- MCContract
  Coins <- MCCoins
  Insane = {tu}
  Unfit = {tv}
  BadScript = {tb}
  Threads = {"loop", "rpc", "check", "bus", "sweep"}
  Mined <- MCMined
  MaxSubmits <- MCMaxSubmits
  MaxUpdates <- MCMaxUpdates
  Overlap = {FALSE, TRUE}
  ScriptCap = 8
  CacheSize = 4
INVARIANTS  PackedValid
PROPERTIES Drained
