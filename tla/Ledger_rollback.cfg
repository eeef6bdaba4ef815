SPECIFICATION Spec
CHECK_DEADLOCK FALSE
CONSTANTS
  TransferFee = 2
  FixedGasPrice = 1
  TransferGasLimit = 2
  InOutNumPerExtraFee = 6
  ContractAddr <- Bonus
  Admin <- MCAdmin
  Program <- MCProgram
  VoutLimit = 2
  IntrinsicGas = 1
  MaxBlockGasLimit = 100
  Miner = miner
  Peers = {peer}
  Keeper <- K
  BlockReward = 5
  SwitchHeight = 3
  Pending <- MCPending
  Scenarios = {"split"}
  GenesisUtxo <- MCGenesisUtxo
  GenesisState <- MCGenesisState
  MaxBlocks <- MCMaxBlocks
  MaxUndo = 1
INVARIANTS UndoesApplyBlock
