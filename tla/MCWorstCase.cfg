SPECIFICATION Spec
CONSTANTS
  alice = alice
  bob = bob
  Accounts = {alice, bob}
  InitialBalance <- MCBalance
  Txs <- MCTxs
  Bars <- MCBars
  Ops <- MCOps
  Times <- MCTimes
  GasConfigs <- MCGasConfigs
  GenesisGas <- MCGenesisGas
  TauSeconds = 1
  Lambda = 2
  MaxFullBlocksInOpenQueue = 1
  TxGas = 2
  MaxHeight = 3
  MaxUint = 63
  Second = 2
INVARIANTS
  ReplayFailsOnlyForSender
  ExecutionFailsOnlyForSender
  ChecksPass
  NextBaseFeeBounded
  EndTimeBounded
  QueueIsExact
CHECK_DEADLOCK FALSE
