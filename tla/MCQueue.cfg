SPECIFICATION Spec
CONSTANTS
  alice = alice
  bob = bob
  Accounts = {alice, bob}
  InitialBalance <- MCBalance
  Txs = {}
  Bars = {}
  Ops <- QueueOps
  Times <- QueueTimes
  GasConfigs <- RisingTargets
  GenesisGas <- QueueGenesis
  TauSeconds = 1
  Lambda = 2
  MaxFullBlocksInOpenQueue = 2
  TxGas = 2
  MaxHeight = 6
  MaxUint = 63
  Second = 2
INVARIANT
  QueueTimeBounded
CHECK_DEADLOCK FALSE
