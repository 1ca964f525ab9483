SPECIFICATION FairSpec
CONSTANTS
  MaxBlocks = 3
  BlockTimes = {1, 2, 3}
  GasUsed = {1}
  Tau = 1
  GenesisTime = 1
  QueueCap = 1
PROPERTY AcceptedIsExecuted CallsReturn ImplementsLedger
CHECK_DEADLOCK FALSE
