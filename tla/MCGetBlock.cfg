SPECIFICATION ReadersSpec
CONSTANTS
  MaxBlocks = 3
  BlockTimes = {1, 3, 5}
  GasUsed = {1}
  Tau = 1
  GenesisTime = 1
  QueueCap = 1
  Archival = FALSE
  CommitInterval = 2
INVARIANT GetBlockAnswers
CHECK_DEADLOCK FALSE
