SPECIFICATION Spec
CONSTANTS
  Senders = {"alice", "bob"}
  Prices <- MCPrices
  BaseFees = {0, 2}
  BlockSize = 3
  MaxTxs = 4
INVARIANT NoncesIncrease
CHECK_DEADLOCK FALSE
