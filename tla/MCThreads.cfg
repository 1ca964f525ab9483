SPECIFICATION Spec
CONSTANTS
  MaxPending = 2
  QueueCap = 2
  ClientCap = 2
  Loads = {{"txs"}, {"blocks"}}
INVARIANT UsesOnlyOpen
PROPERTIES PendingIsReported ShutdownCompletes AcceptReturns
CHECK_DEADLOCK FALSE
