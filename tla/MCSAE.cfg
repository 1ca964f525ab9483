SPECIFICATION Spec
CONSTANTS
  MaxBlocks = 4
  BlockTimes = {1, 2, 4}
  GasUsed = {0, 2}
  Tau = 1
  GenesisTime = 1
  QueueCap = 2
INVARIANTS
  TypeOK
  SettlementIsDeterministic
  ExecutionIsOrdered
  SettledAfterExecuted
  SettledBeforeAccepted
  ParentFirst
  EvictedIsSettled
  CriticalIsExact
  NoInternalError
  BootstrapNeverLags
PROPERTY LabelsMonotone
CHECK_DEADLOCK FALSE
