SPECIFICATION FairSpec
CONSTANTS
  MaxHeight = 4
  BlockTimes = {1, 3, 5}
  GasUsed = {1}
  Tau = 1
  GenesisTime = 1
  LastSynchronous = 2
  Configs <- MCConfigs
  Lookups = {1}
  MaxCrashes = 2
  MaxUnsynced = 1
INVARIANT RecoveryCanStart StateAvailable ReferencesExact RecoveredIsExact
PROPERTY Recovers
CHECK_DEADLOCK FALSE
