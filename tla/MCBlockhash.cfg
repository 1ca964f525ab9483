SPECIFICATION Spec
CONSTANTS
  MaxHeight = 3
  BlockTimes = {1, 3, 5}
  GasUsed = {1}
  Tau = 1
  GenesisTime = 1
  LastSynchronous = 0
  Configs <- MCConfigs
  Lookups = {1, 2}
  MaxCrashes = 2
  MaxUnsynced = 1
INVARIANT BlockhashSupported
CHECK_DEADLOCK FALSE
