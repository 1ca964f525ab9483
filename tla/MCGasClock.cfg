SPECIFICATION Spec
CONSTANTS
  MaxUint = 15
  Second = 3
  Targets = {0, 2, 3, 15}
  Configs <- MCConfigs
  InitialExcess = {0}
  MaxSeconds = 2
INVARIANT
  TypeOK
PROPERTIES
  ClockMonotone
  StartIsExact
  PriceContinues
CHECK_DEADLOCK FALSE
