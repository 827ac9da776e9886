CONSTANTS
  Clients = {1, 2}
  Configs <- MCConfigs
  MaxCalls = 2
  MaxFailures = 1
  MaxEntries = 1
  Files <- MCFiles
  FileOf <- MCFileOf
  Dependencies <- MCDependencies
SPECIFICATION Spec
CHECK_DEADLOCK FALSE
INVARIANTS TypeOK LoadedOnce PoolIsComplete
PROPERTY EveryCallReturns
