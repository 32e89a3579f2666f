CONSTANTS
  Songs <- MCSongs
  InitialStates <- MCInitialStates
  ELAPSED_MOD = 14
  CLOCK_MAX = 917504
  Files <- ExclusiveFiles
  PoolSizes <- MCPoolSizes
SPECIFICATION Session
INVARIANTS
  InStep
CHECK_DEADLOCK FALSE
