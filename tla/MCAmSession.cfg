CONSTANTS
  Songs <- MCSongs
  InitialStates <- MCInitialStates
  ELAPSED_MOD = 14
  CLOCK_MAX = 917504
  Files <- MCFiles
  PoolSizes <- MCPoolSizes
SPECIFICATION FairSession
INVARIANTS
  TypeOK
  PlayedInOrder
  NeverOverdue
  LateByEvents
  StepInForce
  LoaderTypeOK
  LoadedWhole
  InStep
  NothingBehindEnd
  ChannelsApart
PROPERTIES
  ImplementsTransport
  PlayOnceStops
  PauseFallsSilent
  LoadEnds
  LoadAdvances
CHECK_DEADLOCK FALSE
