CONSTANTS
  Song <- MCSong
  BlockOffset <- MCBlockOffset
  InitialStates <- MCInitialStates
  FRAC = 3
  ELAPSED_MOD = 64
  VLQ_BASE = 3
  DEFAULT_STEP = 2
  SEND_DIRECT = TRUE
  CLOCK_MAX = 60
  Volumes <- MCVolumes
  Balances <- MCBalances
SPECIFICATION PlayerSpec
INVARIANTS
  TypeOK
  SilentWhenHalted
  StoppedAtTop
  InSync
  TempoInForce
  NotOverdue
  OnSchedule
  Delivered
PROPERTIES
  ImplementsTransport
  PlayOnceStops
  LoopComesRound
  ReachesSilence
  SettingsArrive
