CONSTANTS
  Song <- MCSong
  BlockOffset <- MCBlockOffset
  InitialStates <- MCInitialStates
  FRAC = 3
  ELAPSED_MOD = 64
  VLQ_BASE = 3
  DEFAULT_STEP = 2
  SEND_DIRECT = FALSE
  CLOCK_MAX = 60
  Volumes = {}
  Balances = {}
SPECIFICATION PlayerSpec
INVARIANTS
  TracksTogether
  Delivered
PROPERTIES
  PlayOnceStops
