CONSTANTS
  Song <- FastSong
  BlockOffset <- FastSongOffset
  InitialStates <- MCInitialStates
  FRAC = 3
  ELAPSED_MOD = 64
  VLQ_BASE = 3
  DEFAULT_STEP = 2
  SEND_DIRECT = TRUE
  CLOCK_MAX = 60
SPECIFICATION FairSpec
PROPERTY PlayOnceStops
