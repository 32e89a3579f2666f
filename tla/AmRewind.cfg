CONSTANTS
  Songs <- MCSongs
  InitialStates <- MCInitialStates
  ELAPSED_MOD = 14
  CLOCK_MAX = 917504
SPECIFICATION Spec
INVARIANTS
  AllTracksRewound
CHECK_DEADLOCK FALSE
