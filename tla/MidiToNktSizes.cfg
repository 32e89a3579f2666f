CONSTANTS
  Tracks <- MCTracks
  VLQ_BASE = 2
  MaxEvents = 3
SPECIFICATION Spec
INVARIANT DataFits
CHECK_DEADLOCK FALSE
