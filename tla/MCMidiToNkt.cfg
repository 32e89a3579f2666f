CONSTANTS
  Tracks <- MCTracks
  VLQ_BASE = 2
  MaxEvents = 3
SPECIFICATION Spec
INVARIANTS
  TypeOK
  EventsFit
  DataKept
  EndsOnce
  
CHECK_DEADLOCK FALSE
