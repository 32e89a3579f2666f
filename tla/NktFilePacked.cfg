CONSTANTS
  Songs <- MCSongs
  ROOM_MAX = 25
SPECIFICATION Spec
INVARIANT PackedLoadedIsSaved
CHECK_DEADLOCK FALSE
