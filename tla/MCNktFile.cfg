CONSTANTS
  Songs <- MCSongs
  ROOM_MAX = 25
SPECIFICATION Spec
INVARIANTS
  TypeOK
  SavedWhole
  LoadedIsSaved
  SavedLoads
CHECK_DEADLOCK FALSE
