SPECIFICATION Spec
CONSTANTS
  MaxBeats = 4
  MaxClears = 2
INVARIANTS
  CountCovers
PROPERTIES
  BeatSpec
  EveryBeatSent
CHECK_DEADLOCK FALSE
