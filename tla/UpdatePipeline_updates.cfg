SPECIFICATION FairSpec
CONSTANTS
  Cards = {c1, c2}
  ActiveGarbage = {TRUE, FALSE}
  MaxUpdates = 3
INVARIANTS
  InputsStillDuringCheck
  NoStaleMask
PROPERTIES
  StreamSpec
  EveryUpdateApplied
  EngineStops
