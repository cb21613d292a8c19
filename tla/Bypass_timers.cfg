SPECIFICATION FairSpec
CONSTANTS
  Bypasses = {d, a, b}
  Analog = {a, b}
  Fast = {d, b}
  MayCancel = {d}
  MaxTime = 2
  MaxRequests = 3
INVARIANTS
  ValidHasTimer
  NoLostExpiry
  MaskOfUncancelled
PROPERTIES
  NoEarlyEnd
  BypassEnds
CHECK_DEADLOCK FALSE
