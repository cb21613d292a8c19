SPECIFICATION Spec
CONSTANTS
  Bypasses = {d}
  Analog = {}
  Fast = {d}
  MayCancel = {}
  MaxTime = 2
  MaxRequests = 2
INVARIANT FirmwareFollows
CHECK_DEADLOCK FALSE
