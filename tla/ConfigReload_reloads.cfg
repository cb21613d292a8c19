SPECIFICATION FairSpec
CONSTANTS
  Cards = {c1, c2}
  MaxRequests = 1
  MaxFailures = 1
INVARIANTS
  ConfigurationWhole
  ConfigurationCurrent
  WantedIsEnabled
  FailedIsDisabled
PROPERTIES
  ReloadsEnd
  ProgramQuits
CHECK_DEADLOCK FALSE
