SPECIFICATION CardSpec
CONSTANTS
  None = None
  Cards <- MCCards
  Digital <- MCDigital
  Analog <- MCAnalog
  Inputs <- MCInputs
  Databases <- MCDatabases
  NumThresholds = 2
  MaxIntegrators = 2
  Area <- MCArea
  Room <- MCRoom
INVARIANTS
  SoundIsAccepted
  FlawsAreStopped
  ReadsItsCard
  FirmwareHasRules
  ThresholdsMatch
CHECK_DEADLOCK FALSE
