SPECIFICATION Spec
CONSTANTS
  TagModulus = 4
  Destinations = {d1, d2}
  Classes = {c1, c2}
  Flags = {ready}
  MonitorReady = ready
  MaxTurn = 1
  MaxPackets = 4
INVARIANTS
  LossesCovered
  NoLossInvented
  DisorderShown
CHECK_DEADLOCK FALSE
