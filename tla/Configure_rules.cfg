SPECIFICATION Spec
CONSTANTS
  Digital = {d}
  Analog = {a, s}
  Fast = {d, a}
  Slow = {s}
  Faults = {f, g}
  States = {fs, gs}
  Destinations = {"d1", "d2"}
  MaxClass = 2
  NumInputs = 3
  NumThresholds = 2
  NumIntegrators = 2
  Values <- MCValues
  Demands <- MCDemands
  Garbage <- MCGarbage
  None = none
SYMMETRY Symmetry
INVARIANTS
  EveryFaultHandled
  ClassIsLowest
CHECK_DEADLOCK FALSE
