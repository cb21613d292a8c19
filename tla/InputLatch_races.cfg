SPECIFICATION Spec
CONSTANTS
  Analog = {a}
  Digital = {i, r}
  Thresholds = {t1, t2}
  AutoReset = {r}
  LowFaults = {i}
  None = none
  MaxCalls = 2
INVARIANTS
  WrongOncePerCall
PROPERTIES
  HeldUntilUnlatched
