SPECIFICATION Spec
CONSTANTS
  d1 = d1
  d2 = d2
  a1 = a1
  i1 = i1
  i2 = i2
  i3 = i3
  D1 = D1
  D2 = D2
  NoDevice = NoDevice
  Digital <- SmallDigital
  Analog <- MCAnalog
  Unassigned = {}
  Slow = {d1, a1}
  Inputs <- SmallInputs
  InputDevice <- SmallInputDevice
  InputBit <- SmallInputBit
  FaultInputs <- SmallFaultInputs
  StateFault <- SmallStateFault
  StateValue <- SmallStateValue
  StateMask <- SmallStateMask
  DefaultState <- SmallDefaultState
  AllowedClasses <- SmallAllowedClasses
  ConditionInputs <- SmallConditions
  ConditionMask <- SmallConditions
  IgnoreConditions <- SmallConditions
  Destinations = {D1, D2}
  Laser = {D2}
  HighestClass = 2
  LowestClass = 0
  OperatorClasses = {0, 2}
  MayBypass = {a1}
  MayGoOffline = {}
  MayGoInactive = {}
  AnalogBits = {0}
  WorstGarbage = {0}
  ActiveGarbage = {TRUE}
CHECK_DEADLOCK FALSE
PROPERTY AllowedIsLowest
