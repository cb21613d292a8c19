SPECIFICATION Spec
CONSTANTS
  d1 = d1
  d2 = d2
  a1 = a1
  i1 = i1
  i2 = i2
  i3 = i3
  D1 = D1
  D2 = D2
  NoDevice = NoDevice
  Digital <- MCDigital
  Analog <- MCAnalog
  Unassigned = {}
  Slow = {d1, d2}
  Inputs <- MCInputs
  InputDevice <- MCInputDevice
  InputBit <- MCInputBit
  FaultInputs <- MCFaultInputs
  StateFault <- MCStateFault
  StateValue <- MCStateValue
  StateMask <- MCStateMask
  DefaultState <- MCDefaultState
  AllowedClasses <- MCAllowedClasses
  ConditionInputs <- MCConditionInputs
  ConditionMask <- MCConditionMask
  IgnoreConditions <- MCIgnoreConditions
  Destinations = {D1, D2}
  Laser = {D2}
  HighestClass = 2
  LowestClass = 0
  OperatorClasses = {}
  MayBypass = {i3}
  MayGoOffline = {d2}
  MayGoInactive = {a1}
  AnalogBits = {0, 1}
  WorstGarbage = {0}
  ActiveGarbage = {TRUE, FALSE}
INVARIANTS
  MaskIsCurrent
  WorstIsMostRestrictive
PROPERTY AllowedIsLowest
