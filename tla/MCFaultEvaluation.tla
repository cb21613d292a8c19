------------------------- MODULE MCFaultEvaluation -------------------------
(***************************************************************************)
(* A database for FaultEvaluation with one of each thing that interacts:   *)
(*   fault 1: device d1 (two inputs), two states;                          *)
(*   fault 2: devices d2 and d1 on two cards, with a default state;        *)
(*   fault 3: analog device a1, left to the firmware, two thresholds of    *)
(*            one integrator, each ignored by a condition of its own.      *)
(***************************************************************************)
EXTENDS FaultEvaluation

CONSTANTS d1, d2, a1, i1, i2, i3, D1, D2

MCDigital == {d1, d2}
MCAnalog == {a1}
MCInputs == {i1, i2, i3}
MCInputDevice == [i \in MCInputs |-> IF i = i3 THEN d2 ELSE d1]
MCInputBit == [i \in MCInputs |-> IF i = i2 THEN 1 ELSE 0]

MCFaultInputs ==
  << << [device |-> d1, bit |-> 0] >>,
     << [device |-> d2, bit |-> 2], [device |-> d1, bit |-> 3] >>,
     << [device |-> a1, bit |-> 0] >> >>

(* States 1, 2 of fault 1; 3 and the default 4 of fault 2; 5, 6 of fault 3 *)
MCStateFault == << 1, 1, 2, 2, 3, 3 >>
MCStateValue == << {}, {0}, {2}, {3}, {0}, {1} >>
MCStateMask  == << {0, 1}, {0, 1}, {2}, {3}, {0}, {1} >>
MCDefaultState == << 0, 4, 0 >>

MCAllowedClasses ==
  << [state |-> 1, destination |-> D1, class |-> 0],
     [state |-> 2, destination |-> D1, class |-> 1],
     [state |-> 3, destination |-> D1, class |-> 1],
     [state |-> 3, destination |-> D2, class |-> 0],
     [state |-> 4, destination |-> D2, class |-> 1],
     [state |-> 5, destination |-> D2, class |-> 0],
     [state |-> 6, destination |-> D2, class |-> 1] >>

MCConditionInputs ==
  << { [state |-> 1, bit |-> 0] },
     { [state |-> 2, bit |-> 0], [state |-> 3, bit |-> 1] },
     { [state |-> 2, bit |-> 0] } >>
MCConditionMask == << {0}, {0, 1}, {0} >>

MCIgnoreConditions ==
  << [condition |-> 1, state |-> 5, device |-> a1],
     [condition |-> 2, state |-> 6, device |-> a1],
     [condition |-> 3, state |-> 3, device |-> d2] >>

(* A smaller database for the operator's limits, with slow devices only:   *)
(* fault 1 of d1 and a1, fault 2 of a1; no class is allowed by state 4.    *)
SmallDigital == {d1}
SmallInputs == {i1}
SmallInputDevice == [i \in SmallInputs |-> d1]
SmallInputBit == [i \in SmallInputs |-> 0]
SmallFaultInputs ==
  << << [device |-> d1, bit |-> 0], [device |-> a1, bit |-> 1] >>,
     << [device |-> a1, bit |-> 0] >> >>
SmallStateFault == << 1, 1, 2, 1 >>
SmallStateValue == << {0}, {0, 1}, {0}, {1} >>
SmallStateMask  == << {0}, {0, 1}, {0}, {0, 1} >>
SmallDefaultState == << 0, 0 >>
SmallAllowedClasses ==
  << [state |-> 1, destination |-> D1, class |-> 1],
     [state |-> 2, destination |-> D1, class |-> 0],
     [state |-> 2, destination |-> D2, class |-> 1],
     [state |-> 3, destination |-> D2, class |-> 0] >>
SmallConditions == <<>>
=============================================================================
