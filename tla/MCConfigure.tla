---------------------------- MODULE MCConfigure ----------------------------
(* Values of the constants of Configure: two integrators of two thresholds *)
(* each, three classes, two destinations; three fault inputs, so that a    *)
(* fault may have a fast and a slow input beside another fault.            *)
EXTENDS Configure, TLC

MCValues == {{}, {0}, {2}}
MCDemands ==
  {{}, {[dest |-> "d1", class |-> 1]},
   {[dest |-> "d1", class |-> 2], [dest |-> "d2", class |-> 0]}}
MCGarbage ==
  {[mask |-> {}, class |-> 0, expected |-> 0], [mask |-> {"d1"}, class |-> 15, expected |-> 1]}

Symmetry == Permutations(Faults) \cup Permutations(States)
=============================================================================
