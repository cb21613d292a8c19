------------------------------ MODULE Configure ------------------------------
(***************************************************************************)
(* How MpsDb::configure turns the tables of the database into rules: what  *)
(* the firmware is told to do for the devices it evaluates itself, and     *)
(* which faults are left to the engine.  The database may be any; one that *)
(* is not consistent makes configure throw.                                *)
(*                                                                         *)
(* The value of a DeviceState is the set of its bits.  NumThresholds bits  *)
(* make an integrator.                                                     *)
(***************************************************************************)
EXTENDS Naturals, FiniteSets

CONSTANTS
  Digital, Analog,  \* the devices
  Fast, Slow,       \* those of FAST_EVALUATION and SLOW_EVALUATION
  Faults, States,   \* DbFault and DbFaultState
  Destinations,
  MaxClass,         \* the highest number of a beam class
  NumInputs,        \* the fault inputs are 1..NumInputs, in the order of the map
  NumThresholds, NumIntegrators,
  Values,           \* the values device states may have
  Demands,          \* the sets of allowed classes a fault state may have
  Garbage,          \* what the rule of a digital device, not initialised, may be
  None              \* a reference to nothing

Devices == Digital \cup Analog
Inputs == 1..NumInputs
Classes == 0..MaxClass
Integrators == 0..(NumIntegrators - 1)
Bits == 0..(NumThresholds * NumIntegrators - 1)
AllowedClasses == [dest : Destinations, class : Classes]

ASSUME DeviceAssumption ==
  /\ Digital \cap Analog = {} /\ Fast \cap Slow = {} /\ Fast \cup Slow \subseteq Devices
  /\ None \notin Devices \cup Faults
ASSUME SizeAssumption ==
  /\ NumInputs \in Nat /\ MaxClass \in 0..99 /\ IsFiniteSet(States)
  /\ NumThresholds \in Nat \ {0} /\ NumIntegrators \in Nat \ {0}
(* "for AnalogDevices [...] the value is a single bit set within the 32    *)
(* bits of the device value" (DbDeviceState::getIntegrator).               *)
ASSUME ValueAssumption == \A v \in Values : v = {} \/ \E b \in Bits : v = {b}
ASSUME DemandAssumption == Demands \subseteq SUBSET AllowedClasses

VARIABLES
  \* the tables
  inputDevice, inputFault,  \* per fault input, the references
  stateFault,               \* per fault state, the reference
  stateValue, demand,       \* its DeviceState's value, its AllowedClasses
  \* what is made of them
  fastDestinationMask,      \* per analog device and integrator
  fastPowerClass,           \* per analog device and threshold
  fastPowerClassInit,       \* per analog device, the thresholds that have none
  digitalRule,              \* per digital device, its mask, class and expected state
  evaluation,               \* per fault
  step,                     \* "fault states", "fault inputs", "evaluation",
                            \*   "done", or "failed"
  next                      \* the fault input that is next

tables == <<inputDevice, inputFault, stateFault, stateValue, demand>>
analogRules == <<fastDestinationMask, fastPowerClass, fastPowerClassInit>>
vars == <<tables, analogRules, digitalRule, evaluation, step, next>>

Rules == [mask : SUBSET Destinations, class : Classes, expected : {0, 1}]

Init ==
  /\ inputDevice \in [Inputs -> Devices \cup {None}]
  /\ inputFault \in [Inputs -> Faults \cup {None}]
  /\ stateFault \in [States -> Faults \cup {None}]
  /\ stateValue \in [States -> Values]
  /\ demand \in [States -> Demands]
  /\ fastDestinationMask = [d \in Analog |-> [i \in Integrators |-> {}]]
  /\ fastPowerClass = [d \in Analog |-> [b \in Bits |-> 0]]
  /\ fastPowerClassInit = [d \in Analog |-> Bits]
  /\ digitalRule \in [Digital -> Garbage]
  /\ evaluation = [f \in Faults |-> "none"]
  /\ step = "fault states"
  /\ next = 1

StatesOf(f) == {s \in States : stateFault[s] = f}
InputsOf(f) == {i \in Inputs : inputFault[i] = f}
Numbers(s) == {a.class : a \in demand[s]}
Masks(s) == {a.dest : a \in demand[s]}

Fail ==
  /\ step' = "failed"
  /\ UNCHANGED <<tables, analogRules, digitalRule, evaluation, next>>
-----------------------------------------------------------------------------
(* configureFaultStates *)

DanglingState == \E s \in States : stateFault[s] = None
FaultWithoutState == \E f \in Faults : StatesOf(f) = {}

ConfigureFaultStates ==
  /\ step = "fault states"
  /\ \/ (DanglingState \/ FaultWithoutState) /\ Fail
     \/ /\ ~DanglingState /\ ~FaultWithoutState
        /\ step' = "fault inputs"
        /\ UNCHANGED <<tables, analogRules, digitalRule, evaluation, next>>
-----------------------------------------------------------------------------
(* configureFaultInputs: the rules of the device of one fault input. *)

Lowest(numbers) == CHOOSE n \in numbers : \A k \in numbers : n <= k
Highest(numbers) == CHOOSE n \in numbers : \A k \in numbers : k <= n

(* The lowest bit of the value is the threshold, the byte of the highest   *)
(* one is the integrator.                                                  *)
Threshold(s) == Lowest(stateValue[s])
IntegratorIndex(s) == Highest(stateValue[s]) \div NumThresholds

MaskAlone(d, f, i) ==
  UNION {Masks(s) : s \in {t \in StatesOf(f) : IntegratorIndex(t) = i}}
MaskWith(d, f, i) ==
  fastDestinationMask[d][i]
    \cup UNION {Masks(s) : s \in {t \in StatesOf(f) : IntegratorIndex(t) = i}}

NumbersAt(f, b) == UNION {Numbers(s) : s \in {t \in StatesOf(f) : Threshold(t) = b}}

ClassSoFar(d, b) == {fastPowerClass[d][b]}
ClassOf(d, b) == IF b \in fastPowerClassInit[d] THEN {} ELSE {fastPowerClass[d][b]}

(* There must be a threshold to every state; a state without a class       *)
(* dereferences a null pointer.                                            *)
AnalogRefused(f) == \E s \in StatesOf(f) : stateValue[s] = {} \/ demand[s] = {}

ConfigureAnalog(d, f) ==
  /\ fastDestinationMask' =
       [fastDestinationMask EXCEPT ![d] = [i \in Integrators |-> MaskWith(d, f, i)]]
  /\ fastPowerClass' = [fastPowerClass EXCEPT ![d] =
       [b \in Bits |-> IF NumbersAt(f, b) = {} THEN @[b]
                       ELSE Lowest(NumbersAt(f, b) \cup ClassOf(d, b))]]
  /\ fastPowerClassInit' =
       [fastPowerClassInit EXCEPT ![d] = {b \in @ : NumbersAt(f, b) = {}}]
  /\ UNCHANGED digitalRule

DigitalRefused(f) ==
  Cardinality(StatesOf(f)) # 1 \/ \E s \in StatesOf(f) : demand[s] = {}

Expected(s) == IF stateValue[s] = {} THEN 1 ELSE 0

(* What another fault of the device has asked for is overwritten. *)
ConfigureDigital(d, f) ==
  /\ \E s \in StatesOf(f) :
       digitalRule' = [digitalRule EXCEPT ![d] =
         [mask |-> Masks(s), class |-> Lowest(Numbers(s) \cup {100}), expected |-> Expected(s)]]
  /\ UNCHANGED analogRules

InputRefused(d, f) ==
  \/ d = None
  \/ d \in Fast /\ f = None
  \/ d \in Fast \cap Analog /\ AnalogRefused(f)
  \/ d \in Fast \cap Digital /\ DigitalRefused(f)

ConfigureFaultInput ==
  /\ step = "fault inputs"
  /\ next <= NumInputs
  /\ LET d == inputDevice[next]
         f == inputFault[next]
     IN  \/ InputRefused(d, f) /\ Fail
         \/ /\ ~InputRefused(d, f)
            /\ \/ d \in Fast \cap Analog /\ ConfigureAnalog(d, f)
               \/ d \in Fast \cap Digital /\ ConfigureDigital(d, f)
               \/ d \notin Fast /\ UNCHANGED <<analogRules, digitalRule>>
            /\ next' = next + 1
            /\ UNCHANGED <<tables, evaluation, step>>

(* The fault inputs are assigned to their faults. *)
DanglingInput == \E i \in Inputs : inputFault[i] = None

AssignFaultInputs ==
  /\ step = "fault inputs"
  /\ next > NumInputs
  /\ \/ DanglingInput /\ Fail
     \/ /\ ~DanglingInput
        /\ step' = "evaluation"
        /\ UNCHANGED <<tables, analogRules, digitalRule, evaluation, next>>

SlowIfAll(f) == \A i \in InputsOf(f) : inputDevice[i] \in Slow
SlowEvaluation(f) == \E i \in InputsOf(f) : inputDevice[i] \in Slow

FaultWithoutInput == \E f \in Faults : InputsOf(f) = {}

AssignEvaluation ==
  /\ step = "evaluation"
  /\ \/ FaultWithoutInput /\ Fail
     \/ /\ ~FaultWithoutInput
        /\ evaluation' = [f \in Faults |-> IF SlowEvaluation(f) THEN "slow" ELSE "fast"]
        /\ step' = "done"
        /\ UNCHANGED <<tables, analogRules, digitalRule, next>>

Next ==
  \/ ConfigureFaultStates \/ ConfigureFaultInput
  \/ AssignFaultInputs \/ AssignEvaluation

Spec == Init /\ [][Next]_vars
-----------------------------------------------------------------------------
TypeOK ==
  /\ inputDevice \in [Inputs -> Devices \cup {None}]
  /\ inputFault \in [Inputs -> Faults \cup {None}]
  /\ stateFault \in [States -> Faults \cup {None}]
  /\ stateValue \in [States -> Values]
  /\ demand \in [States -> Demands]
  /\ fastDestinationMask \in [Analog -> [Integrators -> SUBSET Destinations]]
  /\ fastPowerClass \in [Analog -> [Bits -> Classes]]
  /\ fastPowerClassInit \in [Analog -> SUBSET Bits]
  /\ digitalRule \in [Digital -> Rules \cup Garbage]
  /\ evaluation \in [Faults -> {"none", "slow", "fast"}]
  /\ step \in {"fault states", "fault inputs", "evaluation", "done", "failed"}
  /\ next \in 1..(NumInputs + 1)

(* What the firmware does when fault state s of device d is there, is no   *)
(* less than what the state demands.                                       *)
AnalogCovers(d, s) ==
  \A a \in demand[s], b \in stateValue[s] :
    a.dest \in fastDestinationMask[d][b \div NumThresholds] /\ fastPowerClass[d][b] <= a.class

DigitalCovers(d, s) ==
  /\ digitalRule[d].expected = Expected(s)
  /\ \A a \in demand[s] : a.dest \in digitalRule[d].mask /\ digitalRule[d].class <= a.class

Covers(d, s) == IF d \in Analog THEN AnalogCovers(d, s) ELSE DigitalCovers(d, s)

(* The inputs that come later and may overwrite a digital rule. *)
Overwritten(i) ==
  \E j \in Inputs : j > i /\ inputDevice[j] = inputDevice[i] /\ inputFault[j] # inputFault[i]

(* "Faults whose inputs are all evaluated in firmware should be only       *)
(* handled by the firmware" (configureFaultInputs): a configured fault is  *)
(* either left to the engine, or the firmware covers its states for every  *)
(* fast input of it; a digital device of two faults is excepted.           *)
EveryFaultHandled ==
  step = "done" =>
    \A f \in Faults :
      \/ evaluation[f] = "slow"
      \/ \A i \in InputsOf(f) :
           /\ inputDevice[i] \notin Slow
           /\ inputDevice[i] \in Fast =>
                \/ \A s \in StatesOf(f) : Covers(inputDevice[i], s)
                \/ inputDevice[i] \in Digital /\ Overwritten(i)

(* The classes demanded of a threshold by the faults of its device. *)
DemandedAt(d, b) ==
  UNION {NumbersAt(inputFault[i], b) : i \in {j \in Inputs : inputDevice[j] = d}}

(* "The power class for the destination mask 0x03 is power class 0 (the    *)
(* lowest)" (configureFaultInputs): of several faults and destinations the *)
(* firmware gets the lowest class, and no lower than one of them asks for. *)
ClassIsLowest ==
  step = "done" =>
    \A d \in Fast \cap Analog, b \in Bits :
      DemandedAt(d, b) # {} => fastPowerClass[d][b] = Lowest(DemandedAt(d, b))
=============================================================================
