----------------------------- MODULE InputLatch -----------------------------
(***************************************************************************)
(* The latched values of the inputs: the input thread updates value and    *)
(* latchedValue of every device from a firmware message, the engine then   *)
(* evaluates latchedValue, and the operator unlatches while either runs,   *)
(* for nothing locks these words.                                          *)
(*                                                                         *)
(* The value of an analog device is the set of its thresholds exceeded;    *)
(* that of a digital input is {Fault} when it equals its faultValue.       *)
(***************************************************************************)
EXTENDS Naturals

CONSTANTS
  Analog, Digital,  \* the analog devices and the digital inputs
  Thresholds,       \* the thresholds of an analog device
  AutoReset,        \* the digital inputs that unlatch themselves
  LowFaults,        \* the digital inputs whose faultValue is 0
  None,             \* no device
  MaxCalls          \* bound: calls of the operator

ASSUME KindAssumption ==
  Analog \cap Digital = {} /\ AutoReset \subseteq Digital /\ LowFaults \subseteq Digital
ASSUME NoneAssumption == None \notin Analog \cup Digital
ASSUME CallAssumption == MaxCalls \in Nat

Devices == Analog \cup Digital
Held == Devices \ AutoReset  \* those whose faults stay until unlatched
Fault == "fault"
Bits(d) == IF d \in Analog THEN Thresholds ELSE {Fault}
AnyBits == Thresholds \cup {Fault}

VARIABLES
  value, latched,   \* per device, DbAnalogDevice or DbDeviceInput
  toUpdate,         \* devices updateInputs has left
  toEvaluate,       \* devices evaluateFaults has left
  inDev,            \* the device update() works on
  inStep,           \* of update(): "idle", "begun", "read", "latch"
  newValue, toLatch, inCopy,  \* its locals; inCopy, latchedValue as |= read it
  opLeft,           \* devices the operator's call has left
  opDev, opCopy,    \* the device it works on, and what it will write
  calls,
  \* history variables
  unlatched,        \* per device, writes of the operator
  wrong,            \* per device, evaluations that were wrong
  evaluated,        \* per device in Held, what was evaluated last
  asked             \* the bits the operator has asked to unlatch since

inVars == <<toUpdate, toEvaluate, inDev, inStep, newValue, toLatch, inCopy>>
opVars == <<opLeft, opDev, opCopy, calls, unlatched>>
seenVars == <<wrong, evaluated>>
vars == <<value, latched, inVars, opVars, seenVars, asked>>

(* The constructor of an analog device leaves latchedValue as it is. *)
Initially(d) == IF d \in LowFaults THEN {Fault} ELSE {}
InitiallyLatched(d) == IF d \in Analog THEN SUBSET Bits(d) ELSE {Initially(d)}

Init ==
  /\ value = [d \in Devices |-> Initially(d)]
  /\ latched \in {l \in [Devices -> SUBSET AnyBits] :
                   \A d \in Devices : l[d] \in InitiallyLatched(d)}
  /\ toUpdate = Devices
  /\ toEvaluate = Devices
  /\ inDev = None
  /\ inStep = "idle"
  /\ newValue = {}
  /\ toLatch = {}
  /\ inCopy = {}
  /\ opLeft = {}
  /\ opDev = None
  /\ opCopy = {}
  /\ calls = 0
  /\ unlatched = [d \in Devices |-> 0]
  /\ wrong = [d \in Devices |-> 0]
  /\ evaluated = [d \in Held |-> {}]
  /\ asked = [d \in Held |-> {}]
-----------------------------------------------------------------------------
(* The input thread: update() of one device after the other, from the      *)
(* bits "was low" and "was high" of the message.                           *)

(* No message, or both in the period, counts as a fault. *)
AnalogFault(low, high) == high \/ ~low
DigitalFault(d, low, high) ==
  low = high \/ (IF d \in LowFaults THEN low ELSE high)

FaultBits(d, low, high) ==
  {b \in Bits(d) : IF d \in Analog THEN AnalogFault(b \in low, b \in high)
                                   ELSE DigitalFault(d, b \in low, b \in high)}

(* What the firmware may report of a device. *)
Reports(d) == {FaultBits(d, low, high) : low, high \in SUBSET Bits(d)}

(* An analog device has the value 0 until all its bits are read. *)
ValueAtFirst(d) == IF d \in Analog THEN {} ELSE newValue'

UpdateBegin(d) ==
  /\ inStep = "idle"
  /\ d \in toUpdate
  /\ inDev' = d
  /\ inStep' = IF d \in Analog THEN "begun" ELSE "latch"
  /\ newValue' \in Reports(d)
  /\ toLatch' = newValue'
  /\ value' = [value EXCEPT ![d] = ValueAtFirst(d)]
  /\ UNCHANGED <<latched, toUpdate, toEvaluate, inCopy, opVars, seenVars, asked>>

(* latchedValue |= bit, a read and a write. *)
ReadLatched ==
  /\ inStep = "begun"
  /\ toLatch # {}
  /\ inStep' = "read"
  /\ inCopy' = latched[inDev]
  /\ UNCHANGED <<value, latched, toUpdate, toEvaluate, inDev, newValue, toLatch, opVars,
                 seenVars, asked>>

BitOnly(b) == {b}
WithBit(b) == inCopy \cup {b}

WriteLatched ==
  /\ inStep = "read"
  /\ \E b \in toLatch :
       /\ latched' = [latched EXCEPT ![inDev] = WithBit(b)]
       /\ toLatch' = toLatch \ {b}
  /\ inStep' = "begun"
  /\ UNCHANGED <<value, toUpdate, toEvaluate, inDev, newValue, inCopy, opVars,
                 seenVars, asked>>

UpdateDone ==
  /\ inDev' = None
  /\ inStep' = "idle"
  /\ newValue' = {}
  /\ toLatch' = {}
  /\ inCopy' = {}
  /\ toUpdate' = toUpdate \ {inDev}

AnalogDone ==
  /\ inStep = "begun"
  /\ toLatch = {}
  /\ value' = [value EXCEPT ![inDev] = newValue]
  /\ UpdateDone
  /\ UNCHANGED <<latched, toEvaluate, opVars, seenVars, asked>>

(* The latched value of a digital input after an update. *)
LatchAlways(d) == newValue
Latch(d) == IF newValue # {} \/ d \in AutoReset THEN newValue ELSE latched[d]

DigitalDone ==
  /\ inStep = "latch"
  /\ latched' = [latched EXCEPT ![inDev] = Latch(inDev)]
  /\ UpdateDone
  /\ UNCHANGED <<value, toEvaluate, opVars, seenVars, asked>>
-----------------------------------------------------------------------------
(* The engine: evaluateFaults, when every input is updated. *)

(* A fault that is present and not evaluated; of an input that unlatches   *)
(* itself, also a fault that is not there.                                 *)
Wrong(d) ==
  IF d \in AutoReset THEN latched[d] # value[d] ELSE ~(value[d] \subseteq latched[d])

Evaluate(d) ==
  /\ toUpdate = {}
  /\ d \in toEvaluate
  /\ toEvaluate' = toEvaluate \ {d}
  /\ evaluated' = [e \in Held |-> IF e = d THEN latched[d] ELSE evaluated[e]]
  /\ wrong' = [wrong EXCEPT ![d] = IF Wrong(d) THEN @ + 1 ELSE @]
  /\ asked' = [e \in Held |-> IF e = d THEN {} ELSE asked[e]]
  /\ UNCHANGED <<value, latched, toUpdate, inDev, inStep, newValue, toLatch, inCopy,
                 opVars>>

(* inputProcessed: the inputs are updated again. *)
InputProcessed ==
  /\ toUpdate = {}
  /\ toEvaluate = {}
  /\ toUpdate' = Devices
  /\ toEvaluate' = Devices
  /\ UNCHANGED <<value, latched, inDev, inStep, newValue, toLatch, inCopy, opVars,
                 seenVars, asked>>
-----------------------------------------------------------------------------
(* The operator: unlatchAll, or unlatch of some thresholds of one device.  *)

(* The word written is read before, from value. *)
ValueRead(d) == value[d]

UnlatchAll ==
  /\ opLeft = {} /\ opDev = None
  /\ calls < MaxCalls
  /\ calls' = calls + 1
  /\ opLeft' = Devices
  /\ UNCHANGED <<value, latched, inVars, opDev, opCopy, unlatched, seenVars, asked>>

(* Analog devices first, then the inputs. *)
UnlatchRead(d) ==
  /\ opDev = None
  /\ d \in opLeft
  /\ d \in Digital => opLeft \cap Analog = {}
  /\ opLeft' = opLeft \ {d}
  /\ opDev' = d
  /\ opCopy' = ValueRead(d)
  /\ UNCHANGED <<value, latched, inVars, calls, unlatched, seenVars, asked>>

UnlatchWrite ==
  /\ opDev # None
  /\ latched' = [latched EXCEPT ![opDev] = opCopy]
  /\ unlatched' = [unlatched EXCEPT ![opDev] = @ + 1]
  /\ asked' = [d \in Held |-> IF d = opDev THEN Bits(d) ELSE asked[d]]
  /\ opDev' = None
  /\ opCopy' = {}
  /\ UNCHANGED <<value, inVars, opLeft, calls, seenVars>>

(* The present bits within the mask, without the mask: none is left,       *)
(* whatever value and latchedValue are when they are read.                 *)
UnlatchMask(d, mask) == latched[d] \cap ((value[d] \cap mask) \ mask)

UnlatchBits(d, mask) ==
  /\ opLeft = {} /\ opDev = None
  /\ calls < MaxCalls
  /\ mask # {}
  /\ calls' = calls + 1
  /\ latched' = [latched EXCEPT ![d] = UnlatchMask(d, mask)]
  /\ unlatched' = [unlatched EXCEPT ![d] = @ + 1]
  /\ asked' = [asked EXCEPT ![d] = @ \cup mask]
  /\ UNCHANGED <<value, inVars, opLeft, opDev, opCopy, seenVars>>

InputNext ==
  \/ \E d \in Devices : UpdateBegin(d)
  \/ ReadLatched \/ WriteLatched \/ AnalogDone \/ DigitalDone

EngineNext == InputProcessed \/ \E d \in Devices : Evaluate(d)

OperatorNext ==
  \/ UnlatchAll \/ UnlatchWrite
  \/ \E d \in Devices : UnlatchRead(d)
  \/ \E d \in Analog, mask \in SUBSET Thresholds : UnlatchBits(d, mask)

Next == InputNext \/ EngineNext \/ OperatorNext

Spec == Init /\ [][Next]_vars
-----------------------------------------------------------------------------
TypeOK ==
  /\ value \in [Devices -> SUBSET AnyBits]
  /\ latched \in [Devices -> SUBSET AnyBits]
  /\ evaluated \in [Held -> SUBSET AnyBits]
  /\ \A d \in Devices : value[d] \cup latched[d] \subseteq Bits(d)
  /\ \A d \in Held : evaluated[d] \subseteq Bits(d)
  /\ toUpdate \subseteq Devices
  /\ toEvaluate \subseteq Devices
  /\ inStep \in {"idle", "begun", "read", "latch"}
  /\ inStep = "idle" => inDev = None /\ inCopy = {}
  /\ inStep \in {"begun", "read"} => inDev \in Analog
  /\ inStep = "latch" => inDev \in Digital
  /\ newValue \cup inCopy \subseteq AnyBits
  /\ inDev \in Devices => newValue \cup inCopy \subseteq Bits(inDev)
  /\ toLatch \subseteq newValue
  /\ opLeft \subseteq Devices
  /\ opDev \in Devices \cup {None}
  /\ opCopy \subseteq AnyBits
  /\ opDev \in Devices => opCopy \subseteq Bits(opDev)
  /\ calls \in Nat
  /\ unlatched \in [Devices -> Nat]
  /\ wrong \in [Devices -> Nat]
  /\ asked \in [Held -> SUBSET AnyBits]

(* An unlatch that races an update hides a fault that is present, or shows *)
(* one that an auto-reset input has not, in one evaluation at most: the    *)
(* next update latches it again.                                           *)
WrongOncePerCall == \A d \in Devices : wrong[d] <= unlatched[d] /\ unlatched[d] <= calls

(* A fault once evaluated is evaluated again in every cycle, however short *)
(* it was, while the operator unlatches nothing of its device.             *)
HeldUntilUnlatched ==
  [][\A d \in Held :
       Evaluate(d) /\ asked[d] = {} => evaluated[d] \subseteq evaluated'[d]]_vars

(* "Unlatch the bit set in the threshold mask passed as input parameter":  *)
(* a fault is held until the operator unlatches this very threshold.  It   *)
(* does not hold (README, section 6).                                      *)
OnlyMaskUnlatched ==
  [][\A d \in Held : Evaluate(d) => evaluated[d] \ asked[d] \subseteq evaluated'[d]]_vars
=============================================================================
