--------------------------- MODULE FaultEvaluation ---------------------------
(***************************************************************************)
(* One evaluation cycle of the engine, Engine::checkFaults, over an        *)
(* arbitrary database: digital device values from latched or bypassed      *)
(* inputs, fault values, fault states, conditions and what they ignore,    *)
(* the mitigation loop that lowers the beam class of each destination, and *)
(* the operator's limits applied at the end.  A 32-bit value is the set of *)
(* the bits that are set, so that "value |= input << position" is a union. *)
(*                                                                         *)
(* The latched values, the thresholds and the cards' flags stand still     *)
(* during a cycle (UpdatePipeline shows that).  Bypasses and the           *)
(* operator's limits do not: other threads change them without a lock, so  *)
(* every test and every use of one is a step of its own.                   *)
(***************************************************************************)
EXTENDS Integers, Sequences, FiniteSets

CONSTANTS
  Digital, Analog,   \* the devices
  Unassigned,        \* devices with NO_CARD_ID or NO_EVALUATION
  Slow,              \* devices evaluated in software (SLOW_EVALUATION)
  Inputs,            \* the digital inputs
  InputDevice,       \* DbDeviceInput: the device of an input
  InputBit,          \*   and its bitPosition
  FaultInputs,       \* per fault, its inputs in order: [device, bit]
  StateFault,        \* per fault state, its fault
  StateValue,        \* per fault state, the bits of deviceState->value
  StateMask,         \*   and of deviceState->mask
  DefaultState,      \* per fault, its defaultFaultState or 0
  AllowedClasses,    \* the allowed classes in the order mitigate visits
                     \*   them: [state, destination, class]
  ConditionInputs,   \* per condition, its inputs: [state, bit]
  ConditionMask,     \* per condition, the bits of its mask
  IgnoreConditions,  \* the ignore conditions in the order they are visited:
                     \*   [condition, state (or 0), device (or NoDevice)]
  NoDevice,
  Destinations,
  Laser,             \* the destinations setMaxPermit leaves alone ("LASER")
  HighestClass, LowestClass,
  OperatorClasses,   \* bound: the classes the operator sets limits to
  MayBypass,         \* bound: inputs whose bypass comes and goes
  MayGoOffline,      \* bound: devices whose card may time out
  MayGoInactive,     \* bound: devices whose card may be set inactive
  AnalogBits,        \* bound: the threshold bits an analog device raises
  WorstGarbage,      \* the values an uninitialised DbFault::displayState has
  ActiveGarbage      \* and an uninitialised DbApplicationCard::active

Devices    == Digital \cup Analog
Faults     == DOMAIN FaultInputs
States     == DOMAIN StateFault
Conditions == DOMAIN ConditionMask
Integrators == 0..3
NoClass    == -1
Limits     == OperatorClasses \cup {NoClass}
Kinds      == {"force", "maxPermit", "softPermit"}
NoDestination == "none"

(* What evaluateFaults reads while a bypass may change: the digital inputs *)
(* of assigned devices and, per fault, the analog inputs it names.         *)
DigitalReads == {i \in Inputs : InputDevice[i] \notin Unassigned}
AnalogReads ==
  UNION {{<<f, n>> : n \in {k \in DOMAIN FaultInputs[f] :
                              FaultInputs[f][k].device \in Analog}} : f \in Faults}

(* The shape configure() gives the database; ids order the maps. *)
ASSUME ClassAssumption ==
  /\ HighestClass \in Nat
  /\ LowestClass \in 0..HighestClass
  /\ OperatorClasses \subseteq Nat
ASSUME StateAssumption == StateFault \in [States -> Faults]
ASSUME FaultAssumption ==
  /\ Faults \subseteq Nat
  /\ \A f \in Faults : DefaultState[f] # 0 =>
       DefaultState[f] \in States /\ StateFault[DefaultState[f]] = f
ASSUME BoundAssumption ==
  /\ MayGoOffline \subseteq Devices /\ MayGoInactive \subseteq Devices
  /\ ActiveGarbage \subseteq BOOLEAN
ASSUME AllowedAssumption ==
  AllowedClasses \in Seq([state : States, destination : Destinations,
                          class : Nat])

VARIABLES
  phase,        \* "inputs", "evaluate", "mitigate", "permit", "reload",
                \*   "crashed"
  latched,      \* inputs whose latchedValue is 1
  bypassed,     \* inputs whose bypass is valid
  bypassHigh,   \* inputs whose bypass has the value 1
  threshold,    \* per analog device, the bits of latchedValue
  bypassMask,   \* per analog device, the threshold bits not bypassed
  offline,      \* devices faultedOffline
  inactive,     \* devices with modeActive false
  changed,      \* devices whose card's active flag changed in the update:
                \*   MpsDb::_reloadInactive is set iff there is one
  unread,       \* what evaluateFaults has yet to read
  ones,         \* the digital inputs it has read as 1
  seen,         \* the bits it has read of each analog input of a fault
  stateFaulted, \* fault states faulted
  stateIgnored, \* fault states ignored
  fault,        \* per fault: faulted, faultedDisplay, ignored,
                \*   faultedOffline, faultActive
  conditionOn,  \* conditions whose state is true
  devIgnored,   \* devices ignored
  intIgnored,   \* the <<device, integrator>> pairs of ignoredIntegrator
  reload,       \* what checkFaults will return
  next,         \* the allowed class the mitigation loop is at
  tentative,    \* per destination, tentativeBeamClass
  currState,    \* per fault, the local currState of mitigate
  lowestSeen,   \*   and its maximumClass
  worstState,   \* per fault, worstState and displayState, set alike
  limit,        \* per destination, forceBeamClass, maxPermit, softPermit
  left,         \* destinations setAllowedBeamClass was not called for yet
  at,           \* where it is: the destination, the limit, and whether it
                \*   will "test", "compare" or "use" it, or "idle"
  allowed,      \* per destination, allowedBeamClass
  disturbed,    \* the operator changed a limit of that destination meanwhile
  fwMask,       \* what the firmware configuration masks: analog devices
                \*   ignored and their integrators
  history       \* "no cycle" so far, "no reload" since, or "reloaded"

cardVars   == <<latched, threshold, offline, inactive>>
bypassVars == <<bypassed, bypassHigh, bypassMask>>
readVars   == <<unread, ones, seen>>
logicVars  == <<stateFaulted, stateIgnored, fault, conditionOn, devIgnored,
                intIgnored, reload>>
loopVars   == <<next, currState, lowestSeen>>
permitVars == <<left, at, disturbed>>
maskVars   == <<fwMask, history>>

vars == <<phase, cardVars, changed, bypassVars, readVars, logicVars, loopVars,
          tentative, worstState, limit, permitVars, allowed, maskVars>>

Masked(ignoredDevices, integrators) ==
  [devices |-> ignoredDevices \cap Analog, integrators |-> integrators]

NothingSeen == [r \in AnalogReads |-> {}]
Idle == [dest |-> NoDestination, kind |-> "softPermit", step |-> "idle"]
Places == [dest : Destinations, kind : Kinds, step : {"test", "compare", "use"}]
FaultFlags == [faulted : BOOLEAN, faultedDisplay : BOOLEAN, ignored : BOOLEAN,
               faultedOffline : BOOLEAN, faultActive : BOOLEAN]

(* The state in which the first update leaves the inputs.  It compared the *)
(* flag of every card with an active nobody had initialised.               *)
Init ==
  /\ phase = "inputs"
  /\ latched = {}
  /\ bypassed = {}
  /\ bypassHigh = {}
  /\ threshold = [a \in Analog |-> {}]
  /\ bypassMask = [a \in Analog |-> AnalogBits]
  /\ offline = {}
  /\ inactive \in SUBSET MayGoInactive
  /\ \E active \in [Devices -> ActiveGarbage] :
        changed = {d \in Devices : active[d] # (d \notin inactive)}
  /\ unread = {}
  /\ ones = {}
  /\ seen = NothingSeen
  /\ stateFaulted = States
  /\ stateIgnored = {}
  /\ fault = [f \in Faults |->
       [faulted |-> TRUE, faultedDisplay |-> FALSE, ignored |-> FALSE,
        faultedOffline |-> FALSE, faultActive |-> TRUE]]
  /\ conditionOn = {}
  /\ devIgnored = {}
  /\ intIgnored = {}
  /\ reload = FALSE
  /\ next = 1
  /\ tentative = [d \in Destinations |-> LowestClass]
  /\ currState = [f \in Faults |-> 0]
  /\ lowestSeen = [f \in Faults |-> 100]
  /\ worstState \in [Faults -> WorstGarbage]
  /\ limit = [d \in Destinations |-> [k \in Kinds |-> NoClass]]
  /\ left = {}
  /\ at = Idle
  /\ allowed = [d \in Destinations |-> LowestClass]
  /\ disturbed = FALSE
  /\ fwMask = Masked({}, {})
  /\ history = "no cycle"
-----------------------------------------------------------------------------
(* Between two cycles the inputs change, one at a time.  A cycle's reload  *)
(* comes after inputProcessed, so they may change before it, too.          *)

Toggle(S, x) == IF x \in S THEN S \ {x} ELSE S \cup {x}

InputChange ==
  /\ phase \in {"inputs", "reload"}
  /\ \/ /\ \E i \in Inputs : latched' = Toggle(latched, i)
        /\ UNCHANGED <<threshold, offline, inactive, changed>>
     \/ /\ \E a \in Analog, b \in AnalogBits :
             threshold' = [threshold EXCEPT ![a] = Toggle(@, b)]
        /\ UNCHANGED <<latched, offline, inactive, changed>>
     \/ /\ \E d \in MayGoOffline : offline' = Toggle(offline, d)
        /\ UNCHANGED <<latched, threshold, inactive, changed>>
     \/ /\ \E d \in MayGoInactive : /\ inactive' = Toggle(inactive, d)
                                   /\ changed' = Toggle(changed, d)
        /\ UNCHANGED <<latched, threshold, offline>>
  /\ UNCHANGED <<phase, bypassVars, readVars, logicVars, loopVars, tentative,
                 worstState, limit, permitVars, allowed, maskVars>>

(* The bypass manager sets, ends and changes a bypass at any moment: the   *)
(* status of a digital input's, then its value, or the mask bit of an      *)
(* analog threshold.                                                       *)
BypassChange ==
  /\ phase # "crashed"
  /\ \/ /\ \E i \in MayBypass \cap Inputs : bypassed' = Toggle(bypassed, i)
        /\ UNCHANGED <<bypassHigh, bypassMask>>
     \/ /\ \E i \in MayBypass \cap Inputs : bypassHigh' = Toggle(bypassHigh, i)
        /\ UNCHANGED <<bypassed, bypassMask>>
     \/ /\ \E a \in MayBypass \cap Analog, b \in AnalogBits :
             bypassMask' = [bypassMask EXCEPT ![a] = Toggle(@, b)]
        /\ UNCHANGED <<bypassed, bypassHigh>>
  /\ UNCHANGED <<phase, cardVars, changed, readVars, logicVars, loopVars,
                 tentative, worstState, limit, permitVars, allowed, maskVars>>

(* forceBeamDestination, softPermitDestination and one turn of the loop of *)
(* setMaxPermit, called by the operator's thread at any moment.            *)
OperatorChange ==
  /\ phase # "crashed"
  /\ \E d \in Destinations, k \in Kinds, c \in Limits :
        /\ k = "maxPermit" => d \notin Laser
        /\ c # limit[d][k]
        /\ limit' = [limit EXCEPT ![d][k] = c]
        /\ disturbed' = (disturbed \/ d = at.dest)
  /\ UNCHANGED <<phase, cardVars, changed, bypassVars, readVars, logicVars,
                 loopVars, tentative, worstState, left, at, allowed, maskVars>>
-----------------------------------------------------------------------------
(* evaluateFaults *)

(* setTentativeBeamClass, and the start of evaluateFaults. *)
BeginCycle ==
  /\ phase = "inputs"
  /\ phase' = "evaluate"
  /\ tentative' = [d \in Destinations |-> HighestClass]
  /\ allowed' = [d \in Destinations |-> LowestClass]
  /\ unread' = DigitalReads \cup AnalogReads
  /\ UNCHANGED <<cardVars, changed, bypassVars, ones, seen, logicVars, loopVars,
                 worstState, limit, permitVars, maskVars>>

(* A map is visited in an order of its own, always the same. *)
First(S) == CHOOSE x \in S : TRUE

(* A valid bypass replaces the latched value of its input.  The status is  *)
(* read before the value; as only a call that has made it valid changes    *)
(* the value, reading both at once gives the same values.                  *)
InputIsOne(i) == IF i \in bypassed THEN i \in bypassHigh ELSE i \in latched

ReadInput ==
  /\ phase = "evaluate"
  /\ unread \cap DigitalReads # {}
  /\ LET i == First(unread \cap DigitalReads)
     IN  /\ unread' = unread \ {i}
         /\ ones' = IF InputIsOne(i) THEN ones \cup {i} ELSE ones
  /\ UNCHANGED <<phase, cardVars, changed, bypassVars, seen, logicVars, loopVars,
                 tentative, worstState, limit, permitVars, allowed, maskVars>>

(* Two faults may read the mask of one analog device at two moments. *)
ReadThreshold ==
  /\ phase = "evaluate"
  /\ unread \cap DigitalReads = {}
  /\ unread # {}
  /\ LET r == First(unread)
         a == FaultInputs[r[1]][r[2]].device
     IN  /\ unread' = unread \ {r}
         /\ seen' = [seen EXCEPT ![r] = threshold[a] \cap bypassMask[a]]
  /\ UNCHANGED <<phase, cardVars, changed, bypassVars, ones, logicVars, loopVars,
                 tentative, worstState, limit, permitVars, allowed, maskVars>>

Shift(bits, position) == {b + position : b \in bits}

(* The value of a digital device: the bits of its inputs. *)
DeviceValue(d) == {InputBit[i] : i \in {j \in ones : InputDevice[j] = d}}

FaultValue(f) ==
  UNION {LET in == FaultInputs[f][n]
         IN  Shift(IF in.device \in Analog THEN seen[<<f, n>>]
                                            ELSE DeviceValue(in.device), in.bit)
           : n \in DOMAIN FaultInputs[f]}

Matches(s) == StateValue[s] = FaultValue(StateFault[s]) \cap StateMask[s]

(* The local flag faulted when the loop has reached fault f: it is not     *)
(* reset from one fault to the next.                                       *)
AnyFaultedUpTo(f) == \E s \in States : StateFault[s] <= f /\ Matches(s)

DefaultEnabled(f) == ~AnyFaultedUpTo(f)

FaultedStates ==
  {s \in States : \/ Matches(s)
                  \/ /\ DefaultState[StateFault[s]] = s
                     /\ DefaultEnabled(StateFault[s])}

Limiting(s) ==
  \E n \in DOMAIN AllowedClasses : /\ AllowedClasses[n].state = s
                                  /\ AllowedClasses[n].class < HighestClass

(* A matching state that no allowed class names has no map of them, which  *)
(* evaluateFaults takes for granted.                                       *)
MissingClasses ==
  \E s \in States : /\ Matches(s)
                    /\ \A n \in DOMAIN AllowedClasses : AllowedClasses[n].state # s

(* evaluateFaults for digital devices, breakAnalogIgnore for analog ones:  *)
(* the ignore flag starts the cycle from the card's active flag.           *)
IgnoredByCard ==
  {d \in Devices : IF d \in Unassigned THEN d \in devIgnored
                                       ELSE d \in inactive}
-----------------------------------------------------------------------------
(* evaluateIgnoreConditions.  From here on a step of the cycle reads what   *)
(* the steps before it have written: the primed variables.                 *)

ConditionValue(k) ==
  {ci.bit : ci \in {c \in ConditionInputs[k] : c.state \in stateFaulted'}}

ConditionsOn == {k \in Conditions : ConditionValue(k) = ConditionMask[k]}

(* A reload is wanted when a condition changed, either way. *)
ReloadWhenIgnoring == \E k \in conditionOn' : k \notin conditionOn
ConditionReload == conditionOn' # conditionOn

IgnoredStates ==
  {s \in States : \E n \in DOMAIN IgnoreConditions :
                     /\ IgnoreConditions[n].state = s
                     /\ IgnoreConditions[n].condition \in conditionOn'}

(* getIntegrator: eight threshold bits to an integrator. *)
Integrator(s) ==
  IF StateValue[s] = {} THEN 0
  ELSE LET top == CHOOSE b \in StateValue[s] : \A c \in StateValue[s] : c <= b
       IN  IF top >= 24 THEN 3 ELSE top \div 8

(* An ignore condition of a fault state writes the integrator's flag,      *)
(* unless an earlier one ignores the state already.                        *)
WritesIntegrator(n) ==
  /\ IgnoreConditions[n].state # 0
  /\ IgnoreConditions[n].device \in Analog
  /\ \A m \in 1..(n - 1) : IgnoreConditions[m].state = IgnoreConditions[n].state
                          => IgnoreConditions[m].condition \notin conditionOn'

(* The flag holds what the last of its writers wrote, or what it held. *)
IgnoredIntegrators ==
  {p \in Analog \X Integrators :
     LET writers == {n \in DOMAIN IgnoreConditions :
                       /\ WritesIntegrator(n)
                       /\ IgnoreConditions[n].device = p[1]
                       /\ Integrator(IgnoreConditions[n].state) = p[2]}
     IN  IF writers = {} THEN p \in intIgnored
         ELSE \E n \in writers : /\ \A m \in writers : m <= n
                                /\ IgnoreConditions[n].condition \in conditionOn'}

(* An analog device is ignored as a whole only by a condition that names   *)
(* no fault state, a digital one by every condition that names it.         *)
IgnoredDevices ==
  IgnoredByCard \cup
  {d \in Devices : \E n \in DOMAIN IgnoreConditions :
     /\ IgnoreConditions[n].device = d
     /\ IgnoreConditions[n].condition \in conditionOn'
     /\ d \in Analog => IgnoreConditions[n].state = 0}
-----------------------------------------------------------------------------
(* setFaultIgnore: one ignored input ignores the fault; offline and active *)
(* are those of the last input.                                            *)
FaultIgnored(f) ==
  \E n \in DOMAIN FaultInputs[f] :
     FaultInputs[f][n].device \in devIgnored' \cup inactive

LastDevice(f) == FaultInputs[f][Len(FaultInputs[f])].device

EvaluatedFault(f) ==
  LET matching == {s \in States : StateFault[s] = f /\ Matches(s)}
  IN [faulted        |-> matching # {},
      faultedDisplay |-> \E s \in matching : Limiting(s),
      ignored        |-> FaultIgnored(f),
      faultedOffline |-> LastDevice(f) \in offline,
      faultActive    |-> LastDevice(f) \notin inactive]

(* The value currState starts from in mitigate. *)
InitialState(f) ==
  CASE fault'[f].faultedOffline -> -1
    [] ~fault'[f].faultedOffline /\ fault'[f].faulted -> worstState[f]
    [] OTHER -> 0

(* The rest of evaluateFaults, breakAnalogIgnore, evaluateIgnoreConditions *)
(* and setFaultIgnore, which read nothing that changes meanwhile, and the  *)
(* start of mitigate.                                                      *)
EvaluateLogic ==
  /\ phase = "evaluate"
  /\ unread = {}
  /\ ~MissingClasses
  /\ phase' = "mitigate"
  /\ stateFaulted' = FaultedStates
  /\ conditionOn' = ConditionsOn
  /\ reload' = ConditionReload
  /\ stateIgnored' = IgnoredStates
  /\ intIgnored' = IgnoredIntegrators
  /\ devIgnored' = IgnoredDevices
  /\ fault' = [f \in Faults |-> EvaluatedFault(f)]
  /\ next' = 1
  /\ currState' = [f \in Faults |-> InitialState(f)]
  /\ lowestSeen' = [f \in Faults |-> 100]
  /\ ones' = {}
  /\ seen' = NothingSeen
  /\ history' = IF history = "no cycle" THEN "no reload" ELSE history
  /\ UNCHANGED <<cardVars, changed, bypassVars, unread, tentative, worstState,
                 limit, permitVars, allowed, fwMask>>

(* The null pointer ends the process. *)
NoClasses ==
  /\ phase = "evaluate"
  /\ unread = {}
  /\ MissingClasses
  /\ phase' = "crashed"
  /\ UNCHANGED <<cardVars, changed, bypassVars, readVars, logicVars, loopVars,
                 tentative, worstState, limit, permitVars, allowed, maskVars>>
-----------------------------------------------------------------------------
(* mitigate *)

(* DbFault::evaluation, set by configureFaultInputs. *)
SlowFault(f) ==
  \E n \in DOMAIN FaultInputs[f] : FaultInputs[f][n].device \in Slow

(* The loop body is reached by the states faulted and not ignored of the   *)
(* faults whose card answers.                                              *)
Reached(a) ==
  /\ a.state \in stateFaulted
  /\ a.state \notin stateIgnored
  /\ ~fault[StateFault[a.state]].faultedOffline

(* Software lowers the class of slow faults only, and of none ignored. *)
LowersIgnored(a) == Reached(a) /\ SlowFault(StateFault[a.state])
Lowers(a) ==
  /\ Reached(a)
  /\ SlowFault(StateFault[a.state])
  /\ ~fault[StateFault[a.state]].ignored

(* The first of the most restrictive classes names the fault's state. *)
Later(a) == TRUE
Worse(a) == a.class < lowestSeen[StateFault[a.state]]

MitigateOne ==
  /\ phase = "mitigate"
  /\ next <= Len(AllowedClasses)
  /\ LET a == AllowedClasses[next]
         f == StateFault[a.state]
     IN /\ tentative' = IF Lowers(a) /\ tentative[a.destination] >= a.class
                        THEN [tentative EXCEPT ![a.destination] = a.class]
                        ELSE tentative
        /\ IF Reached(a) /\ Worse(a)
           THEN /\ lowestSeen' = [lowestSeen EXCEPT ![f] = a.class]
                /\ currState' = [currState EXCEPT ![f] = a.state]
           ELSE UNCHANGED <<lowestSeen, currState>>
  /\ next' = next + 1
  /\ UNCHANGED <<phase, cardVars, changed, bypassVars, readVars, logicVars,
                 worstState, limit, permitVars, allowed, maskVars>>

(* A history record goes out for every fault whose worstState changes. *)
MitigateEnd ==
  /\ phase = "mitigate"
  /\ next > Len(AllowedClasses)
  /\ worstState' = currState
  /\ left' = Destinations
  /\ phase' = "permit"
  /\ UNCHANGED <<cardVars, changed, bypassVars, readVars, logicVars, loopVars,
                 tentative, limit, at, disturbed, allowed, maskVars>>
-----------------------------------------------------------------------------
(* DbBeamDestination::setAllowedBeamClass, for one destination after the  *)
(* other.  Each of the three limits is tested for null, then compared,     *)
(* then taken, and each time the pointer is read again: a limit cleared in *)
(* between is dereferenced as null, here or before the function ends.      *)

BeginDestination ==
  /\ phase = "permit"
  /\ at = Idle
  /\ left # {}
  /\ left' = left \ {First(left)}
  /\ at' = [dest |-> First(left), kind |-> "force", step |-> "test"]
  /\ disturbed' = FALSE
  /\ UNCHANGED <<phase, cardVars, changed, bypassVars, readVars, logicVars,
                 loopVars, tentative, worstState, limit, allowed, maskVars>>

AtLimit == limit[at.dest][at.kind]

(* On to the next limit; after the last one the destination is done. *)
After(place) ==
  CASE place.kind = "force"     -> [place EXCEPT !.kind = "maxPermit", !.step = "test"]
    [] place.kind = "maxPermit" -> [place EXCEPT !.kind = "softPermit", !.step = "test"]
    [] OTHER                    -> Idle

(* The limit does not lower the class. *)
LeaveLimit ==
  /\ at' = After(at)
  /\ allowed' = IF at.kind = "softPermit"
                THEN [allowed EXCEPT ![at.dest] = tentative[at.dest]] ELSE allowed
  /\ UNCHANGED <<phase, tentative>>

(* force and maxPermit lower the tentative class for good, softPermit only *)
(* what is allowed.                                                        *)
TakeLimit ==
  /\ at' = After(at)
  /\ IF at.kind = "softPermit"
     THEN allowed' = [allowed EXCEPT ![at.dest] = AtLimit] /\ UNCHANGED tentative
     ELSE tentative' = [tentative EXCEPT ![at.dest] = AtLimit] /\ UNCHANGED allowed
  /\ UNCHANGED phase

NullLimit ==
  /\ phase' = "crashed"
  /\ UNCHANGED <<at, allowed, tentative>>

AnyLimit == TRUE
IsLower == AtLimit < tentative[at.dest]

PermitStep(step) ==
  /\ phase = "permit"
  /\ at.step = step
  /\ UNCHANGED <<cardVars, changed, bypassVars, readVars, logicVars, loopVars,
                 worstState, limit, left, disturbed, maskVars>>

TestLimit ==
  /\ PermitStep("test")
  /\ IF AtLimit = NoClass
     THEN LeaveLimit
     ELSE at' = [at EXCEPT !.step = "compare"] /\ UNCHANGED <<phase, allowed, tentative>>

CompareLimit ==
  /\ PermitStep("compare")
  /\ \/ AtLimit = NoClass /\ NullLimit
     \/ AtLimit # NoClass /\ ~IsLower /\ LeaveLimit
     \/ /\ AtLimit # NoClass /\ IsLower
        /\ at' = [at EXCEPT !.step = "use"]
        /\ UNCHANGED <<phase, allowed, tentative>>

UseLimit ==
  /\ PermitStep("use")
  /\ IF AtLimit = NoClass THEN NullLimit ELSE TakeLimit

(* What checkFaults returns. *)
ReloadWanted == reload \/ changed # {}

(* getDbReload, resetDbReload and the end of checkFaults. *)
EndCycle ==
  /\ phase = "permit"
  /\ at = Idle
  /\ left = {}
  /\ changed' = {}
  /\ phase' = IF ReloadWanted THEN "reload" ELSE "inputs"
  /\ UNCHANGED <<cardVars, bypassVars, readVars, logicVars, loopVars, tentative,
                 worstState, limit, permitVars, allowed, maskVars>>

(* writeAnalogConfiguration leaves an ignored device or integrator out of  *)
(* the fast mitigation.                                                    *)
WriteMask ==
  /\ fwMask' = Masked(devIgnored, intIgnored)
  /\ history' = IF history = "no cycle" THEN history ELSE "reloaded"
  /\ UNCHANGED <<cardVars, changed, bypassVars, readVars, logicVars, loopVars,
                 tentative, worstState, limit, permitVars, allowed>>

(* reloadConfigFromIgnore, and the reload of the bypass thread between two *)
(* cycles (the mutex keeps it out of one).                                 *)
ReloadConfigFromIgnore == phase = "reload" /\ phase' = "inputs" /\ WriteMask
ReloadConfig == phase \in {"inputs", "reload"} /\ UNCHANGED phase /\ WriteMask

EngineNext ==
  \/ BeginCycle \/ ReadInput \/ ReadThreshold \/ EvaluateLogic \/ NoClasses
  \/ MitigateOne \/ MitigateEnd
  \/ BeginDestination \/ TestLimit \/ CompareLimit \/ UseLimit \/ EndCycle
  \/ ReloadConfigFromIgnore

Next == InputChange \/ BypassChange \/ OperatorChange \/ ReloadConfig \/ EngineNext

Spec == Init /\ [][Next]_vars
-----------------------------------------------------------------------------
TypeOK ==
  /\ phase \in {"inputs", "evaluate", "mitigate", "permit", "reload", "crashed"}
  /\ latched \subseteq Inputs
  /\ bypassed \subseteq Inputs
  /\ bypassHigh \subseteq Inputs
  /\ threshold \in [Analog -> SUBSET AnalogBits]
  /\ bypassMask \in [Analog -> SUBSET AnalogBits]
  /\ offline \subseteq Devices
  /\ inactive \subseteq Devices
  /\ changed \subseteq Devices
  /\ unread \subseteq DigitalReads \cup AnalogReads
  /\ ones \subseteq Inputs
  /\ seen \in [AnalogReads -> SUBSET AnalogBits]
  /\ stateFaulted \subseteq States
  /\ stateIgnored \subseteq States
  /\ fault \in [Faults -> FaultFlags]
  /\ conditionOn \subseteq Conditions
  /\ devIgnored \subseteq Devices
  /\ intIgnored \subseteq Analog \X Integrators
  /\ reload \in BOOLEAN
  /\ next \in 1..(Len(AllowedClasses) + 1)
  /\ tentative \in [Destinations -> Nat]
  /\ allowed \in [Destinations -> Nat]
  /\ currState \in [Faults -> States \cup {-1, 0} \cup WorstGarbage]
  /\ lowestSeen \in [Faults -> Nat]
  /\ worstState \in [Faults -> States \cup {-1, 0} \cup WorstGarbage]
  /\ limit \in [Destinations -> [Kinds -> Limits]]
  /\ left \subseteq Destinations
  /\ at \in Places \cup {Idle}
  /\ disturbed \in BOOLEAN
  /\ fwMask \in [devices : SUBSET Analog,
                 integrators : SUBSET (Analog \X Integrators)]
  /\ history \in {"no cycle", "no reload", "reloaded"}

IsLowest(class, classes) == class \in classes /\ \A c \in classes : class <= c

(* What the logic demands of a destination: the classes allowed by the     *)
(* fault states that are faulted and not ignored, of slow faults that are  *)
(* neither ignored nor offline.                                            *)
Demanded(d) ==
  {a.class : a \in {AllowedClasses[n] : n \in {m \in DOMAIN AllowedClasses :
     LET b == AllowedClasses[m]
         f == StateFault[b.state]
     IN /\ b.destination = d
        /\ b.state \in stateFaulted \ stateIgnored
        /\ ~fault[f].ignored /\ ~fault[f].faultedOffline
        /\ \E k \in DOMAIN FaultInputs[f] : FaultInputs[f][k].device \in Slow}}}

DestinationDone == at # Idle /\ at' = Idle

(* The class allowed for a destination is the lowest of what the logic     *)
(* demands and of the operator's limits, provided no limit of that         *)
(* destination changes in the middle of its setAllowedBeamClass: no order  *)
(* of faults, states and limits lets a higher class through, and nothing   *)
(* else lowers the beam.                                                   *)
AllowedIsLowest ==
  [][DestinationDone /\ ~disturbed =>
       IsLowest(allowed'[at.dest],
                {HighestClass} \cup Demanded(at.dest)
                  \cup ({limit[at.dest][k] : k \in Kinds} \ {NoClass}))]_vars

(* "Now final beam class is the lowest of the force and the logic output": *)
(* in particular no destination is allowed more than the logic demands,    *)
(* whatever the operator does meanwhile.  It does not hold (README,        *)
(* section 6): the code re-reads the limit it compared, so a limit raised  *)
(* between the two lets a higher class pass.                               *)
AllowedWithinLogic ==
  [][DestinationDone => \A c \in Demanded(at.dest) : allowed'[at.dest] <= c]_vars

(* Between two cycles the firmware masks exactly what the logic ignores:   *)
(* every change of an ignore condition or of a card's active flag, in      *)
(* either direction, has reached the configuration.  The one exception is  *)
(* a configuration never written again since the first cycle: it masks     *)
(* nothing, while the logic ignores the devices of cards that were         *)
(* inactive already when the first update came, and nothing else.          *)
MaskIsCurrent ==
  phase = "inputs" =>
    \/ fwMask = Masked(devIgnored, intIgnored)
    \/ /\ history = "no reload"
       /\ fwMask = Masked({}, {}) /\ intIgnored = {}
       /\ devIgnored \cap Analog \subseteq inactive \cup changed

(* "If an application card has been set inactive, its logic will also be   *)
(* set to ignored, so the FW configuration will need to be reloaded": once *)
(* a cycle has ended the firmware masks the devices of inactive cards.     *)
(* It does not hold (README, section 6): a card inactive in the first      *)
(* update may not be noticed as a change, for active is not initialised.   *)
InactiveIsMasked ==
  phase = "inputs" /\ history # "no cycle" =>
    devIgnored \cap Analog \subseteq fwMask.devices

(* The state a fault shows is its most restrictive one whenever a state of *)
(* it limits the beam: no faulted state allows less than the state shown.  *)
WorstIsMostRestrictive ==
  phase = "permit" =>
    \A n \in DOMAIN AllowedClasses :
       LET a == AllowedClasses[n] IN
       Reached(a) /\ a.class < 100 =>
         \E m \in DOMAIN AllowedClasses :
            /\ AllowedClasses[m].state = worstState[StateFault[a.state]]
            /\ Reached(AllowedClasses[m])
            /\ AllowedClasses[m].class <= a.class

(* "If there are no faults, then enable the default": a fault none of      *)
(* whose states is faulted has its default state faulted.  It does not     *)
(* hold (README, section 6): the flag evaluateFaults tests is that of all  *)
(* faults visited so far.                                                  *)
DefaultWhenClear ==
  phase = "mitigate" =>
    \A f \in Faults : DefaultState[f] # 0 =>
      \E s \in States : StateFault[s] = f /\ s \in stateFaulted

(* A fault state without allowed classes is worth a warning to mitigate    *)
(* ("no AllowedClasses found"); the engine goes on.  It does not hold      *)
(* (README, section 6): evaluateFaults, which comes first, does not        *)
(* survive it, nor does setAllowedBeamClass a limit cleared in its middle. *)
ClassesMayBeMissing == phase # "crashed"
=============================================================================
