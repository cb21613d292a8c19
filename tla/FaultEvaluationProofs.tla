------------------------ MODULE FaultEvaluationProofs ------------------------
(***************************************************************************)
(* Proofs about FaultEvaluation, for every database, every number of       *)
(* classes, destinations, faults and conditions, and every moment at which *)
(* inputs, bypasses and operator's limits change.                          *)
(***************************************************************************)
EXTENDS FaultEvaluation, TLAPS

LEMMA ToggleType ==
  ASSUME NEW T, NEW S \in SUBSET T, NEW x \in T
  PROVE  Toggle(S, x) \in SUBSET T
BY DEF Toggle

LEMMA ElementOfSeq ==
  ASSUME NEW T, NEW s \in Seq(T), NEW n \in 1..Len(s)
  PROVE  s[n] \in T
OBVIOUS

(* An allowed class names a state, its fault and a destination. *)
LEMMA AllowedClassType ==
  ASSUME NEW n \in 1..Len(AllowedClasses)
  PROVE  /\ AllowedClasses[n].state \in States
         /\ AllowedClasses[n].destination \in Destinations
         /\ AllowedClasses[n].class \in Nat
         /\ StateFault[AllowedClasses[n].state] \in Faults
<1>1. AllowedClasses[n] \in [state : States, destination : Destinations,
                             class : Nat]
  BY AllowedAssumption, ElementOfSeq DEF AllowedAssumption
<1>2. \A s \in States : StateFault[s] \in Faults
  BY StateAssumption DEF StateAssumption
<1> QED
  BY <1>1, <1>2

LEMMA FirstIn ==
  ASSUME NEW S, S # {}
  PROVE  First(S) \in S
BY DEF First

LEMMA AnalogReadType ==
  ASSUME NEW r \in AnalogReads
  PROVE  FaultInputs[r[1]][r[2]].device \in Analog
BY DEF AnalogReads

(* Where setAllowedBeamClass goes from a limit. *)
LEMMA AfterResult ==
  ASSUME NEW place \in Places
  PROVE  /\ place.kind = "force" =>
              After(place) = [dest |-> place.dest, kind |-> "maxPermit", step |-> "test"]
         /\ place.kind = "maxPermit" =>
              After(place) = [dest |-> place.dest, kind |-> "softPermit", step |-> "test"]
         /\ place.kind = "softPermit" => After(place) = Idle
BY DEF After, Kinds, Places
-----------------------------------------------------------------------------
(* Type correctness. *)

LEMMA TypeInit == Init => TypeOK
<1> SUFFICES ASSUME Init PROVE TypeOK
  OBVIOUS
<1> USE ClassAssumption, StateAssumption, AllowedAssumption, BoundAssumption
       DEF ClassAssumption, StateAssumption, AllowedAssumption, BoundAssumption
<1>1. 1 \in 1..(Len(AllowedClasses) + 1)
  OBVIOUS
<1>2. fwMask \in [devices : SUBSET Analog,
                  integrators : SUBSET (Analog \X Integrators)]
  BY DEF Init, Masked
<1>3. /\ [d \in Destinations |-> LowestClass] \in [Destinations -> Nat]
      /\ NoClass \in Limits
  BY DEF Limits
<1>4. /\ tentative \in [Destinations -> Nat]
      /\ allowed \in [Destinations -> Nat]
      /\ limit \in [Destinations -> [Kinds -> Limits]]
      /\ left \subseteq Destinations
  BY <1>3 DEF Init
<1>5. fault \in [Faults -> FaultFlags]
  BY DEF Init, FaultFlags
<1>6. /\ currState \in [Faults -> States \cup {-1, 0} \cup WorstGarbage]
      /\ lowestSeen \in [Faults -> Nat]
      /\ worstState \in [Faults -> States \cup {-1, 0} \cup WorstGarbage]
  BY DEF Init
<1>7. seen \in [AnalogReads -> SUBSET AnalogBits]
  BY DEF Init, NothingSeen
<1>8. inactive \subseteq Devices /\ changed \subseteq Devices
  BY DEF Init
<1> QED
  BY <1>1, <1>2, <1>4, <1>5, <1>6, <1>7, <1>8 DEF Init, TypeOK

LEMMA EvaluatedType ==
  TypeOK /\ EvaluateLogic =>
    /\ stateFaulted' \subseteq States
    /\ stateIgnored' \subseteq States
    /\ fault' \in [Faults -> FaultFlags]
    /\ conditionOn' \subseteq Conditions
    /\ devIgnored' \subseteq Devices
    /\ intIgnored' \subseteq Analog \X Integrators
    /\ reload' \in BOOLEAN
    /\ currState' \in [Faults -> States \cup {-1, 0} \cup WorstGarbage]
<1> SUFFICES ASSUME TypeOK, EvaluateLogic
             PROVE  /\ stateFaulted' \subseteq States
                    /\ stateIgnored' \subseteq States
                    /\ fault' \in [Faults -> FaultFlags]
                    /\ conditionOn' \subseteq Conditions
                    /\ devIgnored' \subseteq Devices
                    /\ intIgnored' \subseteq Analog \X Integrators
                    /\ reload' \in BOOLEAN
                    /\ currState' \in [Faults -> States \cup {-1, 0} \cup WorstGarbage]
  OBVIOUS
<1>1. stateFaulted' \subseteq States /\ stateIgnored' \subseteq States
  BY DEF EvaluateLogic, FaultedStates, IgnoredStates
<1>2. conditionOn' \subseteq Conditions
  BY DEF EvaluateLogic, ConditionsOn
<1>3. devIgnored' \subseteq Devices
  BY DEF EvaluateLogic, IgnoredDevices, IgnoredByCard
<1>4. intIgnored' \subseteq Analog \X Integrators
  BY DEF EvaluateLogic, IgnoredIntegrators
<1>5. reload' \in BOOLEAN
  BY DEF EvaluateLogic, ConditionReload
<1>6. \A f \in Faults : EvaluatedFault(f) \in
         FaultFlags
  <2> TAKE f \in Faults
  <2>1. FaultIgnored(f) \in BOOLEAN
    BY DEF FaultIgnored
  <2> QED BY <2>1 DEF EvaluatedFault, FaultFlags
<1>7. fault' \in [Faults -> FaultFlags]
  <2>1. fault' = [f \in Faults |-> EvaluatedFault(f)]
    BY DEF EvaluateLogic
  <2> QED BY <1>6, <2>1
<1>8. currState' \in [Faults -> States \cup {-1, 0} \cup WorstGarbage]
  <2>1. \A f \in Faults : InitialState(f) \in States \cup {-1, 0} \cup WorstGarbage
    <3> TAKE f \in Faults
    <3>1. worstState[f] \in States \cup {-1, 0} \cup WorstGarbage
      BY DEF TypeOK
    <3>2. fault'[f].faultedOffline \in BOOLEAN /\ fault'[f].faulted \in BOOLEAN
      BY <1>7 DEF FaultFlags
    <3> QED BY <3>1, <3>2 DEF InitialState
  <2>2. currState' = [f \in Faults |-> InitialState(f)]
    BY DEF EvaluateLogic
  <2> QED BY <2>1, <2>2
<1> QED
  BY <1>1, <1>2, <1>3, <1>4, <1>5, <1>7, <1>8

(* setAllowedBeamClass is at a limit of a destination. *)
LEMMA PermitPlace ==
  ASSUME TypeOK, TestLimit \/ CompareLimit \/ UseLimit
  PROVE  /\ at \in Places /\ at # Idle /\ phase = "permit"
         /\ at.dest \in Destinations /\ at.kind \in Kinds
<1>1. at \in Places \cup {Idle}
  BY DEF TypeOK
<1>2. at # Idle /\ phase = "permit"
  BY DEF TestLimit, CompareLimit, UseLimit, PermitStep, Idle
<1> QED
  BY <1>1, <1>2 DEF Places

(* The steps of setAllowedBeamClass change little: where it is, and the    *)
(* class of the destination it is at.                                      *)
LEMMA PermitType ==
  ASSUME TypeOK, TestLimit \/ CompareLimit \/ UseLimit
  PROVE  /\ tentative' \in [Destinations -> Nat]
         /\ allowed' \in [Destinations -> Nat]
         /\ at' \in Places \cup {Idle}
         /\ phase' \in {"permit", "crashed"}
<1> USE ClassAssumption DEF ClassAssumption
<1>0. /\ tentative \in [Destinations -> Nat]
      /\ allowed \in [Destinations -> Nat]
      /\ limit \in [Destinations -> [Kinds -> Limits]]
  BY DEF TypeOK
<1>1. /\ phase = "permit"
      /\ at \in Places
  BY PermitPlace
<1>2. /\ AtLimit \in Limits
      /\ AtLimit # NoClass => AtLimit \in Nat
      /\ tentative[at.dest] \in Nat
  <2>1. at.dest \in Destinations /\ at.kind \in Kinds
    BY <1>1 DEF Places
  <2>2. AtLimit \in Limits /\ tentative[at.dest] \in Nat
    BY <1>0, <2>1 DEF AtLimit
  <2> QED BY <2>2 DEF Limits
<1>3. After(at) \in Places \cup {Idle}
  <2>1. at.kind \in {"force", "maxPermit", "softPermit"} /\ at.dest \in Destinations
    BY <1>1 DEF Kinds, Places
  <2> QED BY <1>1, <2>1, AfterResult DEF Kinds, Places
<1>4. CASE LeaveLimit
  BY <1>0, <1>1, <1>2, <1>3, <1>4 DEF LeaveLimit
<1>5. CASE AtLimit # NoClass /\ TakeLimit
  BY <1>0, <1>1, <1>2, <1>3, <1>5 DEF TakeLimit
<1>6. CASE NullLimit
  BY <1>0, <1>1, <1>6 DEF NullLimit
<1>7. CASE /\ at' = [at EXCEPT !.step = "compare"] \/ at' = [at EXCEPT !.step = "use"]
           /\ UNCHANGED <<phase, allowed, tentative>>
  BY <1>0, <1>1, <1>7 DEF Places
<1> QED
  BY <1>4, <1>5, <1>6, <1>7 DEF TestLimit, CompareLimit, UseLimit

LEMMA TypeStep == TypeOK /\ [Next]_vars => TypeOK'
<1> SUFFICES ASSUME TypeOK, [Next]_vars PROVE TypeOK'
  OBVIOUS
<1>0. Len(AllowedClasses) \in Nat
  BY AllowedAssumption DEF AllowedAssumption
<1>1. CASE InputChange
  <2>0. /\ latched \subseteq Inputs /\ offline \subseteq Devices
        /\ inactive \subseteq Devices /\ changed \subseteq Devices
    BY DEF TypeOK
  <2>1. latched' \subseteq Inputs
    <3>1. CASE UNCHANGED latched
      BY <3>1, <2>0
    <3>2. CASE \E i \in Inputs : latched' = Toggle(latched, i)
      BY <3>2, <2>0, ToggleType
    <3> QED BY <1>1, <3>1, <3>2 DEF InputChange
  <2>2. threshold' \in [Analog -> SUBSET AnalogBits]
    <3>1. CASE UNCHANGED threshold
      BY <3>1 DEF TypeOK
    <3>3. threshold \in [Analog -> SUBSET AnalogBits]
      BY DEF TypeOK
    <3>2. CASE \E a \in Analog, b \in AnalogBits :
                  threshold' = [threshold EXCEPT ![a] = Toggle(@, b)]
      BY <3>2, ToggleType, <3>3
    <3> QED BY <1>1, <3>1, <3>2 DEF InputChange
  <2>3. offline' \subseteq Devices
    <3>1. CASE UNCHANGED offline
      BY <3>1, <2>0
    <3>2. CASE \E d \in MayGoOffline : offline' = Toggle(offline, d)
      BY <3>2, <2>0, ToggleType, BoundAssumption DEF BoundAssumption
    <3> QED BY <1>1, <3>1, <3>2 DEF InputChange
  <2>4. inactive' \subseteq Devices /\ changed' \subseteq Devices
    <3>1. CASE UNCHANGED <<inactive, changed>>
      BY <3>1, <2>0
    <3>2. CASE \E d \in MayGoInactive : /\ inactive' = Toggle(inactive, d)
                                        /\ changed' = Toggle(changed, d)
      BY <3>2, <2>0, ToggleType, BoundAssumption DEF BoundAssumption
    <3> QED BY <1>1, <3>1, <3>2 DEF InputChange
  <2>5. UNCHANGED <<phase, bypassVars, readVars, logicVars, loopVars, tentative,
                    worstState, limit, permitVars, allowed, maskVars>>
    BY <1>1 DEF InputChange
  <2> QED BY <2>1, <2>2, <2>3, <2>4, <2>5
      DEF TypeOK, bypassVars, readVars, logicVars, loopVars, permitVars, maskVars
<1>2. CASE BypassChange
  <2>1. bypassed' \subseteq Inputs /\ bypassHigh' \subseteq Inputs
    <3>1. bypassed \subseteq Inputs /\ bypassHigh \subseteq Inputs
      BY DEF TypeOK
    <3> QED BY <1>2, <3>1, ToggleType DEF BypassChange
  <2>2. bypassMask' \in [Analog -> SUBSET AnalogBits]
    <3>1. CASE UNCHANGED bypassMask
      BY <3>1 DEF TypeOK
    <3>3. bypassMask \in [Analog -> SUBSET AnalogBits]
      BY DEF TypeOK
    <3>2. CASE \E a \in MayBypass \cap Analog, b \in AnalogBits :
                  bypassMask' = [bypassMask EXCEPT ![a] = Toggle(@, b)]
      BY <3>2, ToggleType, <3>3
    <3> QED BY <1>2, <3>1, <3>2 DEF BypassChange
  <2>3. UNCHANGED <<phase, cardVars, changed, readVars, logicVars, loopVars,
                    tentative, worstState, limit, permitVars, allowed, maskVars>>
    BY <1>2 DEF BypassChange
  <2> QED BY <2>1, <2>2, <2>3
      DEF TypeOK, cardVars, readVars, logicVars, loopVars, permitVars, maskVars
<1>3. CASE OperatorChange
  <2>1. limit' \in [Destinations -> [Kinds -> Limits]] /\ disturbed' \in BOOLEAN
    <3>1. PICK d \in Destinations, k \in Kinds, c \in Limits :
             limit' = [limit EXCEPT ![d][k] = c] /\ disturbed' = (disturbed \/ d = at.dest)
      BY <1>3 DEF OperatorChange
    <3>2. disturbed \in BOOLEAN /\ limit \in [Destinations -> [Kinds -> Limits]]
      BY DEF TypeOK
    <3> QED BY <3>1, <3>2
  <2> QED BY <1>3, <2>1
      DEF TypeOK, OperatorChange, cardVars, bypassVars, readVars, logicVars,
          loopVars, maskVars
<1>4. CASE BeginCycle
  <2>1. tentative' \in [Destinations -> Nat] /\ allowed' \in [Destinations -> Nat]
    BY <1>4, ClassAssumption DEF BeginCycle, ClassAssumption
  <2> QED BY <1>4, <2>1
      DEF TypeOK, BeginCycle, cardVars, bypassVars, logicVars, loopVars,
          permitVars, maskVars
<1>5. CASE ReadInput
  <2>1. unread' \subseteq unread /\ ones' \subseteq Inputs
    <3>1. First(unread \cap DigitalReads) \in DigitalReads
      BY <1>5, FirstIn DEF ReadInput
    <3>2. ones \subseteq Inputs
      BY DEF TypeOK
    <3> QED BY <1>5, <3>1, <3>2 DEF ReadInput, DigitalReads
  <2> QED BY <1>5, <2>1
      DEF TypeOK, ReadInput, cardVars, bypassVars, logicVars, loopVars,
          permitVars, maskVars
<1>6. CASE ReadThreshold
  <2>0. /\ unread \subseteq DigitalReads \cup AnalogReads
        /\ threshold \in [Analog -> SUBSET AnalogBits]
        /\ seen \in [AnalogReads -> SUBSET AnalogBits]
    BY DEF TypeOK
  <2>1. First(unread) \in AnalogReads
    BY <1>6, <2>0, FirstIn DEF ReadThreshold
  <2>2. FaultInputs[First(unread)[1]][First(unread)[2]].device \in Analog
    BY <2>1, AnalogReadType
  <2>3. /\ unread' \subseteq unread
        /\ seen' \in [AnalogReads -> SUBSET AnalogBits]
    BY <1>6, <2>0, <2>1, <2>2 DEF ReadThreshold
  <2> QED BY <1>6, <2>3
      DEF TypeOK, ReadThreshold, cardVars, bypassVars, logicVars, loopVars,
          permitVars, maskVars
<1>7. CASE EvaluateLogic
  <2>4. lowestSeen' = [f \in Faults |-> 100] /\ next' = 1
    BY <1>7 DEF EvaluateLogic
  <2>5. 100 \in Nat /\ 1 \in 1..(Len(AllowedClasses) + 1)
    BY <1>0
  <2>1. lowestSeen' \in [Faults -> Nat] /\ next' \in 1..(Len(AllowedClasses) + 1)
    BY <2>4, <2>5
  <2>2. /\ ones' \subseteq Inputs /\ seen' \in [AnalogReads -> SUBSET AnalogBits]
        /\ history' \in {"no cycle", "no reload", "reloaded"}
    BY <1>7 DEF EvaluateLogic, NothingSeen, TypeOK
  <2>3. /\ phase' = "mitigate"
        /\ UNCHANGED <<cardVars, changed, bypassVars, unread, tentative, worstState,
                       limit, permitVars, allowed, fwMask>>
    BY <1>7 DEF EvaluateLogic
  <2> QED BY <1>7, <2>1, <2>2, <2>3, EvaluatedType
      DEF TypeOK, cardVars, bypassVars, permitVars
<1>8. CASE NoClasses
  BY <1>8 DEF TypeOK, NoClasses, cardVars, bypassVars, readVars, logicVars,
              loopVars, permitVars, maskVars
<1>9. CASE MitigateOne
  <2> DEFINE a == AllowedClasses[next]
             f == StateFault[a.state]
  <2>0. /\ next \in 1..(Len(AllowedClasses) + 1)
        /\ tentative \in [Destinations -> Nat]
        /\ lowestSeen \in [Faults -> Nat]
        /\ currState \in [Faults -> States \cup {-1, 0} \cup WorstGarbage]
    BY DEF TypeOK
  <2>1. next \in 1..Len(AllowedClasses)
    BY <1>0, <1>9, <2>0 DEF MitigateOne
  <2>7. /\ a.state \in States /\ a.destination \in Destinations
        /\ a.class \in Nat /\ f \in Faults
    BY <2>1, AllowedClassType
  <2>2. tentative' \in [Destinations -> Nat]
    BY <1>9, <2>0, <2>7 DEF MitigateOne
  <2>3. lowestSeen' \in [Faults -> Nat]
    BY <1>9, <2>0, <2>7 DEF MitigateOne
  <2>4. currState' \in [Faults -> States \cup {-1, 0} \cup WorstGarbage]
    BY <1>9, <2>0, <2>7 DEF MitigateOne
  <2>5. next' \in 1..(Len(AllowedClasses) + 1)
    BY <1>0, <1>9, <2>1 DEF MitigateOne
  <2>6. UNCHANGED <<phase, cardVars, changed, bypassVars, readVars, logicVars,
                    worstState, limit, permitVars, allowed, maskVars>>
    BY <1>9 DEF MitigateOne
  <2> QED BY <2>2, <2>3, <2>4, <2>5, <2>6
      DEF TypeOK, cardVars, bypassVars, readVars, logicVars, permitVars, maskVars
<1>10. CASE MitigateEnd
  BY <1>10 DEF TypeOK, MitigateEnd, cardVars, bypassVars, readVars, logicVars,
               loopVars, maskVars
<1>11. CASE BeginDestination
  <2>1. First(left) \in Destinations
    BY <1>11, FirstIn DEF BeginDestination, TypeOK
  <2>2. /\ at' \in Places \cup {Idle}
        /\ left' \subseteq Destinations /\ disturbed' \in BOOLEAN
    BY <1>11, <2>1 DEF BeginDestination, TypeOK, Kinds, Places
  <2>3. UNCHANGED <<phase, cardVars, changed, bypassVars, readVars, logicVars,
                    loopVars, tentative, worstState, limit, allowed, maskVars>>
    BY <1>11 DEF BeginDestination
  <2> QED BY <2>2, <2>3
      DEF TypeOK, cardVars, bypassVars, readVars, logicVars, loopVars, maskVars
<1>12. CASE TestLimit \/ CompareLimit \/ UseLimit
  <2>1. UNCHANGED <<cardVars, changed, bypassVars, readVars, logicVars, loopVars,
                    worstState, limit, left, disturbed, maskVars>>
    BY <1>12 DEF TestLimit, CompareLimit, UseLimit, PermitStep
  <2> QED BY <1>12, <2>1, PermitType
      DEF TypeOK, cardVars, bypassVars, readVars, logicVars, loopVars, maskVars
<1>13. CASE EndCycle
  BY <1>13 DEF TypeOK, EndCycle, cardVars, bypassVars, readVars, logicVars,
               loopVars, permitVars, maskVars
<1>14. CASE ReloadConfigFromIgnore \/ ReloadConfig
  <2>1. WriteMask /\ phase' \in {"inputs", "reload"}
    BY <1>14 DEF ReloadConfigFromIgnore, ReloadConfig
  <2>2. /\ fwMask' \in [devices : SUBSET Analog,
                        integrators : SUBSET (Analog \X Integrators)]
        /\ history' \in {"no cycle", "no reload", "reloaded"}
    BY <2>1 DEF TypeOK, WriteMask, Masked
  <2> QED BY <2>1, <2>2
      DEF TypeOK, WriteMask, cardVars, bypassVars, readVars, logicVars, loopVars,
          permitVars
<1>15. CASE UNCHANGED vars
  BY <1>15 DEF TypeOK, vars, cardVars, bypassVars, readVars, logicVars, loopVars,
               permitVars, maskVars
<1> QED
  BY <1>1, <1>2, <1>3, <1>4, <1>5, <1>6, <1>7, <1>8, <1>9, <1>10, <1>11, <1>12,
     <1>13, <1>14, <1>15 DEF Next, EngineNext

(* Every variable keeps its type in every reachable state, whatever the    *)
(* database: the loop of mitigate stays within the allowed classes, and in *)
(* a process that goes on no destination is left with a class that is none.*)
THEOREM TypeCorrect == Spec => []TypeOK
<1>1. Init => TypeOK
  BY TypeInit
<1>2. TypeOK /\ [Next]_vars => TypeOK'
  BY TypeStep
<1> QED
  BY <1>1, <1>2, PTL DEF Spec
-----------------------------------------------------------------------------
(* The mitigation loop computes a minimum. *)

Demands(k, d) == AllowedClasses[k].destination = d /\ Lowers(AllowedClasses[k])

(* tentative[d] is the lowest of HighestClass and what the first n allowed *)
(* classes demand of d.                                                    *)
LowestOf(n, d) ==
  /\ tentative[d] <= HighestClass
  /\ \A k \in 1..n : Demands(k, d) => tentative[d] <= AllowedClasses[k].class
  /\ \/ tentative[d] = HighestClass
     \/ \E k \in 1..n : Demands(k, d) /\ tentative[d] = AllowedClasses[k].class

LoopInv ==
  /\ phase = "evaluate" => \A d \in Destinations : tentative[d] = HighestClass
  /\ phase = "mitigate" => \A d \in Destinations : LowestOf(next - 1, d)
  /\ phase = "permit" => \A d \in left : LowestOf(Len(AllowedClasses), d)
  /\ at # Idle => phase \in {"permit", "crashed"} /\ at.dest \notin left

LEMMA DemandedElements ==
  ASSUME NEW d
  PROVE  Demanded(d) = {AllowedClasses[k].class :
                          k \in {m \in 1..Len(AllowedClasses) : Demands(m, d)}}
<1>1. DOMAIN AllowedClasses = 1..Len(AllowedClasses)
  BY AllowedAssumption DEF AllowedAssumption
<1>2. \A m \in 1..Len(AllowedClasses) :
         Demands(m, d) <=>
           LET b == AllowedClasses[m]
               f == StateFault[b.state]
           IN /\ b.destination = d
              /\ b.state \in stateFaulted \ stateIgnored
              /\ ~fault[f].ignored /\ ~fault[f].faultedOffline
              /\ \E k \in DOMAIN FaultInputs[f] : FaultInputs[f][k].device \in Slow
  BY DEF Demands, Lowers, Reached, SlowFault
<1> QED
  BY <1>1, <1>2 DEF Demanded

LEMMA LoopStep == TypeOK /\ LoopInv /\ [Next]_vars => LoopInv'
<1> SUFFICES ASSUME TypeOK, LoopInv, [Next]_vars PROVE LoopInv'
  OBVIOUS
<1> USE ClassAssumption DEF ClassAssumption
<1>0. Len(AllowedClasses) \in Nat
  BY AllowedAssumption DEF AllowedAssumption
<1>1. ASSUME UNCHANGED <<next, tentative, stateFaulted, stateIgnored, fault>>,
             UNCHANGED <<left, at>>,
             \/ phase' = phase
             \/ phase' \notin {"evaluate", "mitigate", "permit"} /\ at = Idle
      PROVE  LoopInv'
  BY <1>1 DEF LoopInv, LowestOf, Demands, Lowers, Reached
<1>2. CASE InputChange \/ BypassChange \/ OperatorChange
  BY <1>1, <1>2 DEF InputChange, BypassChange, OperatorChange, logicVars, loopVars,
                    permitVars
<1>3. CASE BeginCycle
  <2>1. /\ phase = "inputs" /\ phase' = "evaluate" /\ UNCHANGED at
        /\ tentative' = [d \in Destinations |-> HighestClass]
    BY <1>3 DEF BeginCycle, permitVars
  <2> QED BY <2>1 DEF LoopInv
<1>4. CASE ReadInput \/ ReadThreshold
  BY <1>1, <1>4 DEF ReadInput, ReadThreshold, logicVars, loopVars, permitVars
<1>5. CASE EvaluateLogic
  <2>1. /\ phase = "evaluate" /\ phase' = "mitigate" /\ next' = 1
        /\ UNCHANGED <<tentative, at>>
    BY <1>5 DEF EvaluateLogic, permitVars
  <2>2. \A d \in Destinations : tentative'[d] = HighestClass
    BY <2>1 DEF LoopInv
  <2> QED BY <2>1, <2>2 DEF LoopInv, LowestOf
<1>6. CASE MitigateOne
  <2> DEFINE a == AllowedClasses[next]
             L == Lowers(a) /\ tentative[a.destination] >= a.class
  <2>1. /\ phase = "mitigate" /\ phase' = "mitigate"
        /\ next \in 1..Len(AllowedClasses) /\ next' = next + 1
        /\ UNCHANGED <<stateFaulted, stateIgnored, fault>>
        /\ tentative' = IF L THEN [tentative EXCEPT ![a.destination] = a.class]
                             ELSE tentative
    <3>1. next \in 1..(Len(AllowedClasses) + 1)
      BY DEF TypeOK
    <3>2. next <= Len(AllowedClasses)
      BY <1>6 DEF MitigateOne
    <3>3. next \in 1..Len(AllowedClasses)
      BY <1>0, <3>1, <3>2
    <3> QED BY <1>6, <3>3 DEF MitigateOne, logicVars
  <2>2. \A k, d : Demands(k, d)' <=> Demands(k, d)
    BY <2>1 DEF Demands, Lowers, Reached
  <2>3. /\ a.class \in Nat
        /\ \A k \in 1..Len(AllowedClasses) : AllowedClasses[k].class \in Nat
    BY <2>1, AllowedClassType
  <2>4. \A d \in Destinations :
          /\ tentative'[d] <= HighestClass
          /\ \A k \in 1..next : Demands(k, d) => tentative'[d] <= AllowedClasses[k].class
          /\ \/ tentative'[d] = HighestClass
             \/ \E k \in 1..next : Demands(k, d) /\ tentative'[d] = AllowedClasses[k].class
    <3> TAKE d \in Destinations
    <3>0. tentative \in [Destinations -> Nat]
      BY DEF TypeOK
    <3>1. LowestOf(next - 1, d) /\ tentative[d] \in Nat
      BY <2>1, <3>0 DEF LoopInv
    <3>2. \A k \in 1..next : k \in 1..(next - 1) \/ k = next
      BY <2>1
    <3>3. \A k \in 1..(next - 1) : k \in 1..next /\ k \in 1..Len(AllowedClasses)
      BY <2>1
    <3>4. next \in 1..next
      BY <2>1
    <3>5. CASE Demands(next, d) /\ tentative[d] >= a.class
      <4>1. tentative'[d] = a.class
        BY <2>1, <3>0, <3>5 DEF Demands
      <4> QED
        BY <4>1, <3>1, <3>2, <3>3, <3>4, <3>5, <2>1, <2>3 DEF LowestOf
    <3>6. CASE ~(Demands(next, d) /\ tentative[d] >= a.class)
      <4>1. tentative'[d] = tentative[d]
        BY <2>1, <3>0, <3>6 DEF Demands
      <4> QED
        BY <4>1, <3>1, <3>2, <3>3, <3>4, <3>6, <2>1, <2>3 DEF LowestOf
    <3> QED BY <3>5, <3>6
  <2>5. next' - 1 = next
    BY <2>1
  <2>6. UNCHANGED at
    BY <1>6 DEF MitigateOne, permitVars
  <2> QED BY <2>1, <2>2, <2>4, <2>5, <2>6 DEF LoopInv, LowestOf
<1>7. CASE MitigateEnd
  <2>0. next \in 1..(Len(AllowedClasses) + 1)
    BY DEF TypeOK
  <2>1. /\ phase = "mitigate" /\ phase' = "permit" /\ left' = Destinations
        /\ next > Len(AllowedClasses)
        /\ UNCHANGED <<tentative, at, stateFaulted, stateIgnored, fault>>
    BY <1>7 DEF MitigateEnd, loopVars, logicVars
  <2>2. next - 1 = Len(AllowedClasses)
    BY <1>0, <2>0, <2>1
  <2>3. at = Idle
    BY <2>1 DEF LoopInv
  <2>4. \A d \in Destinations : LowestOf(Len(AllowedClasses), d)
    BY <2>1, <2>2 DEF LoopInv
  <2> QED BY <2>1, <2>3, <2>4 DEF LoopInv, LowestOf, Demands, Lowers, Reached
<1>8. CASE BeginDestination
  <2>1. /\ phase = "permit" /\ phase' = "permit" /\ left' = left \ {First(left)}
        /\ at'.dest = First(left)
        /\ UNCHANGED <<tentative, stateFaulted, stateIgnored, fault>>
    BY <1>8 DEF BeginDestination, logicVars
  <2> QED BY <2>1 DEF LoopInv, LowestOf, Demands, Lowers, Reached
<1>9. CASE TestLimit \/ CompareLimit \/ UseLimit
  <2>0. /\ tentative \in [Destinations -> Nat]
        /\ UNCHANGED <<left, stateFaulted, stateIgnored, fault>>
    <3>1. tentative \in [Destinations -> Nat]
      BY DEF TypeOK
    <3> QED BY <1>9, <3>1 DEF TestLimit, CompareLimit, UseLimit, PermitStep, logicVars
  <2>1. /\ phase = "permit" /\ at \in Places /\ at # Idle
        /\ tentative \in [Destinations -> Nat]
        /\ UNCHANGED <<left, stateFaulted, stateIgnored, fault>>
    BY <1>9, <2>0, PermitPlace
  <2>2. /\ at.dest \notin left
        /\ at'.dest = at.dest \/ at' = Idle
        /\ phase' \in {"permit", "crashed"}
    <3>1. After(at) = Idle \/ After(at).dest = at.dest
      BY <2>1, AfterResult DEF Places, Kinds
    <3>2. \/ at' = After(at) \/ at' = at
          \/ at' = [at EXCEPT !.step = "compare"] \/ at' = [at EXCEPT !.step = "use"]
      BY <1>9 DEF TestLimit, CompareLimit, UseLimit, LeaveLimit, TakeLimit, NullLimit
    <3> QED BY <2>1, <3>1, <3>2, <1>9, PermitType DEF LoopInv, Places
  <2>3. \A d \in left : tentative'[d] = tentative[d]
    <3>1. UNCHANGED tentative \/ \E c : tentative' = [tentative EXCEPT ![at.dest] = c]
      BY <1>9 DEF TestLimit, CompareLimit, UseLimit, LeaveLimit, TakeLimit, NullLimit
    <3>2. left \subseteq Destinations
      BY DEF TypeOK
    <3> QED BY <2>1, <2>2, <3>1, <3>2
  <2> QED BY <2>1, <2>2, <2>3 DEF LoopInv, LowestOf, Demands, Lowers, Reached
<1>10. CASE NoClasses
  BY <1>1, <1>10 DEF NoClasses, LoopInv, logicVars, loopVars, permitVars
<1>11. CASE EndCycle \/ ReloadConfigFromIgnore \/ ReloadConfig
  BY <1>1, <1>11 DEF EndCycle, ReloadConfigFromIgnore, ReloadConfig, WriteMask, LoopInv,
                     logicVars, loopVars, permitVars
<1>12. CASE UNCHANGED vars
  BY <1>1, <1>12 DEF vars, logicVars, loopVars, permitVars
<1> QED
  BY <1>2, <1>3, <1>4, <1>5, <1>6, <1>7, <1>8, <1>9, <1>10, <1>11, <1>12
     DEF Next, EngineNext
-----------------------------------------------------------------------------
(* The operator's limits keep it a minimum. *)

Passed(kind) == CASE kind = "force"     -> {}
                  [] kind = "maxPermit" -> {"force"}
                  [] OTHER              -> {"force", "maxPermit"}

(* The limits of d among some kinds that are set, and what the logic       *)
(* demands of it.                                                          *)
Bounds(d, kinds) ==
  {HighestClass} \cup Demanded(d) \cup ({limit[d][k] : k \in kinds} \ {NoClass})

(* As long as no limit of its destination changes, setAllowedBeamClass has *)
(* the lowest of the logic and of the limits passed, and finds the limit   *)
(* it is at as it tested it.                                               *)
PermitInv ==
  at # Idle /\ phase = "permit" /\ ~disturbed =>
    /\ IsLowest(tentative[at.dest], Bounds(at.dest, Passed(at.kind)))
    /\ at.step \in {"compare", "use"} => AtLimit # NoClass
    /\ at.step = "use" => IsLower

LEMMA BoundsNat ==
  ASSUME TypeOK, NEW d \in Destinations, NEW K \in SUBSET Kinds
  PROVE  \A c \in Bounds(d, K) : c \in Nat
<1>1. \A k \in Kinds : limit[d][k] \in Limits
  <2>1. limit \in [Destinations -> [Kinds -> Limits]]
    BY DEF TypeOK
  <2> QED BY <2>1
<1>2. \A c \in Demanded(d) : c \in Nat
  BY DemandedElements, AllowedClassType
<1> QED
  BY <1>1, <1>2, ClassAssumption DEF Bounds, Limits, ClassAssumption

(* A destination starts from the minimum of the mitigation loop. *)
LEMMA BeginLowest ==
  ASSUME TypeOK, LoopInv, phase = "permit", NEW d \in left
  PROVE  IsLowest(tentative[d], Bounds(d, Passed("force")))
<1>1. d \in Destinations /\ LowestOf(Len(AllowedClasses), d)
  BY DEF TypeOK, LoopInv
<1>2. Bounds(d, Passed("force")) = {HighestClass} \cup Demanded(d)
  BY DEF Bounds, Passed
<1>3. \A c \in Demanded(d) : tentative[d] <= c
  BY <1>1, DemandedElements DEF LowestOf
<1>4. tentative[d] = HighestClass \/ tentative[d] \in Demanded(d)
  BY <1>1, DemandedElements DEF LowestOf
<1> QED
  BY <1>1, <1>2, <1>3, <1>4 DEF IsLowest, LowestOf

(* A limit that is left or taken is one more of the bounds. *)
LEMMA LimitPassed ==
  ASSUME TypeOK, at \in Places,
         IsLowest(tentative[at.dest], Bounds(at.dest, Passed(at.kind)))
  PROVE  /\ AtLimit = NoClass \/ ~IsLower =>
              IsLowest(tentative[at.dest],
                       Bounds(at.dest, Passed(at.kind) \cup {at.kind}))
         /\ AtLimit # NoClass /\ IsLower =>
              IsLowest(AtLimit, Bounds(at.dest, Passed(at.kind) \cup {at.kind}))
<1> DEFINE d == at.dest
           B == Bounds(d, Passed(at.kind))
           C == Bounds(d, Passed(at.kind) \cup {at.kind})
<1>1. d \in Destinations /\ at.kind \in Kinds
  BY DEF Places
<1>2. C = B \cup ({AtLimit} \ {NoClass})
  BY DEF Bounds, AtLimit
<1>3. AtLimit \in Limits
  <2>1. limit \in [Destinations -> [Kinds -> Limits]]
    BY DEF TypeOK
  <2> QED BY <1>1, <2>1 DEF AtLimit
<1>4. Passed(at.kind) \in SUBSET Kinds
  BY <1>1 DEF Passed, Kinds
<1>5. \A c \in B : c \in Nat
  BY <1>1, <1>4, BoundsNat
<1>6. AtLimit # NoClass => AtLimit \in Nat
  BY <1>3, ClassAssumption DEF Limits, ClassAssumption
<1>7. tentative[d] \in B /\ \A c \in B : tentative[d] <= c
  BY DEF IsLowest
<1> HIDE DEF d, B, C
<1>8. ASSUME AtLimit = NoClass \/ ~(AtLimit < tentative[d])
      PROVE  IsLowest(tentative[d], C)
  BY <1>2, <1>5, <1>6, <1>7, <1>8 DEF IsLowest
<1>9. ASSUME AtLimit # NoClass, AtLimit < tentative[d]
      PROVE  IsLowest(AtLimit, C)
  <2>1. AtLimit \in C /\ AtLimit <= AtLimit
    BY <1>2, <1>6, <1>9
  <2>2. \A c \in B : AtLimit <= c
    BY <1>5, <1>6, <1>7, <1>9
  <2> QED BY <1>2, <2>1, <2>2 DEF IsLowest
<1> QED
  BY <1>8, <1>9 DEF IsLower, d, C

(* What a step of setAllowedBeamClass does to the class and to the limits  *)
(* it has passed.                                                          *)
LEMMA PermitLowest ==
  ASSUME TypeOK, PermitInv, TestLimit \/ CompareLimit \/ UseLimit, ~disturbed
  PROVE  LET d == at.dest
             C == Bounds(d, Passed(at.kind) \cup {at.kind})
         IN  /\ at \in Places
             /\ \/ phase' = "crashed"
                \/ /\ at' \in {[at EXCEPT !.step = "compare"],
                               [at EXCEPT !.step = "use"]}
                   /\ AtLimit # NoClass /\ (at'.step = "use" => IsLower)
                   /\ UNCHANGED tentative
                \/ /\ at' = After(at) /\ at.kind # "softPermit"
                   /\ IsLowest(tentative'[d], C)
                \/ /\ at' = Idle /\ at.kind = "softPermit"
                   /\ IsLowest(allowed'[d], C)
<1>1. /\ at \in Places /\ at # Idle /\ phase = "permit"
      /\ tentative \in [Destinations -> Nat] /\ allowed \in [Destinations -> Nat]
  <2>1. tentative \in [Destinations -> Nat] /\ allowed \in [Destinations -> Nat]
    BY DEF TypeOK
  <2> QED BY <2>1, PermitPlace
<1>2. at.dest \in Destinations /\ at.kind \in Kinds
  BY <1>1 DEF Places
<1>3. /\ IsLowest(tentative[at.dest], Bounds(at.dest, Passed(at.kind)))
      /\ at.step \in {"compare", "use"} => AtLimit # NoClass
      /\ at.step = "use" => IsLower
  BY <1>1 DEF PermitInv
<1>4. at.kind = "softPermit" => After(at) = Idle
  BY <1>1, AfterResult
<1>5. CASE LeaveLimit /\ (AtLimit = NoClass \/ ~IsLower)
  BY <1>1, <1>2, <1>3, <1>4, <1>5, LimitPassed DEF LeaveLimit
<1>6. CASE TakeLimit /\ AtLimit # NoClass /\ IsLower
  <2>1. IsLowest(AtLimit, Bounds(at.dest, Passed(at.kind) \cup {at.kind}))
    BY <1>1, <1>3, <1>6, LimitPassed
  <2>2. CASE at.kind = "softPermit"
    BY <1>1, <1>2, <1>4, <1>6, <2>1, <2>2 DEF TakeLimit
  <2>3. CASE at.kind # "softPermit"
    BY <1>1, <1>2, <1>6, <2>1, <2>3 DEF TakeLimit
  <2> QED BY <2>2, <2>3
<1>7. CASE /\ UNCHANGED tentative /\ AtLimit # NoClass
           /\ \/ at' = [at EXCEPT !.step = "compare"]
              \/ at' = [at EXCEPT !.step = "use"] /\ IsLower
  BY <1>1, <1>7 DEF Places
<1>8. CASE phase' = "crashed"
  BY <1>1, <1>8
<1> QED
  BY <1>3, <1>5, <1>6, <1>7, <1>8
     DEF TestLimit, CompareLimit, UseLimit, PermitStep, NullLimit

LEMMA PermitInvStep == TypeOK /\ LoopInv /\ PermitInv /\ [Next]_vars => PermitInv'
<1> SUFFICES ASSUME TypeOK, LoopInv, PermitInv, [Next]_vars,
                    at' # Idle, phase' = "permit", ~disturbed'
             PROVE  /\ IsLowest(tentative'[at'.dest], Bounds(at.dest, Passed(at.kind))')
                    /\ at'.step \in {"compare", "use"} => AtLimit' # NoClass
                    /\ at'.step = "use" => IsLower'
  BY DEF PermitInv
<1>1. ASSUME UNCHANGED <<stateFaulted, stateIgnored, fault>>,
             NEW d, limit'[d] = limit[d], NEW K
      PROVE  Bounds(d, K)' = Bounds(d, K)
  BY <1>1 DEF Bounds, Demanded
<1>2. ASSUME UNCHANGED <<phase, tentative, stateFaulted, stateIgnored, fault, at>>,
             limit'[at.dest] = limit[at.dest], ~disturbed
      PROVE  /\ IsLowest(tentative'[at'.dest], Bounds(at.dest, Passed(at.kind))')
             /\ at'.step \in {"compare", "use"} => AtLimit' # NoClass
             /\ at'.step = "use" => IsLower'
  <2>1. Bounds(at.dest, Passed(at.kind))' = Bounds(at.dest, Passed(at.kind))
    BY <1>1, <1>2
  <2> QED BY <1>2, <2>1 DEF PermitInv, AtLimit, IsLower
<1>3. CASE InputChange \/ BypassChange \/ ReadInput \/ ReadThreshold
  BY <1>2, <1>3
  DEF InputChange, BypassChange, ReadInput, ReadThreshold, logicVars, permitVars
<1>4. CASE OperatorChange
  <2>1. PICK d \in Destinations, k \in Kinds, c \in Limits :
           /\ limit' = [limit EXCEPT ![d][k] = c]
           /\ disturbed' = (disturbed \/ d = at.dest)
    BY <1>4 DEF OperatorChange
  <2>2. d # at.dest /\ ~disturbed
    BY <2>1
  <2>3. limit \in [Destinations -> [Kinds -> Limits]]
    BY DEF TypeOK
  <2>4. limit'[at.dest] = limit[at.dest]
    BY <2>1, <2>2, <2>3
  <2> QED BY <1>2, <1>4, <2>2, <2>4 DEF OperatorChange, logicVars
<1>5. CASE BeginCycle \/ EvaluateLogic \/ NoClasses \/ MitigateOne \/ MitigateEnd
  <2>1. phase \notin {"permit", "crashed"} /\ at' = at
    BY <1>5 DEF BeginCycle, EvaluateLogic, NoClasses, MitigateOne, MitigateEnd, permitVars
  <2> QED BY <2>1 DEF LoopInv
<1>6. CASE BeginDestination
  <2>1. /\ phase = "permit" /\ First(left) \in left
        /\ at' = [dest |-> First(left), kind |-> "force", step |-> "test"]
        /\ UNCHANGED <<tentative, limit, stateFaulted, stateIgnored, fault>>
    BY <1>6, FirstIn DEF BeginDestination, logicVars
  <2>2. IsLowest(tentative[First(left)], Bounds(First(left), Passed("force")))
    BY <2>1, BeginLowest
  <2>4. Bounds(at.dest, Passed(at.kind))' = Bounds(First(left), Passed("force"))
    BY <2>1 DEF Bounds, Demanded, Passed
  <2> QED BY <2>1, <2>2, <2>4
<1>7. CASE TestLimit \/ CompareLimit \/ UseLimit
  <2> DEFINE d == at.dest
             C == Bounds(d, Passed(at.kind) \cup {at.kind})
  <2>1. /\ UNCHANGED <<limit, stateFaulted, stateIgnored, fault, disturbed>>
        /\ phase = "permit" /\ at # Idle
    BY <1>7 DEF TestLimit, CompareLimit, UseLimit, PermitStep, logicVars, Idle
  <2>2. /\ at \in Places
        /\ \/ /\ at' \in {[at EXCEPT !.step = "compare"], [at EXCEPT !.step = "use"]}
              /\ AtLimit # NoClass /\ (at'.step = "use" => IsLower)
              /\ UNCHANGED tentative
           \/ /\ at' = After(at) /\ at.kind # "softPermit"
              /\ IsLowest(tentative'[d], C)
    BY <1>7, <2>1, PermitLowest
  <2>4. CASE /\ at' \in {[at EXCEPT !.step = "compare"], [at EXCEPT !.step = "use"]}
             /\ AtLimit # NoClass /\ (at'.step = "use" => IsLower)
             /\ UNCHANGED tentative
    <3>1. at'.dest = at.dest /\ at'.kind = at.kind
      BY <2>2, <2>4 DEF Places
    <3>2. Bounds(at.dest, Passed(at.kind))' = Bounds(at.dest, Passed(at.kind))
      BY <2>1, <3>1 DEF Bounds, Demanded, Passed
    <3>3. AtLimit' = AtLimit /\ (IsLower' <=> IsLower)
      BY <2>1, <2>4, <3>1 DEF AtLimit, IsLower
    <3>4. IsLowest(tentative[at.dest], Bounds(at.dest, Passed(at.kind)))
      BY <2>1 DEF PermitInv
    <3> QED BY <2>4, <3>1, <3>2, <3>3, <3>4
  <2>5. CASE /\ at' = After(at) /\ at.kind # "softPermit"
             /\ IsLowest(tentative'[d], C)
    <3>1. at.kind \in {"force", "maxPermit"}
      BY <2>2, <2>5 DEF Places, Kinds
    <3>2. /\ at'.dest = d /\ at'.step = "test"
          /\ Passed(at'.kind) = Passed(at.kind) \cup {at.kind}
      BY <2>2, <2>5, <3>1, AfterResult DEF Passed
    <3>3. Bounds(at.dest, Passed(at.kind))' = C
      BY <2>1, <3>2 DEF Bounds, Demanded, Passed
    <3> QED BY <2>5, <3>2, <3>3
  <2> QED BY <2>2, <2>4, <2>5
<1>8. CASE EndCycle \/ ReloadConfigFromIgnore \/ ReloadConfig
  <2>1. at' = at /\ phase' # "permit"
    BY <1>8 DEF EndCycle, ReloadConfigFromIgnore, ReloadConfig, WriteMask, permitVars
  <2> QED BY <2>1
<1>9. CASE UNCHANGED vars
  BY <1>2, <1>9 DEF vars, logicVars, permitVars
<1> QED
  BY <1>3, <1>4, <1>5, <1>6, <1>7, <1>8, <1>9 DEF Next, EngineNext

(* The class setAllowedBeamClass leaves is the lowest of what the logic    *)
(* demands and of the operator's limits, for every database: the           *)
(* mitigation loop and the three tests compute a minimum whatever the      *)
(* order in which the maps are visited, and whatever limits change when,   *)
(* those of the destination itself during its tests excepted.              *)
THEOREM AllowedLowest == Spec => AllowedIsLowest
<1> DEFINE Inv == TypeOK /\ LoopInv /\ PermitInv
<1>1. Init => Inv
  BY TypeInit DEF Init, LoopInv, PermitInv
<1>2. Inv /\ [Next]_vars => Inv'
  BY TypeStep, LoopStep, PermitInvStep
<1>3. Inv /\ [Next]_vars =>
        [DestinationDone /\ ~disturbed =>
           IsLowest(allowed'[at.dest],
                    {HighestClass} \cup Demanded(at.dest)
                      \cup ({limit[at.dest][k] : k \in Kinds} \ {NoClass}))]_vars
  <2> SUFFICES ASSUME TypeOK, LoopInv, PermitInv, Next, DestinationDone, ~disturbed
               PROVE  IsLowest(allowed'[at.dest], Bounds(at.dest, Kinds))
    BY DEF Bounds
  <2>1. TestLimit \/ CompareLimit \/ UseLimit
    BY DEF Next, EngineNext, InputChange, BypassChange, OperatorChange, BeginCycle,
           ReadInput, ReadThreshold, EvaluateLogic, NoClasses, MitigateOne,
           MitigateEnd, BeginDestination, EndCycle, ReloadConfigFromIgnore,
           ReloadConfig, WriteMask, permitVars, DestinationDone, Idle
  <2>2. /\ at \in Places
        /\ \/ phase' = "crashed"
           \/ at' \in {[at EXCEPT !.step = "compare"], [at EXCEPT !.step = "use"]}
           \/ at' = After(at) /\ at.kind # "softPermit"
           \/ /\ at' = Idle /\ at.kind = "softPermit"
              /\ IsLowest(allowed'[at.dest],
                          Bounds(at.dest, Passed(at.kind) \cup {at.kind}))
    BY <2>1, PermitLowest
  <2>3. phase' # "crashed"
    <3>1. at' # at
      BY DEF DestinationDone
    <3>2. at \in Places /\ at' = Idle
      BY <2>2 DEF DestinationDone
    <3>3. [at EXCEPT !.step = "compare"] # Idle /\ [at EXCEPT !.step = "use"] # Idle
      BY <3>2 DEF Places, Idle
    <3>4. ~NullLimit
      BY <3>1 DEF NullLimit
    <3> QED BY <2>1, <3>1, <3>4
        DEF TestLimit, CompareLimit, UseLimit, PermitStep, LeaveLimit, TakeLimit
  <2>4. at.kind \in Kinds
    BY <2>2 DEF Places
  <2>5. at.kind = "softPermit"
    <3>1. After(at) # Idle \/ at.kind = "softPermit"
      BY <2>2, <2>4, AfterResult DEF Kinds, Idle
    <3>2. [at EXCEPT !.step = "compare"] # Idle /\ [at EXCEPT !.step = "use"] # Idle
      BY <2>2 DEF Places, Idle
    <3> QED BY <2>2, <2>3, <3>1, <3>2 DEF DestinationDone
  <2>6. Passed(at.kind) \cup {at.kind} = Kinds
    BY <2>5 DEF Passed, Kinds
  <2>7. IsLowest(allowed'[at.dest], Bounds(at.dest, Passed(at.kind) \cup {at.kind}))
    <3>1. /\ [at EXCEPT !.step = "compare"] # Idle
          /\ [at EXCEPT !.step = "use"] # Idle
      BY <2>2 DEF Places, Idle
    <3> QED BY <2>2, <2>3, <2>5, <3>1 DEF DestinationDone
  <2> QED BY <2>6, <2>7
<1> QED
  BY <1>1, <1>2, <1>3, PTL DEF Spec, AllowedIsLowest
-----------------------------------------------------------------------------
(* The ignore flags a cycle leaves are a function of the conditions that    *)
(* are on and of the cards' active flags: evaluating them again with the    *)
(* same conditions and cards changes nothing that the firmware masks.       *)

(* The writers of an integrator's flag, and what the last of them wrote,    *)
(* when the conditions on are "on".                                         *)
WritersOf(p, on) ==
  {n \in DOMAIN IgnoreConditions :
     /\ IgnoreConditions[n].state # 0
     /\ IgnoreConditions[n].device \in Analog
     /\ \A m \in 1..(n - 1) : IgnoreConditions[m].state = IgnoreConditions[n].state
                             => IgnoreConditions[m].condition \notin on
     /\ IgnoreConditions[n].device = p[1]
     /\ Integrator(IgnoreConditions[n].state) = p[2]}

LastWroteTrue(p, on) ==
  \E n \in WritersOf(p, on) : /\ \A m \in WritersOf(p, on) : m <= n
                              /\ IgnoreConditions[n].condition \in on

Named(d, on) ==
  \E n \in DOMAIN IgnoreConditions :
     /\ IgnoreConditions[n].device = d
     /\ IgnoreConditions[n].condition \in on
     /\ d \in Analog => IgnoreConditions[n].state = 0

(* The cards inactive when the flags were last evaluated. *)
WasInactive ==
  IF phase \in {"mitigate", "permit"}
  THEN inactive
  ELSE {d \in Devices : (d \in inactive) # (d \in changed)}

FlagsInv ==
  /\ \A d \in Analog \ Unassigned :
        d \in devIgnored <=> d \in WasInactive \/ Named(d, conditionOn)
  /\ \A d \in Analog \cap Unassigned : Named(d, conditionOn) => d \in devIgnored
  /\ \A p \in Analog \X Integrators :
        WritersOf(p, conditionOn) # {} =>
          (p \in intIgnored <=> LastWroteTrue(p, conditionOn))

(* No condition has been on yet. *)
Fresh == /\ conditionOn = {} /\ intIgnored = {}
         /\ devIgnored \cap Analog \cap Unassigned = {}

(* No reload is due. *)
Settled ==
  \/ phase \in {"inputs", "evaluate"}
  \/ phase \in {"mitigate", "permit"} /\ ~ReloadWanted

MaskInv ==
  phase # "crashed" =>
    /\ history = "no cycle" => /\ phase \in {"inputs", "evaluate"}
                               /\ Fresh /\ devIgnored = {}
                               /\ fwMask = Masked({}, {})
    /\ history # "no cycle" => FlagsInv
    /\ history = "no reload" => fwMask = Masked({}, {}) /\ (Settled => Fresh)
    /\ history = "reloaded" /\ Settled => fwMask = Masked(devIgnored, intIgnored)

LEMMA IntegratorsWritten ==
  ASSUME NEW p \in Analog \X Integrators, EvaluateLogic
  PROVE  p \in intIgnored' <=>
           IF WritersOf(p, conditionOn') = {} THEN p \in intIgnored
                                              ELSE LastWroteTrue(p, conditionOn')
<1> DEFINE W == {n \in DOMAIN IgnoreConditions :
                   /\ WritesIntegrator(n)
                   /\ IgnoreConditions[n].device = p[1]
                   /\ Integrator(IgnoreConditions[n].state) = p[2]}
<1>1. W = WritersOf(p, conditionOn')
  BY DEF WritesIntegrator, WritersOf
<1>2. p \in intIgnored' <=>
        IF W = {} THEN p \in intIgnored
        ELSE \E n \in W : /\ \A m \in W : m <= n
                          /\ IgnoreConditions[n].condition \in conditionOn'
  BY DEF EvaluateLogic, IgnoredIntegrators
<1> QED
  BY <1>1, <1>2 DEF LastWroteTrue

LEMMA DevicesIgnored ==
  ASSUME NEW d \in Analog, EvaluateLogic
  PROVE  d \in devIgnored' <=>
           \/ Named(d, conditionOn')
           \/ IF d \in Unassigned THEN d \in devIgnored ELSE d \in inactive
BY DEF EvaluateLogic, IgnoredDevices, IgnoredByCard, Named, Devices

(* Evaluating the conditions leaves the flags a function of them. *)
LEMMA FlagsEvaluated ==
  ASSUME TypeOK, EvaluateLogic
  PROVE  FlagsInv'
<1>1. phase' = "mitigate" /\ inactive' = inactive
  BY DEF EvaluateLogic, cardVars
<1>2. WasInactive' = inactive
  BY <1>1 DEF WasInactive
<1>3. \A d \in Analog \ Unassigned :
         d \in devIgnored' <=> d \in WasInactive' \/ Named(d, conditionOn')
  BY <1>2, DevicesIgnored
<1>4. \A d \in Analog \cap Unassigned : Named(d, conditionOn') => d \in devIgnored'
  BY DevicesIgnored
<1>5. \A p \in Analog \X Integrators :
         WritersOf(p, conditionOn') # {} =>
           (p \in intIgnored' <=> LastWroteTrue(p, conditionOn'))
  BY IntegratorsWritten
<1> QED
  BY <1>3, <1>4, <1>5 DEF FlagsInv, Named, WritersOf, LastWroteTrue

LEMMA MaskEvaluated == TypeOK /\ MaskInv /\ EvaluateLogic => MaskInv'
<1> SUFFICES ASSUME TypeOK, MaskInv, EvaluateLogic PROVE MaskInv'
  OBVIOUS
<1>1. /\ phase = "evaluate" /\ phase' = "mitigate"
      /\ UNCHANGED <<inactive, changed, fwMask>>
      /\ reload' = (conditionOn' # conditionOn)
      /\ history' = IF history = "no cycle" THEN "no reload" ELSE history
  BY DEF EvaluateLogic, cardVars, ConditionReload
<1>2. FlagsInv'
  BY FlagsEvaluated
<1>3. history \in {"no cycle", "no reload", "reloaded"}
  BY DEF TypeOK
<1>4. ASSUME history # "reloaded", Settled'
      PROVE  Fresh' /\ fwMask' = Masked({}, {})
  <2>1. Fresh /\ fwMask = Masked({}, {})
    BY <1>1, <1>3, <1>4 DEF MaskInv, Settled
  <2>2. conditionOn' = {}
    BY <1>1, <1>4, <2>1 DEF Settled, ReloadWanted, Fresh
  <2>3. \A p \in Analog \X Integrators : p \notin intIgnored'
    BY <2>1, <2>2, IntegratorsWritten DEF Fresh, LastWroteTrue
  <2>4. intIgnored' \subseteq Analog \X Integrators
    BY EvaluatedType
  <2>5. \A d \in Analog \cap Unassigned : d \notin devIgnored'
    BY <2>1, <2>2, DevicesIgnored DEF Fresh, Named
  <2> QED BY <1>1, <2>1, <2>2, <2>3, <2>4, <2>5 DEF Fresh
<1>5. ASSUME history = "reloaded", Settled'
      PROVE  fwMask' = Masked(devIgnored', intIgnored')
  <2>1. conditionOn' = conditionOn /\ changed = {}
    BY <1>1, <1>5 DEF Settled, ReloadWanted
  <2>2. WasInactive = inactive
    <3>1. inactive \subseteq Devices
      BY DEF TypeOK
    <3>2. phase \notin {"mitigate", "permit"} /\ changed = {}
      BY <1>1, <2>1
    <3>3. WasInactive = {d \in Devices : d \in inactive}
      BY <3>2 DEF WasInactive
    <3> QED BY <3>1, <3>3
  <2>0. FlagsInv /\ fwMask = Masked(devIgnored, intIgnored)
    BY <1>1, <1>5 DEF MaskInv, Settled
  <2>3. \A d \in Analog : d \in devIgnored' <=> d \in devIgnored
    BY <2>0, <2>1, <2>2, DevicesIgnored DEF FlagsInv
  <2>4. \A p \in Analog \X Integrators : p \in intIgnored' <=> p \in intIgnored
    BY <2>0, <2>1, IntegratorsWritten DEF FlagsInv
  <2>5. intIgnored \subseteq Analog \X Integrators
    BY DEF TypeOK
  <2>6. intIgnored' = intIgnored
    BY <2>4, <2>5, EvaluatedType
  <2>7. devIgnored' \cap Analog = devIgnored \cap Analog
    BY <2>3
  <2> QED BY <1>1, <2>0, <2>6, <2>7 DEF Masked
<1>6. history' = "no reload" => fwMask' = Masked({}, {})
  BY <1>1, <1>3 DEF MaskInv
<1> QED
  BY <1>1, <1>2, <1>3, <1>4, <1>5, <1>6 DEF MaskInv, Masked

LEMMA MaskStep == TypeOK /\ MaskInv /\ [Next]_vars => MaskInv'
<1> SUFFICES ASSUME TypeOK, MaskInv, [Next]_vars PROVE MaskInv'
  OBVIOUS
<1>1. ASSUME UNCHANGED <<devIgnored, intIgnored, conditionOn>>,
             WasInactive' = WasInactive
      PROVE  /\ FlagsInv => FlagsInv'
             /\ Fresh' <=> Fresh
             /\ Masked(devIgnored, intIgnored)' = Masked(devIgnored, intIgnored)
  BY <1>1 DEF FlagsInv, Named, WritersOf, LastWroteTrue, Fresh, Masked
<1>2. ASSUME UNCHANGED <<devIgnored, intIgnored, conditionOn, fwMask, history>>,
             phase # "crashed", WasInactive' = WasInactive, Settled' => Settled,
             phase' \in {"inputs", "evaluate"} \/ history # "no cycle"
      PROVE  MaskInv'
  BY <1>1, <1>2 DEF MaskInv, Masked
<1>3. ASSUME UNCHANGED <<inactive, changed, devIgnored, intIgnored, conditionOn,
                         reload, fwMask, history>>,
             phase = phase' \/ <<phase, phase'>> \in {<<"inputs", "evaluate">>,
                                                      <<"mitigate", "permit">>}
      PROVE  MaskInv'
  <2>1. CASE phase = "crashed"
    BY <1>3, <2>1 DEF MaskInv
  <2>2. CASE phase # "crashed"
    <3>1. WasInactive' = WasInactive /\ (Settled' => Settled)
      BY <1>3, <2>2 DEF WasInactive, Settled, ReloadWanted
    <3>2. phase' \in {"inputs", "evaluate"} \/ history # "no cycle"
      BY <1>3, <2>2 DEF MaskInv
    <3> QED BY <1>2, <1>3, <2>2, <3>1, <3>2
  <2> QED BY <2>1, <2>2
<1>4. CASE InputChange
  <2>1. /\ phase \in {"inputs", "reload"} /\ phase' = phase
        /\ UNCHANGED <<devIgnored, intIgnored, conditionOn, reload, fwMask, history>>
    BY <1>4 DEF InputChange, logicVars, maskVars
  <2>2. WasInactive' = WasInactive
    <3>1. CASE UNCHANGED <<inactive, changed>>
      BY <2>1, <3>1 DEF WasInactive
    <3>2. CASE \E d \in MayGoInactive : /\ inactive' = Toggle(inactive, d)
                                        /\ changed' = Toggle(changed, d)
      BY <2>1, <3>2 DEF WasInactive, Toggle
    <3> QED BY <1>4, <3>1, <3>2 DEF InputChange
  <2>3. phase' \in {"inputs", "evaluate"} \/ history # "no cycle"
    BY <2>1 DEF MaskInv
  <2>4. Settled' => Settled
    BY <2>1 DEF Settled
  <2> QED BY <1>2, <2>1, <2>2, <2>3, <2>4
<1>5. CASE BypassChange \/ OperatorChange
  BY <1>3, <1>5 DEF BypassChange, OperatorChange, cardVars, logicVars, maskVars
<1>6. CASE BeginCycle \/ ReadInput \/ ReadThreshold
  BY <1>3, <1>6 DEF BeginCycle, ReadInput, ReadThreshold, cardVars, logicVars, maskVars
<1>7. CASE EvaluateLogic
  BY <1>7, MaskEvaluated
<1>8. CASE NoClasses
  BY <1>8 DEF NoClasses, MaskInv
<1>9. CASE MitigateOne \/ MitigateEnd \/ BeginDestination
  BY <1>3, <1>9 DEF MitigateOne, MitigateEnd, BeginDestination, cardVars, logicVars,
                    maskVars
<1>10. CASE TestLimit \/ CompareLimit \/ UseLimit
  <2>1. CASE phase' = "crashed"
    BY <2>1 DEF MaskInv
  <2>2. CASE phase' # "crashed"
    <3>1. phase = "permit" /\ phase' \in {"permit", "crashed"}
      BY <1>10, PermitType, PermitPlace
    <3>2. UNCHANGED <<inactive, changed, devIgnored, intIgnored, conditionOn,
                      reload, fwMask, history>>
      BY <1>10 DEF TestLimit, CompareLimit, UseLimit, PermitStep, cardVars, logicVars,
                   maskVars
    <3> QED BY <1>3, <2>2, <3>1, <3>2
  <2> QED BY <2>1, <2>2
<1>11. CASE EndCycle
  <2>1. /\ phase = "permit" /\ changed' = {}
        /\ phase' = IF ReloadWanted THEN "reload" ELSE "inputs"
        /\ UNCHANGED <<inactive, devIgnored, intIgnored, conditionOn, fwMask, history>>
    BY <1>11 DEF EndCycle, cardVars, logicVars, maskVars
  <2>2. WasInactive' = WasInactive
    <3>1. inactive \subseteq Devices
      BY DEF TypeOK
    <3> QED BY <2>1, <3>1 DEF WasInactive
  <2>3. Settled' => Settled
    BY <2>1 DEF Settled
  <2>4. history # "no cycle"
    BY <2>1 DEF MaskInv
  <2> QED BY <1>2, <2>1, <2>2, <2>3, <2>4
<1>12. CASE ReloadConfigFromIgnore \/ ReloadConfig
  <2>1. /\ phase \in {"inputs", "reload"} /\ phase' \in {"inputs", "reload"}
        /\ fwMask' = Masked(devIgnored, intIgnored)
        /\ history' = IF history = "no cycle" THEN history ELSE "reloaded"
        /\ phase' = phase \/ phase' = "inputs"
        /\ UNCHANGED <<inactive, changed, devIgnored, intIgnored, conditionOn>>
    BY <1>12 DEF ReloadConfigFromIgnore, ReloadConfig, WriteMask, cardVars, logicVars
  <2>2. WasInactive' = WasInactive
    BY <2>1 DEF WasInactive
  <2>3. CASE history = "no cycle"
    <3>1. phase = "inputs" /\ Fresh /\ devIgnored = {}
      BY <2>1, <2>3 DEF MaskInv
    <3>2. fwMask' = Masked({}, {})
      BY <2>1, <3>1 DEF Fresh
    <3> QED BY <1>1, <2>1, <2>2, <2>3, <3>1, <3>2 DEF MaskInv, Masked
  <2>4. CASE history # "no cycle"
    BY <1>1, <2>1, <2>2, <2>4 DEF MaskInv, Masked
  <2> QED BY <2>3, <2>4
<1>13. CASE UNCHANGED vars
  BY <1>3, <1>13 DEF vars, cardVars, logicVars, maskVars
<1> QED
  BY <1>4, <1>5, <1>6, <1>7, <1>8, <1>9, <1>10, <1>11, <1>12, <1>13
     DEF Next, EngineNext

(* Between two cycles the firmware masks exactly what the logic ignores,   *)
(* for every set of conditions and of things they ignore and every start   *)
(* of the cards' flags: a cycle that asks for no reload has left every     *)
(* flag as the last reload found it.  Before the first reload nothing is   *)
(* masked, and nothing but inactive cards ignored.                         *)
THEOREM MaskCurrent == Spec => []MaskIsCurrent
<1>1. Init => TypeOK /\ MaskInv
  BY TypeInit DEF Init, MaskInv, Fresh
<1>2. (TypeOK /\ MaskInv) /\ [Next]_vars => (TypeOK /\ MaskInv)'
  BY TypeStep, MaskStep
<1>3. TypeOK /\ MaskInv => MaskIsCurrent
  <2> SUFFICES ASSUME TypeOK, MaskInv, phase = "inputs"
               PROVE  \/ fwMask = Masked(devIgnored, intIgnored)
                      \/ /\ history = "no reload"
                         /\ fwMask = Masked({}, {}) /\ intIgnored = {}
                         /\ devIgnored \cap Analog \subseteq inactive \cup changed
    BY DEF MaskIsCurrent
  <2>1. history \in {"no cycle", "no reload", "reloaded"} /\ Settled
    BY DEF TypeOK, Settled
  <2>2. CASE history = "no cycle"
    BY <2>2 DEF MaskInv, Fresh
  <2>3. CASE history = "no reload"
    <3>1. FlagsInv /\ Fresh /\ fwMask = Masked({}, {})
      BY <2>1, <2>3 DEF MaskInv
    <3>2. \A d \in devIgnored \cap Analog : d \in WasInactive
      BY <3>1 DEF FlagsInv, Fresh, Named
    <3>3. WasInactive \subseteq inactive \cup changed
      BY DEF WasInactive
    <3> QED BY <2>3, <3>1, <3>2, <3>3 DEF Fresh
  <2>4. CASE history = "reloaded"
    BY <2>1, <2>4 DEF MaskInv
  <2> QED BY <2>1, <2>2, <2>3, <2>4
<1> QED
  BY <1>1, <1>2, <1>3, PTL DEF Spec
-----------------------------------------------------------------------------
(* The state a fault shows. *)

FaultOf(k) == StateFault[AllowedClasses[k].state]

(* currState[f] is the state of a reached allowed class among the first n, *)
(* of class lowestSeen[f].                                                 *)
ShownBy(n, f) ==
  \E m \in 1..n : /\ AllowedClasses[m].state = currState[f]
                  /\ Reached(AllowedClasses[m])
                  /\ AllowedClasses[m].class = lowestSeen[f]

SeenUpTo(n) ==
  /\ \A k \in 1..n : Reached(AllowedClasses[k]) =>
                       lowestSeen[FaultOf(k)] <= AllowedClasses[k].class
  /\ \A f \in Faults : lowestSeen[f] # 100 => ShownBy(n, f)

WorstInv ==
  /\ phase = "mitigate" => SeenUpTo(next - 1)
  /\ phase = "permit" => SeenUpTo(Len(AllowedClasses)) /\ worstState = currState

LEMMA WorstStep == TypeOK /\ WorstInv /\ [Next]_vars => WorstInv'
<1> SUFFICES ASSUME TypeOK, WorstInv, [Next]_vars PROVE WorstInv'
  OBVIOUS
<1>1. ASSUME UNCHANGED <<phase, next, currState, lowestSeen, worstState,
                         stateFaulted, stateIgnored, fault>>
      PROVE  WorstInv'
  BY <1>1 DEF WorstInv, SeenUpTo, ShownBy, Reached
<1>2. CASE InputChange \/ BypassChange \/ OperatorChange
  BY <1>1, <1>2 DEF InputChange, BypassChange, OperatorChange, logicVars, loopVars
<1>3. CASE BeginCycle \/ NoClasses
  BY <1>3 DEF BeginCycle, NoClasses, WorstInv
<1>4. CASE ReadInput \/ ReadThreshold \/ BeginDestination
  BY <1>1, <1>4 DEF ReadInput, ReadThreshold, BeginDestination, logicVars, loopVars
<1>5. CASE EvaluateLogic
  <2>1. /\ phase' = "mitigate" /\ next' = 1
        /\ \A f \in Faults : lowestSeen'[f] = 100
    BY <1>5 DEF EvaluateLogic
  <2> QED BY <2>1 DEF WorstInv, SeenUpTo
<1>6. CASE MitigateOne
  <2> DEFINE a == AllowedClasses[next]
             f == FaultOf(next)
  <2>1. /\ phase = "mitigate" /\ phase' = "mitigate"
        /\ next \in 1..Len(AllowedClasses) /\ next' = next + 1
        /\ UNCHANGED <<stateFaulted, stateIgnored, fault>>
    <3>1. next \in 1..(Len(AllowedClasses) + 1)
      BY DEF TypeOK
    <3>2. next <= Len(AllowedClasses) /\ Len(AllowedClasses) \in Nat
      BY <1>6, AllowedAssumption DEF MitigateOne, AllowedAssumption
    <3>3. next \in 1..Len(AllowedClasses)
      BY <3>1, <3>2
    <3> QED BY <1>6, <3>3 DEF MitigateOne, logicVars
  <2>0. /\ lowestSeen \in [Faults -> Nat]
        /\ currState \in [Faults -> States \cup {-1, 0} \cup WorstGarbage]
    BY DEF TypeOK
  <2>2. \A k : Reached(AllowedClasses[k])' <=> Reached(AllowedClasses[k])
    BY <2>1 DEF Reached
  <2>3. /\ a.class \in Nat /\ f \in Faults
        /\ \A k \in 1..Len(AllowedClasses) :
              AllowedClasses[k].class \in Nat /\ FaultOf(k) \in Faults
    BY <2>1, AllowedClassType DEF FaultOf
  <2>4. /\ \A k \in 1..next : k \in 1..(next - 1) \/ k = next
        /\ \A k \in 1..(next - 1) : k \in 1..next /\ k \in 1..Len(AllowedClasses)
        /\ next \in 1..next /\ next' - 1 = next
    BY <2>1
  <2>5. SeenUpTo(next - 1) /\ \A g \in Faults : lowestSeen[g] \in Nat
    BY <2>0, <2>1 DEF WorstInv
  <2>6. /\ \A k \in 1..next : Reached(AllowedClasses[k]) =>
                                lowestSeen'[FaultOf(k)] <= AllowedClasses[k].class
        /\ \A g \in Faults : lowestSeen'[g] # 100 =>
             \E m \in 1..next : /\ AllowedClasses[m].state = currState'[g]
                                /\ Reached(AllowedClasses[m])
                                /\ AllowedClasses[m].class = lowestSeen'[g]
    <3>1. CASE Reached(a) /\ Worse(a)
      <4>1. /\ a.class < lowestSeen[f]
            /\ lowestSeen' = [lowestSeen EXCEPT ![f] = a.class]
            /\ currState' = [currState EXCEPT ![f] = a.state]
        BY <1>6, <3>1 DEF MitigateOne, Worse, FaultOf
      <4>2. /\ lowestSeen'[f] = a.class /\ currState'[f] = a.state
            /\ \A g \in Faults : g # f => /\ lowestSeen'[g] = lowestSeen[g]
                                          /\ currState'[g] = currState[g]
        BY <4>1, <2>0, <2>3
      <4>3. \A g \in Faults : lowestSeen'[g] <= lowestSeen[g]
        BY <4>1, <4>2, <2>3, <2>5
      <4>4. \A k \in 1..next : Reached(AllowedClasses[k]) =>
                                 lowestSeen'[FaultOf(k)] <= AllowedClasses[k].class
        <5> TAKE k \in 1..next
        <5> HAVE Reached(AllowedClasses[k])
        <5>1. CASE k = next
          BY <5>1, <4>2, <2>3
        <5>2. CASE k \in 1..(next - 1)
          <6>1. /\ lowestSeen[FaultOf(k)] <= AllowedClasses[k].class
                /\ FaultOf(k) \in Faults /\ AllowedClasses[k].class \in Nat
            BY <5>2, <2>3, <2>4, <2>5 DEF SeenUpTo
          <6>2. lowestSeen'[FaultOf(k)] \in Nat
            BY <6>1, <4>2, <2>3, <2>5
          <6> QED BY <6>1, <6>2, <4>3, <2>5
        <5> QED BY <5>1, <5>2, <2>4
      <4> QED BY <3>1, <4>2, <4>4, <2>4, <2>5 DEF SeenUpTo, ShownBy
    <3>2. CASE ~(Reached(a) /\ Worse(a))
      <4>1. /\ UNCHANGED <<lowestSeen, currState>>
            /\ Reached(a) => ~(a.class < lowestSeen[f])
        BY <1>6, <3>2 DEF MitigateOne, Worse, FaultOf
      <4>2. Reached(a) => lowestSeen[f] <= a.class
        BY <4>1, <2>3, <2>5
      <4> QED BY <4>1, <4>2, <2>4, <2>5 DEF SeenUpTo, ShownBy
    <3> QED BY <3>1, <3>2
  <2> QED BY <2>1, <2>2, <2>4, <2>6 DEF WorstInv, SeenUpTo, ShownBy
<1>7. CASE MitigateEnd
  <2>0. next \in 1..(Len(AllowedClasses) + 1) /\ Len(AllowedClasses) \in Nat
    <3>1. Len(AllowedClasses) \in Nat
      BY AllowedAssumption DEF AllowedAssumption
    <3>2. next \in 1..(Len(AllowedClasses) + 1)
      BY DEF TypeOK
    <3> QED BY <3>1, <3>2
  <2>1. /\ phase = "mitigate" /\ phase' = "permit"
        /\ next - 1 = Len(AllowedClasses) /\ worstState' = currState
        /\ UNCHANGED <<currState, lowestSeen, stateFaulted, stateIgnored, fault>>
    <3>1. next > Len(AllowedClasses)
      BY <1>7 DEF MitigateEnd
    <3>2. next - 1 = Len(AllowedClasses)
      BY <2>0, <3>1
    <3> QED BY <1>7, <3>2 DEF MitigateEnd, loopVars, logicVars
  <2> QED BY <2>1 DEF WorstInv, SeenUpTo, ShownBy, Reached
<1>8. CASE TestLimit \/ CompareLimit \/ UseLimit
  <2>1. phase = "permit" /\ phase' \in {"permit", "crashed"}
    BY <1>8, PermitType, PermitPlace
  <2>2. UNCHANGED <<next, currState, lowestSeen, worstState,
                    stateFaulted, stateIgnored, fault>>
    BY <1>8 DEF TestLimit, CompareLimit, UseLimit, PermitStep, logicVars, loopVars
  <2> QED BY <1>1, <2>1, <2>2 DEF WorstInv
<1>9. CASE EndCycle \/ ReloadConfigFromIgnore \/ ReloadConfig
  BY <1>9 DEF EndCycle, ReloadConfigFromIgnore, ReloadConfig, WorstInv
<1>10. CASE UNCHANGED vars
  BY <1>1, <1>10 DEF vars, logicVars, loopVars
<1> QED
  BY <1>2, <1>3, <1>4, <1>5, <1>6, <1>7, <1>8, <1>9, <1>10 DEF Next, EngineNext

(* The state a fault shows is its most restrictive one whenever one of its *)
(* states limits the beam, for every database.                             *)
THEOREM WorstShown == Spec => []WorstIsMostRestrictive
<1>1. Init => TypeOK /\ WorstInv
  BY TypeInit DEF Init, WorstInv
<1>2. (TypeOK /\ WorstInv) /\ [Next]_vars => (TypeOK /\ WorstInv)'
  BY TypeStep, WorstStep
<1>3. TypeOK /\ WorstInv => WorstIsMostRestrictive
  <2> SUFFICES ASSUME TypeOK, WorstInv, phase = "permit",
                      NEW n \in DOMAIN AllowedClasses,
                      Reached(AllowedClasses[n]), AllowedClasses[n].class < 100
               PROVE  \E m \in DOMAIN AllowedClasses :
                         /\ AllowedClasses[m].state = worstState[FaultOf(n)]
                         /\ Reached(AllowedClasses[m])
                         /\ AllowedClasses[m].class <= AllowedClasses[n].class
    BY DEF WorstIsMostRestrictive, FaultOf
  <2>1. DOMAIN AllowedClasses = 1..Len(AllowedClasses)
    BY AllowedAssumption DEF AllowedAssumption
  <2>2. /\ AllowedClasses[n].class \in Nat /\ FaultOf(n) \in Faults
    BY <2>1, AllowedClassType DEF FaultOf
  <2>3. /\ lowestSeen[FaultOf(n)] \in Nat
        /\ lowestSeen[FaultOf(n)] <= AllowedClasses[n].class
    <3>1. lowestSeen \in [Faults -> Nat]
      BY DEF TypeOK
    <3> QED BY <2>1, <2>2, <3>1 DEF WorstInv, SeenUpTo
  <2>4. lowestSeen[FaultOf(n)] # 100
    BY <2>2, <2>3
  <2> QED BY <2>1, <2>2, <2>3, <2>4 DEF WorstInv, SeenUpTo, ShownBy
<1> QED
  BY <1>1, <1>2, <1>3, PTL DEF Spec
=============================================================================
