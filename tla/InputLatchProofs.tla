-------------------------- MODULE InputLatchProofs --------------------------
(***************************************************************************)
(* Proofs about InputLatch: that an unlatch spoils one evaluation at most, *)
(* and that a fault is held until it is unlatched.                         *)
(***************************************************************************)
EXTENDS InputLatch, TLAPS

USE DEF Devices, Held

LEMMA FaultType ==
  ASSUME NEW d \in Devices, NEW report \in Reports(d)
  PROVE  report \subseteq Bits(d) /\ Bits(d) \subseteq AnyBits
BY DEF Reports, FaultBits, Bits, AnyBits

(* The end of an update leaves no local behind. *)
LEMMA DoneType ==
  UpdateDone => /\ inDev' = None /\ inStep' = "idle" /\ newValue' = {}
                /\ toLatch' = {} /\ inCopy' = {} /\ toUpdate' = toUpdate \ {inDev}
BY DEF UpdateDone

LEMMA TypeInit == Init => TypeOK
<1> SUFFICES ASSUME Init PROVE TypeOK
  OBVIOUS
<1>1. \A d \in Devices : Initially(d) \subseteq Bits(d) /\ Initially(d) \subseteq AnyBits
  BY KindAssumption DEF Initially, Bits, AnyBits
<1>2. latched \in [Devices -> SUBSET AnyBits] /\ \A d \in Devices : latched[d] \subseteq Bits(d)
  BY <1>1 DEF Init, InitiallyLatched
<1> QED
  BY <1>1, <1>2, NoneAssumption DEF Init, TypeOK

LEMMA TypeStep == TypeOK /\ [Next]_vars => TypeOK'
<1> SUFFICES ASSUME TypeOK, [Next]_vars PROVE TypeOK'
  OBVIOUS
<1> USE NoneAssumption, KindAssumption
<1>1. ASSUME NEW d \in Devices, UpdateBegin(d)
      PROVE  TypeOK'
  <2>1. newValue' \subseteq Bits(d) /\ Bits(d) \subseteq AnyBits
    BY <1>1, FaultType DEF UpdateBegin
  <2>2. /\ inDev' = d /\ inCopy' = inCopy /\ toLatch' = newValue'
        /\ inStep' = IF d \in Analog THEN "begun" ELSE "latch"
        /\ UNCHANGED <<latched, toUpdate, toEvaluate, opVars, seenVars, asked>>
    BY <1>1 DEF UpdateBegin
  <2>3. /\ value' = [value EXCEPT ![d] = ValueAtFirst(d)]
        /\ ValueAtFirst(d) \subseteq Bits(d)
    BY <1>1, <2>1 DEF UpdateBegin, ValueAtFirst
  <2>4. inCopy = {}
    BY <1>1 DEF UpdateBegin, TypeOK
  <2> QED BY <2>1, <2>2, <2>3, <2>4 DEF TypeOK, opVars, seenVars
<1>2. CASE ReadLatched
  BY <1>2 DEF ReadLatched, TypeOK, opVars, seenVars
<1>3. CASE WriteLatched
  <2>1. PICK b \in toLatch : /\ latched' = [latched EXCEPT ![inDev] = inCopy \cup {b}]
                             /\ toLatch' = toLatch \ {b}
    BY <1>3 DEF WriteLatched, WithBit
  <2>2. inDev \in Devices /\ inCopy \cup {b} \subseteq Bits(inDev) \cap AnyBits
    BY <1>3, <2>1 DEF WriteLatched, TypeOK
  <2> QED BY <1>3, <2>1, <2>2 DEF WriteLatched, TypeOK, opVars, seenVars
<1>4. CASE AnalogDone
  <2>1. inDev \in Devices /\ newValue \subseteq Bits(inDev) \cap AnyBits
    BY <1>4 DEF AnalogDone, TypeOK
  <2> QED BY <1>4, <2>1, DoneType DEF AnalogDone, TypeOK, opVars, seenVars
<1>5. CASE DigitalDone
  <2>1. inDev \in Devices /\ Latch(inDev) \subseteq Bits(inDev) \cap AnyBits
    BY <1>5 DEF DigitalDone, TypeOK, Latch
  <2> QED BY <1>5, <2>1, DoneType DEF DigitalDone, TypeOK, opVars, seenVars
<1>6. ASSUME NEW d \in Devices, Evaluate(d)
      PROVE  TypeOK'
  <2>1. wrong' \in [Devices -> Nat]
    BY <1>6 DEF Evaluate, TypeOK
  <2> QED BY <1>6, <2>1 DEF Evaluate, TypeOK, opVars
<1>7. CASE InputProcessed
  BY <1>7 DEF InputProcessed, TypeOK, opVars, seenVars
<1>8. CASE UnlatchAll
  BY <1>8 DEF UnlatchAll, TypeOK, inVars, seenVars
<1>9. ASSUME NEW d \in Devices, UnlatchRead(d)
      PROVE  TypeOK'
  BY <1>9 DEF UnlatchRead, ValueRead, TypeOK, inVars, seenVars
<1>10. ASSUME NEW d \in Analog, NEW mask \in SUBSET Thresholds, UnlatchBits(d, mask)
       PROVE  TypeOK'
  <2>1. UnlatchMask(d, mask) = {}
    BY DEF UnlatchMask
  <2>2. calls' \in Nat /\ unlatched' \in [Devices -> Nat]
    BY <1>10 DEF UnlatchBits, TypeOK
  <2>3. asked' \in [Held -> SUBSET AnyBits]
    BY <1>10 DEF UnlatchBits, TypeOK, AnyBits
  <2>4. /\ latched' \in [Devices -> SUBSET AnyBits]
        /\ \A e \in Devices : latched'[e] \subseteq Bits(e)
    BY <1>10, <2>1 DEF UnlatchBits, TypeOK
  <2> QED BY <1>10, <2>2, <2>3, <2>4 DEF UnlatchBits, TypeOK, inVars, seenVars
<1>11. CASE UnlatchWrite
  <2>1. asked' \in [Held -> SUBSET AnyBits]
    BY <1>11 DEF UnlatchWrite, TypeOK, Bits, AnyBits
  <2> QED BY <1>11, <2>1 DEF UnlatchWrite, TypeOK, inVars, seenVars
<1>12. CASE UNCHANGED vars
  BY <1>12 DEF vars, inVars, opVars, seenVars, TypeOK
<1> QED
  BY <1>1, <1>2, <1>3, <1>4, <1>5, <1>6, <1>7, <1>8, <1>9, <1>10, <1>11, <1>12
  DEF Next, InputNext, EngineNext, OperatorNext

(* Every variable keeps its type; in particular no device latches a bit of *)
(* another.                                                                *)
THEOREM TypeCorrect == Spec => []TypeOK
<1> QED
  BY TypeInit, TypeStep, PTL DEF Spec
-----------------------------------------------------------------------------
(* Wrong evaluations. *)

(* A device that would be evaluated wrongly: a bit already latched in this *)
(* update is gone again, from the word or from the copy the update holds;  *)
(* or the device is updated, not yet evaluated, and wrong.                 *)
Hole(d) ==
  \/ /\ d = inDev /\ d \in Analog
     /\ \/ ~(newValue \ toLatch \subseteq latched[d])
        \/ inStep = "read" /\ ~(newValue \ toLatch \subseteq inCopy)
  \/ d \notin toUpdate /\ d \in toEvaluate /\ Wrong(d)

(* Who makes a hole has unlatched; an evaluation that is wrong uses it up. *)
CountInv ==
  /\ \A d \in Devices : wrong[d] <= unlatched[d]
  /\ \A d \in Devices : Hole(d) => wrong[d] < unlatched[d]

(* Nothing is updated while the engine evaluates. *)
PhaseInv ==
  /\ inDev # None => inDev \in toUpdate
  /\ toUpdate # {} => toEvaluate = Devices
  /\ inStep = "latch" => value[inDev] = newValue

(* A call writes a device at most once. *)
CallInv ==
  \A d \in Devices :
    /\ unlatched[d] <= calls
    /\ d \in opLeft \/ d = opDev => unlatched[d] < calls
    /\ ~(d \in opLeft /\ d = opDev)

WrongInv == CountInv /\ PhaseInv /\ CallInv

LEMMA WrongInit == Init => WrongInv
<1> SUFFICES ASSUME Init PROVE WrongInv
  OBVIOUS
<1> QED
  BY NoneAssumption DEF Init, WrongInv, CountInv, PhaseInv, CallInv, Hole

(* A step after which no more devices have a hole. *)
LEMMA CountKept ==
  ASSUME CountInv, UNCHANGED <<wrong, unlatched>>,
         \A d \in Devices : Hole(d)' => Hole(d)
  PROVE  CountInv'
BY DEF CountInv

LEMMA CountStep == TypeOK /\ WrongInv /\ [Next]_vars => CountInv'
<1> SUFFICES ASSUME TypeOK, WrongInv, [Next]_vars PROVE CountInv'
  OBVIOUS
<1> USE NoneAssumption, KindAssumption
<1>0. CountInv /\ PhaseInv
  BY DEF WrongInv
<1>1. ASSUME NEW d \in Devices, UpdateBegin(d)
      PROVE  CountInv'
  <2>1. /\ inDev = None /\ inDev' = d /\ toLatch' = newValue' /\ d \in toUpdate
        /\ UNCHANGED <<latched, toUpdate, toEvaluate, wrong, unlatched>>
        /\ inStep' # "read"
        /\ \A e \in Devices : e # d => value'[e] = value[e]
    BY <1>1 DEF UpdateBegin, TypeOK, opVars, seenVars
  <2>2. ~Hole(d)'
    BY <2>1 DEF Hole
  <2>3. \A e \in Devices : e # d => (Hole(e)' => Hole(e))
    BY <2>1 DEF Hole, Wrong
  <2> QED BY <1>0, <2>1, <2>2, <2>3, CountKept
<1>2. CASE ReadLatched
  <2>1. /\ UNCHANGED <<value, latched, toUpdate, toEvaluate, inDev, newValue, toLatch,
                       wrong, unlatched>>
        /\ inCopy' = latched[inDev]
    BY <1>2 DEF ReadLatched, opVars, seenVars
  <2> QED BY <1>0, <2>1, CountKept DEF Hole, Wrong
<1>3. CASE WriteLatched
  <2>1. PICK b \in toLatch : /\ latched' = [latched EXCEPT ![inDev] = inCopy \cup {b}]
                             /\ toLatch' = toLatch \ {b}
    BY <1>3 DEF WriteLatched, WithBit
  <2>2. /\ inStep = "read" /\ inStep' = "begun" /\ inDev \in Analog
        /\ UNCHANGED <<value, toUpdate, toEvaluate, inDev, newValue, wrong, unlatched>>
    BY <1>3 DEF WriteLatched, TypeOK, opVars, seenVars
  <2>3. latched'[inDev] = inCopy \cup {b}
        /\ \A e \in Devices : e # inDev => latched'[e] = latched[e]
    BY <2>1, <2>2 DEF TypeOK
  <2>4. inDev \in toUpdate
    BY <1>0, <2>2 DEF PhaseInv
  <2>5. Hole(inDev)' => Hole(inDev)
    BY <2>1, <2>2, <2>3, <2>4 DEF Hole
  <2>6. \A e \in Devices : e # inDev => (Hole(e)' => Hole(e))
    BY <2>2, <2>3 DEF Hole, Wrong
  <2> QED BY <1>0, <2>2, <2>5, <2>6, CountKept
<1>4. CASE AnalogDone
  <2>1. /\ inStep = "begun" /\ toLatch = {} /\ inDev \in Analog /\ inDev' = None
        /\ toUpdate' = toUpdate \ {inDev}
        /\ value' = [value EXCEPT ![inDev] = newValue]
        /\ UNCHANGED <<latched, toEvaluate, wrong, unlatched>>
    BY <1>4, DoneType DEF AnalogDone, TypeOK, opVars, seenVars
  <2>2. value'[inDev] = newValue /\ inDev \notin AutoReset
        /\ \A e \in Devices : e # inDev => value'[e] = value[e]
    BY <2>1 DEF TypeOK
  <2>3. ASSUME NEW e \in Devices, e = inDev
        PROVE  Hole(e)' => Hole(e)
    BY <2>1, <2>2, <2>3 DEF Hole, Wrong
  <2>4. ASSUME NEW e \in Devices, e # inDev
        PROVE  Hole(e)' => Hole(e)
    BY <2>1, <2>2, <2>4 DEF Hole, Wrong
  <2> QED BY <1>0, <2>1, <2>3, <2>4, CountKept
<1>5. CASE DigitalDone
  <2>1. /\ inStep = "latch" /\ inDev \in Digital /\ inDev' = None
        /\ toUpdate' = toUpdate \ {inDev}
        /\ latched' = [latched EXCEPT ![inDev] = Latch(inDev)]
        /\ UNCHANGED <<value, toEvaluate, wrong, unlatched>>
    BY <1>5, DoneType DEF DigitalDone, TypeOK, opVars, seenVars
  <2>2. latched'[inDev] = Latch(inDev) /\ value'[inDev] = newValue
        /\ \A e \in Devices : e # inDev => latched'[e] = latched[e]
    BY <1>0, <2>1 DEF TypeOK, PhaseInv
  <2>3. ASSUME NEW e \in Devices, e = inDev
        PROVE  ~Hole(e)'
    BY <2>1, <2>2, <2>3 DEF Hole, Wrong, Latch
  <2>4. ASSUME NEW e \in Devices, e # inDev
        PROVE  Hole(e)' => Hole(e)
    BY <2>1, <2>2, <2>4 DEF Hole, Wrong
  <2> QED BY <1>0, <2>1, <2>3, <2>4, CountKept
<1>6. ASSUME NEW d \in Devices, Evaluate(d)
      PROVE  CountInv'
  <2>1. /\ toUpdate = {} /\ d \in toEvaluate /\ toEvaluate' = toEvaluate \ {d}
        /\ UNCHANGED <<value, latched, toUpdate, inDev, inStep, newValue, toLatch, inCopy,
                       unlatched>>
        /\ wrong' = [wrong EXCEPT ![d] = IF Wrong(d) THEN @ + 1 ELSE @]
    BY <1>6 DEF Evaluate, opVars
  <2>2. inDev = None
    BY <1>0, <2>1 DEF PhaseInv
  <2>3. /\ wrong'[d] = IF Wrong(d) THEN wrong[d] + 1 ELSE wrong[d]
        /\ \A e \in Devices : e # d => wrong'[e] = wrong[e]
        /\ wrong[d] \in Nat /\ unlatched[d] \in Nat
    BY <2>1 DEF TypeOK
  <2>4. Wrong(d) => Hole(d)
    BY <2>1 DEF Hole
  <2>5. ~Hole(d)' /\ \A e \in Devices : e # d => (Hole(e)' => Hole(e))
    BY <2>1, <2>2 DEF Hole, Wrong
  <2>6. wrong'[d] <= unlatched[d]
    BY <1>0, <2>3, <2>4 DEF CountInv
  <2> QED BY <1>0, <2>1, <2>3, <2>5, <2>6 DEF CountInv
<1>7. CASE InputProcessed
  <2>1. /\ toUpdate' = Devices /\ inDev' = None /\ UNCHANGED <<wrong, unlatched>>
    BY <1>0, <1>7 DEF InputProcessed, PhaseInv, opVars, seenVars
  <2>2. \A e \in Devices : ~Hole(e)'
    BY <2>1 DEF Hole
  <2> QED BY <1>0, <2>1, <2>2, CountKept
<1>8. ASSUME UNCHANGED <<value, latched, inVars, wrong, unlatched>>
      PROVE  CountInv'
  BY <1>0, <1>8, CountKept DEF Hole, Wrong, inVars
<1>9. CASE UnlatchAll \/ UNCHANGED vars
  BY <1>8, <1>9 DEF UnlatchAll, vars, opVars, seenVars
<1>10. ASSUME NEW d \in Devices, UnlatchRead(d)
       PROVE  CountInv'
  BY <1>8, <1>10 DEF UnlatchRead, seenVars
<1>13. ASSUME NEW d \in Devices, NEW bits, UNCHANGED <<value, inVars, wrong>>,
              unlatched' = [unlatched EXCEPT ![d] = @ + 1],
              latched' = [latched EXCEPT ![d] = bits]
       PROVE  CountInv'
  <2>1. /\ unlatched'[d] = unlatched[d] + 1
        /\ wrong[d] \in Nat /\ unlatched[d] \in Nat
        /\ \A e \in Devices : e # d =>
             unlatched'[e] = unlatched[e] /\ latched'[e] = latched[e]
    BY <1>13 DEF TypeOK
  <2>2. wrong'[d] < unlatched'[d]
    BY <1>0, <1>13, <2>1 DEF CountInv
  <2>3. wrong'[d] <= unlatched'[d]
    BY <1>13, <2>1, <2>2
  <2>4. \A e \in Devices : e # d => (Hole(e)' => Hole(e))
    BY <1>13, <2>1 DEF Hole, Wrong, inVars
  <2> QED BY <1>0, <1>13, <2>1, <2>2, <2>3, <2>4 DEF CountInv
<1>11. ASSUME NEW d \in Analog, NEW mask \in SUBSET Thresholds, UnlatchBits(d, mask)
       PROVE  CountInv'
  BY <1>13, <1>11 DEF UnlatchBits, seenVars
<1>12. CASE UnlatchWrite
  <2>1. opDev \in Devices
    BY <1>12 DEF UnlatchWrite, TypeOK
  <2> QED BY <1>13, <1>12, <2>1 DEF UnlatchWrite, seenVars
<1> QED
  BY <1>1, <1>2, <1>3, <1>4, <1>5, <1>6, <1>7, <1>9, <1>10, <1>11, <1>12
  DEF Next, InputNext, EngineNext, OperatorNext

LEMMA PhaseStep == TypeOK /\ WrongInv /\ [Next]_vars => PhaseInv'
<1> SUFFICES ASSUME TypeOK, PhaseInv, [Next]_vars PROVE PhaseInv'
  BY DEF WrongInv
<1> USE NoneAssumption, KindAssumption
<1>1. ASSUME NEW d \in Devices, UpdateBegin(d)
      PROVE  PhaseInv'
  <2>1. /\ inDev' = d /\ d \in toUpdate /\ UNCHANGED <<toUpdate, toEvaluate>>
        /\ value' = [value EXCEPT ![d] = ValueAtFirst(d)]
        /\ inStep' = "latch" => d \notin Analog
    BY <1>1 DEF UpdateBegin
  <2>2. inStep' = "latch" => value'[d] = newValue'
    BY <2>1 DEF ValueAtFirst, TypeOK
  <2> QED BY <2>1, <2>2 DEF PhaseInv
<1>2. CASE ReadLatched \/ WriteLatched
  BY <1>2 DEF ReadLatched, WriteLatched, PhaseInv
<1>3. CASE AnalogDone \/ DigitalDone
  BY <1>3, DoneType DEF AnalogDone, DigitalDone, PhaseInv
<1>4. ASSUME NEW d \in Devices, Evaluate(d)
      PROVE  PhaseInv'
  BY <1>4 DEF Evaluate, PhaseInv
<1>5. CASE InputProcessed
  <2>1. inDev = None /\ inDev' = None /\ inStep' # "latch" /\ toEvaluate' = Devices
    BY <1>5 DEF InputProcessed, PhaseInv, TypeOK
  <2> QED BY <2>1 DEF PhaseInv
<1>6. ASSUME UNCHANGED <<value, inVars>>
      PROVE  PhaseInv'
  BY <1>6 DEF inVars, PhaseInv
<1>7. CASE OperatorNext \/ UNCHANGED vars
  BY <1>6, <1>7 DEF OperatorNext, UnlatchAll, UnlatchWrite, UnlatchRead, UnlatchBits, vars
<1> QED
  BY <1>1, <1>2, <1>3, <1>4, <1>5, <1>7 DEF Next, InputNext, EngineNext

LEMMA CallStep == TypeOK /\ WrongInv /\ [Next]_vars => CallInv'
<1> SUFFICES ASSUME TypeOK, CallInv, [Next]_vars PROVE CallInv'
  BY DEF WrongInv
<1> USE NoneAssumption, KindAssumption
<1>1. \A d \in Devices : unlatched[d] \in Nat /\ calls \in Nat
  BY DEF TypeOK
<1>2. CASE UNCHANGED opVars
  BY <1>2 DEF opVars, CallInv
<1>3. CASE UnlatchAll
  <2>1. calls' = calls + 1 /\ opDev' = None /\ UNCHANGED unlatched
    BY <1>3 DEF UnlatchAll
  <2> QED BY <1>1, <2>1 DEF CallInv
<1>4. ASSUME NEW d \in Devices, UnlatchRead(d)
      PROVE  CallInv'
  <2>1. /\ d \in opLeft /\ opDev' = d /\ opLeft' = opLeft \ {d}
        /\ UNCHANGED <<calls, unlatched>>
    BY <1>4 DEF UnlatchRead
  <2> QED BY <2>1 DEF CallInv
<1>5. ASSUME NEW d \in Analog, NEW mask \in SUBSET Thresholds, UnlatchBits(d, mask)
      PROVE  CallInv'
  <2>1. /\ calls' = calls + 1 /\ opLeft' = {} /\ opDev' = None
        /\ unlatched' = [unlatched EXCEPT ![d] = @ + 1]
    BY <1>5 DEF UnlatchBits
  <2>2. \A e \in Devices : unlatched'[e] \in {unlatched[e], unlatched[e] + 1}
    BY <2>1 DEF TypeOK
  <2> QED BY <1>1, <2>1, <2>2 DEF CallInv
<1>6. CASE UnlatchWrite
  <2>1. /\ opDev \in Devices /\ opDev' = None /\ UNCHANGED <<opLeft, calls>>
        /\ unlatched' = [unlatched EXCEPT ![opDev] = @ + 1]
    BY <1>6 DEF UnlatchWrite, TypeOK
  <2>2. /\ unlatched'[opDev] = unlatched[opDev] + 1
        /\ \A e \in Devices : e # opDev => unlatched'[e] = unlatched[e]
    BY <2>1 DEF TypeOK
  <2> QED BY <1>1, <2>1, <2>2 DEF CallInv
<1>7. CASE InputNext
  BY <1>2, <1>7 DEF InputNext, UpdateBegin, ReadLatched, WriteLatched, AnalogDone, DigitalDone
<1>8. CASE EngineNext
  BY <1>2, <1>8 DEF EngineNext, InputProcessed, Evaluate
<1>9. CASE UNCHANGED vars
  BY <1>2, <1>9 DEF vars
<1> QED
  BY <1>3, <1>4, <1>5, <1>6, <1>7, <1>8, <1>9 DEF Next, OperatorNext

(* An unlatch makes one evaluation of a device wrong at most, wherever it  *)
(* falls between the steps of the update.                                  *)
THEOREM WrongOnce == Spec => []WrongOncePerCall
<1>1. Init => TypeOK /\ WrongInv
  BY TypeInit, WrongInit
<1>2. (TypeOK /\ WrongInv) /\ [Next]_vars => (TypeOK /\ WrongInv)'
  BY TypeStep, CountStep, PhaseStep, CallStep DEF WrongInv
<1>3. WrongInv => WrongOncePerCall
  BY DEF WrongInv, CountInv, CallInv, WrongOncePerCall
<1> QED
  BY <1>1, <1>2, <1>3, PTL DEF Spec
-----------------------------------------------------------------------------
(* Faults are held. *)

(* What was evaluated is latched still, and in the copy of an update.      *)
HeldInv ==
  \A d \in Held : asked[d] = {} =>
    /\ evaluated[d] \subseteq latched[d]
    /\ d = inDev /\ inStep = "read" => evaluated[d] \subseteq inCopy

LEMMA HeldInit == Init => HeldInv
BY DEF Init, HeldInv

(* An update only adds to what is latched. *)
LEMMA HeldKept ==
  ASSUME HeldInv, UNCHANGED <<evaluated, asked>>, inStep' # "read",
         \A d \in Held : latched[d] \subseteq latched'[d]
  PROVE  HeldInv'
BY DEF HeldInv

LEMMA HeldStep == TypeOK /\ WrongInv /\ HeldInv /\ [Next]_vars => HeldInv'
<1> SUFFICES ASSUME TypeOK, WrongInv, HeldInv, [Next]_vars PROVE HeldInv'
  OBVIOUS
<1> USE NoneAssumption, KindAssumption
<1>1. ASSUME NEW d \in Devices, UpdateBegin(d)
      PROVE  HeldInv'
  BY <1>1, HeldKept DEF UpdateBegin, seenVars
<1>2. CASE ReadLatched
  BY <1>2 DEF ReadLatched, HeldInv, seenVars
<1>3. CASE WriteLatched
  <2>1. PICK b \in toLatch : latched' = [latched EXCEPT ![inDev] = inCopy \cup {b}]
    BY <1>3 DEF WriteLatched, WithBit
  <2>2. /\ inStep = "read" /\ inStep' = "begun" /\ inDev \in Devices
        /\ UNCHANGED <<evaluated, asked>>
    BY <1>3 DEF WriteLatched, TypeOK, seenVars
  <2>3. latched'[inDev] = inCopy \cup {b}
        /\ \A e \in Devices : e # inDev => latched'[e] = latched[e]
    BY <2>1, <2>2 DEF TypeOK
  <2> QED BY <2>2, <2>3 DEF HeldInv
<1>4. CASE AnalogDone
  BY <1>4, DoneType, HeldKept DEF AnalogDone, seenVars
<1>5. CASE DigitalDone
  <2>1. /\ inDev \in Digital /\ inStep' = "idle" /\ UNCHANGED <<evaluated, asked>>
        /\ latched' = [latched EXCEPT ![inDev] = Latch(inDev)]
    BY <1>5, DoneType DEF DigitalDone, TypeOK, seenVars
  <2>2. inDev \in Held => latched[inDev] \subseteq Latch(inDev)
    BY <2>1 DEF Latch, TypeOK, Bits
  <2>3. \A d \in Held : latched[d] \subseteq latched'[d]
    BY <2>1, <2>2 DEF TypeOK
  <2> QED BY <2>1, <2>3, HeldKept
<1>6. ASSUME NEW d \in Devices, Evaluate(d)
      PROVE  HeldInv'
  <2>1. /\ inStep' # "read" /\ latched' = latched
        /\ asked' = [e \in Held |-> IF e = d THEN {} ELSE asked[e]]
        /\ evaluated' = [e \in Held |-> IF e = d THEN latched[d] ELSE evaluated[e]]
    BY <1>6 DEF Evaluate, WrongInv, PhaseInv, TypeOK
  <2> QED BY <2>1 DEF HeldInv
<1>7. CASE InputProcessed \/ UnlatchAll \/ UNCHANGED vars
  BY <1>7 DEF InputProcessed, UnlatchAll, inVars, seenVars, vars, HeldInv
<1>8. ASSUME NEW d \in Devices, UnlatchRead(d)
      PROVE  HeldInv'
  BY <1>8 DEF UnlatchRead, inVars, seenVars, HeldInv
<1>9. ASSUME NEW d \in Analog, NEW mask \in SUBSET Thresholds, UnlatchBits(d, mask)
      PROVE  HeldInv'
  <2>1. /\ latched' = [latched EXCEPT ![d] = UnlatchMask(d, mask)] /\ mask # {}
        /\ asked' = [asked EXCEPT ![d] = @ \cup mask]
        /\ UNCHANGED <<evaluated, inDev, inStep, inCopy>>
    BY <1>9 DEF UnlatchBits, inVars, seenVars
  <2>2. ASSUME NEW e \in Held, asked'[e] = {}
        PROVE  e # d /\ latched'[e] = latched[e] /\ asked[e] = {}
    BY <2>1, <2>2 DEF TypeOK
  <2> QED BY <2>1, <2>2 DEF HeldInv
<1>10. CASE UnlatchWrite
  <2>1. /\ latched' = [latched EXCEPT ![opDev] = opCopy] /\ opDev \in Devices
        /\ asked' = [e \in Held |-> IF e = opDev THEN Bits(e) ELSE asked[e]]
        /\ UNCHANGED <<evaluated, inDev, inStep, inCopy>>
    BY <1>10 DEF UnlatchWrite, TypeOK, inVars, seenVars
  <2>2. ASSUME NEW e \in Held, asked'[e] = {}
        PROVE  \/ e # opDev /\ latched'[e] = latched[e] /\ asked[e] = {}
               \/ evaluated[e] = {}
    BY <2>1, <2>2 DEF TypeOK
  <2> QED BY <2>1, <2>2 DEF HeldInv
<1> QED
  BY <1>1, <1>2, <1>3, <1>4, <1>5, <1>6, <1>7, <1>8, <1>9, <1>10
  DEF Next, InputNext, EngineNext, OperatorNext

(* A fault the engine has evaluated is evaluated in every cycle while the  *)
(* operator unlatches nothing of its device.                               *)
THEOREM FaultsHeld == Spec => HeldUntilUnlatched
<1>1. Init => TypeOK /\ WrongInv /\ HeldInv
  BY TypeInit, WrongInit, HeldInit
<1>2. (TypeOK /\ WrongInv /\ HeldInv) /\ [Next]_vars => (TypeOK /\ WrongInv /\ HeldInv)'
  BY TypeStep, CountStep, PhaseStep, CallStep, HeldStep DEF WrongInv
<1>3. HeldInv /\ [Next]_vars =>
        [\A d \in Held :
           Evaluate(d) /\ asked[d] = {} => evaluated[d] \subseteq evaluated'[d]]_vars
  <2> SUFFICES ASSUME HeldInv, NEW d \in Held, Evaluate(d), asked[d] = {}
               PROVE  evaluated[d] \subseteq evaluated'[d]
    OBVIOUS
  <2> QED BY DEF HeldInv, Evaluate
<1> QED
  BY <1>1, <1>2, <1>3, PTL DEF Spec, HeldUntilUnlatched
=============================================================================
