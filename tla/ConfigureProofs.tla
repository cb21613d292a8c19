--------------------------- MODULE ConfigureProofs ---------------------------
(***************************************************************************)
(* Proofs about Configure: the loop over the fault inputs gives every      *)
(* threshold of an analog device the lowest class of those its faults      *)
(* demand, and leaves no configured fault to nobody, for every database.   *)
(***************************************************************************)
EXTENDS Configure, WellFoundedInduction, FiniteSetTheorems, TLAPS

(* Of numbers there is a lowest one. *)
LEMMA LowestIsLeast ==
  ASSUME NEW A \in SUBSET Nat, A # {}
  PROVE  Lowest(A) \in A /\ \A k \in A : Lowest(A) <= k
<1>1. PICK n \in A : \A k \in A : ~(<<k, n>> \in OpToRel(<, Nat))
  BY NatLessThanWellFounded, WFMin, Zenon
<1>2. ASSUME NEW k \in A PROVE ~(k < n)
  BY <1>1, Zenon DEF OpToRel
<1>3. \A k \in A : n <= k
  BY <1>2
<1> QED BY <1>3 DEF Lowest

LEMMA LowestUnique ==
  ASSUME NEW A \in SUBSET Nat, NEW n \in A, \A k \in A : n <= k
  PROVE  Lowest(A) = n
<1>1. Lowest(A) \in A /\ \A k \in A : Lowest(A) <= k
  BY LowestIsLeast
<1>2. Lowest(A) \in Nat /\ n \in Nat /\ Lowest(A) <= n /\ n <= Lowest(A)
  BY <1>1
<1> QED BY <1>2

(* The lowest of some numbers and the lowest of others is the lowest of all. *)
LEMMA LowestOfUnion ==
  ASSUME NEW A \in SUBSET Nat, A # {}, NEW B \in SUBSET Nat, B # {}
  PROVE  Lowest(A \cup {Lowest(B)}) = Lowest(B \cup A)
<1> DEFINE n == Lowest(A \cup {Lowest(B)})
<1>1. Lowest(B) \in B /\ \A k \in B : Lowest(B) <= k
  BY LowestIsLeast
<1>2. A \cup {Lowest(B)} \in SUBSET Nat /\ A \cup {Lowest(B)} # {}
  BY <1>1
<1>3. n \in A \cup {Lowest(B)} /\ \A k \in A \cup {Lowest(B)} : n <= k
  BY <1>2, LowestIsLeast
<1> HIDE DEF n
<1>4. n \in B \cup A
  BY <1>1, <1>3
<1>5. ASSUME NEW k \in B \cup A PROVE n <= k
  <2>1. n <= Lowest(B) /\ n \in Nat /\ Lowest(B) \in Nat
    BY <1>1, <1>3
  <2>2. CASE k \in A
    BY <1>3, <2>2
  <2>3. CASE k \in B
    <3>1. Lowest(B) <= k /\ k \in Nat
      BY <1>1, <2>3
    <3> QED BY <2>1, <3>1
  <2> QED BY <2>2, <2>3
<1> QED BY <1>4, <1>5, LowestUnique DEF n

(* What the tables demand, in their types. *)
LEMMA DemandTypes ==
  ASSUME TypeOK
  PROVE  /\ \A s \in States : Numbers(s) \subseteq Classes /\ Masks(s) \subseteq Destinations
         /\ \A s \in States : demand[s] # {} => Numbers(s) # {}
         /\ \A f, b : NumbersAt(f, b) \subseteq Classes
         /\ Classes \subseteq Nat
<1>1. \A s \in States : demand[s] \subseteq AllowedClasses
  BY DemandAssumption DEF TypeOK
<1>2. \A s \in States : Numbers(s) \subseteq Classes /\ Masks(s) \subseteq Destinations
  BY <1>1 DEF Numbers, Masks, AllowedClasses
<1>3. \A s \in States : demand[s] # {} => Numbers(s) # {}
  BY DEF Numbers
<1>4. \A f, b : NumbersAt(f, b) \subseteq Classes
  BY <1>2 DEF NumbersAt, StatesOf
<1> QED BY <1>2, <1>3, <1>4 DEF Classes
-----------------------------------------------------------------------------
LEMMA AnalogStep ==
  ASSUME TypeOK, NEW d \in Analog, NEW f, ConfigureAnalog(d, f)
  PROVE  /\ fastDestinationMask' \in [Analog -> [Integrators -> SUBSET Destinations]]
         /\ fastPowerClass' \in [Analog -> [Bits -> Classes]]
         /\ fastPowerClassInit' \in [Analog -> SUBSET Bits]
<1>1. \A i \in Integrators : MaskWith(d, f, i) \subseteq Destinations
  BY DemandTypes DEF MaskWith, StatesOf, TypeOK
<1>2. fastDestinationMask' \in [Analog -> [Integrators -> SUBSET Destinations]]
  BY <1>1 DEF ConfigureAnalog, TypeOK
<1>3. ASSUME NEW b \in Bits, NumbersAt(f, b) # {}
      PROVE  Lowest(NumbersAt(f, b) \cup ClassOf(d, b)) \in Classes
  <2>1. NumbersAt(f, b) \cup ClassOf(d, b) \subseteq Classes
    <3>1. fastPowerClass[d][b] \in Classes
      BY DEF TypeOK
    <3> QED BY <3>1, DemandTypes DEF ClassOf
  <2> QED BY <1>3, <2>1, DemandTypes, LowestIsLeast
<1>4. fastPowerClass' \in [Analog -> [Bits -> Classes]]
  BY <1>3 DEF ConfigureAnalog, TypeOK
<1>5. fastPowerClassInit' \in [Analog -> SUBSET Bits]
  BY DEF ConfigureAnalog, TypeOK
<1> QED BY <1>2, <1>4, <1>5

LEMMA DigitalStep ==
  ASSUME TypeOK, NEW d \in Digital, NEW f, ~DigitalRefused(f), ConfigureDigital(d, f)
  PROVE  digitalRule' \in [Digital -> Rules \cup Garbage]
<1>1. ASSUME NEW s \in StatesOf(f)
      PROVE  [mask |-> Masks(s), class |-> Lowest(Numbers(s) \cup {100}),
              expected |-> Expected(s)] \in Rules
  <2>1. s \in States /\ demand[s] # {}
    BY <1>1 DEF StatesOf, DigitalRefused
  <2>2. PICK n \in Numbers(s) : TRUE
    BY <2>1, DemandTypes
  <2>3. Numbers(s) \subseteq Classes /\ Numbers(s) \subseteq Nat /\ Masks(s) \subseteq Destinations
    BY <2>1, DemandTypes
  <2>4. n \in Nat /\ n <= 99
    BY <2>2, <2>3, SizeAssumption DEF Classes
  <2>5. /\ Lowest(Numbers(s) \cup {100}) \in Numbers(s) \cup {100}
        /\ Lowest(Numbers(s) \cup {100}) <= n
    BY <2>2, <2>3, LowestIsLeast
  <2>6. Lowest(Numbers(s) \cup {100}) \in Classes
    BY <2>3, <2>4, <2>5
  <2> QED BY <2>3, <2>6 DEF Rules, Expected
<1> QED BY <1>1 DEF ConfigureDigital, TypeOK

LEMMA TypeStep == TypeOK /\ [Next]_vars => TypeOK'
<1> SUFFICES ASSUME TypeOK, [Next]_vars PROVE TypeOK'
  OBVIOUS
<1>1. CASE ConfigureFaultStates
  BY <1>1 DEF ConfigureFaultStates, Fail, TypeOK, tables, analogRules
<1>2. CASE ConfigureFaultInput
  <2> DEFINE d == inputDevice[next]
             f == inputFault[next]
  <2>1. CASE Fail
    BY <2>1 DEF Fail, TypeOK, tables, analogRules
  <2>2. CASE ~Fail
    <3>1. /\ ~InputRefused(d, f) /\ next <= NumInputs /\ next' = next + 1
          /\ UNCHANGED <<tables, evaluation, step>>
          /\ \/ d \in Fast \cap Analog /\ ConfigureAnalog(d, f)
             \/ d \in Fast \cap Digital /\ ConfigureDigital(d, f)
             \/ d \notin Fast /\ UNCHANGED <<analogRules, digitalRule>>
      BY <1>2, <2>2 DEF ConfigureFaultInput
    <3>2. next' \in 1..(NumInputs + 1)
      <4>1. NumInputs \in Nat /\ next \in 1..(NumInputs + 1)
        BY SizeAssumption DEF TypeOK
      <4> QED BY <3>1, <4>1
    <3>3. /\ fastDestinationMask' \in [Analog -> [Integrators -> SUBSET Destinations]]
          /\ fastPowerClass' \in [Analog -> [Bits -> Classes]]
          /\ fastPowerClassInit' \in [Analog -> SUBSET Bits]
          /\ digitalRule' \in [Digital -> Rules \cup Garbage]
      <4>1. CASE d \in Fast \cap Analog /\ ConfigureAnalog(d, f)
        BY <4>1, AnalogStep DEF ConfigureAnalog, TypeOK
      <4>2. CASE d \in Fast \cap Digital /\ ConfigureDigital(d, f)
        <5>1. ~DigitalRefused(f)
          BY <3>1, <4>2 DEF InputRefused
        <5> QED BY <4>2, <5>1, DigitalStep DEF ConfigureDigital, TypeOK, analogRules
      <4>3. CASE d \notin Fast /\ UNCHANGED <<analogRules, digitalRule>>
        BY <4>3 DEF TypeOK, analogRules
      <4> QED BY <3>1, <4>1, <4>2, <4>3
    <3> QED BY <3>1, <3>2, <3>3 DEF TypeOK, tables
  <2> QED BY <2>1, <2>2
<1>3. CASE AssignFaultInputs
  BY <1>3 DEF AssignFaultInputs, Fail, TypeOK, tables, analogRules
<1>4. CASE AssignEvaluation
  BY <1>4 DEF AssignEvaluation, Fail, TypeOK, tables, analogRules
<1>5. CASE UNCHANGED vars
  BY <1>5 DEF vars, TypeOK, tables, analogRules
<1> QED BY <1>1, <1>2, <1>3, <1>4, <1>5 DEF Next

LEMMA TypeInit == Init => TypeOK
<1> SUFFICES ASSUME Init PROVE TypeOK
  OBVIOUS
<1>1. 0 \in Classes
  BY SizeAssumption DEF Classes
<1>2. digitalRule \in [Digital -> Rules \cup Garbage]
  BY DEF Init
<1>3. fastPowerClass \in [Analog -> [Bits -> Classes]]
  BY <1>1 DEF Init
<1>4. next \in 1..(NumInputs + 1)
  <2>1. NumInputs \in Nat /\ next = 1
    BY SizeAssumption DEF Init
  <2> QED BY <2>1
<1> QED BY <1>2, <1>3, <1>4 DEF Init, TypeOK

(* The rules have their types at every point of configure; the firmware is *)
(* never given the class 100 that stands for "no class yet".               *)
THEOREM TypeCorrect == Spec => []TypeOK
<1> QED BY TypeInit, TypeStep, PTL DEF Spec
-----------------------------------------------------------------------------
(* The invariant of the loop over the fault inputs: the class of a         *)
(* threshold is the lowest of those demanded by the inputs before next,    *)
(* and fastPowerClassInit tells whether there is any.                      *)
DemandedBefore(d, b) ==
  UNION {NumbersAt(inputFault[i], b) : i \in {j \in Inputs : j < next /\ inputDevice[j] = d}}

LoopInv ==
  \A d \in Analog, b \in Bits : d \in Fast =>
    /\ b \in fastPowerClassInit[d] <=> DemandedBefore(d, b) = {}
    /\ DemandedBefore(d, b) # {} => fastPowerClass[d][b] = Lowest(DemandedBefore(d, b))

AfterLoop == step \in {"evaluation", "done"} => next = NumInputs + 1

IInv == TypeOK /\ LoopInv /\ AfterLoop

(* The demands are read from the tables, which configure leaves alone. *)
LEMMA SameTables ==
  ASSUME UNCHANGED tables
  PROVE  \A f, b : NumbersAt(f, b)' = NumbersAt(f, b)
BY DEF tables, NumbersAt, StatesOf, Numbers, Threshold, Lowest

LEMMA SameDemand ==
  ASSUME UNCHANGED <<tables, next>>
  PROVE  \A d, b : DemandedBefore(d, b)' = DemandedBefore(d, b)
<1>1. \A f, b : NumbersAt(f, b)' = NumbersAt(f, b)
  BY SameTables
<1> QED BY <1>1 DEF DemandedBefore, tables

(* One turn of the loop adds what the input's fault demands. *)
LEMMA MoreDemand ==
  ASSUME TypeOK, UNCHANGED tables, next <= NumInputs, next' = next + 1, NEW d, NEW b
  PROVE  DemandedBefore(d, b)' =
           IF inputDevice[next] = d
             THEN DemandedBefore(d, b) \cup NumbersAt(inputFault[next], b)
             ELSE DemandedBefore(d, b)
<1> DEFINE earlier == {j \in Inputs : j < next /\ inputDevice[j] = d}
           turn == {j \in Inputs : j < next + 1 /\ inputDevice[j] = d}
<1>1. NumInputs \in Nat /\ next \in Inputs
  <2>1. NumInputs \in Nat /\ next \in 1..(NumInputs + 1)
    BY SizeAssumption DEF TypeOK
  <2> QED BY <2>1 DEF Inputs
<1>2. turn = IF inputDevice[next] = d THEN earlier \cup {next} ELSE earlier
  <2>1. \A j \in Inputs : j < next + 1 <=> (j < next \/ j = next)
    BY <1>1 DEF Inputs
  <2> QED BY <1>1, <2>1
<1>3. \A f, c : NumbersAt(f, c)' = NumbersAt(f, c)
  BY SameTables
<1>4. DemandedBefore(d, b)' = UNION {NumbersAt(inputFault[i], b) : i \in turn}
  BY <1>3 DEF DemandedBefore, tables
<1> HIDE DEF turn
<1> QED BY <1>2, <1>4 DEF DemandedBefore

LEMMA AnalogLoop ==
  ASSUME IInv, UNCHANGED tables, next <= NumInputs, next' = next + 1,
         inputDevice[next] \in Fast \cap Analog,
         ConfigureAnalog(inputDevice[next], inputFault[next])
  PROVE  LoopInv'
<1> DEFINE d == inputDevice[next]
           f == inputFault[next]
<1> SUFFICES ASSUME NEW e \in Analog, NEW b \in Bits, e \in Fast
    PROVE  /\ b \in fastPowerClassInit'[e] <=> DemandedBefore(e, b)' = {}
           /\ DemandedBefore(e, b)' # {} =>
                fastPowerClass'[e][b] = Lowest(DemandedBefore(e, b)')
  BY DEF LoopInv, Lowest
<1> DEFINE old == DemandedBefore(e, b)
           new == NumbersAt(f, b)
<1>0. /\ b \in fastPowerClassInit[e] <=> old = {}
      /\ old # {} => fastPowerClass[e][b] = Lowest(old)
  BY DEF IInv, LoopInv
<1>1. new \in SUBSET Nat /\ old \in SUBSET Nat
  BY DemandTypes DEF DemandedBefore, IInv
<1>2. DemandedBefore(e, b)' = IF d = e THEN old \cup new ELSE old
  BY MoreDemand DEF IInv
<1> HIDE DEF old, new
<1>3. CASE d # e
  <2>1. fastPowerClassInit'[e] = fastPowerClassInit[e] /\ fastPowerClass'[e] = fastPowerClass[e]
    BY <1>3 DEF ConfigureAnalog, IInv, TypeOK
  <2> QED BY <1>0, <1>2, <1>3, <2>1
<1>4. CASE d = e
  <2>1. /\ b \in fastPowerClassInit'[e] <=> b \in fastPowerClassInit[e] /\ new = {}
        /\ fastPowerClass'[e][b] =
             IF new = {} THEN fastPowerClass[e][b] ELSE Lowest(new \cup ClassOf(e, b))
    BY <1>4 DEF ConfigureAnalog, IInv, TypeOK, new
  <2>2. CASE new = {}
    BY <1>0, <1>2, <1>4, <2>1, <2>2
  <2>3. CASE new # {} /\ old = {}
    BY <1>0, <1>2, <1>4, <2>1, <2>3 DEF ClassOf
  <2>4. CASE new # {} /\ old # {}
    <3>1. fastPowerClass'[e][b] = Lowest(new \cup {Lowest(old)})
      BY <1>0, <2>1, <2>4 DEF ClassOf
    <3>2. Lowest(new \cup {Lowest(old)}) = Lowest(old \cup new)
      BY <1>1, <2>4, LowestOfUnion
    <3> QED BY <1>0, <1>2, <1>4, <2>1, <2>4, <3>1, <3>2
  <2> QED BY <2>2, <2>3, <2>4
<1> QED BY <1>3, <1>4

LEMMA LoopStep == IInv /\ [Next]_vars => IInv'
<1> SUFFICES ASSUME IInv, [Next]_vars PROVE IInv'
  OBVIOUS
<1>1. TypeOK'
  BY TypeStep DEF IInv
(* A step that leaves the rules and the loop variable alone. *)
<1>2. ASSUME UNCHANGED <<tables, analogRules, next>> PROVE LoopInv'
  BY <1>2, SameDemand DEF LoopInv, IInv, analogRules, Lowest
<1>3. CASE Fail
  BY <1>1, <1>2, <1>3 DEF Fail, IInv, AfterLoop
<1>4. CASE ConfigureFaultStates /\ ~Fail
  BY <1>1, <1>2, <1>4 DEF ConfigureFaultStates, IInv, AfterLoop
<1>5. CASE ConfigureFaultInput /\ ~Fail
  <2> DEFINE d == inputDevice[next]
             f == inputFault[next]
  <2>1. /\ next <= NumInputs /\ next' = next + 1 /\ step = "fault inputs"
        /\ UNCHANGED <<tables, evaluation, step>>
        /\ \/ d \in Fast \cap Analog /\ ConfigureAnalog(d, f)
           \/ d \in Fast \cap Digital /\ ConfigureDigital(d, f)
           \/ d \notin Fast /\ UNCHANGED <<analogRules, digitalRule>>
    BY <1>5 DEF ConfigureFaultInput
  <2>2. AfterLoop'
    BY <2>1 DEF AfterLoop
  <2>3. CASE d \in Fast \cap Analog /\ ConfigureAnalog(d, f)
    BY <1>1, <2>1, <2>2, <2>3, AnalogLoop DEF IInv
  <2>4. CASE d \notin Fast \cap Analog /\ UNCHANGED analogRules
    <3>1. ASSUME NEW e \in Analog, NEW b \in Bits, e \in Fast
          PROVE  DemandedBefore(e, b)' = DemandedBefore(e, b)
      BY <2>1, <2>4, <3>1, MoreDemand DEF IInv
    <3>2. LoopInv'
      BY <2>4, <3>1 DEF LoopInv, IInv, analogRules, Lowest
    <3> QED BY <1>1, <2>2, <3>2 DEF IInv
  <2>5. d \in Fast \cap Digital => d \notin Analog
    BY DeviceAssumption
  <2> QED BY <2>1, <2>3, <2>4, <2>5 DEF ConfigureDigital
<1>6. CASE AssignFaultInputs /\ ~Fail
  <2>1. next > NumInputs /\ next' = next
    BY <1>6 DEF AssignFaultInputs
  <2>2. NumInputs \in Nat /\ next \in 1..(NumInputs + 1)
    BY SizeAssumption DEF IInv, TypeOK
  <2>3. AfterLoop'
    BY <2>1, <2>2 DEF AfterLoop
  <2> QED BY <1>1, <1>2, <1>6, <2>3 DEF AssignFaultInputs, IInv
<1>7. CASE AssignEvaluation /\ ~Fail
  BY <1>1, <1>2, <1>7 DEF AssignEvaluation, IInv, AfterLoop
<1>8. CASE UNCHANGED vars
  BY <1>1, <1>2, <1>8 DEF vars, IInv, AfterLoop
<1> QED BY <1>3, <1>4, <1>5, <1>6, <1>7, <1>8 DEF Next

LEMMA LoopInit == Init => IInv
<1> SUFFICES ASSUME Init PROVE IInv
  OBVIOUS
<1>1. TypeOK
  BY TypeInit
<1>2. ASSUME NEW d, NEW b PROVE DemandedBefore(d, b) = {}
  <2>1. NumInputs \in Nat /\ next = 1
    BY SizeAssumption DEF Init
  <2>2. \A j \in Inputs : ~(j < next)
    BY <2>1 DEF Inputs
  <2> QED BY <2>2 DEF DemandedBefore
<1>3. LoopInv
  BY <1>2 DEF LoopInv, Init
<1> QED BY <1>1, <1>3 DEF IInv, AfterLoop, Init

(* "The power class for the destination mask 0x03 is power class 0 (the    *)
(* lowest)": once configure is done, a threshold of an analog device that  *)
(* the firmware evaluates has the lowest of the classes its faults demand, *)
(* whatever the order of the fault inputs.                                 *)
THEOREM LowestClass == Spec => []ClassIsLowest
<1>1. IInv => ClassIsLowest
  <2> SUFFICES ASSUME IInv, step = "done", NEW d \in Fast \cap Analog, NEW b \in Bits,
                      DemandedAt(d, b) # {}
               PROVE  fastPowerClass[d][b] = Lowest(DemandedAt(d, b))
    BY DEF ClassIsLowest
  <2>1. next = NumInputs + 1 /\ NumInputs \in Nat
    BY SizeAssumption DEF IInv, AfterLoop
  <2>2. \A j \in Inputs : j < next
    BY <2>1 DEF Inputs
  <2>3. DemandedAt(d, b) = DemandedBefore(d, b)
    BY <2>2 DEF DemandedAt, DemandedBefore
  <2> QED BY <2>3 DEF IInv, LoopInv
<1> QED BY <1>1, LoopInit, LoopStep, PTL DEF Spec
-----------------------------------------------------------------------------
(* The second invariant of the loop: what the firmware was told for the    *)
(* inputs before next covers the states of their faults.                   *)

MaskCovers(d, s) ==
  \A b \in stateValue[s] : Masks(s) \subseteq fastDestinationMask[d][b \div NumThresholds]

RuleGiven(i) ==
  \/ inputDevice[i] \in Digital /\ Overwritten(i)
  \/ \A s \in StatesOf(inputFault[i]) :
       IF inputDevice[i] \in Analog THEN MaskCovers(inputDevice[i], s)
                                   ELSE DigitalCovers(inputDevice[i], s)

RulesInv == \A i \in Inputs : i < next /\ inputDevice[i] \in Fast => RuleGiven(i)

EvaluationInv ==
  step = "done" => \A f \in Faults : evaluation[f] = "slow" \/ ~SlowEvaluation(f)

HandledInv == IInv /\ RulesInv /\ EvaluationInv

(* A threshold bit belongs to one of the integrators. *)
LEMMA BitOfIntegrator ==
  ASSUME NEW b \in Bits
  PROVE  b \div NumThresholds \in Integrators
<1> DEFINE T == NumThresholds
           I == NumIntegrators
           q == b \div T
<1>1. T \in Nat /\ T > 0 /\ I \in Nat /\ I > 0
  BY SizeAssumption
<1>2. b \in Nat /\ b < T * I
  <2>1. T * I \in Nat
    BY <1>1
  <2> QED BY <2>1 DEF Bits
<1>3. q \in Nat /\ T * q <= b
  BY <1>1, <1>2
<1> HIDE DEF q
<1>4. ~(q >= I)
  <2> SUFFICES ASSUME q >= I PROVE FALSE
    OBVIOUS
  <2>1. T * q >= T * I
    BY <1>1, <1>3
  <2>2. T * q \in Nat /\ T * I \in Nat
    BY <1>1, <1>3
  <2> QED BY <1>2, <1>3, <2>1, <2>2
<1>5. q \in 0..(I - 1)
  BY <1>1, <1>3, <1>4
<1> QED BY <1>5 DEF Integrators, q

(* A value is a single bit: the threshold and the integrator of a state    *)
(* are those of every bit of its value.                                    *)
LEMMA SingleBit ==
  ASSUME TypeOK, NEW s \in States, NEW b \in stateValue[s]
  PROVE  /\ b \in Bits
         /\ Threshold(s) = b
         /\ IntegratorIndex(s) = b \div NumThresholds
<1>1. stateValue[s] = {b} /\ b \in Bits
  <2>1. stateValue[s] \in Values
    BY DEF TypeOK
  <2>2. PICK c \in Bits : stateValue[s] = {c}
    BY <2>1, ValueAssumption
  <2> QED BY <2>2
<1>2. b \in Nat
  BY <1>1 DEF Bits
<1>3. Lowest({b}) = b
  BY <1>2, LowestUnique
<1>4. Highest({b}) = b
  BY <1>2 DEF Highest
<1> QED BY <1>1, <1>3, <1>4 DEF Threshold, IntegratorIndex

(* The turn of an analog input: the masks grow to cover its fault. *)
LEMMA AnalogCovered ==
  ASSUME TypeOK, NEW d \in Analog, NEW f, ConfigureAnalog(d, f), UNCHANGED tables
  PROVE  /\ \A s \in StatesOf(f) : MaskCovers(d, s)'
         /\ \A e \in Analog, s \in States : MaskCovers(e, s) => MaskCovers(e, s)'
<1>1. \A i \in Integrators : fastDestinationMask'[d][i] = MaskWith(d, f, i)
  BY DEF ConfigureAnalog, TypeOK
<1>2. \A e \in Analog : e # d => fastDestinationMask'[e] = fastDestinationMask[e]
  BY DEF ConfigureAnalog, TypeOK
<1>3. \A s \in States : Masks(s)' = Masks(s) /\ stateValue'[s] = stateValue[s]
  BY DEF tables, Masks
<1>4. ASSUME NEW s \in StatesOf(f), NEW b \in stateValue[s]
      PROVE  Masks(s) \subseteq fastDestinationMask'[d][b \div NumThresholds]
  <2>1. s \in States
    BY <1>4 DEF StatesOf
  <2>2. b \div NumThresholds \in Integrators /\ IntegratorIndex(s) = b \div NumThresholds
    BY <1>4, <2>1, SingleBit, BitOfIntegrator
  <2> HIDE DEF IntegratorIndex
  <2>3. Masks(s) \subseteq MaskWith(d, f, b \div NumThresholds)
    BY <1>4, <2>2 DEF MaskWith
  <2> QED BY <1>1, <2>2, <2>3
<1>5. ASSUME NEW s \in States, NEW b \in stateValue[s], MaskCovers(d, s)
      PROVE  Masks(s) \subseteq fastDestinationMask'[d][b \div NumThresholds]
  <2>1. b \div NumThresholds \in Integrators
    BY <1>5, SingleBit, BitOfIntegrator
  <2>2. Masks(s) \subseteq fastDestinationMask[d][b \div NumThresholds]
    BY <1>5 DEF MaskCovers
  <2>3. fastDestinationMask[d][b \div NumThresholds] \subseteq MaskWith(d, f, b \div NumThresholds)
    BY DEF MaskWith
  <2> QED BY <1>1, <2>1, <2>2, <2>3
<1>6. \A s \in StatesOf(f) : MaskCovers(d, s)'
  BY <1>3, <1>4 DEF MaskCovers, StatesOf
<1>7. \A s \in States : MaskCovers(d, s) => MaskCovers(d, s)'
  BY <1>3, <1>5 DEF MaskCovers
<1>8. \A e \in Analog, s \in States : e # d /\ MaskCovers(e, s) => MaskCovers(e, s)'
  BY <1>2, <1>3 DEF MaskCovers
<1> QED BY <1>6, <1>7, <1>8

(* The turn of a digital input: the rule is that of the fault's one state. *)
LEMMA DigitalCovered ==
  ASSUME TypeOK, NEW d \in Digital, NEW f, ~DigitalRefused(f), ConfigureDigital(d, f),
         UNCHANGED tables
  PROVE  /\ \A s \in StatesOf(f) : DigitalCovers(d, s)'
         /\ \A e \in Digital : e # d => digitalRule'[e] = digitalRule[e]
<1>1. PICK t \in StatesOf(f) :
        digitalRule' = [digitalRule EXCEPT ![d] =
         [mask |-> Masks(t), class |-> Lowest(Numbers(t) \cup {100}), expected |-> Expected(t)]]
  BY DEF ConfigureDigital
<1>2. StatesOf(f) = {t}
  <2>1. IsFiniteSet(StatesOf(f))
    BY FS_Subset, SizeAssumption DEF StatesOf
  <2>2. Cardinality(StatesOf(f)) = 1
    BY DEF DigitalRefused
  <2> QED BY <1>1, <2>1, <2>2, FS_Singleton
<1>3. /\ digitalRule'[d].mask = Masks(t)
      /\ digitalRule'[d].class = Lowest(Numbers(t) \cup {100})
      /\ digitalRule'[d].expected = Expected(t)
  BY <1>1 DEF TypeOK
<1>4. \A a \in demand[t] : a.dest \in Masks(t) /\ a.class \in Numbers(t)
  BY DEF Masks, Numbers
<1>5. \A n \in Numbers(t) : Lowest(Numbers(t) \cup {100}) <= n
  <2>1. t \in States
    BY <1>1 DEF StatesOf
  <2>2. Numbers(t) \cup {100} \in SUBSET Nat
    BY <2>1, DemandTypes
  <2> QED BY <2>2, LowestIsLeast
<1>6. Expected(t)' = Expected(t) /\ demand' = demand
  BY DEF Expected, tables
<1>7. DigitalCovers(d, t)'
  BY <1>3, <1>4, <1>5, <1>6 DEF DigitalCovers
<1>8. \A e \in Digital : e # d => digitalRule'[e] = digitalRule[e]
  BY <1>1 DEF TypeOK
<1>9. StatesOf(f)' = StatesOf(f)
  BY DEF StatesOf, tables
<1> QED BY <1>2, <1>7, <1>8

(* The tables say which rules are overwritten later. *)
LEMMA SameReferences ==
  ASSUME UNCHANGED tables
  PROVE  /\ \A i : Overwritten(i)' <=> Overwritten(i)
         /\ \A f : StatesOf(f)' = StatesOf(f)
         /\ \A s : Masks(s)' = Masks(s) /\ Expected(s)' = Expected(s)
BY DEF tables, Overwritten, StatesOf, Masks, Expected

LEMMA RulesKept ==
  ASSUME RulesInv, UNCHANGED <<tables, analogRules, digitalRule, next>>
  PROVE  RulesInv'
BY SameReferences
DEF RulesInv, RuleGiven, MaskCovers, DigitalCovers, tables, analogRules

LEMMA RulesTurn ==
  ASSUME TypeOK, RulesInv, UNCHANGED tables, next <= NumInputs, next' = next + 1,
         NEW d, NEW f, d = inputDevice[next], f = inputFault[next],
         ~InputRefused(d, f),
         \/ d \in Fast \cap Analog /\ ConfigureAnalog(d, f)
         \/ d \in Fast \cap Digital /\ ConfigureDigital(d, f)
         \/ d \notin Fast /\ UNCHANGED <<analogRules, digitalRule>>
  PROVE  RulesInv'
<1> SUFFICES ASSUME NEW i \in Inputs, i < next + 1, inputDevice[i] \in Fast
             PROVE  RuleGiven(i)'
  BY DEF RulesInv, tables
<1> DEFINE e == inputDevice[i]
           g == inputFault[i]
<1>1. next \in Inputs /\ (i < next \/ i = next)
  <2>1. NumInputs \in Nat
    BY SizeAssumption
  <2>2. next \in 1..(NumInputs + 1)
    BY DEF TypeOK
  <2>3. i \in Nat
    BY <2>1 DEF Inputs
  <2> QED BY <2>1, <2>2, <2>3 DEF Inputs
<1>2. i < next => RuleGiven(i)
  BY DEF RulesInv
<1>3. /\ inputDevice' = inputDevice /\ inputFault' = inputFault
      /\ demand' = demand /\ stateValue' = stateValue
  BY DEF tables
<1>4. e \in Analog => e \notin Digital
  BY DeviceAssumption
<1>5. CASE d \in Fast \cap Analog /\ ConfigureAnalog(d, f)
  <2>1. /\ \A s \in StatesOf(f) : MaskCovers(d, s)'
        /\ \A x \in Analog, s \in States : MaskCovers(x, s) => MaskCovers(x, s)'
    BY <1>5, AnalogCovered
  <2>2. \A x, s : DigitalCovers(x, s)' <=> DigitalCovers(x, s)
    BY <1>3, <1>5, SameReferences DEF ConfigureAnalog, DigitalCovers
  <2>3. StatesOf(g) \subseteq States
    BY DEF StatesOf
  <2> QED BY <1>1, <1>2, <1>3, <1>5, <2>1, <2>2, <2>3, SameReferences DEF RuleGiven
<1>6. CASE d \in Fast \cap Digital /\ ConfigureDigital(d, f)
  <2>1. ~DigitalRefused(f)
    BY <1>6 DEF InputRefused
  <2>2. /\ \A s \in StatesOf(f) : DigitalCovers(d, s)'
        /\ \A x \in Digital : x # d => digitalRule'[x] = digitalRule[x]
    BY <1>6, <2>1, DigitalCovered
  <2>3. \A x, s : MaskCovers(x, s)' <=> MaskCovers(x, s)
    BY <1>3, <1>6, SameReferences DEF ConfigureDigital, analogRules, MaskCovers
  <2>4. d \notin Analog
    BY <1>6, DeviceAssumption
  <2>5. CASE e = d /\ g = f
    BY <1>3, <2>2, <2>4, <2>5, SameReferences DEF RuleGiven
  <2>6. CASE e = d /\ g # f
    <3>1. i < next
      BY <1>1, <2>6
    <3>2. next > i
      BY <1>1, <3>1 DEF Inputs
    <3>3. Overwritten(i)
      BY <1>1, <2>6, <3>2 DEF Overwritten
    <3> QED BY <1>3, <1>6, <2>6, <3>3, SameReferences DEF RuleGiven
  <2>7. CASE e # d
    <3>1. RuleGiven(i)
      BY <1>1, <1>2, <2>7
    <3>2. e \in Digital \/ e \in Analog
      BY DeviceAssumption DEF Devices
    <3>3. \A s : e \notin Analog /\ DigitalCovers(e, s) => DigitalCovers(e, s)'
      BY <1>3, <2>2, <2>7, <3>2, SameReferences DEF DigitalCovers
    <3> QED BY <1>3, <2>3, <3>1, <3>3, SameReferences DEF RuleGiven
  <2> QED BY <2>5, <2>6, <2>7
<1>7. CASE d \notin Fast /\ UNCHANGED <<analogRules, digitalRule>>
  <2>1. i < next /\ RuleGiven(i)
    BY <1>1, <1>2, <1>7
  <2> QED BY <1>3, <1>7, <2>1, SameReferences
          DEF RuleGiven, MaskCovers, DigitalCovers, analogRules
<1> QED BY <1>5, <1>6, <1>7

LEMMA HandledStep == HandledInv /\ [Next]_vars => HandledInv'
<1> SUFFICES ASSUME HandledInv, [Next]_vars PROVE HandledInv'
  OBVIOUS
<1>1. IInv'
  BY LoopStep DEF HandledInv
<1>2. CASE Fail
  BY <1>1, <1>2, RulesKept DEF Fail, HandledInv, EvaluationInv
<1>3. CASE ConfigureFaultStates /\ ~Fail
  BY <1>1, <1>3, RulesKept DEF ConfigureFaultStates, HandledInv, EvaluationInv
<1>4. CASE ConfigureFaultInput /\ ~Fail
  <2> DEFINE d == inputDevice[next]
             f == inputFault[next]
  <2>1. /\ ~InputRefused(d, f) /\ next <= NumInputs /\ next' = next + 1
        /\ step = "fault inputs" /\ UNCHANGED <<tables, evaluation, step>>
        /\ \/ d \in Fast \cap Analog /\ ConfigureAnalog(d, f)
           \/ d \in Fast \cap Digital /\ ConfigureDigital(d, f)
           \/ d \notin Fast /\ UNCHANGED <<analogRules, digitalRule>>
    BY <1>4 DEF ConfigureFaultInput
  <2>2. RulesInv'
    BY <2>1, RulesTurn DEF HandledInv, IInv
  <2> QED BY <1>1, <2>1, <2>2 DEF HandledInv, EvaluationInv
<1>5. CASE AssignFaultInputs /\ ~Fail
  BY <1>1, <1>5, RulesKept DEF AssignFaultInputs, HandledInv, EvaluationInv
<1>6. CASE AssignEvaluation /\ ~Fail
  <2>1. /\ evaluation' = [g \in Faults |-> IF SlowEvaluation(g) THEN "slow" ELSE "fast"]
        /\ UNCHANGED <<tables, analogRules, digitalRule, next>>
    BY <1>6 DEF AssignEvaluation
  <2>2. \A g : SlowEvaluation(g)' <=> SlowEvaluation(g)
    BY <2>1 DEF SlowEvaluation, InputsOf, tables
  <2>3. EvaluationInv'
    BY <2>1, <2>2 DEF EvaluationInv
  <2> QED BY <1>1, <2>1, <2>3, RulesKept DEF HandledInv
<1>7. CASE UNCHANGED vars
  <2>1. \A g : SlowEvaluation(g)' <=> SlowEvaluation(g)
    BY <1>7 DEF SlowEvaluation, InputsOf, tables, vars
  <2> QED BY <1>1, <1>7, <2>1, RulesKept DEF vars, HandledInv, EvaluationInv
<1> QED BY <1>2, <1>3, <1>4, <1>5, <1>6, <1>7 DEF Next

(* What an analog device's rules cover when the loop is over. *)
LEMMA AnalogHandled ==
  ASSUME IInv, step = "done", NEW i \in Inputs, inputDevice[i] \in Fast \cap Analog,
         NEW s \in StatesOf(inputFault[i]), MaskCovers(inputDevice[i], s)
  PROVE  AnalogCovers(inputDevice[i], s)
<1> DEFINE d == inputDevice[i]
           f == inputFault[i]
<1> SUFFICES ASSUME NEW a \in demand[s], NEW b \in stateValue[s]
             PROVE  /\ a.dest \in fastDestinationMask[d][b \div NumThresholds]
                    /\ fastPowerClass[d][b] <= a.class
  BY DEF AnalogCovers
<1>1. s \in States
  BY DEF StatesOf
<1>2. b \in Bits /\ Threshold(s) = b
  BY <1>1, SingleBit DEF IInv
<1>3. a.dest \in fastDestinationMask[d][b \div NumThresholds]
  BY DEF MaskCovers, Masks
<1>4. i < next
  <2>1. next = NumInputs + 1 /\ NumInputs \in Nat
    BY SizeAssumption DEF IInv, AfterLoop
  <2> QED BY <2>1 DEF Inputs
<1>5. a.class \in DemandedBefore(d, b)
  <2> HIDE DEF Threshold
  <2>1. a.class \in NumbersAt(f, b)
    BY <1>2 DEF NumbersAt, Numbers
  <2> QED BY <1>4, <2>1 DEF DemandedBefore
<1>6. DemandedBefore(d, b) \in SUBSET Nat
  BY DemandTypes DEF DemandedBefore, IInv
<1>7. fastPowerClass[d][b] = Lowest(DemandedBefore(d, b))
  BY <1>2, <1>5 DEF IInv, LoopInv
<1>8. fastPowerClass[d][b] <= a.class
  <2> HIDE DEF DemandedBefore
  <2> QED BY <1>5, <1>6, <1>7, LowestIsLeast
<1> QED BY <1>3, <1>8

(* "Faults whose inputs are all evaluated in firmware should be only       *)
(* handled by the firmware": whatever the tables say, a fault that         *)
(* configure accepts is left to the engine, or what the firmware is told   *)
(* for each fast input covers every state of it, unless a later input gave *)
(* its digital device to another fault.                                    *)
THEOREM FaultsHandled == Spec => []EveryFaultHandled
<1>1. Init => HandledInv
  <2> SUFFICES ASSUME Init PROVE RulesInv /\ EvaluationInv
    BY LoopInit DEF HandledInv
  <2>1. NumInputs \in Nat /\ next = 1
    BY SizeAssumption DEF Init
  <2>2. \A i \in Inputs : ~(i < next)
    BY <2>1 DEF Inputs
  <2> QED BY <2>2 DEF RulesInv, EvaluationInv, Init
<1>2. HandledInv => EveryFaultHandled
  <2> SUFFICES ASSUME HandledInv, step = "done", NEW f \in Faults,
                      evaluation[f] # "slow", NEW i \in InputsOf(f)
               PROVE  /\ inputDevice[i] \notin Slow
                      /\ inputDevice[i] \in Fast =>
                           \/ \A s \in StatesOf(f) : Covers(inputDevice[i], s)
                           \/ inputDevice[i] \in Digital /\ Overwritten(i)
    BY DEF EveryFaultHandled
  <2>1. i \in Inputs /\ inputFault[i] = f
    BY DEF InputsOf
  <2>2. inputDevice[i] \notin Slow
    BY DEF HandledInv, EvaluationInv, SlowEvaluation
  <2>3. i < next
    <3>1. next = NumInputs + 1 /\ NumInputs \in Nat
      BY SizeAssumption DEF HandledInv, IInv, AfterLoop
    <3> QED BY <2>1, <3>1 DEF Inputs
  <2>4. ASSUME inputDevice[i] \in Fast
        PROVE  \/ \A s \in StatesOf(f) : Covers(inputDevice[i], s)
               \/ inputDevice[i] \in Digital /\ Overwritten(i)
    <3>1. RuleGiven(i)
      BY <2>1, <2>3, <2>4 DEF HandledInv, RulesInv
    <3>2. ASSUME NEW s \in StatesOf(f), inputDevice[i] \in Analog,
                 MaskCovers(inputDevice[i], s)
          PROVE  AnalogCovers(inputDevice[i], s)
      BY <2>1, <2>4, <3>2, AnalogHandled DEF HandledInv
    <3> QED BY <2>1, <3>1, <3>2 DEF RuleGiven, Covers
  <2> QED BY <2>2, <2>4
<1> QED BY <1>1, <1>2, HandledStep, PTL DEF Spec
=============================================================================
