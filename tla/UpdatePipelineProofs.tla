------------------------ MODULE UpdatePipelineProofs ------------------------
(***************************************************************************)
(* Proofs about UpdatePipeline, for any set of cards, any content of an    *)
(* uninitialised active flag and any number of updates.                    *)
(***************************************************************************)
EXTENDS UpdatePipeline, TLAPS

(* The last update taken from fwUpdateQueue, the last one evaluated, and   *)
(* the last message taken from softwareMitigationQueue.                    *)
Taken     == IF inPc = "pop" THEN dbCount ELSE dbCount + 1
Evaluated == IF enPc = "push" THEN enCount + 1 ELSE enCount
WrTaken   == IF wrPc = "write" THEN wrCount + 1 ELSE wrCount

(* The queue of updates holds the updates after the one taken, in order.   *)
QueueOrder ==
  /\ received = Taken + Len(fwUpdateQueue)
  /\ \A i \in 1..Len(fwUpdateQueue) : fwUpdateQueue[i] = Taken + i
  /\ fwUpdateBuffer = Taken

(* The inputs show the last update published, but for the cards that the   *)
(* pass in progress has reached.                                           *)
InputsShown ==
  \A c \in Cards :
     cardUpdate[c] = IF inPc = "update" /\ c \notin inTodo
                     THEN dbCount + 1 ELSE dbCount

(* The flag belongs to the engine while it checks, to the input thread     *)
(* while it updates, and counts the published update not yet evaluated.    *)
Handshake ==
  /\ inPc = "update" => ~inputsUpdated
  /\ enPc \in {"check", "processed"} => inputsUpdated
  /\ dbCount = IF inputsUpdated THEN Evaluated + 1 ELSE Evaluated

(* The mitigation buffer is built from the update being evaluated. *)
BufferShown ==
  /\ enPc = "check" => \A c \in Cards \ enTodo : mitBuf[c] = dbCount
  /\ enPc = "processed" => mitBuf = From(dbCount)
  /\ enPc = "push" => mitBuf = From(enCount + 1)

MitigationOrder ==
  /\ enCount = WrTaken + Len(mitQueue)
  /\ \A i \in 1..Len(mitQueue) : mitQueue[i] = From(WrTaken + i)
  /\ wrMsg = From(WrTaken)
  /\ written = From(wrCount)

StreamInv ==
  TypeOK /\ QueueOrder /\ InputsShown /\ Handshake /\ BufferShown
         /\ MitigationOrder
-----------------------------------------------------------------------------
(* What the actions of the queues rest on: the elements of a sequence after *)
(* a push at its end and after a pop at its head.                          *)
LEMMA PushElements ==
  ASSUME NEW S, NEW q \in Seq(S), NEW e \in S
  PROVE  /\ Append(q, e) \in Seq(S)
         /\ Len(Append(q, e)) = Len(q) + 1
         /\ \A i \in 1..Len(q) : Append(q, e)[i] = q[i]
         /\ Append(q, e)[Len(q) + 1] = e
  OBVIOUS

LEMMA PopElements ==
  ASSUME NEW S, NEW q \in Seq(S), q # <<>>
  PROVE  /\ Head(q) \in S
         /\ Head(q) = q[1]
         /\ Tail(q) \in Seq(S)
         /\ Len(q) \in Nat
         /\ Len(q) >= 1
         /\ Len(Tail(q)) = Len(q) - 1
         /\ \A i \in 1..Len(Tail(q)) : Tail(q)[i] = q[i + 1]
  OBVIOUS

LEMMA FromMessage ==
  ASSUME NEW n \in Nat
  PROVE  /\ From(n) \in Message
         /\ \A c \in Cards : From(n)[c] = n
  BY DEF From, Message

(* Every variable keeps its type. *)
LEMMA TypeInit == Init => TypeOK
<1> SUFFICES ASSUME Init PROVE TypeOK
  OBVIOUS
<1>1. active \in [Cards -> BOOLEAN]
  BY GarbageAssumption DEF Init, GarbageAssumption
<1>2. From(0) \in Message
  BY FromMessage
<1>3. <<>> \in Seq(Nat) /\ <<>> \in Seq(Message)
  OBVIOUS
<1>4. cardUpdate \in [Cards -> Nat]
  BY <1>2 DEF Init, Message
<1>5. QED
  BY <1>1, <1>2, <1>3, <1>4 DEF Init, TypeOK, Cleared

LEMMA TypeStep == TypeOK /\ [Next]_vars => TypeOK'
<1> SUFFICES ASSUME TypeOK, [Next]_vars PROVE TypeOK'
  OBVIOUS
<1> USE DEF TypeOK, readerVars, inputVars, engineVars, writerVars, controlVars
<1>1. CASE ReadUpdate
  BY <1>1, PushElements DEF ReadUpdate
<1>2. CASE InputNext
  <2>1. CASE InputPop
    BY <2>1, PopElements DEF InputPop
  <2>2. CASE InputWait
    BY <2>2 DEF InputWait
  <2>3. CASE InputWake
    BY <2>3 DEF InputWake, AfterInputSleep
  <2>4. CASE InputPublish
    BY <2>4 DEF InputPublish
  <2>5. ASSUME NEW c \in Cards, InputCard(c) PROVE TypeOK'
    BY <2>5 DEF InputCard, ReloadAfterCard
  <2>6. QED
    BY <1>2, <2>1, <2>2, <2>3, <2>4, <2>5 DEF InputNext
<1>3. CASE EngineNext
  <2>1. CASE EngineLoop
    BY <2>1 DEF EngineLoop
  <2>2. CASE EngineWait
    BY <2>2, FromMessage DEF EngineWait, NewMitBuffer, Cleared
  <2>3. CASE EngineWake
    BY <2>3 DEF EngineWake, AfterEngineSleep
  <2>4. CASE EngineDecide
    BY <2>4 DEF EngineDecide, ReloadWanted
  <2>5. CASE InputProcessed
    BY <2>5 DEF InputProcessed
  <2>6. CASE PushMitBuffer
    BY <2>6, PushElements DEF PushMitBuffer
  <2>7. CASE ReloadConfigFromIgnore
    BY <2>7 DEF ReloadConfigFromIgnore
  <2>8. ASSUME NEW c \in Cards, EngineCheck(c) PROVE TypeOK'
    BY <2>8 DEF EngineCheck, Message
  <2>9. QED
    BY <1>3, <2>1, <2>2, <2>3, <2>4, <2>5, <2>6, <2>7, <2>8 DEF EngineNext
<1>4. CASE WriterNext
  <2>1. CASE WriterPop
    BY <2>1, PopElements DEF WriterPop
  <2>2. CASE WriteMitigation
    BY <2>2 DEF WriteMitigation
  <2>3. QED
    BY <1>4, <2>1, <2>2 DEF WriterNext
<1>5. CASE ControlNext
  <2>1. CASE ThreadExit
    BY <2>1 DEF ThreadExit
  <2>2. CASE StopDb
    BY <2>2 DEF StopDb
  <2>3. ASSUME NEW c \in Cards, SetAppTimeoutEnable(c) PROVE TypeOK'
    BY <2>3 DEF SetAppTimeoutEnable
  <2>4. QED
    BY <1>5, <2>1, <2>2, <2>3 DEF ControlNext
<1>6. CASE UNCHANGED vars
  BY <1>6 DEF vars
<1>7. QED
  BY <1>1, <1>2, <1>3, <1>4, <1>5, <1>6 DEF Next

THEOREM TypeCorrect == Spec => []TypeOK
<1>1. QED
  BY TypeInit, TypeStep, PTL DEF Spec
-----------------------------------------------------------------------------
(* StreamInv is inductive. *)
LEMMA StreamInvInit == Init => StreamInv
<1> SUFFICES ASSUME Init PROVE StreamInv
  OBVIOUS
<1>1. TypeOK
  BY TypeInit
<1>2. Len(<<>>) = 0
  OBVIOUS
<1>3. QED
  BY <1>1, <1>2 DEF Init, StreamInv, QueueOrder, InputsShown, Handshake,
     BufferShown, MitigationOrder, Taken, Evaluated, WrTaken, From, Cleared

LEMMA StreamInvReader == StreamInv /\ ReadUpdate => StreamInv'
<1> SUFFICES ASSUME StreamInv, ReadUpdate PROVE StreamInv'
  OBVIOUS
<1> USE DEF StreamInv, readerVars, inputVars, engineVars, writerVars,
            controlVars, ReadUpdate
<1>1. TypeOK'
  BY TypeStep DEF Next
<1>2. QueueOrder'
  <2>1. /\ fwUpdateQueue \in Seq(Nat)
        /\ received + 1 \in Nat
        /\ Taken \in Nat
        /\ Taken' = Taken
    BY DEF TypeOK, Taken
  <2>2. /\ Len(fwUpdateQueue') = Len(fwUpdateQueue) + 1
        /\ \A i \in 1..Len(fwUpdateQueue) : fwUpdateQueue'[i] = fwUpdateQueue[i]
        /\ fwUpdateQueue'[Len(fwUpdateQueue) + 1] = received + 1
    BY <2>1, PushElements
  <2>3. Len(fwUpdateQueue) \in Nat
    BY <2>1
  <2>4. received' = Taken' + Len(fwUpdateQueue')
    BY <2>1, <2>2, <2>3 DEF QueueOrder
  <2>5. ASSUME NEW i \in 1..Len(fwUpdateQueue')
        PROVE  fwUpdateQueue'[i] = Taken' + i
    <3>1. CASE i \in 1..Len(fwUpdateQueue)
      BY <2>1, <2>2, <3>1 DEF QueueOrder
    <3>2. CASE i = Len(fwUpdateQueue) + 1
      BY <2>1, <2>2, <2>3, <3>2 DEF QueueOrder
    <3>3. QED
      BY <2>2, <2>3, <2>5, <3>1, <3>2
  <2>6. fwUpdateBuffer' = Taken'
    BY <2>1 DEF QueueOrder
  <2>7. QED
    BY <2>4, <2>5, <2>6 DEF QueueOrder
<1>3. InputsShown' /\ Handshake' /\ BufferShown' /\ MitigationOrder'
  BY DEF InputsShown, Handshake, BufferShown, MitigationOrder, Evaluated,
         WrTaken
<1>4. QED
  BY <1>1, <1>2, <1>3

LEMMA StreamInvInput == StreamInv /\ InputNext => StreamInv'
<1> SUFFICES ASSUME StreamInv, InputNext PROVE StreamInv'
  OBVIOUS
<1> USE DEF StreamInv, readerVars, inputVars, engineVars, writerVars,
            controlVars
<1>1. TypeOK'
  BY TypeStep DEF Next
<1>2. CASE InputPop
  <2> USE <1>2 DEF InputPop
  <2>1. fwUpdateQueue \in Seq(Nat) /\ dbCount \in Nat
    BY DEF TypeOK
  <2>2. /\ Head(fwUpdateQueue) = fwUpdateQueue[1]
        /\ Len(fwUpdateQueue) \in Nat
        /\ Len(fwUpdateQueue) >= 1
        /\ Len(fwUpdateQueue') = Len(fwUpdateQueue) - 1
        /\ \A i \in 1..Len(fwUpdateQueue') : fwUpdateQueue'[i] = fwUpdateQueue[i + 1]
    BY <2>1, PopElements
  <2>3. Taken = dbCount /\ Taken' = dbCount + 1
    BY DEF Taken
  <2>4. QueueOrder'
    BY <2>1, <2>2, <2>3 DEF QueueOrder
  <2>5. InputsShown' /\ Handshake' /\ BufferShown' /\ MitigationOrder'
    BY DEF InputsShown, Handshake, BufferShown, MitigationOrder, Evaluated,
           WrTaken
  <2>6. QED
    BY <1>1, <2>4, <2>5
<1>3. CASE InputWait
  <2> USE <1>3 DEF InputWait, InputsTaken
  <2>1. QueueOrder'
    BY DEF QueueOrder, Taken
  <2>2. InputsShown'
    BY DEF InputsShown
  <2>3. Handshake' /\ BufferShown' /\ MitigationOrder'
    BY DEF Handshake, BufferShown, MitigationOrder, Evaluated, WrTaken
  <2>4. QED
    BY <1>1, <2>1, <2>2, <2>3
<1>4. CASE InputWake
  BY <1>1, <1>4 DEF InputWake, AfterInputSleep, QueueOrder, Taken, InputsShown,
     Handshake, BufferShown, MitigationOrder, Evaluated, WrTaken
<1>5. CASE InputPublish
  <2> USE <1>5 DEF InputPublish
  <2>1. QueueOrder'
    BY DEF QueueOrder, Taken
  <2>2. InputsShown'
    BY DEF InputsShown
  <2>3. Handshake'
    BY DEF Handshake, Evaluated, TypeOK
  <2>4. BufferShown' /\ MitigationOrder'
    BY DEF Handshake, BufferShown, MitigationOrder, WrTaken
  <2>5. QED
    BY <1>1, <2>1, <2>2, <2>3, <2>4
<1>6. ASSUME NEW c \in Cards, InputCard(c) PROVE StreamInv'
  <2> USE <1>6 DEF InputCard
  <2>1. QueueOrder'
    BY DEF QueueOrder, Taken
  <2>2. InputsShown'
    BY DEF InputsShown, QueueOrder, Taken, TypeOK
  <2>3. Handshake' /\ BufferShown' /\ MitigationOrder'
    BY DEF Handshake, BufferShown, MitigationOrder, Evaluated, WrTaken
  <2>4. QED
    BY <1>1, <2>1, <2>2, <2>3
<1>7. QED
  BY <1>2, <1>3, <1>4, <1>5, <1>6 DEF InputNext

LEMMA StreamInvEngine == StreamInv /\ EngineNext => StreamInv'
<1> SUFFICES ASSUME StreamInv, EngineNext PROVE StreamInv'
  OBVIOUS
<1> USE DEF StreamInv, readerVars, inputVars, engineVars, writerVars,
            controlVars
<1>1. TypeOK'
  BY TypeStep DEF Next
<1>2. CASE EngineLoop
  BY <1>1, <1>2 DEF EngineLoop, QueueOrder, Taken, InputsShown, Handshake,
     BufferShown, MitigationOrder, Evaluated, WrTaken
<1>3. CASE EngineWait
  BY <1>1, <1>3 DEF EngineWait, InputReady, QueueOrder, Taken, InputsShown,
     Handshake, BufferShown, MitigationOrder, Evaluated, WrTaken
<1>4. CASE EngineWake
  BY <1>1, <1>4 DEF EngineWake, AfterEngineSleep, QueueOrder, Taken,
     InputsShown, Handshake, BufferShown, MitigationOrder, Evaluated, WrTaken
<1>5. CASE EngineDecide
  <2> USE <1>5 DEF EngineDecide
  <2>1. mitBuf = From(dbCount)
    BY DEF BufferShown, TypeOK, Message, From
  <2>2. QED
    BY <1>1, <2>1 DEF QueueOrder, Taken, InputsShown, Handshake, BufferShown,
       MitigationOrder, Evaluated, WrTaken
<1>6. CASE InputProcessed
  <2> USE <1>6 DEF InputProcessed
  <2>1. dbCount = enCount + 1
    BY DEF Handshake, Evaluated
  <2>2. Handshake' /\ BufferShown'
    BY <2>1 DEF Handshake, BufferShown, Evaluated, TypeOK
  <2>3. QueueOrder' /\ InputsShown' /\ MitigationOrder'
    BY DEF QueueOrder, Taken, InputsShown, MitigationOrder, WrTaken
  <2>4. QED
    BY <1>1, <2>2, <2>3
<1>7. CASE PushMitBuffer
  <2> USE <1>7 DEF PushMitBuffer
  <2>1. /\ mitQueue \in Seq(Message)
        /\ mitBuf \in Message
        /\ WrTaken \in Nat
        /\ WrTaken' = WrTaken
        /\ enCount \in Nat
    BY DEF TypeOK, WrTaken
  <2>2. /\ Len(mitQueue') = Len(mitQueue) + 1
        /\ \A i \in 1..Len(mitQueue) : mitQueue'[i] = mitQueue[i]
        /\ mitQueue'[Len(mitQueue) + 1] = mitBuf
        /\ Len(mitQueue) \in Nat
    BY <2>1, PushElements
  <2>3. mitBuf = From(enCount + 1)
    BY DEF BufferShown
  <2>4. enCount' = WrTaken' + Len(mitQueue')
    BY <2>1, <2>2 DEF MitigationOrder
  <2>5. ASSUME NEW i \in 1..Len(mitQueue')
        PROVE  mitQueue'[i] = From(WrTaken' + i)
    <3>1. CASE i \in 1..Len(mitQueue)
      BY <2>1, <2>2, <3>1 DEF MitigationOrder
    <3>2. CASE i = Len(mitQueue) + 1
      <4>1. enCount + 1 = WrTaken' + i
        BY <2>1, <2>2, <3>2 DEF MitigationOrder
      <4>2. QED
        BY <2>2, <2>3, <3>2, <4>1
    <3>3. QED
      BY <2>2, <2>5, <3>1, <3>2
  <2>6. MitigationOrder'
    BY <2>1, <2>4, <2>5 DEF MitigationOrder
  <2>7. QueueOrder' /\ InputsShown' /\ Handshake' /\ BufferShown'
    BY DEF QueueOrder, Taken, InputsShown, Handshake, BufferShown, Evaluated
  <2>8. QED
    BY <1>1, <2>6, <2>7
<1>8. CASE ReloadConfigFromIgnore
  BY <1>1, <1>8 DEF ReloadConfigFromIgnore, QueueOrder, Taken, InputsShown,
     Handshake, BufferShown, MitigationOrder, Evaluated, WrTaken
<1>9. ASSUME NEW c \in Cards, EngineCheck(c) PROVE StreamInv'
  <2> USE <1>9 DEF EngineCheck
  <2>1. cardUpdate[c] = dbCount
    BY DEF InputsShown, Handshake
  <2>2. BufferShown'
    BY <2>1 DEF BufferShown, TypeOK, Message
  <2>3. QueueOrder' /\ InputsShown' /\ Handshake' /\ MitigationOrder'
    BY DEF QueueOrder, Taken, InputsShown, Handshake, MitigationOrder,
       Evaluated, WrTaken
  <2>4. QED
    BY <1>1, <2>2, <2>3
<1>10. QED
  BY <1>2, <1>3, <1>4, <1>5, <1>6, <1>7, <1>8, <1>9 DEF EngineNext

LEMMA StreamInvWriter == StreamInv /\ WriterNext => StreamInv'
<1> SUFFICES ASSUME StreamInv, WriterNext PROVE StreamInv'
  OBVIOUS
<1> USE DEF StreamInv, readerVars, inputVars, engineVars, writerVars,
            controlVars
<1>1. TypeOK'
  BY TypeStep DEF Next
<1>2. CASE WriterPop
  <2> USE <1>2 DEF WriterPop
  <2>1. /\ mitQueue \in Seq(Message)
        /\ wrCount \in Nat
        /\ WrTaken = wrCount
        /\ WrTaken' = wrCount + 1
    BY DEF TypeOK, WrTaken
  <2>2. /\ Head(mitQueue) = mitQueue[1]
        /\ Len(mitQueue) \in Nat
        /\ Len(mitQueue) >= 1
        /\ Len(mitQueue') = Len(mitQueue) - 1
        /\ \A i \in 1..Len(mitQueue') : mitQueue'[i] = mitQueue[i + 1]
    BY <2>1, PopElements
  <2>3. enCount = WrTaken' + Len(mitQueue')
    BY <2>1, <2>2 DEF MitigationOrder
  <2>4. wrMsg' = From(WrTaken')
    BY <2>1, <2>2 DEF MitigationOrder
  <2>5. ASSUME NEW i \in 1..Len(mitQueue')
        PROVE  mitQueue'[i] = From(WrTaken' + i)
    <3>1. i + 1 \in 1..Len(mitQueue)
      BY <2>2
    <3>2. mitQueue[i + 1] = From(WrTaken + (i + 1))
      BY <3>1 DEF MitigationOrder
    <3>3. WrTaken + (i + 1) = WrTaken' + i
      BY <2>1, <2>2
    <3>4. QED
      BY <2>2, <3>2, <3>3
  <2>6. MitigationOrder'
    BY <2>3, <2>4, <2>5 DEF MitigationOrder
  <2>7. QueueOrder' /\ InputsShown' /\ Handshake' /\ BufferShown'
    BY DEF QueueOrder, Taken, InputsShown, Handshake, BufferShown, Evaluated
  <2>8. QED
    BY <1>1, <2>6, <2>7
<1>3. CASE WriteMitigation
  <2> USE <1>3 DEF WriteMitigation
  <2>1. MitigationOrder'
    BY DEF MitigationOrder, WrTaken
  <2>2. QueueOrder' /\ InputsShown' /\ Handshake' /\ BufferShown'
    BY DEF QueueOrder, Taken, InputsShown, Handshake, BufferShown, Evaluated
  <2>3. QED
    BY <1>1, <2>1, <2>2
<1>4. QED
  BY <1>2, <1>3 DEF WriterNext

LEMMA StreamInvStep == StreamInv /\ [Next]_vars => StreamInv'
<1> SUFFICES ASSUME StreamInv, [Next]_vars PROVE StreamInv'
  OBVIOUS
<1>1. CASE ControlNext
  <2>1. TypeOK'
    BY TypeStep, <1>1 DEF Next, StreamInv
  <2>2. UNCHANGED <<readerVars, fwUpdateQueue, inputVars, inputsUpdated,
                    engineVars, mitQueue, writerVars>>
    BY <1>1 DEF ControlNext, ThreadExit, StopDb, SetAppTimeoutEnable
  <2>3. UNCHANGED <<Taken, Evaluated, WrTaken>>
    BY <2>2 DEF Taken, Evaluated, WrTaken, inputVars, engineVars, writerVars
  <2>4. QueueOrder' /\ InputsShown'
    BY <2>2, <2>3 DEF StreamInv, QueueOrder, InputsShown, readerVars, inputVars
  <2>5. Handshake' /\ BufferShown' /\ MitigationOrder'
    BY <2>2, <2>3 DEF StreamInv, Handshake, BufferShown, MitigationOrder,
       inputVars, engineVars, writerVars
  <2>6. QED
    BY <2>1, <2>4, <2>5 DEF StreamInv
<1>2. CASE UNCHANGED vars
  <2>1. TypeOK'
    BY TypeStep, <1>2 DEF StreamInv
  <2>2. QED
    BY <1>2, <2>1 DEF vars, StreamInv, QueueOrder, Taken, InputsShown,
       Handshake, BufferShown, MitigationOrder, Evaluated, WrTaken, readerVars,
       inputVars, engineVars, writerVars, controlVars
<1>3. QED
  BY <1>1, <1>2, StreamInvReader, StreamInvInput, StreamInvEngine,
     StreamInvWriter DEF Next

LEMMA StreamInvHolds == Spec => []StreamInv
<1>1. QED
  BY StreamInvInit, StreamInvStep, PTL DEF Spec
-----------------------------------------------------------------------------
(* The inputs are never rewritten while checkFaults reads them: the flag   *)
(* cannot be down for the one and up for the other.                        *)
THEOREM InputsStill == Spec => []InputsStillDuringCheck
<1>1. StreamInv => InputsStillDuringCheck
  BY DEF StreamInv, Handshake, InputsStillDuringCheck
<1>2. QED
  BY <1>1, StreamInvHolds, PTL

(* No mitigation message mixes the cards of two updates. *)
THEOREM NoTornMessage == Spec => []MessagesWhole
<1>1. StreamInv => MessagesWhole
  <2> SUFFICES ASSUME StreamInv PROVE MessagesWhole
    OBVIOUS
  <2>1. DOMAIN mitQueue = 1..Len(mitQueue)
    BY DEF StreamInv, TypeOK
  <2>2. ASSUME NEW n, NEW c \in Cards, NEW d \in Cards
        PROVE  From(n)[c] = From(n)[d]
    BY DEF From
  <2>3. /\ \A i \in DOMAIN mitQueue : mitQueue[i] = From(WrTaken + i)
        /\ wrMsg = From(WrTaken)
        /\ written = From(wrCount)
    BY <2>1 DEF StreamInv, MitigationOrder
  <2>4. \A i \in DOMAIN mitQueue : \A c, d \in Cards : mitQueue[i][c] = mitQueue[i][d]
    BY <2>2, <2>3
  <2>5. QED
    BY <2>2, <2>3, <2>4 DEF MessagesWhole
<1>2. QED
  BY <1>1, StreamInvHolds, PTL

(* The threads and queues implement the update stream: every step of the   *)
(* pipeline is one of its steps or none.                                   *)
THEOREM ImplementsStream == Spec => StreamSpec
<1>1. Init => Stream!StreamInit
  BY DEF Init, Stream!StreamInit, Cleared, From, Stream!From
<1>2. StreamInv /\ [Next]_vars => [Stream!StreamNext]_Stream!streamVars
  <2> SUFFICES ASSUME StreamInv, [Next]_vars
               PROVE  [Stream!StreamNext]_Stream!streamVars
    OBVIOUS
  <2> USE DEF StreamInv, Stream!streamVars, readerVars, inputVars, engineVars,
              writerVars, controlVars
  <2>1. CASE ReadUpdate
    BY <2>1 DEF ReadUpdate, Stream!StreamNext, Stream!Receive
  <2>2. CASE InputNext
    BY <2>2 DEF InputNext, InputPop, InputWait, InputWake, InputCard,
       InputPublish
  <2>3. CASE EngineNext
    <3>1. CASE PushMitBuffer
      <4>1. enCount < received
        <5>1. Len(fwUpdateQueue) \in Nat
          BY DEF TypeOK
        <5>2. dbCount <= received
          BY <5>1 DEF QueueOrder, Taken, TypeOK
        <5>3. enCount + 1 <= dbCount
          BY <3>1 DEF PushMitBuffer, Handshake, Evaluated, TypeOK
        <5>4. QED
          BY <5>2, <5>3 DEF TypeOK
      <4>2. QED
        BY <3>1, <4>1 DEF PushMitBuffer, Stream!StreamNext, Stream!Evaluate
    <3>2. CASE ~PushMitBuffer
      BY <2>3, <3>2 DEF EngineNext, EngineLoop, EngineWait, EngineWake,
         EngineCheck, EngineDecide, InputProcessed, ReloadConfigFromIgnore
    <3>3. QED
      BY <3>1, <3>2
  <2>4. CASE WriterNext
    <3>1. CASE WriterPop
      BY <3>1 DEF WriterPop
    <3>2. CASE WriteMitigation
      <4>1. wrCount < enCount
        <5>1. Len(mitQueue) \in Nat
          BY DEF TypeOK
        <5>2. QED
          BY <3>2, <5>1 DEF WriteMitigation, MitigationOrder, WrTaken, TypeOK
      <4>2. written' = Stream!From(wrCount + 1)
        BY <3>2 DEF WriteMitigation, MitigationOrder, WrTaken, From,
           Stream!From
      <4>3. QED
        BY <3>2, <4>1, <4>2 DEF WriteMitigation, Stream!StreamNext,
           Stream!Apply
    <3>3. QED
      BY <2>4, <3>1, <3>2 DEF WriterNext
  <2>5. CASE ControlNext
    BY <2>5 DEF ControlNext, ThreadExit, StopDb, SetAppTimeoutEnable
  <2>6. CASE UNCHANGED vars
    BY <2>6 DEF vars
  <2>7. QED
    BY <2>1, <2>2, <2>3, <2>4, <2>5, <2>6 DEF Next
<1>3. QED
  BY <1>1, <1>2, StreamInvHolds, PTL DEF Spec, StreamSpec, Stream!StreamSpec
-----------------------------------------------------------------------------
(* A reload that is still to come: asked for and not yet seen by the       *)
(* engine, or seen and not yet carried out.                                *)
ReloadComing ==
  \/ reloadInactive
  \/ enPc \in {"processed", "push", "reload"} /\ enReload

(* The cards whose ignore flag the engine's current cycle has not reached. *)
Unreached == IF enPc = "check" THEN enTodo ELSE {}

(* NoStaleMask is not inductive: that a card the firmware masks is ignored *)
(* rests on every change of an active flag being answered by a reload.     *)
MaskInv ==
  /\ \A c \in Cards : fwIgnored[c] /\ active[c] => ReloadComing
  /\ \A c \in Cards \ Unreached : ignored[c] /\ active[c] => reloadInactive
  /\ enPc = "check" => \A c \in Cards \ enTodo : ignored[c] = ~active[c]
  /\ enPc \in {"processed", "push"} /\ ~enReload =>
        \A c \in Cards : fwIgnored[c] => ignored[c]
  /\ NoStaleMask

LEMMA MaskInvInit == Init => MaskInv
  BY DEF Init, MaskInv, NoStaleMask, EngineIdle, Unreached

LEMMA MaskInvInput ==
  StreamInv /\ MaskInv /\ InputNext => MaskInv'
<1> SUFFICES ASSUME StreamInv, MaskInv, InputNext PROVE MaskInv'
  OBVIOUS
<1> USE DEF inputVars, engineVars, readerVars, writerVars, controlVars
<1>1. ASSUME NEW c \in Cards, InputCard(c) PROVE MaskInv'
  <2> USE <1>1 DEF InputCard, ReloadAfterCard
  <2>1. enPc \notin {"check", "processed"}
    BY DEF StreamInv, Handshake
  <2>2. /\ active \in [Cards -> BOOLEAN]
        /\ timeoutEnable \in [Cards -> BOOLEAN]
        /\ reloadInactive \in BOOLEAN
    BY DEF StreamInv, TypeOK
  <2>3. reloadInactive => reloadInactive'
    BY <2>2
  <2>4. ASSUME NEW d \in Cards, active'[d], ~active[d] PROVE reloadInactive'
    BY <2>2, <2>4
  <2>5. UNCHANGED <<enPc, enTodo, enReload, ignored, fwIgnored>>
    OBVIOUS
  <2>6. QED
    BY <2>1, <2>3, <2>4, <2>5 DEF MaskInv, ReloadComing, NoStaleMask,
       EngineIdle, Unreached
<1>2. CASE ~ \E c \in Cards : InputCard(c)
  BY <1>2 DEF InputNext, InputPop, InputWait, InputWake, InputPublish, MaskInv,
     ReloadComing, NoStaleMask, EngineIdle, Unreached
<1>3. QED
  BY <1>1, <1>2

LEMMA MaskInvEngine ==
  StreamInv /\ MaskInv /\ EngineNext => MaskInv'
<1> SUFFICES ASSUME StreamInv, MaskInv, EngineNext PROVE MaskInv'
  OBVIOUS
<1> USE DEF inputVars, readerVars, writerVars, controlVars
<1>1. /\ active \in [Cards -> BOOLEAN]
      /\ ignored \in [Cards -> BOOLEAN]
      /\ fwIgnored \in [Cards -> BOOLEAN]
      /\ reloadInactive \in BOOLEAN
      /\ enReload \in BOOLEAN
      /\ enTodo \subseteq Cards
  BY DEF StreamInv, TypeOK
<1>2. CASE EngineLoop \/ EngineWake
  BY <1>2 DEF EngineLoop, EngineWake, AfterEngineSleep, MaskInv, ReloadComing,
     NoStaleMask, EngineIdle, Unreached
<1>3. CASE EngineWait
  BY <1>3 DEF EngineWait, MaskInv, ReloadComing, NoStaleMask, EngineIdle,
     Unreached
<1>4. ASSUME NEW c \in Cards, EngineCheck(c) PROVE MaskInv'
  BY <1>1, <1>4 DEF EngineCheck, MaskInv, ReloadComing, NoStaleMask,
     EngineIdle, Unreached
<1>5. CASE EngineDecide
  <2> USE <1>5 DEF EngineDecide, ReloadWanted
  <2>1. \A c \in Cards : ignored[c] = ~active[c]
    BY DEF MaskInv
  <2>2. reloadInactive => enReload'
    BY <1>1
  <2>3. \A c \in Cards : fwIgnored[c] /\ active[c] => enReload'
    BY <2>2 DEF MaskInv, ReloadComing
  <2>4. ~enReload' => \A c \in Cards : fwIgnored[c] => ignored[c]
    BY <1>1, <2>1, <2>3
  <2>5. QED
    BY <2>1, <2>3, <2>4 DEF MaskInv, ReloadComing, NoStaleMask, EngineIdle,
       Unreached
<1>6. CASE InputProcessed
  BY <1>6 DEF InputProcessed, MaskInv, ReloadComing, NoStaleMask, EngineIdle,
     Unreached
<1>7. CASE PushMitBuffer
  BY <1>1, <1>7 DEF PushMitBuffer, MaskInv, ReloadComing, NoStaleMask,
     EngineIdle, Unreached
<1>8. CASE ReloadConfigFromIgnore
  BY <1>8 DEF ReloadConfigFromIgnore, MaskInv, ReloadComing, NoStaleMask,
     EngineIdle, Unreached
<1>9. QED
  BY <1>2, <1>3, <1>4, <1>5, <1>6, <1>7, <1>8 DEF EngineNext

LEMMA MaskInvStep == StreamInv /\ MaskInv /\ [Next]_vars => MaskInv'
<1> SUFFICES ASSUME StreamInv, MaskInv, [Next]_vars PROVE MaskInv'
  OBVIOUS
<1>1. CASE ReadUpdate \/ WriterNext \/ ControlNext \/ UNCHANGED vars
  <2>1. UNCHANGED <<inputVars, engineVars, reloadInactive>>
    BY <1>1 DEF ReadUpdate, WriterNext, WriterPop, WriteMitigation,
       ControlNext, ThreadExit, StopDb, SetAppTimeoutEnable, vars
  <2>2. QED
    BY <2>1 DEF inputVars, engineVars, MaskInv, ReloadComing, NoStaleMask,
       EngineIdle, Unreached
<1>2. QED
  BY <1>1, MaskInvInput, MaskInvEngine DEF Next

(* Whatever the operator does to the timeout enables and however the       *)
(* threads interleave, the firmware masks no channel of an active card     *)
(* between two cycles of the engine.                                       *)
THEOREM NoStaleMaskHolds == Spec => []NoStaleMask
<1>1. MaskInv => NoStaleMask
  BY DEF MaskInv
<1>2. QED
  BY <1>1, MaskInvInit, MaskInvStep, StreamInvHolds, PTL DEF Spec
=============================================================================
