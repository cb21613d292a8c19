--------------------------- MODULE UpdatePipeline ---------------------------
(***************************************************************************)
(* The path of one input update through the threads of the central node:   *)
(*                                                                         *)
(*   FwReader --fwUpdateQueue--> InputUpdates --inputsUpdated--> Engine    *)
(*          --softwareMitigationQueue--> MitWriter --> firmware            *)
(*                                                                         *)
(* MpsDb::fwUpdateReader, MpsDb::updateInputs, Engine::engineThread with   *)
(* Engine::checkFaults, and MpsDb::mitigationWriter.  Updates are numbered *)
(* in the order the firmware sends them, and the inputs of a card are the  *)
(* number of the update they were last taken from: that is all the         *)
(* properties distinguish.  What checkFaults computes from the inputs is   *)
(* another module's subject; here a mitigation message records, per card,  *)
(* the update that card was read from.  An application card's active flag  *)
(* and the ignore flag derived from it are kept, because a change of the   *)
(* flag is what makes the engine rewrite the firmware configuration.       *)
(***************************************************************************)
EXTENDS Naturals, Sequences

CONSTANTS
  Cards,          \* the application cards of the database
  ActiveGarbage,  \* the values an uninitialised DbApplicationCard::active has
  MaxUpdates      \* bound: the updates the firmware sends in a behaviour

ASSUME CardsAssumption == Cards # {}
ASSUME GarbageAssumption == ActiveGarbage \subseteq BOOLEAN
ASSUME MaxUpdatesAssumption == MaxUpdates \in Nat

VARIABLES
  received,         \* fwUpdateReader: full updates read from the stream
  fwUpdateQueue,    \* MpsDb::fwUpdateQueue
  inPc,             \* updateInputs: "pop", "wait", "asleep", "update", "exited"
  fwUpdateBuffer,   \* MpsDb::fwUpdateBuffer
  inTodo,           \* cards the current pass over applicationCards has left
  cardUpdate,       \* inputs of each card: the update they come from
  active,           \* DbApplicationCard::active and its devices' modeActive
  reloadInactive,   \* MpsDb::_reloadInactive
  dbCount,          \* MpsDb::_updateCounter
  inputsUpdated,    \* MpsDb::inputsUpdated, guarded by inputsUpdatedMutex
  enPc,             \* engineThread: "loop", "wait", "asleep", "check",
                    \*   "processed", "push", "reload", "exited"
  enTodo,           \* cards checkFaults has left to evaluate
  mitBuf,           \* MpsDb::softwareMitigationBuffer
  ignored,          \* DbAnalogDevice::ignored of the card's devices
  enReload,         \* the local flag reload of engineThread
  enCount,          \* Engine::_updateCounter
  mitQueue,         \* MpsDb::softwareMitigationQueue
  wrPc,             \* mitigationWriter: "pop", "write"
  wrMsg,            \* the message it holds
  wrCount,          \* messages it has written (mitigationTxTime ticks)
  written,          \* the last message the firmware got
  fwIgnored,        \* cards whose channels the firmware configuration masks
  timeoutEnable,    \* Firmware::getAppTimeoutEnable, set by the operator
  evaluate,         \* Engine::_evaluate
  run               \* MpsDb::run

readerVars  == <<received>>
inputVars   == <<inPc, fwUpdateBuffer, inTodo, cardUpdate, active, dbCount>>
engineVars  == <<enPc, enTodo, mitBuf, ignored, enReload, enCount, fwIgnored>>
writerVars  == <<wrPc, wrMsg, wrCount, written>>
controlVars == <<timeoutEnable, evaluate, run>>

vars == <<readerVars, fwUpdateQueue, inputVars, reloadInactive, inputsUpdated,
          engineVars, mitQueue, writerVars, controlVars>>

Message == [Cards -> Nat]
From(n) == [c \in Cards |-> n]
Cleared == From(0)

(* The two predicates of the handshake: updateInputs sleeps until the      *)
(* inputs were processed, the engine until they were updated.              *)
InputsTakenUnconditionally == TRUE
InputsTaken == ~inputsUpdated

InputReadyAlways == TRUE
InputReady == inputsUpdated

(* The state loadConfig leaves when it starts the engine thread and no     *)
(* update has been taken yet.  loadConfig enabled the timeout of every     *)
(* card; DbApplicationCard() {} left active as the allocator returned it.  *)
Init ==
  /\ received = 0
  /\ fwUpdateQueue = <<>>
  /\ inPc = "pop"
  /\ fwUpdateBuffer = 0
  /\ inTodo = {}
  /\ cardUpdate = From(0)
  /\ active \in [Cards -> ActiveGarbage]
  /\ reloadInactive = FALSE
  /\ dbCount = 0
  /\ inputsUpdated = FALSE
  /\ enPc = "loop"
  /\ enTodo = {}
  /\ mitBuf = Cleared
  /\ ignored = [c \in Cards |-> FALSE]
  /\ enReload = FALSE
  /\ enCount = 0
  /\ mitQueue = <<>>
  /\ wrPc = "pop"
  /\ wrMsg = Cleared
  /\ wrCount = 0
  /\ written = Cleared
  /\ fwIgnored = [c \in Cards |-> FALSE]
  /\ timeoutEnable = [c \in Cards |-> TRUE]
  /\ evaluate = TRUE
  /\ run = TRUE
-----------------------------------------------------------------------------
(* FwReader: MpsDb::fwUpdateReader.  A timeout or a short read is retried  *)
(* and reaches nobody; a full buffer is queued.                            *)
ReadUpdate ==
  /\ received < MaxUpdates
  /\ received' = received + 1
  /\ fwUpdateQueue' = Append(fwUpdateQueue, received + 1)
  /\ UNCHANGED <<inputVars, reloadInactive, inputsUpdated, engineVars,
                 mitQueue, writerVars, controlVars>>
-----------------------------------------------------------------------------
(* InputUpdates: MpsDb::updateInputs. *)

(* The blocking pop, and the buffer replaced before the wait below. *)
InputPop ==
  /\ inPc = "pop"
  /\ fwUpdateQueue # <<>>
  /\ fwUpdateBuffer' = Head(fwUpdateQueue)
  /\ fwUpdateQueue' = Tail(fwUpdateQueue)
  /\ inPc' = "wait"
  /\ UNCHANGED <<readerVars, inTodo, cardUpdate, active, reloadInactive,
                 dbCount, inputsUpdated, engineVars, mitQueue, writerVars,
                 controlVars>>

(* while(inputsUpdated), tested under inputsUpdatedMutex. *)
InputWait ==
  /\ inPc = "wait"
  /\ IF InputsTaken
     THEN inPc' = "update" /\ inTodo' = Cards
     ELSE inPc' = "asleep" /\ UNCHANGED inTodo
  /\ UNCHANGED <<readerVars, fwUpdateQueue, fwUpdateBuffer, cardUpdate, active,
                 reloadInactive, dbCount, inputsUpdated, engineVars, mitQueue,
                 writerVars, controlVars>>

(* wait_for returns: notified, after 5 ms, or spuriously; run is tested    *)
(* here and nowhere else in the loop.                                      *)
AfterInputSleepInverted == IF run THEN "exited" ELSE "wait"
AfterInputSleep == IF run THEN "wait" ELSE "exited"

InputWake ==
  /\ inPc = "asleep"
  /\ inPc' = AfterInputSleep
  /\ UNCHANGED <<readerVars, fwUpdateQueue, fwUpdateBuffer, inTodo, cardUpdate,
                 active, reloadInactive, dbCount, inputsUpdated, engineVars,
                 mitQueue, writerVars, controlVars>>

(* The pass keeps the request of every card whose active flag changed. *)
ReloadAfterCard(c) == reloadInactive \/ active[c] # timeoutEnable[c]

(* DbApplicationCard::updateInputs of one card: its active flag follows    *)
(* the firmware's timeout enable bit, and a change asks for a reload.      *)
InputCard(c) ==
  /\ inPc = "update"
  /\ c \in inTodo
  /\ inTodo' = inTodo \ {c}
  /\ cardUpdate' = [cardUpdate EXCEPT ![c] = fwUpdateBuffer]
  /\ active' = [active EXCEPT ![c] = timeoutEnable[c]]
  /\ reloadInactive' = ReloadAfterCard(c)
  /\ UNCHANGED <<readerVars, fwUpdateQueue, inPc, fwUpdateBuffer, dbCount,
                 inputsUpdated, engineVars, mitQueue, writerVars, controlVars>>

InputPublish ==
  /\ inPc = "update"
  /\ inTodo = {}
  /\ dbCount' = dbCount + 1
  /\ inputsUpdated' = TRUE
  /\ inPc' = "pop"
  /\ UNCHANGED <<readerVars, fwUpdateQueue, fwUpdateBuffer, inTodo, cardUpdate,
                 active, reloadInactive, engineVars, mitQueue, writerVars,
                 controlVars>>
-----------------------------------------------------------------------------
(* EngineThread: Engine::engineThread and Engine::checkFaults. *)

EngineLoop ==
  /\ enPc = "loop"
  /\ enPc' = IF evaluate THEN "wait" ELSE "exited"
  /\ UNCHANGED <<readerVars, fwUpdateQueue, inputVars, reloadInactive,
                 inputsUpdated, enTodo, mitBuf, ignored, enReload, enCount,
                 fwIgnored, mitQueue, writerVars, controlVars>>

(* MpsDb::clearMitigationBuffer swaps in a zeroed buffer of full size. *)
NewMitBuffer == Cleared

(* while(!isInputReady()), tested under inputsUpdatedMutex; when the       *)
(* inputs are ready checkFaults starts and clears the mitigation buffer.   *)
EngineWait ==
  /\ enPc = "wait"
  /\ IF InputReady
     THEN enPc' = "check" /\ enTodo' = Cards /\ mitBuf' = NewMitBuffer
     ELSE enPc' = "asleep" /\ UNCHANGED <<enTodo, mitBuf>>
  /\ UNCHANGED <<readerVars, fwUpdateQueue, inputVars, reloadInactive,
                 inputsUpdated, ignored, enReload, enCount, fwIgnored,
                 mitQueue, writerVars, controlVars>>

(* wait_for returns, for whatever reason; _evaluate is tested. *)
AfterEngineSleepUntested == "wait"
AfterEngineSleep == IF evaluate THEN "wait" ELSE "exited"

EngineWake ==
  /\ enPc = "asleep"
  /\ enPc' = AfterEngineSleep
  /\ UNCHANGED <<readerVars, fwUpdateQueue, inputVars, reloadInactive,
                 inputsUpdated, enTodo, mitBuf, ignored, enReload, enCount,
                 fwIgnored, mitQueue, writerVars, controlVars>>

(* evaluateFaults and breakAnalogIgnore reach the devices of one card. *)
EngineCheck(c) ==
  /\ enPc = "check"
  /\ c \in enTodo
  /\ enTodo' = enTodo \ {c}
  /\ mitBuf' = [mitBuf EXCEPT ![c] = cardUpdate[c]]
  /\ ignored' = [ignored EXCEPT ![c] = ~active[c]]
  /\ UNCHANGED <<readerVars, fwUpdateQueue, inputVars, reloadInactive,
                 inputsUpdated, enPc, enReload, enCount, fwIgnored, mitQueue,
                 writerVars, controlVars>>

(* What checkFaults returns: getDbReload counts as much as a condition. *)
ReloadOfConditionOnly(conditionChanged) == conditionChanged
ReloadWanted(conditionChanged) == conditionChanged \/ reloadInactive

(* The end of checkFaults: an ignore condition may have changed, and       *)
(* _reloadInactive is read and reset.                                      *)
EngineDecide ==
  /\ enPc = "check"
  /\ enTodo = {}
  /\ \E conditionChanged \in BOOLEAN :
        enReload' = ReloadWanted(conditionChanged)
  /\ reloadInactive' = FALSE
  /\ enPc' = "processed"
  /\ UNCHANGED <<readerVars, fwUpdateQueue, inputVars, inputsUpdated, enTodo,
                 mitBuf, ignored, enCount, fwIgnored, mitQueue, writerVars,
                 controlVars>>

(* MpsDb::inputProcessed, called before the mitigation is queued. *)
InputProcessed ==
  /\ enPc = "processed"
  /\ inputsUpdated' = FALSE
  /\ enPc' = "push"
  /\ UNCHANGED <<readerVars, fwUpdateQueue, inputVars, reloadInactive, enTodo,
                 mitBuf, ignored, enReload, enCount, fwIgnored, mitQueue,
                 writerVars, controlVars>>

PushMitBuffer ==
  /\ enPc = "push"
  /\ mitQueue' = Append(mitQueue, mitBuf)
  /\ enCount' = enCount + 1
  /\ enPc' = IF enReload THEN "reload" ELSE "loop"
  /\ UNCHANGED <<readerVars, fwUpdateQueue, inputVars, reloadInactive,
                 inputsUpdated, enTodo, mitBuf, ignored, enReload, fwIgnored,
                 writerVars, controlVars>>

(* reloadConfigFromIgnore: writeAnalogConfiguration masks ignored devices. *)
ReloadConfigFromIgnore ==
  /\ enPc = "reload"
  /\ fwIgnored' = ignored
  /\ enPc' = "loop"
  /\ UNCHANGED <<readerVars, fwUpdateQueue, inputVars, reloadInactive,
                 inputsUpdated, enTodo, mitBuf, ignored, enReload, enCount,
                 mitQueue, writerVars, controlVars>>
-----------------------------------------------------------------------------
(* MitWriter: MpsDb::mitigationWriter, a blocking pop and a stream write. *)
WriterPop ==
  /\ wrPc = "pop"
  /\ mitQueue # <<>>
  /\ wrMsg' = Head(mitQueue)
  /\ mitQueue' = Tail(mitQueue)
  /\ wrPc' = "write"
  /\ UNCHANGED <<readerVars, fwUpdateQueue, inputVars, reloadInactive,
                 inputsUpdated, engineVars, wrCount, written, controlVars>>

WriteMitigation ==
  /\ wrPc = "write"
  /\ written' = wrMsg
  /\ wrCount' = wrCount + 1
  /\ wrPc' = "pop"
  /\ UNCHANGED <<readerVars, fwUpdateQueue, inputVars, reloadInactive,
                 inputsUpdated, engineVars, mitQueue, wrMsg, controlVars>>
-----------------------------------------------------------------------------
(* What other threads do to this path at any moment. *)

SetAppTimeoutEnable(c) ==
  /\ timeoutEnable' = [timeoutEnable EXCEPT ![c] = ~timeoutEnable[c]]
  /\ UNCHANGED <<readerVars, fwUpdateQueue, inputVars, reloadInactive,
                 inputsUpdated, engineVars, mitQueue, writerVars, evaluate, run>>

ThreadExit ==
  /\ evaluate
  /\ evaluate' = FALSE
  /\ UNCHANGED <<readerVars, fwUpdateQueue, inputVars, reloadInactive,
                 inputsUpdated, engineVars, mitQueue, writerVars,
                 timeoutEnable, run>>

StopDb ==
  /\ run
  /\ run' = FALSE
  /\ UNCHANGED <<readerVars, fwUpdateQueue, inputVars, reloadInactive,
                 inputsUpdated, engineVars, mitQueue, writerVars,
                 timeoutEnable, evaluate>>
-----------------------------------------------------------------------------
InputNext ==
  \/ InputPop \/ InputWait \/ InputWake \/ InputPublish
  \/ \E c \in Cards : InputCard(c)

EngineNext ==
  \/ EngineLoop \/ EngineWait \/ EngineWake \/ EngineDecide
  \/ InputProcessed \/ PushMitBuffer \/ ReloadConfigFromIgnore
  \/ \E c \in Cards : EngineCheck(c)

WriterNext == WriterPop \/ WriteMitigation

ControlNext ==
  \/ ThreadExit \/ StopDb
  \/ \E c \in Cards : SetAppTimeoutEnable(c)

Next == ReadUpdate \/ InputNext \/ EngineNext \/ WriterNext \/ ControlNext

Spec == Init /\ [][Next]_vars

(* A real-time thread that can move does: the threads run under SCHED_FIFO *)
(* and block when they have no work, and wait_for returns after 5 ms even  *)
(* when nobody notifies.  Nothing is assumed of the firmware, the operator *)
(* or a stop request.                                                      *)
Fairness ==
  /\ WF_vars(InputNext)
  /\ WF_vars(EngineNext)
  /\ WF_vars(WriterNext)

FairSpec == Spec /\ Fairness
-----------------------------------------------------------------------------
TypeOK ==
  /\ received \in Nat
  /\ fwUpdateQueue \in Seq(Nat)
  /\ inPc \in {"pop", "wait", "asleep", "update", "exited"}
  /\ fwUpdateBuffer \in Nat
  /\ inTodo \subseteq Cards
  /\ cardUpdate \in [Cards -> Nat]
  /\ active \in [Cards -> BOOLEAN]
  /\ reloadInactive \in BOOLEAN
  /\ dbCount \in Nat
  /\ inputsUpdated \in BOOLEAN
  /\ enPc \in {"loop", "wait", "asleep", "check", "processed", "push",
               "reload", "exited"}
  /\ enTodo \subseteq Cards
  /\ mitBuf \in Message
  /\ ignored \in [Cards -> BOOLEAN]
  /\ enReload \in BOOLEAN
  /\ enCount \in Nat
  /\ mitQueue \in Seq(Message)
  /\ wrPc \in {"pop", "write"}
  /\ wrMsg \in Message
  /\ wrCount \in Nat
  /\ written \in Message
  /\ fwIgnored \in [Cards -> BOOLEAN]
  /\ timeoutEnable \in [Cards -> BOOLEAN]
  /\ evaluate \in BOOLEAN
  /\ run \in BOOLEAN

(* The handshake on inputsUpdated is the only thing that keeps the inputs  *)
(* still while checkFaults reads them: updateInputs holds no mutex over    *)
(* its pass.  The two never overlap.                                       *)
InputsStillDuringCheck ==
  inPc = "update" => enPc \notin {"check", "processed"}

(* Every message on its way to the firmware is computed from one update:   *)
(* no message mixes the cards of two updates, though cards are updated and *)
(* read one at a time by different threads.                                *)
MessagesWhole ==
  LET Whole(m) == \A c, d \in Cards : m[c] = m[d]
  IN /\ \A i \in DOMAIN mitQueue : Whole(mitQueue[i])
     /\ Whole(wrMsg)
     /\ Whole(written)

(* The engine between two cycles, its reload included. *)
EngineIdle == enPc \in {"loop", "wait", "asleep", "exited"}

(* Between two cycles the firmware masks no channel of a card the engine   *)
(* evaluates as active: a card brought back to active is protected by the  *)
(* firmware again before the next update is evaluated.                     *)
NoStaleMask ==
  EngineIdle => \A c \in Cards : fwIgnored[c] => ignored[c]

(* The pipeline implements the update stream: a message is counted as      *)
(* evaluated when it is queued and as applied when it is written.          *)
Stream == INSTANCE UpdateStream WITH
            evaluated <- enCount, applied <- wrCount

StreamSpec == Stream!StreamSpec

(* Every update the firmware sends is answered by a mitigation message     *)
(* computed from it, unless the engine or the database is being stopped:   *)
(* no wake-up, flag or queue can be lost so that the path stalls.          *)
EveryUpdateApplied ==
  \A n \in 1..MaxUpdates :
     received >= n ~> (wrCount >= n \/ ~evaluate \/ ~run)

(* After threadExit the engine thread leaves its loop, wherever it was, so *)
(* that threadJoin returns.                                                *)
EngineStops == ~evaluate ~> enPc = "exited"
=============================================================================
