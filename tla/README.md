# Verification of central_node_engine

TLA+ models, TLC runs and TLAPS proofs for the C++ engine of the SLAC LCLS-II
Machine Protection System (MPS) central node. The engine receives input updates
from the central node FPGA 360 times a second, evaluates the fault logic of the
slow devices in software, and sends the firmware a beam class per destination;
the firmware evaluates the fast devices itself, from a configuration the engine
writes. All paths below are relative to the repository (`src/`); the code proper
is in `src/src/`.

## 1. Inventory

### Components, their state and operations

| component | code | state | operations |
|---|---|---|---|
| update pipeline | `central_node_database.cc` (`fwUpdateReader`, `updateInputs`, `mitigationWriter`, `inputProcessed`, `pushMitBuffer`), `queue.cc`, `engineThread` in `central_node_engine.cc` | two queues, the buffers of the update and of the mitigation message, `inputsUpdated`, `_reloadInactive`, `_updateCounter`, stop flags `run` and `_evaluate` | read an update, update the inputs card by card, evaluate, push and write the mitigation message, reload, stop |
| fault evaluation | `Engine::checkFaults` and what it calls, `DbBeamDestination` in `central_node_database_tables.h` | per device, fault, fault state, condition and destination: value, faulted, ignored, active, offline, state shown, tentative and allowed class; the operator's limits | one cycle, from the inputs to the allowed class of every destination |
| bypass manager | `central_node_bypass_manager.h`, `central_node_bypass.cc` | `status`, `until`, `value*` per bypass, `bypassMask` per analog device, the priority queue of expiration times, `refreshFirmwareConfiguration` | set, extend, shorten, cancel, expire, reload |
| firmware configuration and reload | `Engine::reloadConfig`, `reloadConfigFromIgnore`, `MpsDb::writeFirmwareConfiguration`, `DbApplicationCard::write*Configuration`, `Firmware::writeConfig` | configuration buffer per card, enables of the firmware (`enable`, `softwareEnable`, `evaluationEnable`), the latched firmware faults | disable, write, switch, enable, clear |
| input update and latching | `DbApplicationCard::updateInputs`, `DbDeviceInput::update`, `DbAnalogDevice::update`, `unlatch*`, `clearAll` | `value`, `previousValue`, `latchedValue`, `invalidValueCount`, countdown of the automatic unlatch | update, latch, unlatch |
| power class change reader | `MpsDb::fwPCChangeReader`, `printPCChangeInfo` | sequence tag, counters per destination and class | receive, count losses and reordering |
| heartbeat | `heartbeat.cc` (`BlockingHeartBeat`, `NonBlockingHeartBeat`) | request counter, `run`, timer values | beat, writer thread, stop |
| history log | `central_node_history.cc` | bounded queue, the message being built, sender thread | log, send, stop |
| engine life cycle | constructor, destructor, `loadConfig`, `startUpdateThread`, `threadExit` in `central_node_engine.cc`, `~MpsDb` | the database pointer, thread handles, `_initialized`, `_evaluate` | load, fail, start, stop |
| database configuration | `MpsDb::configure*`, `DbApplicationCard::configureUpdateBuffers` | the pointers between tables, `evaluation`, where an input is read, firmware fields derived from the tables | configure |
| database file | `central_node_yaml.h`, `MpsDb::load` | the tables, null until their node was read | parse, refuse |
| timers and statistics | `timer.cc`, `time_util.cc`, `buffer.cc` | minimum, maximum and averages | tick |
| firmware register access | `central_node_firmware.cc` and the `*_noop.cc` stubs | CPSW handles | read and write registers |

### How they interact

    firmware stream --> FwReader --fwUpdateQueue--> InputUpdates
                                                      |  inputsUpdated (mutex, condition variables)
    BypassThread --status, mask--> inputs, devices    v
         |                                          Engine: checkFaults --> mitigation buffer
         +--reloadConfig (database mutex)             |        |
                                                      |        +--reloadConfigFromIgnore (database mutex)
    operator (command server): bypasses,              v
      force, permits, unlatch, enables       softwareMitigationQueue --> MitWriter --> firmware
    heartbeat thread <-- engine, input thread         every thread --> history queue --> UDP sender

Five kinds of interaction matter: the hand-overs (two `Queue<T>`, which have no bound, and the
flag `inputsUpdated`); state that one thread writes and another reads with no
lock (limits, bypass status, unlatch); state under a mutex; the request flags
(`_reloadInactive`, `refreshFirmwareConfiguration`) that ask another thread for a
reload; and the firmware configuration, a stale copy of the logic by nature.

### What is hard, and what makes each component correct

* **Pipeline.** `updateInputs` rewrites every input with no mutex; only
  `inputsUpdated` keeps it away from `checkFaults`. Correct: message *n* is
  computed from update *n* alone, none is lost, repeated or overtaken; nothing
  stalls; the engine can be stopped.
* **Evaluation.** The class of a destination is lowered fault by fault with
  flags that live across faults and cycles; the operator changes limits and
  bypasses meanwhile. Correct: the class allowed is the lowest demanded; the firmware
  masks what the logic ignores; the state shown is the worst.
* **Bypasses.** Entries of the queue outlive the bypass they were made for;
  cancels write with no lock; requests for a reload may be lost. Correct: a
  bypass ends, on time, and the firmware and the mask word follow.
* **Reload.** Two threads reload; the enables are toggled outside the mutex; a
  write may throw half-way. Correct: the enables end as the operator left them,
  and no reload writes under another's enabled evaluation.
* **Latching.** `value` is 0 for a moment in the middle of an update; unlatching
  copies it. Correct: a present fault is hidden for one evaluation at most, and one
  that was seen is held until it is unlatched.
* **Sequence tags.** A tag of 16 bits wraps, packets are lost, repeated and
  reordered. Correct: the loss counter covers what is missing and invents nothing.
* **Heartbeats.** Requests pile up while the register is slow; statistics are
  cleared meanwhile. Correct: one heartbeat per request, none unasked.
* **History.** Every thread fills in the same message with no lock; a
  notification may be heard by nobody. Correct: a call that meets no other is
  logged as it is, records keep their order, nobody hangs in `log`.
* **Database to firmware.** The checks of a database are spread over `load` and ten
  `configure` functions, the layout of a card is computed in one place for
  reading and in another for writing. Correct: only sound databases run, every
  input is read from its card, every rule stands at its channel.
* **Life cycle.** `loadConfig` may throw at five points, with one thread or
  another running by then. Correct: the MPS stays disabled.

`PROJECT.json` lists each of these hazards at its line, with the properties that
would catch it.

## 2. Plan

| order | module | what | composes |
|---|---|---|---|
| 1 | `UpdateStream` | abstract: update *n* gives message *n*, whole | |
| 2 | `UpdatePipeline` | the four threads; implements `UpdateStream` | refines 1 |
| 3 | `FaultEvaluation`, `MCFaultEvaluation` | a cycle of the engine, and a database for it | one step of "check" in 2 |
| 4 | `Bypass` | operator, expiration queue and bypass thread | gives the bypass inputs of 3 |
| 5 | `ConfigReload` | `loadConfig` and its failures, the two reloads, the enables, failures of `writeConfig`, the operator, the end of the program | called by 2 and 4 |
| 6 | `InputLatch` | latched values, unlatch calls and inputs that unlatch themselves | inside "update" of 2 |
| 7 | `Configure`, `MCConfigure` | who evaluates a fault, and the rules the firmware gets for fast devices | gives the constants of 3 |
| 8 | `BeatCounter` | abstract: one heartbeat per request | |
| 9 | `HeartBeat` | request counter, writer thread, statistics, stop; implements `BeatCounter` | refines 8, called by 2 |
| 10 | `HistoryLog` | shared message, bounded queue, sender | called by 2, 3, 4 |
| 11 | `PCChange` | sequence tags of any width, counters | |
| 12 | `DatabaseFile`, `CardConfig`, `MCCardConfig` | what `load` refuses, the references `configure` resolves, what part of the update an input reads and where a rule is written | "configure" and "write" of 5, around 7 |

All of them are written, and every invariant and action property a passing run
checks is a theorem (section 5); of the properties that hold, those of liveness are
left to TLC.

## 3. The modules and the code

### UpdateStream and UpdatePipeline

One update is a number; the inputs of a card are the number of the update they
come from, and a mitigation message is a function from cards to such numbers.
This is all the properties distinguish. Each thread has a program counter
(`inPc`, `enPc`, `wrPc`), and an action is the stretch between two points at
which another thread can be seen: a queue operation, a wait on a condition
variable (`wait_for` with its time-out is "asleep", left at any moment), a pass
over one card. `updateInputs` takes cards one at a time, and so does
`checkFaults`, so that a torn message is possible unless the handshake excludes it.
`active` and the ignore flag it makes are kept because their change causes the
reload. `active` is not initialised by the constructor, so `Init` takes it from
`ActiveGarbage`. `SetAppTimeoutEnable`, `ThreadExit` and `StopDb` come from
outside at any moment.

`UpdateStream` has three counters and the message last written. `UpdatePipeline`
implements it with `evaluated` as the engine's counter, which it increments when it
queues the message, and `applied` as the number of messages written.

### FaultEvaluation and MCFaultEvaluation

The database is a set of constants: what `configure()` resolved. A 32-bit value
is the set of its bits, so "or with a shift" is a union of sets. A cycle is
`BeginCycle`; one `ReadInput` per digital input and one `ReadThreshold` per analog
input of a fault, for these read the bypasses; `EvaluateLogic` (the rest of
`evaluateFaults`, `breakAnalogIgnore`, `evaluateIgnoreConditions`,
`setFaultIgnore`, which read nothing that may change meanwhile); one `MitigateOne` per
allowed class in the order the loops of `mitigate` visit them; and
`setAllowedBeamClass`, for which a destination is begun, and each of its three limits
tested for null, compared and taken, in a step of its own.

* The latched values, the thresholds and the flags of the cards change between cycles
  only, which is what `UpdatePipeline` proves. Bypasses (status, value, mask) and the
  operator's limits change between any two steps, because nothing locks them.
* A limit is a pointer that is read again at each of its uses: one that is cleared
  after its test is dereferenced as null. The process then ends ("crashed"), as it does
  when a state that no allowed class names matches (`NoClasses`).
* `DbApplicationCard::active` is not initialised, so `Init` compares the first flag of
  every card with a garbage value: a card inactive from the start may or may not be
  seen as a change. `changed` is `_reloadInactive`.
* `faulted` lives across the faults of a cycle; of the ignore conditions of one
  integrator the last one writes its flag; the last input of a fault decides whether it
  is offline; `displayState` is not initialised.

`Masked` is what `writeAnalogConfiguration` leaves out of the fast mitigation. `history`
(whether a reload has followed the first cycle) and `disturbed` (a limit of the
destination changed during its tests) serve the properties.

### Bypass

Time is a count of seconds. The operator's `setThresholdBypass` is split at the
points where the lock is taken or not taken: a new bypass asks for the reload,
then writes status and time under the lock, then mask and queue entry; a cancel
writes status, time and mask with no lock. The thread's pass is split in the
same way: it pops an entry, decides whether it was superseded, and ends the
bypass with a read-modify-write of the mask; a reload writes one fast input at a
time from the status it finds. The operator's calls come from one command
server, so they do not overlap each other.

### ConfigReload

The firmware is three registers (`enable`, `software`, `evaluation`) and two
configurations, the one written (`staged`) and the one switched to (`current`). What
a card's configuration says is reduced to the state of one ignore condition:
enough to tell an old configuration from a new one, and a mixed one from both.
Every register write is a step, because `reloadConfig` and
`reloadConfigFromIgnore` write the enables outside the database mutex; every
card is a step of `writeFirmwareConfiguration`, inside it, and each write may
throw. `switchConfig` fails in another way: it returns false, which
`writeFirmwareConfiguration` does not read, whether the firmware has switched or not;
`switched` remembers that result. Nothing catches that exception in either thread, so the process ends where it
is (`WriteFails`) and may be started again (`Restart`); the firmware keeps its
registers and configurations meanwhile. `main` follows `loadConfig` and then
`~Engine`. `wanted` is not in the code: it is what the operator last set each
enable to.

`loadConfig` fails in two ways. Up to `assignBypass` only its own pointer holds the
new `MpsDb`, so that an exception destroys it, and `~MpsDb` joins
`mitigationWriter`, whose loop has no end: the call never returns ("hung"), with the
mutex of the engine held, so that the engine thread which a failing `assignBypass`
starts never runs a cycle. From then on `_mpsDb` holds it too, the exception
reaches the caller and a second `loadConfig` returns at once ("failed"). For the
same reason the program that quits ends at "members", in the destructor of the
engine's last member. `FailedIsDisabled` is about what the load leaves behind: that
the operator then enables the MPS by hand, or sets a bypass whose reload would
enable it, is not a step of the model.

A consequence of the steps that no run states: the enables have no lock, so the
evaluation may be switched on by the reload that ends while the other still writes
cards.

### InputLatch

The value of an analog device is the set of its thresholds exceeded; a digital
input has the single bit `Fault`, set when its value equals its `faultValue` (so an
input whose `faultValue` is 0 starts faulted). `FaultBits` is the decoding of "was
low" and "was high". The hazard is that `value` and `latchedValue` have no
lock: `DbAnalogDevice::update` sets `value` to 0 and only in the end to what it
read, and ors its bits into `latchedValue` one by one (a read and a write each),
while `unlatchAll` and `DbAnalogDevice::unlatch` copy one to the other. The
handshake of `UpdatePipeline` keeps updates and evaluation apart, so `Evaluate`
starts when `toUpdate` is empty. The constructor does not initialise the latched value of
an analog device, which starts as any set of bits. `wrong`, `unlatched`, `evaluated` and
`asked` (the thresholds the operator has asked to unlatch since the last evaluation) are
history variables. An unlatch may be lost when it falls between the read and the write
of `|=`.

### Configure and MCConfigure

`MpsDb::configure` runs once, over tables it has just read: `Init` is any
database, the broken ones included, and the actions are the loops of
`configureFaultStates` and `configureFaultInputs`, one turn of the loop over the
fault inputs to a step, since the rules of a device are made in turns by every
input that names it. A throw ends in "failed". The value of a device state is
its set of bits, a mask a set of destinations; an integrator has `NumThresholds`
bits (8 in the code). `digitalRule` is not initialised by the code, so it starts
from `Garbage`.

What the model shows besides its properties:

* A fast digital device used by two faults has the rule of the last one only
  (`central_node_database.cc:555`); if all inputs of the other fault are fast
  too, that fault is handled by neither side. `EveryFaultHandled` excepts it.
* A fast digital device that no fault input names keeps a rule of garbage, which
  `writeDigitalConfiguration` writes to the firmware.
* A fault state without an `AllowedClass` makes configure dereference a null
  pointer if its device is fast; the model counts that as a failure.

### BeatCounter and HeartBeat

`NonBlockingBeat`, the variant the engine uses: `beat()` counts a request up under
the lock, the thread takes one at a time, reads the error of the watchdog, writes
the register and counts. The counts are plain integers that `defaultClear` sets to
0 from another thread, so each `++` is a read (`copy`) and a write. The time-out of
the thread's wait leads to its test of `run`, and so does every beat. `BeatCounter` is
what the engine may rely on; `HeartBeat` implements it with the requests in the
counter, in the thread's hand and already sent as those asked for.
`counted`, `askedSince` and `sentAfterStop` are history variables.

### PCChange

A packet is its tag and the turn of the tag counter it was sent in; the program
sees the tag only. `CompareTag` takes the difference as an integer, as the code
does (both tags are promoted before the subtraction). What follows the comparison
(flags, classes) is counted for any packet of the right size, the classes unless
`MonitorReady` is in error. `while (run)` is tested between two packets, and
the loop that waits for one does not look at it; so the reader takes one more packet
after the stop at the most (`OneAfterStop`), and waits for ever if none comes.

### HistoryLog

Two fields stand for the five of `History::message`, the first and the last
assigned; `add` takes the mutex, copies the message field by field and releases.
`sendFront` waits 200 ms for a notification, with no predicate and so with no test of
the queue before it sleeps, and empties the queue with the mutex held.
The `nobody` of `mutex`, `overlapped`, `refused`, `accepted` and `taken` serve the
properties; the counter of the code is incremented by successful calls of `sendto` only.
Its specification is `HistorySpec` (and `CardConfig`'s is `CardSpec`): the proofs of two
components share a module, so the names of one are kept apart from those of the other.

### DatabaseFile, CardConfig and MCCardConfig

`DatabaseFile` is the table of `central_node_yaml.h`: which fields each of the
twenty decode functions reads and what it converts them to. An *oddity* is an
entry with a value its field cannot be converted from, or without the field.
Three fates: refused (the exception becomes a `DbException`), tolerated (two
fields are read in a `try` of their own), and escaped (the name of a channel is
converted outside every `try`). `CardConfig` follows one database through `load`, the
configure functions in their order, `configureUpdateBuffers` of every card, the
inputs on other cards, and the writing of the configuration card by card, again each
time a bypass or an ignore condition changes. A reference that finds nothing is in
`dangling`; what that does (throw, crash, nothing) is read from each function.
The first update comes after the first writing: an input of a device on a card that was
given no part of the message throws in its thread, and the process is over. (An update
that comes while the tables are loaded is outside the model: section 6.)

A rule is named by its device, a slot by its place in the buffer of a card, and the
buffer starts with garbage. Nobody checks the number of a channel. `Area` is what the
layout has a place for, and `Room` what its bits can hold, which is all
`bitset::set` checks: a rule beyond `Room` throws, one between the two is accepted and
lands in a place of another kind, and the model says nothing of the buffer then
(`Unknown`). A card has at most `MaxIntegrators` integrators to a device, because a
type of more is not what the arrays of the code can hold.

Three words for a database: `Usable`, what the machine cannot do without;
`Sound`, without a flaw, so besides with no reference that is passed over, a card for
every channel and every rule in its place; `Consistent` (of a card), that the channels
of its fast devices are its own, each of one device. A sound database is accepted, and
only usable ones run; between the two lie the references the code looks up and passes
over, and the channels that fit the bits and not the layout.

`MCCardConfig` has every layout of two digital and two
analog devices on two cards, inputs on a card that is not there, channels beyond the
layout and beyond the bits, and each of two good databases with every single
fault: 6338 databases.

## 4. What TLC checks

| run | question | result |
|---|---|---|
| `UpdatePipeline_updates` | do the inputs stand still while they are evaluated, is no active card left masked, is the update stream implemented, is every update answered, does the engine stop | holds |
| `FaultEvaluation_logic` | is the class the lowest demanded, does the firmware mask what the logic ignores once it was first reloaded, is the state shown the most restrictive | holds |
| `FaultEvaluation_limits` | is the class the lowest of logic and limits when limits and bypasses change between any two tests, unless one of the destination's own changes during its tests | holds |
| `Bypass_timers` | does every bypass have a timer, end, and not early; do the mask and the firmware follow the thread | holds |
| `Bypass_firmware` | does the firmware follow every bypass | fails |
| `ConfigReload_reloads` | is the configuration in force whole, is it current unless the last switch failed, are the enables as the operator wants them after overlapping reloads, does a failed load leave the MPS disabled, do reloads and the program end | holds |
| `InputLatch_races` | how much harm can an unlatch do that races an update, is a fault held while nothing of its device is unlatched | holds: one evaluation per call |
| `Configure_rules` | is every fault left to the engine or covered by the firmware, is the class of a threshold the lowest demanded | holds |
| `CardConfig_cards` | are all sound databases accepted, do only usable ones run, is every input read from its card, do the rules of a consistent card stand at their channels and its thresholds where the update reads them | holds |
| `HeartBeat_beats` | is there one heartbeat per request, is no beat uncounted, is every beat sent or the thread over | holds |
| `HistoryLog_records` | is a call that meets no other logged as it is, is the order kept, is the queue emptied or the sender over, does every call return | holds |
| `PCChange_counts` | does the loss counter cover what is missing and no more, do the counters of order and repetition tell a stream in order from another within a turn | holds |

Most type invariants, and four more invariants that are proved for every value of the constants
(`MessagesWhole`, `LastSetControls`, `BacklogReported`, `OneAfterStop`), are not repeated
in the runs; TLC checked them before they were
proved.

The run that fails is a disagreement between the code and the release notes;
`PROJECT.json` ("findings") quotes both. Eight more statements of comments and release
notes are properties in the modules that TLC refutes; section 6 lists them, with the
run whose bounds show it.

**Bounds.** Two cards and three updates: one being written, one being evaluated
and one being taken, the longest the pipeline can stretch with an update in each
thread; a fourth would only lengthen a queue. The database of
`MCFaultEvaluation` has two faults that share a device, one with a default state, and
an analog fault with two thresholds of one integrator under separate conditions:
each rule of `evaluateIgnoreConditions` and each order of `mitigate` meets
another. `FaultEvaluation_limits` trades conditions for an operator, with a smaller
database in which two faults read one bypassed threshold, and a state without allowed classes. Three calls
over two seconds let a bypass be set, extended and shortened or cancelled before
the first entry is due, and two analog bypasses share a mask word. The digital
one may be cancelled and the analog ones not: the cancel of an analog bypass
updates the mask word with no lock, and may lose the thread's update of it.
`ConfigReload` has two cards, so that a configuration can be mixed, any number of
reloads by the engine, one by the bypass thread (in time, or during a reload of the engine), and
one write or switch that fails; the proofs are for any number of either.
`Configure` has three fault inputs, the fewest for a fault with a slow and a fast
input beside another fault, two fault states and two integrators; faults and
states are symmetric, since nothing depends on their order. `InputLatch` has a
device of each kind and two calls, so that a second can fall on the repair of the first; the cycles are unbounded.
`HeartBeat` has four requests (one being sent, two waiting, one after the stop)
and two clears, so that a clear can fall into the beat that repaired the first.
`HistoryLog` has two threads and three calls over a queue of two: two that
overlap and one alone, or one too many for the queue. `PCChange` has tags of two
bits over two turns and four packets: one to start with, a gap, a repetition or
a packet of the turn before, and one after it; the proofs are for any width.
`CardConfig` has two cards, because one card's NUMBER must be able to be the other's
id, two channels, two integrators and two thresholds, so that each of the four
factors of a slot matters; the bits have room for one channel, one threshold class pair
and one integrator more than the layout.

**Deadlock.** `UpdatePipeline` stops when its updates are used up and everything
is processed or stopped, `Bypass` when its time and calls are: both runs allow
it, and have liveness properties instead. `ConfigReload` ends when the program has
quit, `HeartBeat`, `HistoryLog` and `PCChange` when their thread has exited,
`CardConfig` when a database is refused, the evaluation when a null pointer was
dereferenced (`FaultEvaluation_limits`). `InputLatch` never stops.

**Fairness.** Weak fairness of the input, engine and writer threads: they are
real-time threads that block only in `pop` and in `wait_for`, which returns
after 5 ms in any case (`central_node_database.cc:153`,
`central_node_engine.cc:1041`). Nothing is assumed of the firmware's updates, of
the operator, or of a stop request. In `Bypass`: the clock advances, the thread
wakes from its sleep of a second, and a call that was begun goes on unless the lock
is held; no call need ever be made. In `ConfigReload`: both threads run, main goes
on once it has begun to quit, and the bypass thread gets the mutex in the end
(strong fairness of that one step: the engine takes the mutex once or twice a
cycle and leaves it free for the milliseconds in which it waits for inputs). That
inputs come is not assumed, so the engine may wait for ever until it is stopped.
`HeartBeat` assumes that its thread runs; its wait ends after 5 ms in any case.
`HistoryLog` assumes that a call once begun goes on, that the sender runs and that its
wait ends, and that each gets a mutex that is free again and again (strong fairness
of the steps that take it: the sender leaves it while it waits, a caller after one
push).

## 5. What is proved

TLAPS proves the following for every value of the constants under the
assumptions declared in the modules (`CardsAssumption`, `GarbageAssumption`,
`MaxUpdatesAssumption`; `ClassAssumption`, `StateAssumption`, `BoundAssumption`,
`AllowedAssumption`; `KindAssumption`, `BoundAssumption`; `CardsAssumption`,
`BoundAssumption`; `KindAssumption`, `NoneAssumption`, `CallAssumption`;
`DeviceAssumption`, `SizeAssumption`, `ValueAssumption`, `DemandAssumption`;
`ModulusAssumption`, `FlagAssumption`, `BoundAssumption` of `PCChange`;
`BoundAssumption` of `HeartBeat`; `ThreadAssumption`, `SizeAssumption` of
`HistoryLog`; `IdAssumption`, `DatabaseAssumption`, `SlotAssumption` of `CardConfig`;
`FaultAssumption` of `FaultEvaluation`): the shape `configure()` gives the
database, that ids are numbers and the default state of a fault one of its own, that
there are finitely many states and devices, that an analog device state is one bit,
that a tag has more than two values, and that bounds are numbers. Of the layout of a card
`SlotAssumption` says only that it does not exceed its bits.

* `UpdatePipelineProofs`: `TypeCorrect`, `InputsStill`, `NoTornMessage`,
  `NoStaleMaskHolds`, and `ImplementsStream`, that every step of the pipeline is a
  step of the stream or a stutter. The inductive invariant `StreamInv` says which
  numbers each queue and buffer may hold at each pair of program counters:
  `QueueOrder` (the queue holds the updates between the input thread's and the
  reader's), `InputsShown` (cards not yet visited show the previous update),
  `Handshake` (the flag and the two counters say whose turn it is), `BufferShown`
  and `MitigationOrder`. Without the handshake part, the message could only be
  said to hold *some* updates. `MaskInv` adds that a masked card which is active
  again has its reload under way.
* `FaultEvaluationProofs`: `TypeCorrect`; `AllowedLowest` from `LoopInv` (after *k*
  allowed classes the tentative class is the lowest of the demands among the first *k*)
  and `PermitInv` (while no limit of the destination has changed, its tentative class is
  the lowest of the demands and of the limits already passed); `MaskCurrent`
  from `MaskInv` (the ignore flags are a function of the conditions and of the active
  flags of the last cycle, so if neither changed the mask is still right; until the first
  reload, what is ignored is ignored by an inactive card); `WorstShown` from
  `WorstInv`, a loop invariant of `mitigate`.
* `BypassProofs`: `TypeCorrect`, `TimerLeft`, `LastControls` and `NotEarly`
  from `TimerInv` (an early entry is left in the queue only of a bypass that was
  extended, and then a later one is there too, or about to be pushed under the
  lock), `ExpiryReachesFirmware` from `ReloadInv`, and `MaskFollows` from `MaskInv`
  (what the thread has read of a mask word is what the word still holds when the thread
  writes it back, and a superseded entry belongs to a bypass in force; a cancel takes no
  lock, and could change the word between that read and that write).
* `ConfigReloadProofs`: `TypeCorrect`; `Whole` and `Current` from `WriteInv` (one
  thread writes at a time, what it has written is the configuration of the
  condition, which cannot change meanwhile, and only the engine's own reload stands
  between a change and the next cycle; if its switch fails, `switched` says so until one works); `WantedEnabled` from `EnableInv` (an
  enable that is wanted and off is still `Pending` in some thread: a thread that
  switches it off will switch it on again); `FailedDisabled` from `FailedInv` (what
  `loadConfig` has switched off stays off up to the first cycle) with the part
  `LoadInv` of `WriteInv`: until then, and for ever after a failure, no engine runs and
  the bypass thread has nothing to reload.
* `InputLatchProofs`: `TypeCorrect`; `WrongOnce` from `WrongInv` (a device has a
  `Hole` when a bit latched in this update is gone again, from the word or from the
  copy `|=` holds; only an unlatch makes one, an evaluation uses it up and the
  next update starts without); `FaultsHeld` from `HeldInv` (what was evaluated is
  still in the word and in that copy, as long as nothing of the device was unlatched).
* `ConfigureProofs`: `TypeCorrect`; `LowestClass` from `LoopInv` (after *k* fault
  inputs the class of a threshold is the lowest of those the first *k* demand, and
  `fastPowerClassInit` tells whether there is one: without it, the initial 0 would
  count as a demand), with the lemmas that a set of numbers has a lowest and that the
  lowest of two sets is that of their union; `FaultsHandled` from `HandledInv`, which has
  two parts: `RulesInv` (the rule of a device covers the states of every fault input
  that was visited, unless a later fault overwrote it) and `EvaluationInv` (a fault
  with a slow input is slow in the end).
* `DatabaseProofs`, of `PCChange`: `TypeCorrect`; `LossesCounted`, `LossesReal`, `DisorderFound` and
  `StopsSoon`. `MemoryInv` ties the tag the program remembers to the packet read
  last, and the counters to the first one. What a packet adds to the missing ones is at most the stretch of tags between
  that packet and itself, and in a stream in order (`OrderInv`: nothing read was sent
  after the last) exactly that stretch, whose size is what the loss counter grows by.
* `DatabaseProofs`, of `CardConfig`: `FlawsStopped` and `SoundAccepted` from `PassedInv`
  (each function that let the database through has found a part of `Usable` in it, and
  one that refused it or crashed has found a part missing) and `BoundInv` (which card an input
  of a device on a card is bound to, once its own card and once all cards have been bound), after the
  lemmas that take `Usable` apart. `ReadsOwnCard` follows from `BoundInv` too. `RulesInFirmware`
  and `ThresholdsFound` from `WrittenInv` (a card that the current writing has reached
  holds `Written`, the last write to each slot) and lemmas about the layout: every slot
  of a device that keeps to its place is inside the buffer (`InputSlots`, `PartSlots`), no two parts
  of a consistent card share one (`MaskOfOne`, `ClassOfOne`, from the uniqueness of
  quotient and remainder, `Division`), and a set of writes has a last one
  (`LastWriteAmong`; that finitely many numbers have a greatest follows from the least
  counterexample, as the induction theorems cannot be used).
* `ServiceProofs`, of `HeartBeat`: `TypeCorrect`; `BeatsImplemented`, that every step is a step
  of `BeatCounter` or a stutter (a request moves between counter, thread and
  register without being lost, and the thread that beats after the stop tests `run`
  before it takes another); `BacklogShown`; `CountsCover`, from an invariant about the
  copy in the hand of `++` when a clear comes between.
* `ServiceProofs`, of `HistoryLog`: `HistoryTypeCorrect` with `LockInv` (who holds the
  mutex is the only one in a critical section; without it the queue could grow between
  the test for its size and the push); `AcceptedIsSent`; `SoleCallsWhole` from `SoleInv`:
  `CallsInv` (the calls of two busy threads differ and have met), `FieldsInv` (a field that a busy thread
  finds in the shared message, or in its copy, is its own, or both calls met another) and
  `RecordsInv` (a call that met none is in one record with both fields, or in none as
  long as it is busy or was refused).

Only model-checked: the liveness properties `EveryUpdateApplied`, `EngineStops`,
`BypassEnds`, `ReloadsEnd`, `ProgramQuits`, `EveryBeatSent`, `QueueDrained` and
`LogReturns`, which need fairness, and `FirmwareFollows`, which fails. What `load`
demands of each table (`DatabaseFile`) is data: `CardConfig` reads it, and the proofs
cite its definitions.

## 6. What is not modelled

* The contents of a stream message other than the places of the inputs, the
  eight-fold expansion of the classes into mitigation words, statistics, and the
  text the command server prints: they feed nothing back.
* Short or timed-out reads of the stream: they are retried and reach nobody.
* Weak memory. Every plain field is read and written atomically; where two
  writes of one function can be seen apart, they are two actions.
* A `shared_ptr` read while it is written: the model has the old or the new pointer,
  where the copy of the code may be of neither.
* `History::enabled`, which the constructor sets and nothing resets.
* Register writes that fail silently: `Firmware::setBoolU64` catches the error and
  goes on. (`switchConfig`, which does the same, is modelled.)
* YAML as a text, timers and statistics, and the register access of
  `central_node_firmware.cc`: the first is a library, the second is read by displays
  only, the third is input and output with no state of its own. The countdown
  before an unlatch is asked for by the IOC, which is not in this repository.
* The enables of the timing check and the clearing of latched firmware faults.
* The tests, the command server and the `*_noop.cc` stubs.

### Statements that do not hold

Each is a property in its module that no run lists, since it fails. Put after the
others in the configuration named here, TLC gives a behaviour of the code that violates it.

| property | configuration | what is said | what happens |
|---|---|---|---|
| `InactiveIsMasked` | `FaultEvaluation_logic` | "If an application card has been set inactive, its logic will also be set to ignored, so the FW configuration will need to be reloaded" (`central_node_database.cc:193`) | `DbApplicationCard() {}` leaves `active` uninitialised (`central_node_database_tables.cc:328`) and `updateInputs` asks for a reload only when the new value differs (`central_node_inputs.cc:314`): a card inactive from the first update on may be ignored by the engine and stay unmasked in the firmware |
| `DefaultWhenClear` | `FaultEvaluation_logic` | "If there are no faults, then enable the default - if there is one" (`central_node_engine.cc:497`), of a fault whose "Default fault state" is meant "if no other fault is active" (`central_node_database_tables.h:644`) | `faulted` is declared once for all faults (`central_node_engine.cc:370`), so a fault with nothing faulted gets no default state when one visited before is faulted |
| `AllowedWithinLogic` | `FaultEvaluation_limits` | "Now final beam class is the lowest of the force and the logic output" (`RELEASE_NOTES.md:105`) | the force is compared and then read again to be taken (`central_node_database_tables.h:514`): one replaced by a higher one in between lets that higher class pass for a cycle |
| `ClassesMayBeMissing` | `FaultEvaluation_limits` | "WARN: no AllowedClasses found for ..." (`central_node_engine.cc:698`), after which `mitigate` goes on | `evaluateFaults`, which comes first, dereferences the null map (`central_node_engine.cc:478`) |
| `SwitchTakesEffect` | `ConfigReload_reloads` | "Firmware command to actually switch to the new configuration" (`central_node_database.cc:1214`) | `switchConfig` catches the error and returns false (`central_node_firmware.cc:676`), which nobody reads: the MPS is enabled again with the old configuration |
| `OnlyMaskUnlatched` | `InputLatch_races` | "Unlatch the bit set in the threshold mask passed as input parameter" (`central_node_database_tables.cc:225`) | `latchedValue &= (value & mask) & ~mask` is 0 whatever the mask (`:235`; nothing in `src/src` calls it): all latched faults of the device are gone |
| `ReferencesResolved` | `CardConfig_cards` | the configure functions "look for the actual item referenced by the foreign key and saves a pointer to the referenced element" (`central_node_database.cc:1061`) | an allowed class of an unknown fault state (`:268`), an unknown type of a device state (`:292`) and an unknown crate (`:917`) are passed over, and the database runs |
| `OnlyDisorderCounted` | `PCChange_counts` | "packet received out of order" (`central_node_database.cc:1763`), of a negative difference | the difference of two tags of 16 bits is taken wider than that, so once a turn a packet in order is counted as out of order |

More of the kind, without a property:

* A cancel writes `status` and `until` with no lock; when `checkBypassQueueTop` pops an
  entry of an extended bypass between the two, it sets the status back to valid, with
  `until` 0 (`central_node_bypass.cc:405`), although "The until field in the bypass is
  set to ZERO and status changed to BYPASS_EXPIRED" (`central_node_bypass.cc:341`).
* Every reload ends with `setEnable(true)` (`central_node_engine.cc:107`, `:127`), so the
  first ignore condition that changes enables the MPS, although "After config is
  loaded MPS is not enabled by default, user must enable it on the EDM panel"
  (`RELEASE_NOTES.md:214`).
* "Stop the MPS before quitting" (`central_node_engine.cc:69`): the engine thread that
  is in a reload enables it once more before it is joined, and one that returns from
  its wait does not disable it again (`central_node_engine.cc:1046`); `~Firmware`,
  which would, is not reached.

### Other observations

Evaluation, bypasses, reload:

Of two ignore
conditions on thresholds of one integrator the last one evaluated writes the
integrator's flag, so a false one leaves armed in the firmware what a true one
ignores in software (`central_node_engine.cc:572`); and, where only displays or a
single evaluation depend on it, `mitigate` starts the state shown from
that of the last cycle, so a fault all of whose states are ignored may show one it
has left (`central_node_engine.cc:660`); of several inputs the last one decides
whether -1 is shown (`central_node_engine.cc:633`); `setThresholdBypass` sets
the status of a bypass before its value, and the engine reads both with no lock
(`central_node_bypass.cc:458`).

Power class changes: after a gap the packet itself is in none of the counters
`valid`, `sameTag`, `outOfOrder`, only the missing ones in `loss`;
`_pcChangeTag` is not initialised (it is not read before the first packet);
`_pcCounters` are set to 0 for the first `MpsDb` of the process only; they are
printed without a lock.

Database and cards:

* An input is looked for on the card of its device by the NUMBER of that card
  (`central_node_inputs.cc:269`) and elsewhere by the id
  (`central_node_database.cc:1023`), so with numbers that are not ids it may be read
  from the wrong card. `ReadsItsCard` excepts these.
* The buffer is not zeroed (`central_node_database.cc:1367`, commented out), so a card
  without devices is given what it holds; the flag `configured` is not initialised for
  inputs whose device has no card.
* Two throws are commented out (`central_node_database.cc:323`, `:360`): a dangling
  reference there dereferences the end of a map, and so does a missing type of a
  card with analog devices (`:1000`). An input whose channel names a card that does not
  exist makes the first update throw (`central_node_inputs.cc:118`).
* A fast device whose input is on another card has its rule in the configuration of
  its own card, at the number the channel has on the other (`central_node_inputs.cc:419`).
* Nothing checks the number of a channel; one beyond the layout and within the bits of
  the buffer lands in a place of another kind (`central_node_inputs.cc:422`).
* Several inputs of a fast device are found when the configuration is written,
  after the engine has taken the database.
* A class number of 16 or more is written outside the arrays of the timing check
  (`:1207`).
* Of entries with the same id the first is kept; a node that comes twice replaces its
  table. `IgnoreCondition` needs its `device_id`, which a comment calls optional, so the
  check that one of two references is given never fails. `destination_mask` is read as a
  short, so a mask of 0x8000 or more is refused. Destinations with overlapping masks
  get classes combined by `|=` (`central_node_database_tables.h:539`).

Threads: those of `MpsDb` start with its first members, before the members after them
are initialised (`central_node_database.cc:38`), and an update that comes before `load`
has made the tables finds a null pointer (`:199`). `~Engine` without a loaded database
has no bypass manager to stop (`central_node_engine.cc:79`). `hbCnt` is a signed 32-bit
count of beats, which overflows after 69 days at 360 Hz. Showing the firmware
status writes 7 to its timeout register (`central_node_firmware.cc:1079`).
