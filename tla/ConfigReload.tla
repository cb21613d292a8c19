---------------------------- MODULE ConfigReload ----------------------------
(***************************************************************************)
(* The firmware configuration: how loadConfig writes it first, how the     *)
(* engine (reloadConfigFromIgnore) and the bypass thread (reloadConfig)    *)
(* write it again, and what happens to the enables of the firmware on the  *)
(* way.  A reload switches the three enables off, writes the configuration *)
(* of every card under the database mutex, has the firmware switch to it   *)
(* and switches the enables on again; the enables have no lock, so that    *)
(* two reloads overlap.  A write that fails throws through the thread, and *)
(* the process ends where it is; it may be started again.  A switch that   *)
(* fails goes unnoticed.                                                   *)
(*                                                                         *)
(* What a card's configuration says is here the state of one condition     *)
(* that ignores devices on every card.                                     *)
(***************************************************************************)
EXTENDS Naturals

CONSTANTS
  Cards,        \* the application cards
  MaxRequests,  \* bound: reloads the bypass manager asks for
  MaxFailures   \* bound: writes and switches that fail

ASSUME CardsAssumption == Cards # {}
ASSUME BoundAssumption == MaxRequests \in Nat /\ MaxFailures \in Nat

Threads == {"engine", "bypass"}
Registers == {"enable", "software", "evaluation"}

VARIABLES
  reg,       \* the enables of the firmware
  wanted,    \* the enables the operator has switched on
  staged,    \* per card, the configuration written to the firmware
  current,   \* per card, the one it has switched to
  ignoring,  \* DbCondition::state, and the ignore flags it sets
  main,      \* loadConfig: "software", "enable", "configure", "write",
             \*   "switch"; then "running", or "failed" or "hung" in it;
             \*   ~Engine: "quit enable", "exit", "join", "stop", "members"
  pc,        \* per thread: "none", "loop", "off", "lock", "write", "switch",
             \*   "on", "exited"; engineThread also "wait", "check",
             \*   "exit software", "exit enable"; bypassThread "clear", "sleep"
  at,        \* per thread, the enable it is about to set
  todo,      \* cards writeFirmwareConfiguration has left
  switched,  \* the last switchConfig returned true
  refresh,   \* refreshFirmwareConfiguration
  evaluate,  \* Engine::_evaluate
  threadDone,
  alive,     \* FALSE when an exception has ended the process
  requests, failures

flagVars  == <<refresh, evaluate, threadDone, alive, requests, failures>>
writeVars == <<staged, current, todo, switched>>
vars == <<reg, wanted, ignoring, main, pc, at, writeVars, flagVars>>

Written(condition) == [c \in Cards |-> condition]

(* A process that starts: the firmware keeps its registers. *)
Init ==
  /\ reg \in [Registers -> BOOLEAN]
  /\ wanted = [r \in Registers |-> FALSE]
  /\ staged = Written(FALSE)
  /\ current = Written(FALSE)
  /\ switched = TRUE
  /\ ignoring = FALSE
  /\ main = "software"
  /\ pc = [t \in Threads |-> "none"]
  /\ at = [t \in Threads |-> 1]
  /\ todo = {}
  /\ refresh = FALSE
  /\ evaluate = FALSE
  /\ threadDone = FALSE
  /\ alive = TRUE
  /\ requests = 0
  /\ failures = 0

Move(t, from, to) == pc[t] = from /\ pc' = [pc EXCEPT ![t] = to]
MainMove(from, to) == main = from /\ main' = to

Set(r, value) == reg' = [reg EXCEPT ![r] = value]
-----------------------------------------------------------------------------
(* writeFirmwareConfiguration, under the database mutex. *)

(* A reload from its first enable switched off to its last one on. *)
Reloading(t) == pc[t] \in {"off", "lock", "write", "switch", "on"}

(* Who holds the database mutex. *)
Holds(t) == pc[t] \in {"write", "switch"}
MutexUntested == TRUE
MutexTakenTwice == ~\E t \in Threads : Holds(t) \/ pc[t] = "lock"
MutexFree == ~\E t \in Threads : Holds(t)

(* The configuration of one card, made from the ignore flags and written. *)
WriteCard(c) ==
  /\ c \in todo
  /\ staged' = [staged EXCEPT ![c] = ignoring]
  /\ todo' = todo \ {c}

(* switchConfig, when every card is written.  An I/O error makes it return *)
(* false, which nobody reads; the firmware may have switched all the same. *)
SwitchConfig ==
  /\ todo = {}
  /\ \/ current' = staged /\ switched' = TRUE /\ UNCHANGED failures
     \/ /\ failures < MaxFailures
        /\ failures' = failures + 1
        /\ switched' = FALSE
        /\ current' \in {current, staged}
-----------------------------------------------------------------------------
(* loadConfig disables the MPS and writes the first configuration; it      *)
(* starts the bypass thread before and the engine thread after that.       *)

(* Only the mitigation of the software stopped. *)
LoadDisableSoftware ==
  /\ alive
  /\ \/ MainMove("software", "enable") /\ Set("software", FALSE)
     \/ MainMove("enable", "configure") /\ UNCHANGED reg
  /\ UNCHANGED <<wanted, ignoring, pc, at, writeVars, flagVars>>

LoadDisable ==
  /\ alive
  /\ \/ MainMove("software", "enable") /\ Set("software", FALSE)
     \/ MainMove("enable", "configure") /\ Set("enable", FALSE)
  /\ UNCHANGED <<wanted, ignoring, pc, at, writeVars, flagVars>>

(* The database is loaded and configured.  When one of the two throws, or  *)
(* assignBypass does, the new MpsDb is destroyed, whose destructor joins a *)
(* thread that never ends: loadConfig does not return, nor does it give    *)
(* back the mutex of the engine, for which the thread assignBypass's       *)
(* failure starts waits for ever.                                          *)
LoadConfigure ==
  /\ alive
  /\ main = "configure"
  /\ pc' \in {pc, [pc EXCEPT !["bypass"] = "loop"]}
  /\ \/ main' = "hung" /\ evaluate' = (evaluate \/ pc' # pc) /\ UNCHANGED todo
     \/ main' = "hung" /\ UNCHANGED <<evaluate, todo>>
     \/ /\ main' = "write" /\ pc'["bypass"] = "loop"
        /\ todo' = Cards
        /\ UNCHANGED evaluate
  /\ UNCHANGED <<reg, wanted, ignoring, at, staged, current, switched, refresh,
                 threadDone, alive, requests, failures>>

LoadWrite ==
  /\ alive
  /\ \/ /\ main = "write" /\ (\E c \in Cards : WriteCard(c))
        /\ main' = IF todo' = {} THEN "switch" ELSE "write"
        /\ UNCHANGED <<pc, current, switched, evaluate, failures>>
     \/ /\ MainMove("switch", "running") /\ SwitchConfig
        /\ evaluate' = TRUE
        /\ pc' = [pc EXCEPT !["engine"] = "loop"]
        /\ UNCHANGED <<staged, todo>>
  /\ UNCHANGED <<reg, wanted, ignoring, at, refresh, threadDone, alive,
                 requests>>
-----------------------------------------------------------------------------
(* reloadConfig and reloadConfigFromIgnore, by thread t. *)

OffOrder == <<"evaluation", "software", "enable">>
OnOrder  == <<"enable", "software", "evaluation">>

(* A reload enables everything, whatever was enabled before. *)
EnableUnlessOther(t) == \A u \in Threads \ {t} : ~Reloading(u)
EnableAfter(t) == TRUE

Last(t) == at[t] = 3
Advance(t) == at' = [at EXCEPT ![t] = IF Last(t) THEN 1 ELSE @ + 1]

ReloadOff(t) ==
  /\ alive
  /\ Move(t, "off", IF Last(t) THEN "lock" ELSE "off")
  /\ Set(OffOrder[at[t]], FALSE)
  /\ Advance(t)
  /\ UNCHANGED <<wanted, ignoring, main, writeVars, flagVars>>

ReloadLock(t) ==
  /\ alive
  /\ Move(t, "lock", "write")
  /\ MutexFree
  /\ todo' = Cards
  /\ UNCHANGED <<reg, wanted, ignoring, main, at, staged, current, switched,
                 flagVars>>

ReloadWrite(t) ==
  /\ alive
  /\ \E c \in Cards : WriteCard(c)
  /\ Move(t, "write", IF todo' = {} THEN "switch" ELSE "write")
  /\ UNCHANGED <<reg, wanted, ignoring, main, at, current, switched, flagVars>>

ReloadSwitch(t) ==
  /\ alive
  /\ Move(t, "switch", "on")
  /\ SwitchConfig
  /\ UNCHANGED <<reg, wanted, ignoring, main, at, staged, todo, refresh,
                 evaluate, threadDone, alive, requests>>

AfterReload(t) == IF t = "engine" THEN "loop" ELSE "clear"

(* After the last enable the latches are cleared (clearAll). *)
ReloadOn(t) ==
  /\ alive
  /\ Move(t, "on", IF Last(t) THEN AfterReload(t) ELSE "on")
  /\ Set(OnOrder[at[t]], EnableAfter(t))
  /\ Advance(t)
  /\ UNCHANGED <<wanted, ignoring, main, writeVars, flagVars>>

(* writeConfig throws, and nothing in the thread catches it: the process   *)
(* ends.                                                                   *)
WriteFails ==
  /\ alive
  /\ failures < MaxFailures
  /\ \E t \in Threads : pc[t] = "write"
  /\ alive' = FALSE
  /\ failures' = failures + 1
  /\ UNCHANGED <<reg, wanted, ignoring, main, pc, at, writeVars, refresh,
                 evaluate, threadDone, requests>>

(* In loadConfig the exception reaches the caller: the database is there,  *)
(* no engine runs, and a second loadConfig does nothing.                   *)
LoadFails ==
  /\ alive
  /\ failures < MaxFailures
  /\ MainMove("write", "failed")
  /\ failures' = failures + 1
  /\ UNCHANGED <<reg, wanted, ignoring, pc, at, writeVars, refresh, evaluate,
                 threadDone, alive, requests>>

Restart ==
  /\ ~alive
  /\ wanted' = [r \in Registers |-> FALSE]
  /\ ignoring' = FALSE
  /\ main' = "software"
  /\ pc' = [t \in Threads |-> "none"]
  /\ at' = [t \in Threads |-> 1]
  /\ todo' = {}
  /\ refresh' = FALSE
  /\ evaluate' = FALSE
  /\ threadDone' = FALSE
  /\ alive' = TRUE
  /\ UNCHANGED <<reg, staged, current, switched, requests, failures>>
-----------------------------------------------------------------------------
(* engineThread *)

EngineLoop ==
  /\ alive
  /\ Move("engine", "loop", IF evaluate THEN "wait" ELSE "exit software")
  /\ UNCHANGED <<reg, wanted, ignoring, main, at, writeVars, flagVars>>

(* The inputs it waits for are ready. *)
InputsReady ==
  /\ alive
  /\ Move("engine", "wait", "check")
  /\ UNCHANGED <<reg, wanted, ignoring, main, at, writeVars, flagVars>>

StopUnseen == FALSE
StopSeen == ~evaluate

(* The wait finds that the engine stops, and the thread returns as it is. *)
EngineReturn ==
  /\ alive
  /\ StopSeen
  /\ Move("engine", "wait", "exited")
  /\ UNCHANGED <<reg, wanted, ignoring, main, at, writeVars, flagVars>>

(* The condition has changed, either way. *)
ReloadWhenIgnoring == ignoring' /\ ~ignoring
ReloadWanted == ignoring' # ignoring

(* checkFaults, under the database mutex; a card that came or went asks    *)
(* for a reload too.                                                       *)
EngineCheck ==
  /\ alive
  /\ MutexFree
  /\ ignoring' \in BOOLEAN
  /\ \E appReload \in BOOLEAN :
       Move("engine", "check", IF ReloadWanted \/ appReload THEN "off" ELSE "loop")
  /\ UNCHANGED <<reg, wanted, main, at, writeVars, flagVars>>

EngineExit ==
  /\ alive
  /\ \/ Move("engine", "exit software", "exit enable") /\ Set("software", FALSE)
     \/ Move("engine", "exit enable", "exited") /\ Set("enable", FALSE)
  /\ UNCHANGED <<wanted, ignoring, main, at, writeVars, flagVars>>

EngineReloads ==
  \/ ReloadOff("engine") \/ ReloadLock("engine") \/ ReloadWrite("engine")
  \/ ReloadSwitch("engine") \/ ReloadOn("engine")

EngineNext ==
  EngineReloads \/ EngineLoop \/ EngineReturn \/ EngineCheck \/ EngineExit
-----------------------------------------------------------------------------
(* bypassThread *)

BypassLoop ==
  /\ alive
  /\ Move("bypass", "loop", IF threadDone THEN "exited"
                            ELSE IF refresh THEN "off" ELSE "sleep")
  /\ UNCHANGED <<reg, wanted, ignoring, main, at, writeVars, flagVars>>

BypassClear ==
  /\ alive
  /\ Move("bypass", "clear", "sleep")
  /\ refresh' = FALSE
  /\ UNCHANGED <<reg, wanted, ignoring, main, at, writeVars, evaluate,
                 threadDone, alive, requests, failures>>

BypassSleep ==
  /\ alive
  /\ Move("bypass", "sleep", "loop")
  /\ UNCHANGED <<reg, wanted, ignoring, main, at, writeVars, flagVars>>

BypassReloads ==
  \/ ReloadOff("bypass") \/ ReloadLock("bypass") \/ ReloadWrite("bypass")
  \/ ReloadSwitch("bypass") \/ ReloadOn("bypass")

BypassNext == BypassReloads \/ BypassLoop \/ BypassClear \/ BypassSleep

(* A bypass of a fast input is created or expires; the operator sets none  *)
(* before the engine runs.                                                 *)
RequestRefresh ==
  /\ alive
  /\ pc["engine"] # "none"
  /\ pc["bypass"] # "exited"
  /\ requests < MaxRequests
  /\ requests' = requests + 1
  /\ refresh' = TRUE
  /\ UNCHANGED <<reg, wanted, ignoring, main, pc, at, writeVars, evaluate,
                 threadDone, alive, failures>>

(* The operator switches an enable on his panel. *)
SetEnable(r, value) ==
  /\ alive
  /\ main = "running"
  /\ Set(r, value)
  /\ wanted' = [wanted EXCEPT ![r] = value]
  /\ UNCHANGED <<ignoring, main, pc, at, writeVars, flagVars>>
-----------------------------------------------------------------------------
(* The end of the program: ~Engine, whose last member to go, the database, *)
(* joins threads that never end; ~Firmware, which would disable the MPS    *)
(* once more, is not reached.                                              *)

Joined(t) == pc[t] \in {"none", "exited"}

QuitDisable ==
  /\ alive
  /\ \/ main \in {"running", "failed"} /\ main' = "quit enable"
        /\ Set("software", FALSE)
     \/ MainMove("quit enable", "exit") /\ Set("enable", FALSE)
  /\ UNCHANGED <<wanted, ignoring, pc, at, writeVars, flagVars>>

QuitThreads ==
  /\ alive
  /\ \/ /\ MainMove("exit", "join") /\ evaluate' = FALSE /\ UNCHANGED threadDone
     \/ /\ MainMove("join", "stop") /\ Joined("engine")
        /\ threadDone' = TRUE /\ UNCHANGED evaluate
     \/ /\ MainMove("stop", "members") /\ Joined("bypass")
        /\ UNCHANGED <<evaluate, threadDone>>
  /\ UNCHANGED <<reg, wanted, ignoring, pc, at, writeVars, refresh, alive,
                 requests, failures>>

MainNext ==
  \/ LoadDisable \/ LoadConfigure \/ LoadWrite \/ LoadFails
  \/ QuitDisable \/ QuitThreads \/ Restart

Next ==
  \/ EngineNext \/ BypassNext \/ MainNext
  \/ InputsReady \/ WriteFails \/ RequestRefresh
  \/ \E r \in Registers, value \in BOOLEAN : SetEnable(r, value)

Spec == Init /\ [][Next]_vars

(* The threads run, and once the program quits, main goes on; no inputs    *)
(* need ever come.  The engine takes the mutex once or twice in a cycle    *)
(* and leaves it free while it waits for the next inputs, so the bypass    *)
(* thread gets it in the end.                                              *)
Fairness ==
  /\ WF_vars(EngineNext)
  /\ WF_vars(BypassNext)
  /\ SF_vars(ReloadLock("bypass"))
  /\ WF_vars((QuitDisable /\ main = "quit enable") \/ QuitThreads)

FairSpec == Spec /\ Fairness
-----------------------------------------------------------------------------
MainSteps ==
  {"software", "enable", "configure", "write", "switch", "running", "failed",
   "hung", "quit enable", "exit", "join", "stop", "members"}

ThreadSteps ==
  {"none", "loop", "off", "lock", "write", "switch", "on", "exited", "wait",
   "check", "exit software", "exit enable", "clear", "sleep"}

TypeOK ==
  /\ reg \in [Registers -> BOOLEAN]
  /\ wanted \in [Registers -> BOOLEAN]
  /\ staged \in [Cards -> BOOLEAN]
  /\ current \in [Cards -> BOOLEAN]
  /\ ignoring \in BOOLEAN
  /\ main \in MainSteps
  /\ pc \in [Threads -> ThreadSteps]
  /\ at \in [Threads -> 1..3]
  /\ todo \subseteq Cards
  /\ switched \in BOOLEAN
  /\ refresh \in BOOLEAN
  /\ evaluate \in BOOLEAN
  /\ threadDone \in BOOLEAN
  /\ alive \in BOOLEAN
  /\ requests \in Nat
  /\ failures \in Nat

(* The firmware never runs on a configuration that mixes the cards of two  *)
(* writes, though two threads write it and a write may fail half-way.      *)
ConfigurationWhole == \A c, d \in Cards : current[c] = current[d]

Cycling == alive /\ main = "running" /\ pc["engine"] \in {"loop", "wait", "check"}

(* Whenever the engine begins a cycle, the configuration in force is that  *)
(* of its conditions, whichever thread wrote last, provided the last       *)
(* switch worked: one that works makes up for all that failed before.      *)
ConfigurationCurrent == Cycling /\ switched => current = Written(ignoring)

(* "Firmware command to actually switch to the new configuration": the     *)
(* engine goes on, with the MPS enabled, on the configuration it has       *)
(* written.  It does not hold (README, section 6): a switch that fails     *)
(* leaves the old one in force.                                            *)
SwitchTakesEffect == Cycling => current = Written(ignoring)

(* Two reloads that overlap never leave off what the operator has switched *)
(* on: once no reload is under way, what he wants is enabled.              *)
WantedIsEnabled ==
  alive /\ main = "running" /\ ~(\E t \in Threads : Reloading(t)) =>
    \A r \in Registers : wanted[r] => reg[r]

(* "First stop the MPS" (loadConfig): a load that fails at any point,      *)
(* whatever the firmware had enabled before and whichever threads run by   *)
(* then, leaves the MPS disabled until the operator does something.        *)
FailedIsDisabled ==
  alive /\ main \in {"failed", "hung"} => ~reg["software"] /\ ~reg["enable"]

(* A reload comes to its end, unless the process ends first. *)
ReloadsEnd ==
  \A t \in Threads : Reloading(t) ~> (~Reloading(t) \/ ~alive)

(* A program asked to quit comes to the end of ~Engine: neither the engine *)
(* nor the bypass thread is waited for in vain.                            *)
ProgramQuits == main = "quit enable" ~> (main = "members" \/ ~alive)
=============================================================================
