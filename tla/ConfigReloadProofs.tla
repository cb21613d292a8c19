------------------------- MODULE ConfigReloadProofs -------------------------
(***************************************************************************)
(* Proofs about ConfigReload, for every set of cards, every number of      *)
(* requests and every number of failures.                                  *)
(***************************************************************************)
EXTENDS ConfigReload, TLAPS

(* A switch, one that fails included. *)
LEMMA Switches ==
  ASSUME TypeOK, SwitchConfig
  PROVE  /\ current' \in [Cards -> BOOLEAN]
         /\ switched' \in BOOLEAN
         /\ failures' \in Nat
         /\ current' = staged \/ (~switched' /\ current' = current)
<1>1. /\ failures \in Nat
      /\ current \in [Cards -> BOOLEAN]
      /\ staged \in [Cards -> BOOLEAN]
  BY DEF TypeOK
<1>2. CASE current' = staged /\ switched' = TRUE /\ UNCHANGED failures
  BY <1>1, <1>2
<1>3. CASE /\ failures' = failures + 1
           /\ switched' = FALSE
           /\ current' \in {current, staged}
  <2>1. current' = current \/ current' = staged
    BY <1>3
  <2>2. current' \in [Cards -> BOOLEAN]
    BY <1>1, <2>1
  <2>3. switched' = FALSE /\ failures' \in Nat
    BY <1>1, <1>3
  <2> QED BY <2>1, <2>2, <2>3
<1> QED BY <1>2, <1>3 DEF SwitchConfig

LEMMA TypeStep == TypeOK /\ [Next]_vars => TypeOK'
<1> SUFFICES ASSUME TypeOK, [Next]_vars PROVE TypeOK'
  OBVIOUS
<1> USE DEF TypeOK
(* A program counter that moves. *)
<1>0. ASSUME NEW t \in Threads, NEW from, NEW to \in ThreadSteps, Move(t, from, to)
      PROVE  pc' \in [Threads -> ThreadSteps]
  BY <1>0 DEF Move
<1>00. ASSUME NEW r, NEW value \in BOOLEAN, Set(r, value)
       PROVE  reg' \in [Registers -> BOOLEAN]
  BY <1>00 DEF Set
<1>1. CASE LoadDisable
  <2>1. reg' \in [Registers -> BOOLEAN]
    BY <1>1, <1>00 DEF LoadDisable
  <2>2. main' \in MainSteps
    BY <1>1 DEF LoadDisable, MainMove, MainSteps
  <2> QED BY <1>1, <2>1, <2>2 DEF LoadDisable, writeVars, flagVars
<1>16. CASE LoadConfigure
  <2>1. pc' \in [Threads -> ThreadSteps]
    BY <1>16 DEF LoadConfigure, ThreadSteps
  <2>2. main' \in MainSteps /\ todo' \subseteq Cards
    BY <1>16 DEF LoadConfigure, MainSteps
  <2>3. evaluate' \in BOOLEAN
    BY <1>16 DEF LoadConfigure
  <2> QED BY <1>16, <2>1, <2>2, <2>3 DEF LoadConfigure
<1>17. CASE LoadFails
  <2>1. main' \in MainSteps /\ failures' \in Nat
    BY <1>17 DEF LoadFails, MainMove, MainSteps
  <2> QED BY <1>17, <2>1 DEF LoadFails, writeVars
<1>2. CASE LoadWrite
  <2>1. pc' \in [Threads -> ThreadSteps] /\ main' \in MainSteps
    BY <1>2 DEF LoadWrite, MainMove, MainSteps, ThreadSteps
  <2>2. staged' \in [Cards -> BOOLEAN] /\ todo' \subseteq Cards
    BY <1>2 DEF LoadWrite, WriteCard
  <2>3. /\ current' \in [Cards -> BOOLEAN]
        /\ switched' \in BOOLEAN
        /\ failures' \in Nat
    <3>1. CASE UNCHANGED <<current, switched, failures>>
      BY <3>1
    <3>2. CASE SwitchConfig
      BY <3>2, Switches
    <3> QED BY <1>2, <3>1, <3>2 DEF LoadWrite
  <2>4. evaluate' \in BOOLEAN
    BY <1>2 DEF LoadWrite
  <2> QED BY <1>2, <2>1, <2>2, <2>3, <2>4 DEF LoadWrite
<1>3. ASSUME NEW t \in Threads, ReloadOff(t) \/ ReloadOn(t)
      PROVE  TypeOK'
  <2>0. at' = [at EXCEPT ![t] = IF at[t] = 3 THEN 1 ELSE at[t] + 1]
    BY <1>3 DEF ReloadOff, ReloadOn, Advance, Last
  <2>1. at' \in [Threads -> 1..3]
    <3>1. at[t] \in 1..3
      OBVIOUS
    <3>2. (IF at[t] = 3 THEN 1 ELSE at[t] + 1) \in 1..3
      BY <3>1
    <3> QED BY <2>0, <3>2
  <2>2. reg' \in [Registers -> BOOLEAN]
    BY <1>3, <1>00 DEF ReloadOff, ReloadOn, EnableAfter
  <2>3. pc' \in [Threads -> ThreadSteps]
    BY <1>3, <1>0 DEF ReloadOff, ReloadOn, AfterReload, ThreadSteps
  <2> QED BY <1>3, <2>1, <2>2, <2>3 DEF ReloadOff, ReloadOn, writeVars, flagVars
<1>4. ASSUME NEW t \in Threads, ReloadLock(t)
      PROVE  TypeOK'
  <2>1. pc' \in [Threads -> ThreadSteps]
    BY <1>4, <1>0 DEF ReloadLock, ThreadSteps
  <2> QED BY <1>4, <2>1 DEF ReloadLock, flagVars
<1>5. ASSUME NEW t \in Threads, ReloadWrite(t)
      PROVE  TypeOK'
  <2>1. pc' \in [Threads -> ThreadSteps]
    BY <1>5, <1>0 DEF ReloadWrite, ThreadSteps
  <2>2. staged' \in [Cards -> BOOLEAN] /\ todo' \subseteq Cards
    BY <1>5 DEF ReloadWrite, WriteCard
  <2> QED BY <1>5, <2>1, <2>2 DEF ReloadWrite, flagVars
<1>6. ASSUME NEW t \in Threads, ReloadSwitch(t)
      PROVE  TypeOK'
  <2>1. pc' \in [Threads -> ThreadSteps]
    BY <1>6, <1>0 DEF ReloadSwitch, ThreadSteps
  <2>2. /\ current' \in [Cards -> BOOLEAN]
        /\ switched' \in BOOLEAN
        /\ failures' \in Nat
    BY <1>6, Switches DEF ReloadSwitch
  <2> QED BY <1>6, <2>1, <2>2 DEF ReloadSwitch
<1>7. CASE WriteFails \/ RequestRefresh
  <2>1. requests' \in Nat /\ failures' \in Nat
    BY <1>7 DEF WriteFails, RequestRefresh
  <2> QED BY <1>7, <2>1 DEF WriteFails, RequestRefresh, writeVars
<1>8. CASE Restart
  <2>0. "none" \in ThreadSteps
    BY DEF ThreadSteps
  <2>1. pc' \in [Threads -> ThreadSteps] /\ at' \in [Threads -> 1..3]
    BY <1>8, <2>0 DEF Restart
  <2>2. wanted' \in [Registers -> BOOLEAN]
    BY <1>8 DEF Restart
  <2>3. main' \in MainSteps
    BY <1>8 DEF Restart, MainSteps
  <2> QED BY <1>8, <2>1, <2>2, <2>3 DEF Restart
<1>9. CASE EngineLoop \/ EngineReturn \/ InputsReady \/ BypassLoop \/ BypassSleep
  <2>1. pc' \in [Threads -> ThreadSteps]
    BY <1>9, <1>0 DEF EngineLoop, EngineReturn, InputsReady, BypassLoop,
                      BypassSleep, ThreadSteps, Threads
  <2> QED BY <1>9, <2>1 DEF EngineLoop, EngineReturn, InputsReady, BypassLoop,
                            BypassSleep, writeVars, flagVars
<1>10. CASE EngineCheck \/ BypassClear
  <2>1. pc' \in [Threads -> ThreadSteps]
    BY <1>10, <1>0 DEF EngineCheck, BypassClear, ThreadSteps, Threads
  <2> QED BY <1>10, <2>1 DEF EngineCheck, BypassClear, writeVars, flagVars
<1>11. CASE EngineExit
  <2>1. pc' \in [Threads -> ThreadSteps]
    BY <1>11, <1>0 DEF EngineExit, ThreadSteps, Threads
  <2>2. reg' \in [Registers -> BOOLEAN]
    BY <1>11, <1>00 DEF EngineExit
  <2> QED BY <1>11, <2>1, <2>2 DEF EngineExit, writeVars, flagVars
<1>12. ASSUME NEW r \in Registers, NEW value \in BOOLEAN, SetEnable(r, value)
       PROVE  TypeOK'
  BY <1>12, <1>00 DEF SetEnable, writeVars, flagVars
<1>13. CASE QuitDisable
  <2>1. reg' \in [Registers -> BOOLEAN]
    BY <1>13, <1>00 DEF QuitDisable
  <2>2. main' \in MainSteps
    BY <1>13 DEF QuitDisable, MainMove, MainSteps
  <2> QED BY <1>13, <2>1, <2>2 DEF QuitDisable, writeVars, flagVars
<1>14. CASE QuitThreads
  <2>1. main' \in MainSteps
    BY <1>14 DEF QuitThreads, MainMove, MainSteps
  <2> QED BY <1>14, <2>1 DEF QuitThreads, writeVars
<1>15. CASE UNCHANGED vars
  BY <1>15 DEF vars, writeVars, flagVars
<1> QED
  BY <1>1, <1>2, <1>3, <1>4, <1>5, <1>6, <1>7, <1>8, <1>9, <1>10, <1>11, <1>12,
     <1>13, <1>14, <1>15, <1>16, <1>17
  DEF Next, EngineNext, EngineReloads, BypassNext, BypassReloads, MainNext, Threads

LEMMA TypeInit == Init => TypeOK
<1> SUFFICES ASSUME Init PROVE TypeOK
  OBVIOUS
<1>1. /\ wanted \in [Registers -> BOOLEAN]
      /\ staged \in [Cards -> BOOLEAN]
      /\ current \in [Cards -> BOOLEAN]
  BY DEF Init, Written
<1>2. pc \in [Threads -> ThreadSteps] /\ at \in [Threads -> 1..3]
  BY DEF Init, ThreadSteps
<1>3. main \in MainSteps
  BY DEF Init, MainSteps
<1> QED
  BY <1>1, <1>2, <1>3 DEF Init, TypeOK

(* Every variable keeps its type through loads, reloads, failures,         *)
(* restarts and the end of the program.                                    *)
THEOREM TypeCorrect == Spec => []TypeOK
<1>1. TypeOK /\ [Next]_vars => TypeOK'
  BY TypeStep
<1> QED
  BY TypeInit, <1>1, PTL DEF Spec
-----------------------------------------------------------------------------
(* The configuration. *)

Loading == main \in {"software", "enable", "configure", "write", "switch"}

(* loadConfig has failed: no engine runs, nor ever will. *)
Failed == main \in {"failed", "hung"}

(* Nothing reloads while loadConfig writes, or after it has failed. *)
LoadInv ==
  Loading \/ Failed => /\ pc["engine"] = "none"
                       /\ pc["bypass"] \in {"none", "loop", "sleep", "exited"}
                       /\ ~refresh

Writing == main \in {"write", "switch"} \/ \E t \in Threads : Holds(t)

(* One at a time writes, what it has written is the configuration of the   *)
(* condition, and that does not change meanwhile.                          *)
LockInv ==
  /\ \A t, u \in Threads : Holds(t) /\ Holds(u) => t = u
  /\ Writing => \A c \in Cards \ todo : staged[c] = ignoring
  /\ main = "switch" \/ (\E t \in Threads : pc[t] = "switch") => todo = {}

(* Between a change of the condition and the switch of the reload it asks  *)
(* for, the configuration may be old, and after a switch that failed until *)
(* one works; it is whole.                                                 *)
CurrentInv ==
  /\ ConfigurationWhole
  /\ ~Loading /\ switched /\ pc["engine"] \in {"loop", "wait", "check", "on"} =>
       current = Written(ignoring)

WriteInv == LoadInv /\ LockInv /\ CurrentInv

(* A step that touches neither the configuration nor a thread that writes. *)
LEMMA WriteKept ==
  ASSUME TypeOK, WriteInv, UNCHANGED <<writeVars, ignoring>>,
         UNCHANGED Writing,
         LoadInv', \A t \in Threads : Holds(t)' => Holds(t),
         (main = "switch")' => main = "switch",
         \A t \in Threads : pc'[t] = "switch" => pc[t] = "switch",
         ~Loading' => ~Loading,
         pc'["engine"] \in {"loop", "wait", "check", "on"} =>
           pc["engine"] \in {"loop", "wait", "check", "on"}
  PROVE  WriteInv'
<1>1. LockInv'
  BY DEF WriteInv, LockInv, writeVars
<1>2. CurrentInv'
  BY DEF WriteInv, CurrentInv, ConfigurationWhole, Written, writeVars
<1> QED BY <1>1, <1>2 DEF WriteInv

LEMMA WriteStep == TypeOK /\ WriteInv /\ [Next]_vars => WriteInv'
<1> SUFFICES ASSUME TypeOK, WriteInv, [Next]_vars PROVE WriteInv'
  OBVIOUS
<1> USE DEF Threads
<1>0. Loading \/ Failed => /\ pc["engine"] = "none"
                           /\ pc["bypass"] \in {"none", "loop", "sleep", "exited"}
                           /\ ~refresh
                           /\ \A t \in Threads : ~Holds(t)
  BY DEF WriteInv, LoadInv, Holds
<1>1. CASE LoadDisable
  <2>1. /\ main \in {"software", "enable"} /\ main' \in {"enable", "configure"}
        /\ UNCHANGED <<writeVars, ignoring, pc, refresh>>
    BY <1>1 DEF LoadDisable, MainMove, writeVars, flagVars
  <2> QED BY <1>0, <2>1, WriteKept DEF Writing, Holds, Loading, Failed, Failed, WriteInv, LoadInv
<1>16. CASE LoadConfigure
  <2>1. /\ main = "configure" /\ main' \in {"hung", "write"}
        /\ main' = "write" => todo' = Cards
        /\ main' = "hung" => todo' = todo
        /\ pc'["engine"] = pc["engine"] /\ pc'["bypass"] \in {pc["bypass"], "loop"}
        /\ UNCHANGED <<staged, current, ignoring, refresh>>
    BY <1>16 DEF LoadConfigure, TypeOK
  <2>2. LoadInv' /\ \A t \in Threads : ~Holds(t)'
    BY <1>0, <2>1 DEF Loading, LoadInv, Holds
  <2>3. LockInv'
    BY <2>1, <2>2 DEF LockInv, Writing, Holds
  <2>4. CurrentInv'
    BY <1>0, <2>1 DEF WriteInv, CurrentInv, ConfigurationWhole, Loading
  <2> QED BY <2>2, <2>3, <2>4 DEF WriteInv
<1>17. CASE LoadFails
  <2>1. /\ main = "write" /\ main' = "failed"
        /\ UNCHANGED <<staged, current, todo, ignoring, pc, refresh>>
    BY <1>17 DEF LoadFails, MainMove, writeVars
  <2> QED BY <1>0, <2>1 DEF WriteInv, LoadInv, LockInv, CurrentInv, Writing, Holds,
                            Loading, Failed, ConfigurationWhole
<1>2. CASE LoadWrite
  <2>1. CASE main = "write"
    <3>1. PICK c \in todo :
            /\ staged' = [staged EXCEPT ![c] = ignoring]
            /\ todo' = todo \ {c}
            /\ main' = IF todo' = {} THEN "switch" ELSE "write"
            /\ UNCHANGED <<pc, current, switched, ignoring, refresh>>
      BY <1>2, <2>1 DEF LoadWrite, MainMove, WriteCard
    <3>2. \A d \in Cards \ todo' : staged'[d] = ignoring
      BY <2>1, <3>1 DEF TypeOK, WriteInv, LockInv, Writing
    <3> QED BY <1>0, <2>1, <3>1, <3>2 DEF WriteInv, LoadInv, LockInv, CurrentInv,
                              Writing, Holds, Loading, Failed, ConfigurationWhole
  <2>2. CASE main # "write"
    <3>1. /\ main = "switch" /\ main' = "running" /\ todo = {}
          /\ current' = staged \/ (~switched' /\ current' = current)
          /\ pc' = [pc EXCEPT !["engine"] = "loop"]
          /\ UNCHANGED <<staged, todo, ignoring>>
      BY <1>2, <2>2 DEF LoadWrite, MainMove, SwitchConfig
    <3>2. staged = Written(ignoring)
      BY <3>1 DEF WriteInv, LockInv, Writing, Written, TypeOK
    <3>3. pc'["engine"] = "loop" /\ pc'["bypass"] = pc["bypass"]
      BY <3>1 DEF TypeOK
    <3> QED BY <1>0, <3>1, <3>2, <3>3 DEF WriteInv, LoadInv, LockInv, CurrentInv,
                              Writing, Holds, Loading, Failed, ConfigurationWhole, Written
  <2> QED BY <2>1, <2>2
<1>3. ASSUME NEW t \in Threads, ReloadOff(t) \/ ReloadOn(t)
      PROVE  WriteInv'
  <2>1. /\ pc[t] \in {"off", "on"}
        /\ pc'[t] \in {"off", "lock", "on", "loop", "clear"}
        /\ pc[t] = "off" => pc'[t] \in {"off", "lock"}
        /\ \A u \in Threads : u # t => pc'[u] = pc[u]
        /\ UNCHANGED <<writeVars, ignoring, main, refresh>>
    BY <1>3 DEF ReloadOff, ReloadOn, Move, AfterReload, TypeOK, flagVars
  <2>2. ~Loading /\ ~Loading' /\ ~Failed /\ ~Failed'
    BY <1>0, <2>1 DEF Loading, Failed
  <2> QED BY <2>1, <2>2, WriteKept DEF Writing, Holds, Loading, Failed, LoadInv
<1>4. ASSUME NEW t \in Threads, ReloadLock(t)
      PROVE  WriteInv'
  <2>1. /\ pc[t] = "lock" /\ pc'[t] = "write" /\ todo' = Cards
        /\ \A u \in Threads : ~Holds(u)
        /\ \A u \in Threads : u # t => pc'[u] = pc[u]
        /\ UNCHANGED <<staged, current, switched, ignoring, main>>
    BY <1>4 DEF ReloadLock, Move, MutexFree, TypeOK
  <2>2. ~Loading /\ ~Loading' /\ ~Failed /\ ~Failed'
    BY <1>0, <2>1 DEF Loading, Failed
  <2> QED BY <2>1, <2>2 DEF WriteInv, LoadInv, LockInv, CurrentInv, Writing,
                            Holds, Loading, Failed, ConfigurationWhole
<1>5. ASSUME NEW t \in Threads, ReloadWrite(t)
      PROVE  WriteInv'
  <2>1. PICK c \in todo :
          /\ staged' = [staged EXCEPT ![c] = ignoring]
          /\ todo' = todo \ {c}
          /\ UNCHANGED <<current, switched, ignoring, main>>
    BY <1>5 DEF ReloadWrite, WriteCard
  <2>2. /\ pc[t] = "write"
        /\ pc'[t] = IF todo' = {} THEN "switch" ELSE "write"
        /\ \A u \in Threads : u # t => pc'[u] = pc[u] /\ ~Holds(u)
    BY <1>5 DEF ReloadWrite, Move, TypeOK, WriteInv, LockInv, Holds
  <2>3. \A d \in Cards \ todo' : staged'[d] = ignoring
    BY <2>1, <2>2 DEF TypeOK, WriteInv, LockInv, Writing, Holds
  <2>4. ~Loading /\ ~Loading' /\ ~Failed /\ ~Failed'
    BY <1>0, <2>1, <2>2 DEF Loading, Failed
  <2> QED BY <2>1, <2>2, <2>3, <2>4 DEF WriteInv, LoadInv, LockInv, CurrentInv,
                            Writing, Holds, Loading, Failed, ConfigurationWhole
<1>6. ASSUME NEW t \in Threads, ReloadSwitch(t)
      PROVE  WriteInv'
  <2>1. /\ pc[t] = "switch" /\ pc'[t] = "on"
        /\ todo = {}
        /\ \A u \in Threads : u # t => pc'[u] = pc[u] /\ ~Holds(u)
        /\ UNCHANGED <<staged, todo, ignoring, main>>
    BY <1>6 DEF ReloadSwitch, SwitchConfig, Move, TypeOK, WriteInv, LockInv, Holds
  <2>2. staged = Written(ignoring)
    BY <2>1 DEF WriteInv, LockInv, Writing, Holds, Written, TypeOK
  <2>3. ~Loading /\ ~Loading' /\ ~Failed /\ ~Failed'
    BY <1>0, <2>1 DEF Loading, Failed
  <2>4. current' = staged \/ (~switched' /\ current' = current)
    BY <1>6, Switches DEF ReloadSwitch
  <2>5. LoadInv'
    BY <2>3 DEF LoadInv
  <2>6. LockInv'
    BY <2>1, <2>2, <2>3 DEF LockInv, Writing, Holds, Loading, Written
  <2>7. CurrentInv'
    <3>1. ConfigurationWhole'
      BY <2>2, <2>4 DEF WriteInv, CurrentInv, ConfigurationWhole, Written
    <3>2. switched' => current' = Written(ignoring)'
      BY <2>1, <2>2, <2>4 DEF Written
    <3> QED BY <3>1, <3>2 DEF CurrentInv
  <2> QED BY <2>5, <2>6, <2>7 DEF WriteInv
<1>7. CASE Restart
  <2>1. /\ main' = "software" /\ pc' = [t \in Threads |-> "none"]
        /\ ~refresh' /\ todo' = {} /\ current' = current
    BY <1>7 DEF Restart
  <2> QED BY <2>1 DEF WriteInv, LoadInv, LockInv, CurrentInv, Writing, Holds,
                      Loading, Failed, ConfigurationWhole
<1>8. ASSUME UNCHANGED <<writeVars, ignoring>>, refresh' => refresh \/ ~(Loading \/ Failed)',
             main' = main \/ (~Loading /\ ~(Loading \/ Failed)'),
             \A t \in Threads :
               \/ pc'[t] = pc[t]
               \/ /\ pc'[t] \in {"off", "sleep", "loop", "exited", "wait", "check",
                                "exit software", "exit enable"}
                  /\ pc[t] \in {"loop", "clear", "sleep", "wait", "check",
                                "exit software", "exit enable"}
                  /\ t = "engine" => pc[t] \notin {"clear", "sleep"}
                  /\ t = "engine" /\ pc[t] \in {"exit software", "exit enable"} =>
                       pc'[t] \in {"exit enable", "exited"}
                  /\ t = "bypass" /\ ~refresh => pc'[t] \in {"sleep", "loop", "exited"}
      PROVE  WriteInv'
  <2>1. LoadInv'
    BY <1>0, <1>8 DEF Loading, Failed, LoadInv
  <2> QED BY <1>0, <1>8, <2>1, WriteKept DEF Writing, Holds, Loading
<1>9. CASE EngineCheck
  <2>1. /\ \A t \in Threads : ~Holds(t)
        /\ pc["engine"] = "check"
        /\ pc'["engine"] \in {"off", "loop"}
        /\ ignoring' # ignoring => pc'["engine"] = "off"
        /\ pc'["bypass"] = pc["bypass"]
        /\ UNCHANGED <<main, staged, current, todo, switched>>
    BY <1>9 DEF EngineCheck, MutexFree, Move, ReloadWanted, TypeOK, writeVars
  <2>2. ~Loading /\ ~Loading' /\ ~Failed /\ ~Failed'
    BY <1>0, <2>1 DEF Loading, Failed
  <2> QED BY <2>1, <2>2 DEF WriteInv, LoadInv, LockInv, CurrentInv, Writing,
                            Holds, Loading, Failed, ConfigurationWhole
<1>10. CASE EngineLoop \/ EngineReturn \/ InputsReady \/ EngineExit
  BY <1>8, <1>10 DEF EngineLoop, EngineReturn, InputsReady, EngineExit, Move, TypeOK,
                     flagVars
<1>11. CASE BypassLoop \/ BypassClear \/ BypassSleep
  BY <1>8, <1>11 DEF BypassLoop, BypassClear, BypassSleep, Move, TypeOK, flagVars
<1>12. CASE WriteFails \/ UNCHANGED vars
  <2>1. UNCHANGED <<writeVars, ignoring, refresh, main, pc>>
    BY <1>12 DEF WriteFails, vars, flagVars
  <2> QED BY <1>8, <2>1
<1>13. CASE RequestRefresh
  <2>1. ~(Loading \/ Failed)'
    BY <1>0, <1>13 DEF RequestRefresh, Loading, Failed
  <2> QED BY <1>8, <1>13, <2>1 DEF RequestRefresh
<1>14. CASE \E r \in Registers, value \in BOOLEAN : SetEnable(r, value)
  BY <1>8, <1>14 DEF SetEnable, flagVars
<1>15. CASE QuitDisable \/ QuitThreads
  BY <1>8, <1>15 DEF QuitDisable, QuitThreads, MainMove, Loading, Failed, flagVars
<1> QED
  BY <1>1, <1>2, <1>3, <1>4, <1>5, <1>6, <1>7, <1>9, <1>10, <1>11, <1>12, <1>13,
     <1>14, <1>15, <1>16, <1>17
  DEF Next, EngineNext, EngineReloads, BypassNext, BypassReloads, MainNext

LEMMA WriteInit == Init => WriteInv
<1> SUFFICES ASSUME Init PROVE WriteInv
  OBVIOUS
<1>1. /\ main = "software" /\ ~refresh /\ current = Written(FALSE)
      /\ \A t \in Threads : pc[t] = "none"
  BY DEF Init
<1> QED BY <1>1 DEF WriteInv, LoadInv, LockInv, CurrentInv, Writing, Holds,
                    Loading, Failed, ConfigurationWhole, Written, Threads

LEMMA WriteInvariant == Spec => [](TypeOK /\ WriteInv)
<1>1. Init => TypeOK /\ WriteInv
  BY TypeInit, WriteInit
<1>2. (TypeOK /\ WriteInv) /\ [Next]_vars => (TypeOK /\ WriteInv)'
  BY TypeStep, WriteStep
<1> QED
  BY <1>1, <1>2, PTL DEF Spec

(* The firmware never switches to a configuration that mixes two writes:   *)
(* the mutex keeps the writers apart, and one that fails never switches.   *)
THEOREM Whole == Spec => []ConfigurationWhole
<1>1. WriteInv => ConfigurationWhole
  BY DEF WriteInv, CurrentInv
<1> QED
  BY <1>1, WriteInvariant, PTL

(* A cycle of the engine begins with the configuration of its conditions   *)
(* in force, also when the bypass thread reloads at the same time, unless  *)
(* the last command to switch to it failed.                                *)
THEOREM Current == Spec => []ConfigurationCurrent
<1>1. WriteInv => ConfigurationCurrent
  BY DEF WriteInv, CurrentInv, ConfigurationCurrent, Cycling, Loading
<1> QED
  BY <1>1, WriteInvariant, PTL
-----------------------------------------------------------------------------
(* The enables. *)

(* Thread t is still to switch register r on. *)
Pending(t, r) ==
  \/ pc[t] \in {"off", "lock", "write", "switch"}
  \/ pc[t] = "on" /\ \E i \in at[t]..3 : OnOrder[i] = r

(* A register the operator wants is on, or on its way; the engine thread   *)
(* leaves its loop only when the program quits.                            *)
EnableInv ==
  /\ Loading => \A r \in Registers : ~wanted[r]
  /\ Loading => \A t \in Threads : pc[t] \in {"none", "loop", "sleep", "exited"}
  /\ \A t \in Threads : pc[t] \notin {"off", "on"} => at[t] = 1
  /\ main = "running" => evaluate
  /\ pc["engine"] \in {"exit software", "exit enable", "exited"} => ~evaluate
  /\ main = "running" =>
       \A r \in Registers : wanted[r] /\ ~reg[r] => \E t \in Threads : Pending(t, r)

LEMMA Orders ==
  ASSUME NEW r \in Registers
  PROVE  \E i \in 1..3 : OnOrder[i] = r
BY DEF Registers, OnOrder

(* A step that leaves the enables alone and does not end a reload. *)
LEMMA EnableKept ==
  ASSUME TypeOK, EnableInv, UNCHANGED <<reg, wanted, at, main, evaluate>>,
         \A t \in Threads :
           \/ pc'[t] = pc[t]
           \/ pc[t] \notin {"off", "lock", "write", "switch", "on"}
           \/ pc'[t] \in {"lock", "write", "switch"}
           \/ pc[t] = "switch" /\ pc'[t] = "on",
         \A t \in Threads : pc'[t] \notin {"off", "on"} => at[t] = 1,
         Loading => \A t \in Threads : pc'[t] \in {"none", "loop", "sleep", "exited"},
         pc'["engine"] \in {"exit software", "exit enable", "exited"} =>
           ~evaluate
  PROVE  EnableInv'
<1>1. ASSUME NEW r \in Registers, NEW t \in Threads, Pending(t, r)
      PROVE  Pending(t, r)'
  BY <1>1, Orders DEF Pending, EnableInv
<1> QED
  BY <1>1 DEF EnableInv, Loading

LEMMA EnableStep == TypeOK /\ WriteInv /\ EnableInv /\ [Next]_vars => EnableInv'
<1> SUFFICES ASSUME TypeOK, WriteInv, EnableInv, [Next]_vars PROVE EnableInv'
  OBVIOUS
<1> USE DEF Threads
<1>1. CASE LoadDisable
  <2>1. /\ main' \in {"enable", "configure"} /\ Loading
        /\ UNCHANGED <<wanted, at, evaluate, pc>>
    BY <1>1 DEF LoadDisable, MainMove, Loading, flagVars
  <2> QED BY <2>1 DEF EnableInv, Loading
<1>16. CASE LoadConfigure
  <2>1. /\ Loading /\ main' \in {"hung", "write"} /\ UNCHANGED <<wanted, at>>
        /\ pc'["engine"] = pc["engine"] /\ pc'["bypass"] \in {pc["bypass"], "loop"}
    BY <1>16 DEF LoadConfigure, Loading, TypeOK
  <2>2. pc["engine"] = "none"
    BY <2>1 DEF WriteInv, LoadInv
  <2> QED BY <2>1, <2>2 DEF EnableInv, Loading
<1>17. CASE LoadFails
  <2>1. /\ Loading /\ main' = "failed" /\ UNCHANGED <<wanted, at, pc, evaluate>>
    BY <1>17 DEF LoadFails, MainMove, Loading
  <2> QED BY <2>1 DEF EnableInv, Loading
<1>2. CASE LoadWrite
  <2>1. /\ Loading /\ UNCHANGED <<wanted, at>>
        /\ main' \in {"write", "switch", "running"}
        /\ main' # "running" => pc' = pc /\ evaluate' = evaluate
        /\ main' = "running" => /\ pc'["engine"] = "loop" /\ evaluate'
                                /\ pc'["bypass"] = pc["bypass"]
    BY <1>2 DEF LoadWrite, MainMove, Loading, TypeOK
  <2>2. CASE main' = "running"
    BY <2>1, <2>2 DEF EnableInv, Loading
  <2>3. CASE main' # "running"
    <3>1. Loading' /\ UNCHANGED <<wanted, at, pc, evaluate>>
      BY <2>1, <2>3 DEF Loading
    <3> QED BY <2>1, <2>3, <3>1 DEF EnableInv
  <2> QED BY <2>2, <2>3
<1>3. ASSUME NEW t \in Threads, ReloadOff(t)
      PROVE  EnableInv'
  <2>1. /\ pc[t] = "off" /\ pc'[t] \in {"off", "lock"}
        /\ pc'[t] = "lock" => at'[t] = 1
        /\ \A u \in Threads : u # t => pc'[u] = pc[u] /\ at'[u] = at[u]
        /\ UNCHANGED <<wanted, main, evaluate>>
    BY <1>3 DEF ReloadOff, Move, Advance, Last, TypeOK, flagVars
  <2>2. ~Loading /\ ~Loading'
    BY <2>1 DEF EnableInv, Loading
  <2>3. \A r \in Registers : Pending(t, r)'
    BY <2>1 DEF Pending
  <2> QED BY <2>1, <2>2, <2>3 DEF EnableInv
<1>4. ASSUME NEW t \in Threads, ReloadOn(t)
      PROVE  EnableInv'
  <2>1. /\ pc[t] = "on"
        /\ pc'[t] = IF at[t] = 3 THEN AfterReload(t) ELSE "on"
        /\ at'[t] = IF at[t] = 3 THEN 1 ELSE at[t] + 1
        /\ \A u \in Threads : u # t => pc'[u] = pc[u] /\ at'[u] = at[u]
        /\ UNCHANGED <<wanted, main, evaluate>>
        /\ reg' = [reg EXCEPT ![OnOrder[at[t]]] = TRUE]
    BY <1>4 DEF ReloadOn, Move, Advance, Last, Set, EnableAfter, TypeOK, flagVars
  <2>2. ~Loading /\ ~Loading'
    BY <2>1 DEF EnableInv, Loading
  <2>3. at[t] \in 1..3 /\ AfterReload(t) \in {"loop", "clear"}
    BY DEF TypeOK, AfterReload
  <2>4. ASSUME NEW r \in Registers, ~reg'[r]
        PROVE  /\ ~reg[r]
               /\ \A u \in Threads : Pending(u, r) => Pending(u, r)'
    <3>1. ~reg[r] /\ r # OnOrder[at[t]]
      BY <2>1, <2>4 DEF TypeOK
    <3>2. Pending(t, r) => \E i \in (at[t] + 1)..3 : OnOrder[i] = r
      BY <2>1, <2>3, <3>1 DEF Pending
    <3>3. Pending(t, r) => Pending(t, r)'
      BY <2>1, <2>3, <3>2 DEF Pending
    <3>4. \A u \in Threads : u # t /\ Pending(u, r) => Pending(u, r)'
      BY <2>1 DEF Pending
    <3> QED BY <3>1, <3>3, <3>4
  <2>5. \A u \in Threads : pc'[u] \notin {"off", "on"} => at'[u] = 1
    BY <2>1, <2>3 DEF EnableInv
  <2>6. pc'["engine"] \in {"exit software", "exit enable", "exited"} => ~evaluate'
    BY <2>1, <2>3 DEF EnableInv
  <2> QED BY <2>1, <2>2, <2>4, <2>5, <2>6 DEF EnableInv
<1>5. ASSUME NEW t \in Threads, ReloadLock(t) \/ ReloadWrite(t) \/ ReloadSwitch(t)
      PROVE  EnableInv'
  <2>1. /\ pc[t] \in {"lock", "write", "switch"} /\ pc'[t] \in {"write", "switch", "on"}
        /\ pc'[t] = "on" => pc[t] = "switch"
        /\ \A u \in Threads : u # t => pc'[u] = pc[u]
        /\ UNCHANGED <<reg, wanted, at, main, evaluate>>
    BY <1>5 DEF ReloadLock, ReloadWrite, ReloadSwitch, Move, TypeOK, flagVars
  <2>2. ~Loading
    BY <2>1 DEF EnableInv, Loading
  <2> QED BY <2>1, <2>2, EnableKept DEF EnableInv
<1>6. ASSUME UNCHANGED <<reg, wanted, at, main, evaluate>>,
             \A t \in Threads :
               \/ pc'[t] = pc[t]
               \/ /\ pc[t] \in {"loop", "wait", "check", "exit software",
                                "exit enable", "clear", "sleep"}
                  /\ pc'[t] \in {"loop", "wait", "check", "exit software", "off",
                                 "exit enable", "exited", "clear", "sleep"}
                  /\ t = "engine" => pc[t] # "sleep" /\ (pc'[t] \in
                       {"exit software", "exit enable", "exited"} => ~evaluate)
                  /\ t = "bypass" => (pc'[t] = "off" => refresh)
                  /\ t = "bypass" => pc'[t] \in {"off", "sleep", "loop", "exited"}
      PROVE  EnableInv'
  <2>1. Loading => \A t \in Threads : pc'[t] \in {"none", "loop", "sleep", "exited"}
    BY <1>6 DEF EnableInv, WriteInv, LoadInv
  <2> QED BY <1>6, <2>1, EnableKept DEF EnableInv
<1>7. CASE EngineLoop \/ EngineReturn \/ InputsReady
  BY <1>6, <1>7 DEF EngineLoop, EngineReturn, StopSeen, InputsReady, Move, TypeOK,
                    flagVars
<1>8. CASE EngineCheck
  BY <1>6, <1>8 DEF EngineCheck, Move, TypeOK, flagVars
<1>9. CASE EngineExit
  <2>1. /\ pc["engine"] \in {"exit software", "exit enable"}
        /\ pc'["engine"] \in {"exit enable", "exited"}
        /\ pc'["bypass"] = pc["bypass"]
        /\ UNCHANGED <<wanted, at, main, evaluate>>
    BY <1>9 DEF EngineExit, Move, TypeOK, flagVars
  <2>2. ~Loading /\ main # "running" /\ ~evaluate
    BY <2>1 DEF EnableInv, Loading
  <2> QED BY <2>1, <2>2 DEF EnableInv, Loading
<1>10. CASE BypassLoop \/ BypassClear \/ BypassSleep
  BY <1>6, <1>10 DEF BypassLoop, BypassClear, BypassSleep, Move, TypeOK, flagVars
<1>11. CASE WriteFails \/ RequestRefresh \/ UNCHANGED vars
  <2>1. UNCHANGED <<reg, wanted, at, main, evaluate, pc>>
    BY <1>11 DEF WriteFails, RequestRefresh, vars, flagVars
  <2> QED BY <1>6, <2>1
<1>12. CASE Restart
  <2>1. /\ main' = "software" /\ \A t \in Threads : pc'[t] = "none" /\ at'[t] = 1
        /\ \A r \in Registers : ~wanted'[r]
    BY <1>12 DEF Restart
  <2> QED BY <2>1 DEF EnableInv
<1>13. ASSUME NEW r \in Registers, NEW value \in BOOLEAN, SetEnable(r, value)
       PROVE  EnableInv'
  <2>1. /\ main = "running" /\ UNCHANGED <<main, pc, at, evaluate>>
        /\ reg'[r] = value /\ wanted'[r] = value
        /\ \A q \in Registers : q # r => reg'[q] = reg[q] /\ wanted'[q] = wanted[q]
    BY <1>13 DEF SetEnable, Set, TypeOK, flagVars
  <2>2. \A q \in Registers, t \in Threads : Pending(t, q) => Pending(t, q)'
    BY <2>1 DEF Pending
  <2> QED BY <2>1, <2>2 DEF EnableInv, Loading
<1>14. CASE QuitDisable
  <2>1. /\ main' \in {"quit enable", "exit"}
        /\ UNCHANGED <<pc, at, evaluate>>
    BY <1>14 DEF QuitDisable, MainMove, flagVars
  <2> QED BY <2>1 DEF EnableInv, Loading
<1>15. CASE QuitThreads
  <2>1. /\ main \in {"exit", "join", "stop"}
        /\ main' \in {"join", "stop", "members"}
        /\ UNCHANGED <<pc, at>>
        /\ evaluate' = FALSE \/ evaluate' = evaluate
    BY <1>15 DEF QuitThreads, MainMove
  <2>2. ~Loading /\ ~Loading'
    BY <2>1 DEF Loading
  <2>3. pc'["engine"] \in {"exit software", "exit enable", "exited"} => ~evaluate'
    BY <2>1 DEF EnableInv
  <2> QED BY <2>1, <2>2, <2>3 DEF EnableInv
<1> QED
  BY <1>1, <1>2, <1>3, <1>4, <1>5, <1>7, <1>8, <1>9, <1>10, <1>11, <1>12, <1>13,
     <1>14, <1>15, <1>16, <1>17
  DEF Next, EngineNext, EngineReloads, BypassNext, BypassReloads, MainNext

(* Once no reload is under way, the enables the operator has switched on   *)
(* are on, however the reloads of the two threads overlapped.              *)
THEOREM WantedEnabled == Spec => []WantedIsEnabled
<1>1. Init => TypeOK /\ WriteInv /\ EnableInv
  <2>1. Init => EnableInv
    BY DEF Init, EnableInv, Loading, Threads
  <2> QED BY <2>1, TypeInit, WriteInit
<1>2. (TypeOK /\ WriteInv /\ EnableInv) /\ [Next]_vars
        => (TypeOK /\ WriteInv /\ EnableInv)'
  BY TypeStep, WriteStep, EnableStep
<1>3. TypeOK /\ EnableInv => WantedIsEnabled
  BY DEF EnableInv, WantedIsEnabled, Pending, Reloading
<1> QED
  BY <1>1, <1>2, <1>3, PTL DEF Spec
-----------------------------------------------------------------------------
(* A load that fails. *)

(* What loadConfig has switched off stays off while it loads and when it   *)
(* has failed.                                                             *)
FailedInv ==
  /\ main \in {"enable", "configure", "write", "switch"} \/ Failed => ~reg["software"]
  /\ main \in {"configure", "write", "switch"} \/ Failed => ~reg["enable"]

LEMMA FailedStep == TypeOK /\ WriteInv /\ FailedInv /\ [Next]_vars => FailedInv'
<1> SUFFICES ASSUME TypeOK, WriteInv, FailedInv, [Next]_vars PROVE FailedInv'
  OBVIOUS
<1> USE DEF Threads
<1>0. Loading \/ Failed => /\ pc["engine"] = "none"
                           /\ pc["bypass"] \in {"none", "loop", "sleep", "exited"}
  BY DEF WriteInv, LoadInv
<1>1. ASSUME UNCHANGED main, reg' = reg \/ ~(Loading \/ Failed)
      PROVE  FailedInv'
  BY <1>1 DEF FailedInv, Loading, Failed
<1>2. CASE LoadDisable
  BY <1>2 DEF LoadDisable, MainMove, Set, FailedInv, Failed, TypeOK, Registers
<1>3. CASE LoadConfigure
  BY <1>3 DEF LoadConfigure, FailedInv, Failed
<1>4. CASE LoadWrite
  BY <1>4 DEF LoadWrite, MainMove, FailedInv, Failed
<1>5. CASE LoadFails
  BY <1>5 DEF LoadFails, MainMove, FailedInv, Failed
<1>6. ASSUME NEW t \in Threads, ReloadOff(t) \/ ReloadOn(t)
      PROVE  FailedInv'
  <2>1. pc[t] \in {"off", "on"} /\ UNCHANGED main
    BY <1>6 DEF ReloadOff, ReloadOn, Move
  <2> QED BY <1>0, <1>1, <2>1
<1>7. ASSUME NEW t \in Threads, ReloadLock(t) \/ ReloadWrite(t) \/ ReloadSwitch(t)
      PROVE  FailedInv'
  BY <1>1, <1>7 DEF ReloadLock, ReloadWrite, ReloadSwitch
<1>8. CASE EngineExit
  <2>1. pc["engine"] # "none" /\ UNCHANGED main
    BY <1>8 DEF EngineExit, Move
  <2> QED BY <1>0, <1>1, <2>1
<1>9. CASE EngineLoop \/ EngineReturn \/ InputsReady \/ EngineCheck
  BY <1>1, <1>9 DEF EngineLoop, EngineReturn, InputsReady, EngineCheck
<1>10. CASE BypassLoop \/ BypassClear \/ BypassSleep
  BY <1>1, <1>10 DEF BypassLoop, BypassClear, BypassSleep
<1>11. CASE WriteFails \/ RequestRefresh \/ UNCHANGED vars
  BY <1>1, <1>11 DEF WriteFails, RequestRefresh, vars
<1>12. CASE \E r \in Registers, value \in BOOLEAN : SetEnable(r, value)
  <2>1. main = "running" /\ UNCHANGED main
    BY <1>12 DEF SetEnable
  <2> QED BY <1>1, <2>1 DEF Loading, Failed
<1>13. CASE Restart \/ QuitDisable \/ QuitThreads
  <2>1. main' \in {"software", "quit enable", "exit", "join", "stop", "members"}
    BY <1>13 DEF Restart, QuitDisable, QuitThreads, MainMove
  <2> QED BY <2>1 DEF FailedInv, Failed
<1> QED
  BY <1>2, <1>3, <1>4, <1>5, <1>6, <1>7, <1>8, <1>9, <1>10, <1>11, <1>12, <1>13
  DEF Next, EngineNext, EngineReloads, BypassNext, BypassReloads, MainNext

(* A load that fails at any point leaves the MPS disabled: no thread it    *)
(* has started by then enables it again.                                   *)
THEOREM FailedDisabled == Spec => []FailedIsDisabled
<1>1. Init => TypeOK /\ WriteInv /\ FailedInv
  <2>1. Init => FailedInv
    BY DEF Init, FailedInv, Failed
  <2> QED BY <2>1, TypeInit, WriteInit
<1>2. (TypeOK /\ WriteInv /\ FailedInv) /\ [Next]_vars
        => (TypeOK /\ WriteInv /\ FailedInv)'
  BY TypeStep, WriteStep, FailedStep
<1>3. FailedInv => FailedIsDisabled
  BY DEF FailedInv, FailedIsDisabled, Failed
<1> QED
  BY <1>1, <1>2, <1>3, PTL DEF Spec
=============================================================================
