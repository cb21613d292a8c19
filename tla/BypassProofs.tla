---------------------------- MODULE BypassProofs ----------------------------
(***************************************************************************)
(* Proofs about Bypass, for every set of bypasses, every number of calls   *)
(* and every duration.                                                     *)
(***************************************************************************)
EXTENDS Bypass, TLAPS

LEMMA TypeInit == Init => TypeOK
<1> SUFFICES ASSUME Init PROVE TypeOK
  OBVIOUS
<1>1. AnyBypass \in Bypasses
  BY KindAssumption DEF AnyBypass, KindAssumption
<1>2. op \in Request /\ top \in Entry
  BY <1>1 DEF Init, Request, Entry
<1>3. now \in 0..MaxTime
  BY BoundAssumption DEF Init, BoundAssumption
<1> QED
  BY <1>2, <1>3 DEF Init, TypeOK

LEMMA TypeStep == TypeOK /\ [Next]_vars => TypeOK'
<1> SUFFICES ASSUME TypeOK, [Next]_vars PROVE TypeOK'
  OBVIOUS
<1> USE KindAssumption, BoundAssumption
    DEF KindAssumption, BoundAssumption
<1>1. ASSUME NEW b \in Bypasses, NEW u \in 1..MaxTime,
             NewBypass(b, u)
      PROVE  TypeOK'
  <2>1. op' \in Request
    BY <1>1 DEF NewBypass, TypeOK, Request
  <2>2. refresh' \in BOOLEAN
    BY <1>1 DEF NewBypass, TypeOK, RefreshFor
  <2> QED BY <1>1, <2>1, <2>2 DEF NewBypass, TypeOK, btVars
<1>2. ASSUME NEW b \in MayCancel, CancelBypass(b)
      PROVE  TypeOK'
  <2>1. op' \in Request
    BY <1>2 DEF CancelBypass, TypeOK, Request
  <2>2. status' \in [Bypasses -> {"valid", "expired"}]
    BY <1>2 DEF CancelBypass, TypeOK
  <2> QED BY <1>2, <2>1, <2>2 DEF CancelBypass, TypeOK, btVars
<1>3. CASE SetValid
  <2>1. op.until \in Nat
    BY DEF TypeOK, Request
  <2> QED BY <1>3, <2>1 DEF SetValid, TypeOK, btVars
<1>4. CASE PushEntry
  <2>1. op.bypass \in Bypasses
    BY DEF TypeOK, Request
  <2>2. EntryOf(op) \subseteq Entry
    BY DEF TypeOK, Request, EntryOf, Entry
  <2>3. bypassMask' \subseteq Analog /\ queue' \subseteq Entry
    BY <1>4, <2>2 DEF PushEntry, TypeOK, MaskBits
  <2> QED BY <1>4, <2>1, <2>3 DEF PushEntry, TypeOK, btVars
<1>5. CASE CancelUntil
  BY <1>5 DEF CancelUntil, TypeOK, btVars
<1>6. CASE CancelLoad
  BY <1>6 DEF CancelLoad, TypeOK, btVars, byVars
<1>7. CASE CancelMask
  <2>1. bypassMask' \subseteq Analog /\ refresh' \in BOOLEAN
    BY <1>7 DEF CancelMask, TypeOK, RefreshFor
  <2> QED BY <1>7, <2>1 DEF CancelMask, TypeOK, btVars
<1>8. CASE ThreadLoop
  BY <1>8 DEF ThreadLoop, TypeOK, byVars, opVars
<1>9. CASE ThreadLock
  BY <1>9 DEF ThreadLock, TypeOK, byVars, opVars
<1>10. CASE PopTop
  <2>1. top' \in Entry /\ queue' \subseteq Entry
    BY <1>10 DEF PopTop, Due, TypeOK
  <2> QED BY <1>10, <2>1 DEF PopTop, TypeOK, opVars
<1>11. CASE QueueServed
  BY <1>11 DEF QueueServed, TypeOK, byVars, opVars
<1>12. CASE Extended
  BY <1>12 DEF Extended, TypeOK, opVars
<1>13. CASE ExpireLoad
  BY <1>13 DEF ExpireLoad, TypeOK, byVars, opVars
<1>14. CASE Expire
  <2>1. bypassMask' \subseteq Analog /\ refresh' \in BOOLEAN
    BY <1>14 DEF Expire, TypeOK, RefreshAfterExpiry, MaskWithout
  <2> QED BY <1>14, <2>1 DEF Expire, TypeOK, opVars
<1>15. CASE TestRefresh
  BY <1>15 DEF TestRefresh, TypeOK, byVars, opVars
<1>16. ASSUME NEW b \in Fast, ReloadInput(b)
       PROVE  TypeOK'
  BY <1>16 DEF ReloadInput, TypeOK, byVars, opVars
<1>17. CASE ReloadDone
  BY <1>17 DEF ReloadDone, TypeOK, opVars
<1>18. CASE Sleep
  BY <1>18 DEF Sleep, TypeOK, byVars, opVars
<1>19. CASE Tick
  BY <1>19 DEF Tick, TypeOK, byVars, opVars, btVars
<1>20. CASE StopBypassThread
  BY <1>20 DEF StopBypassThread, TypeOK, byVars, opVars, btVars
<1>21. CASE UNCHANGED vars
  BY <1>21 DEF vars, TypeOK, byVars, opVars, btVars
<1> QED
  BY <1>1, <1>2, <1>3, <1>4, <1>5, <1>6, <1>7, <1>8, <1>9, <1>10, <1>11, <1>12,
     <1>13, <1>14, <1>15, <1>16, <1>17, <1>18, <1>19, <1>20, <1>21
  DEF Next, OperatorCalls, OperatorSteps, ThreadNext

(* Every variable keeps its type, whatever the interleaving of the         *)
(* operator's unlocked writes with the thread's.                           *)
THEOREM TypeCorrect == Spec => []TypeOK
<1>1. Init => TypeOK
  BY TypeInit
<1>2. TypeOK /\ [Next]_vars => TypeOK'
  BY TypeStep
<1> QED
  BY <1>1, <1>2, PTL DEF Spec
-----------------------------------------------------------------------------
(* The timers. *)

(* The mutex is held by one thread. *)
Exclusive == ~(OperatorHolds /\ ThreadHolds)

(* An entry that will end bypass b, at its very time if b is not cancelled. *)
Covers(e, b) ==
  /\ e.bypass = b
  /\ e.time >= until[b]
  /\ b \notin MayCancel => e.time = until[b]

Covered(b) == \E e \in queue : Covers(e, b)

(* Bypass b is being set: its entry is pushed before the lock is freed. *)
BeingSet(b) == opPc = "push" /\ op.bypass = b

(* The thread has popped the entry that ends b. *)
BeingEnded(b) == btPc \in {"expire", "mask"} /\ top.bypass = b

(* An early entry of a bypass is left only if the bypass was extended. *)
TimerInv ==
  /\ Exclusive
  /\ opPc = "push" => until[op.bypass] = op.until
  /\ opPc \in {"until", "load", "mask"} => op.bypass \in MayCancel
  /\ \A b \in Bypasses : status[b] = "valid" =>
       Covered(b) \/ BeingSet(b) \/ BeingEnded(b)
  /\ \A b \in Bypasses : (\E e \in queue : e.bypass = b /\ e.time < until[b]) =>
       Covered(b) \/ BeingSet(b)
  /\ btPc = "extended" => Covered(top.bypass)
  /\ btPc \in {"expire", "mask"} =>
       until[top.bypass] <= top.time /\ top.time <= btNow
  /\ btNow <= now

LEMMA TimerStep == TypeOK /\ TimerInv /\ [Next]_vars => TimerInv'
<1> SUFFICES ASSUME TypeOK, TimerInv, [Next]_vars PROVE TimerInv'
  OBVIOUS
<1> USE KindAssumption DEF KindAssumption
<1>1. ASSUME NEW b \in Bypasses, NEW u \in 1..MaxTime,
             NewBypass(b, u)
      PROVE  TimerInv'
  <2>1. /\ opPc = "idle" /\ opPc' = "valid"
        /\ UNCHANGED <<now, status, until, queue, btPc, btNow, top>>
    BY <1>1 DEF NewBypass, btVars
  <2> QED BY <2>1 DEF TimerInv, Exclusive, OperatorHolds, ThreadHolds, Covered,
                      Covers, BeingSet, BeingEnded
<1>2. ASSUME NEW b \in MayCancel, CancelBypass(b)
      PROVE  TimerInv'
  <2>1. /\ opPc = "idle" /\ opPc' = "until" /\ op'.bypass = b
        /\ status' = [status EXCEPT ![b] = "expired"]
        /\ UNCHANGED <<now, until, queue, btPc, btNow, top>>
    BY <1>2 DEF CancelBypass, btVars
  <2>2. \A c \in Bypasses : status'[c] = "valid" => status[c] = "valid"
    BY <2>1 DEF TypeOK
  <2> QED BY <2>1, <2>2 DEF TimerInv, Exclusive, OperatorHolds, ThreadHolds,
                            Covered, Covers, BeingSet, BeingEnded
<1>3. CASE SetValid
  <2>1. /\ opPc = "valid" /\ opPc' = "push" /\ ~ThreadHolds
        /\ until' = [until EXCEPT ![op.bypass] = op.until]
        /\ status' = [status EXCEPT ![op.bypass] = "valid"]
        /\ UNCHANGED <<now, queue, op, btPc, btNow, top>>
    BY <1>3 DEF SetValid, LockFree, btVars
  <2>2. op.bypass \in Bypasses
    BY DEF TypeOK, Request
  <2>3. /\ until'[op.bypass] = op.until
        /\ \A c \in Bypasses : c # op.bypass =>
             until'[c] = until[c] /\ status'[c] = status[c]
    BY <2>1, <2>2 DEF TypeOK
  <2> QED BY <2>1, <2>2, <2>3 DEF TimerInv, Exclusive, OperatorHolds,
                            ThreadHolds, Covered, Covers, BeingSet, BeingEnded
<1>4. CASE PushEntry
  <2>1. /\ opPc = "push" /\ opPc' = "idle" /\ ~ThreadHolds
        /\ queue' = queue \cup EntryOf(op)
        /\ UNCHANGED <<now, status, until, op, btPc, btNow, top>>
    BY <1>4 DEF PushEntry, btVars, TimerInv, Exclusive, OperatorHolds
  <2>2. op.bypass \in Bypasses /\ op.until \in Nat
    BY DEF TypeOK, Request
  <2>3. Covered(op.bypass)'
    <3> DEFINE e == [time |-> op.until, bypass |-> op.bypass, id |-> op.id]
    <3>1. e \in queue' /\ e.bypass = op.bypass /\ e.time = op.until
      BY <2>1 DEF EntryOf
    <3>2. until'[op.bypass] = op.until /\ op' = op
      BY <2>1 DEF TimerInv
    <3> HIDE DEF e
    <3>3. e.time >= op.until
      BY <3>1, <2>2
    <3> QED BY <3>1, <3>2, <3>3 DEF Covered, Covers
  <2>4. \A c \in Bypasses : Covered(c) => Covered(c)'
    BY <2>1 DEF Covered, Covers
  <2>5. \A c \in Bypasses : c # op.bypass =>
          \A e \in queue' : e.bypass = c => e \in queue
    BY <2>1 DEF EntryOf
  <2> QED BY <2>1, <2>2, <2>3, <2>4, <2>5 DEF TimerInv, Exclusive,
                            OperatorHolds, ThreadHolds, BeingSet, BeingEnded
<1>5. CASE CancelUntil
  <2>1. /\ opPc = "until" /\ opPc' = "load"
        /\ until' = [until EXCEPT ![op.bypass] = 0]
        /\ UNCHANGED <<now, status, queue, op, btPc, btNow, top>>
    BY <1>5 DEF CancelUntil, btVars
  <2>2. op.bypass \in MayCancel /\ op.bypass \in Bypasses
    BY <2>1 DEF TypeOK, Request, TimerInv
  <2>3. /\ until'[op.bypass] = 0
        /\ \A c \in Bypasses : c # op.bypass => until'[c] = until[c]
    BY <2>1, <2>2 DEF TypeOK
  <2>4. \A e \in queue : e.time \in Nat
    BY DEF TypeOK, Entry
  <2>5. \A c \in Bypasses : until[c] \in Nat /\ until'[c] <= until[c]
    BY <2>3 DEF TypeOK
  <2>6. \A c \in Bypasses : Covered(c) => Covered(c)'
    BY <2>1, <2>2, <2>3, <2>4, <2>5 DEF Covered, Covers
  <2>7. top.bypass \in Bypasses /\ top.time \in Nat
    BY DEF TypeOK, Entry
  <2>8. \A c \in Bypasses : ~(\E e \in queue : e.bypass = c /\ e.time < until'[c])
                            \/ Covered(c)'
    BY <2>1, <2>2, <2>3, <2>4, <2>6 DEF TimerInv, BeingSet
  <2>9. btPc \in {"expire", "mask"} => until'[top.bypass] <= top.time
    BY <2>3, <2>7 DEF TimerInv
  <2> QED BY <2>1, <2>2, <2>6, <2>7, <2>8, <2>9 DEF TimerInv, Exclusive,
                            OperatorHolds, ThreadHolds, BeingSet, BeingEnded
<1>6. CASE CancelLoad
  <2>1. /\ opPc = "load" /\ opPc' = "mask"
        /\ UNCHANGED <<now, status, until, queue, op, btPc, btNow, top>>
    BY <1>6 DEF CancelLoad, btVars, byVars
  <2> QED BY <2>1 DEF TimerInv, Exclusive, OperatorHolds, ThreadHolds, Covered,
                      Covers, BeingSet, BeingEnded
<1>7. CASE CancelMask
  <2>1. /\ opPc = "mask" /\ opPc' = "idle"
        /\ UNCHANGED <<now, status, until, queue, op, btPc, btNow, top>>
    BY <1>7 DEF CancelMask, btVars
  <2> QED BY <2>1 DEF TimerInv, Exclusive, OperatorHolds, ThreadHolds, Covered,
                      Covers, BeingSet, BeingEnded
<1>8. CASE ThreadLoop
  <2>1. /\ btPc = "loop" /\ btPc' \in {"exited", "lock"} /\ btNow' = now
        /\ UNCHANGED <<now, status, until, queue, op, opPc, top>>
    BY <1>8 DEF ThreadLoop, byVars, opVars
  <2> QED BY <2>1 DEF TimerInv, TypeOK, Exclusive, OperatorHolds, ThreadHolds,
                      Covered, Covers, BeingSet, BeingEnded
<1>9. CASE ThreadLock
  <2>1. /\ btPc = "lock" /\ btPc' = "top" /\ ~OperatorHolds
        /\ UNCHANGED <<now, status, until, queue, op, opPc, btNow, top>>
    BY <1>9 DEF ThreadLock, byVars, opVars
  <2> QED BY <2>1 DEF TimerInv, Exclusive, OperatorHolds, ThreadHolds,
                      Covered, Covers, BeingSet, BeingEnded
<1>10. CASE PopTop
  <2>1. PICK e \in Due :
          /\ \A f \in queue : e.time <= f.time
          /\ top' = e
          /\ queue' = queue \ {e}
          /\ btPc' = IF Superseded(e) THEN "extended" ELSE "expire"
    BY <1>10 DEF PopTop
  <2>2. /\ btPc = "top" /\ opPc # "push"
        /\ UNCHANGED <<now, status, until, op, opPc, btNow>>
    BY <1>10 DEF PopTop, opVars, TimerInv, Exclusive, OperatorHolds, ThreadHolds
  <2>3. /\ e \in queue /\ e.bypass \in Bypasses /\ e.time \in Nat
        /\ e.time <= btNow
        /\ \A f \in queue : f.time \in Nat
        /\ \A c \in Bypasses : until[c] \in Nat
    BY DEF Due, TypeOK, Entry
  <2>4. \A c \in Bypasses : Covered(c) /\ ~Covers(e, c) => Covered(c)'
    BY <2>1, <2>2 DEF Covered, Covers
  <2>5. CASE Superseded(e)
    <3>1. \A c \in Bypasses : ~Covers(e, c)
      BY <2>3, <2>5 DEF Covers, Superseded
    <3>2. Covered(e.bypass)
      BY <2>2, <2>3, <2>5 DEF Superseded, TimerInv, BeingSet
    <3> QED BY <2>1, <2>2, <2>3, <2>4, <2>5, <3>1, <3>2 DEF TimerInv, Exclusive,
                      OperatorHolds, ThreadHolds, BeingSet, BeingEnded
  <2>6. CASE ~Superseded(e)
    <3>1. /\ btPc' = "expire" /\ top' = e
          /\ until[e.bypass] <= e.time
      BY <2>1, <2>3, <2>6 DEF Superseded
    <3>2. \A c \in Bypasses : c # e.bypass => ~Covers(e, c)
      BY DEF Covers
    <3>3. \A f \in queue' : f.bypass = e.bypass => ~(f.time < until[e.bypass])
      BY <2>1, <2>3, <3>1
    <3> QED BY <2>1, <2>2, <2>3, <2>4, <3>1, <3>2, <3>3 DEF TimerInv, Exclusive,
                      OperatorHolds, ThreadHolds, BeingSet, BeingEnded
  <2> QED BY <2>5, <2>6
<1>11. CASE QueueServed
  <2>1. /\ btPc = "top" /\ btPc' = "refresh"
        /\ UNCHANGED <<now, status, until, queue, op, opPc, btNow, top>>
    BY <1>11 DEF QueueServed, byVars, opVars
  <2> QED BY <2>1 DEF TimerInv, Exclusive, OperatorHolds, ThreadHolds,
                      Covered, Covers, BeingSet, BeingEnded
<1>12. CASE Extended
  <2>1. /\ btPc = "extended" /\ btPc' \in {"top", "refresh"}
        /\ status' \in {status, [status EXCEPT ![top.bypass] = "valid"]}
        /\ UNCHANGED <<now, until, queue, op, opPc, btNow, top>>
    BY <1>12 DEF Extended, opVars
  <2>2. \A c \in Bypasses : status'[c] = "valid" => status[c] = "valid" \/ c = top.bypass
    BY <2>1 DEF TypeOK
  <2> QED BY <2>1, <2>2 DEF TimerInv, Exclusive, OperatorHolds, ThreadHolds,
                      Covered, Covers, BeingSet, BeingEnded
<1>13. CASE ExpireLoad
  <2>1. /\ btPc = "expire" /\ btPc' = "mask"
        /\ UNCHANGED <<now, status, until, queue, op, opPc, btNow, top>>
    BY <1>13 DEF ExpireLoad, byVars, opVars
  <2> QED BY <2>1 DEF TimerInv, Exclusive, OperatorHolds, ThreadHolds,
                      Covered, Covers, BeingSet, BeingEnded
<1>14. CASE Expire
  <2>1. /\ btPc = "mask" /\ btPc' = "top"
        /\ status' = [status EXCEPT ![top.bypass] = "expired"]
        /\ UNCHANGED <<now, until, queue, op, opPc, btNow, top>>
    BY <1>14 DEF Expire, opVars
  <2>2. \A c \in Bypasses : status'[c] = "valid" => status[c] = "valid" /\ c # top.bypass
    BY <2>1 DEF TypeOK
  <2> QED BY <2>1, <2>2 DEF TimerInv, Exclusive, OperatorHolds, ThreadHolds,
                      Covered, Covers, BeingSet, BeingEnded
<1>15. ASSUME btPc \in {"refresh", "reload", "sleep"},
              btPc' \in {"reload", "sleep", "loop"},
              UNCHANGED <<now, status, until, queue, op, opPc, btNow, top>>
       PROVE  TimerInv'
  BY <1>15 DEF TimerInv, Exclusive, OperatorHolds, ThreadHolds,
               Covered, Covers, BeingSet, BeingEnded
<1>16. CASE TestRefresh
  BY <1>15, <1>16 DEF TestRefresh, byVars, opVars
<1>17. ASSUME NEW b \in Fast, ReloadInput(b)
       PROVE  TimerInv'
  BY <1>15, <1>17 DEF ReloadInput, byVars, opVars
<1>18. CASE ReloadDone
  BY <1>15, <1>18 DEF ReloadDone, opVars
<1>19. CASE Sleep
  BY <1>15, <1>19 DEF Sleep, byVars, opVars
<1>20. ASSUME UNCHANGED <<status, until, queue, op, opPc, btPc, btNow, top>>,
              now' \in {now, now + 1}
       PROVE  TimerInv'
  BY <1>20 DEF TimerInv, TypeOK, Exclusive, OperatorHolds, ThreadHolds,
               Covered, Covers, BeingSet, BeingEnded
<1>21. CASE Tick
  BY <1>20, <1>21 DEF Tick, byVars, opVars, btVars
<1>22. CASE StopBypassThread
  BY <1>20, <1>22 DEF StopBypassThread, byVars, opVars, btVars
<1>23. CASE UNCHANGED vars
  BY <1>20, <1>23 DEF vars, byVars, opVars, btVars
<1> QED
  BY <1>1, <1>2, <1>3, <1>4, <1>5, <1>6, <1>7, <1>8, <1>9, <1>10, <1>11, <1>12,
     <1>13, <1>14, <1>16, <1>17, <1>18, <1>19, <1>21, <1>22, <1>23
  DEF Next, OperatorCalls, OperatorSteps, ThreadNext

LEMMA TimerInit == Init => TimerInv
BY BoundAssumption DEF Init, TimerInv, Exclusive, OperatorHolds, ThreadHolds,
                       BoundAssumption

LEMMA TimerInvariant == Spec => [](TypeOK /\ TimerInv)
<1>1. Init => TypeOK /\ TimerInv
  BY TypeInit, TimerInit
<1>2. (TypeOK /\ TimerInv) /\ [Next]_vars => (TypeOK /\ TimerInv)'
  BY TypeStep, TimerStep
<1> QED
  BY <1>1, <1>2, PTL DEF Spec

LEMMA SettledCovered ==
  ASSUME TypeOK, TimerInv, NEW b \in Bypasses, Settled(b), status[b] = "valid"
  PROVE  Covered(b)
BY DEF TimerInv, Settled, BeingSet, BeingEnded, ThreadHolds

(* No bypass in force is without an entry in the queue that will find it,  *)
(* however many calls the operator makes and however they interleave with  *)
(* the thread.                                                             *)
THEOREM TimerLeft == Spec => []ValidHasTimer
<1>1. TypeOK /\ TimerInv => ValidHasTimer
  BY SettledCovered DEF ValidHasTimer, Covered, Covers
<1> QED
  BY <1>1, TimerInvariant, PTL

(* A bypass that is never cancelled has an entry for the very time it was  *)
(* last set to end at.                                                     *)
THEOREM LastControls == Spec => []LastSetControls
<1>1. TypeOK /\ TimerInv => LastSetControls
  BY SettledCovered DEF LastSetControls, Covered, Covers
<1> QED
  BY <1>1, TimerInvariant, PTL

(* The thread ends no bypass before the time it was last set to end at.    *)
THEOREM NotEarly == Spec => NoEarlyEnd
<1>1. TypeOK /\ TimerInv /\ [Next]_vars =>
        [\A b \in Bypasses :
           btPc # btPc' /\ status[b] = "valid" /\ status'[b] = "expired"
           => until[b] <= now]_vars
  <2> SUFFICES ASSUME TypeOK, TimerInv, Next, NEW b \in Bypasses,
                      btPc # btPc', status[b] = "valid", status'[b] = "expired"
               PROVE  until[b] <= now
    OBVIOUS
  <2>1. Expire
    <3>1. btPc # btPc' /\ status' # status
      OBVIOUS
    <3>2. ~Extended
      BY DEF Extended, TypeOK, Entry
    <3> QED
      BY <3>1, <3>2
      DEF Next, OperatorCalls, OperatorSteps, ThreadNext, NewBypass, CancelBypass,
          SetValid, PushEntry, CancelUntil, CancelLoad, CancelMask, ThreadLoop,
          ThreadLock, PopTop, QueueServed, ExpireLoad, TestRefresh, ReloadInput,
          ReloadDone, Sleep, Tick, StopBypassThread, btVars, byVars
  <2>2. btPc = "mask" /\ b = top.bypass
    BY <2>1 DEF Expire, TypeOK
  <2>3. /\ until[b] <= top.time /\ top.time <= btNow /\ btNow <= now
    BY <2>2 DEF TimerInv
  <2>4. until[b] \in Nat /\ top.time \in Nat /\ btNow \in Nat /\ now \in Nat
    BY DEF TypeOK, Entry
  <2> QED BY <2>3, <2>4
<1> QED
  BY <1>1, TimerInvariant, PTL DEF Spec, NoEarlyEnd
-----------------------------------------------------------------------------
(* The firmware follows the end of a bypass. *)

(* An input the firmware still disables after its bypass was ended is on   *)
(* its way: the reload is asked for, or has the input left to write.       *)
ReloadInv ==
  \A b \in Fast \ MayCancel : b \in fwBypassed =>
    \/ status[b] = "valid"
    \/ refresh /\ btPc \in {"top", "extended", "expire", "mask", "refresh"}
    \/ btPc = "reload" /\ b \in btTodo

LEMMA ReloadStep == TypeOK /\ ReloadInv /\ [Next]_vars => ReloadInv'
<1> SUFFICES ASSUME TypeOK, ReloadInv, [Next]_vars,
                    NEW b \in Fast \ MayCancel, b \in fwBypassed'
             PROVE  \/ status'[b] = "valid"
                    \/ refresh' /\ btPc' \in {"top", "extended", "expire", "mask", "refresh"}
                    \/ btPc' = "reload" /\ b \in btTodo'
  BY DEF ReloadInv
<1>1. b \in Bypasses
  BY KindAssumption DEF KindAssumption
<1>2. b \in fwBypassed =>
        \/ status[b] = "valid"
        \/ refresh /\ btPc \in {"top", "extended", "expire", "mask", "refresh"}
        \/ btPc = "reload" /\ b \in btTodo
  BY DEF ReloadInv
<1>3. ASSUME UNCHANGED <<fwBypassed, btPc, btTodo>>,
             status[b] = "valid" => status'[b] = "valid",
             refresh => refresh'
      PROVE  \/ status'[b] = "valid"
             \/ refresh' /\ btPc' \in {"top", "extended", "expire", "mask", "refresh"}
             \/ btPc' = "reload" /\ b \in btTodo'
  BY <1>2, <1>3
<1>4. CASE OperatorCalls
  <2>1. CASE \E c \in Bypasses, u \in 1..MaxTime : NewBypass(c, u)
    BY <1>3, <2>1 DEF NewBypass, RefreshFor, btVars
  <2>2. CASE \E c \in MayCancel : CancelBypass(c)
    BY <1>1, <1>3, <2>2 DEF CancelBypass, btVars, TypeOK
  <2> QED BY <1>4, <2>1, <2>2 DEF OperatorCalls
<1>5. CASE OperatorSteps
  <2>1. CASE SetValid
    BY <1>1, <1>3, <2>1 DEF SetValid, btVars, TypeOK
  <2>2. CASE PushEntry \/ CancelUntil \/ CancelLoad \/ CancelMask
    BY <1>3, <2>2 DEF PushEntry, CancelUntil, CancelLoad, CancelMask, RefreshFor,
                      btVars, byVars
  <2> QED BY <1>5, <2>1, <2>2 DEF OperatorSteps
<1>6. CASE ThreadNext
  <2>1. CASE ThreadLoop \/ ThreadLock \/ Sleep
    BY <1>2, <2>1 DEF ThreadLoop, ThreadLock, Sleep, byVars
  <2>2. CASE PopTop \/ QueueServed \/ ExpireLoad
    BY <1>2, <2>2 DEF PopTop, QueueServed, ExpireLoad, byVars
  <2>3. CASE Extended
    BY <1>1, <1>2, <2>3 DEF Extended, TypeOK
  <2>4. CASE Expire
    BY <1>1, <1>2, <2>4 DEF Expire, RefreshAfterExpiry, TypeOK
  <2>5. CASE TestRefresh
    BY <1>2, <2>5 DEF TestRefresh, byVars
  <2>6. CASE \E c \in Fast : ReloadInput(c)
    BY <1>2, <2>6 DEF ReloadInput, byVars
  <2>7. CASE ReloadDone
    BY <1>2, <2>7 DEF ReloadDone
  <2> QED BY <1>6, <2>1, <2>2, <2>3, <2>4, <2>5, <2>6, <2>7 DEF ThreadNext
<1>7. CASE Tick \/ StopBypassThread
  BY <1>3, <1>7 DEF Tick, StopBypassThread, byVars, btVars
<1>8. CASE UNCHANGED vars
  BY <1>3, <1>8 DEF vars, byVars, btVars
<1> QED
  BY <1>4, <1>5, <1>6, <1>7, <1>8 DEF Next

(* An input whose bypass the thread has ended is protected by the firmware *)
(* again before the thread sleeps: the late clearing of the request loses  *)
(* requests of the operator, never the thread's own.                       *)
THEOREM ExpiryReachesFirmware == Spec => []NoLostExpiry
<1>1. Init => TypeOK /\ ReloadInv
  BY TypeInit DEF Init, ReloadInv
<1>2. (TypeOK /\ ReloadInv) /\ [Next]_vars => (TypeOK /\ ReloadInv)'
  BY TypeStep, ReloadStep
<1>3. ReloadInv => NoLostExpiry
  BY DEF ReloadInv, NoLostExpiry
<1> QED
  BY <1>1, <1>2, <1>3, PTL DEF Spec
-----------------------------------------------------------------------------
(* The mask of the analog bypasses. *)

(* The bit of an analog bypass goes with its status.  What the thread read *)
(* of the word is still what it holds when the thread writes it, and an    *)
(* entry that was superseded belongs to a bypass in force.                 *)
MaskInv ==
  /\ btPc = "mask" => btMask = bypassMask
  /\ btPc \in {"expire", "mask"} => \A e \in queue : e.time >= top.time
  /\ \A b \in Analog :
       /\ BeingSet(b) => status[b] = "valid"
       /\ ~BeingSet(b) => (b \in bypassMask <=> status[b] = "valid")
       /\ (\E e \in queue : e.bypass = b /\ e.time < until[b]) => status[b] = "valid"
       /\ btPc = "extended" /\ top.bypass = b => status[b] = "valid"

LEMMA MaskStep ==
  ASSUME MayCancel \cap Analog = {}
  PROVE  TypeOK /\ TimerInv /\ MaskInv /\ [Next]_vars => MaskInv'
<1> SUFFICES ASSUME TypeOK, TimerInv, MaskInv, [Next]_vars PROVE MaskInv'
  OBVIOUS
<1> USE KindAssumption DEF KindAssumption
<1>1. op.bypass \in Bypasses /\ top.bypass \in Bypasses
  BY DEF TypeOK, Request, Entry
<1>2. ASSUME UNCHANGED <<status, until, bypassMask, queue>>,
             opPc' # "push", opPc # "push",
             \/ btPc' = btPc /\ top' = top /\ btMask' = btMask
             \/ btPc' \notin {"extended", "expire", "mask"}
      PROVE  MaskInv'
  BY <1>2 DEF MaskInv, BeingSet
<1>3. ASSUME UNCHANGED <<status, until, bypassMask, queue, op, opPc>>,
             \/ btPc' = btPc /\ top' = top /\ btMask' = btMask
             \/ btPc' \notin {"extended", "expire", "mask"}
      PROVE  MaskInv'
  BY <1>3 DEF MaskInv, BeingSet
<1>4. ASSUME NEW b \in Bypasses, NEW u \in 1..MaxTime, NewBypass(b, u)
      PROVE  MaskInv'
  BY <1>2, <1>4 DEF NewBypass, btVars
<1>5. ASSUME NEW b \in MayCancel, CancelBypass(b)
      PROVE  MaskInv'
  <2>1. b \in Bypasses /\ b \notin Analog
    OBVIOUS
  <2>2. \A c \in Analog : status'[c] = status[c]
    BY <1>5, <2>1 DEF CancelBypass, TypeOK
  <2> QED BY <1>5, <2>2 DEF CancelBypass, btVars, MaskInv, BeingSet
<1>6. CASE SetValid
  <2>1. /\ opPc' = "push" /\ op' = op /\ opPc = "valid"
        /\ btPc' = btPc /\ btPc \notin {"extended", "expire", "mask"}
        /\ UNCHANGED <<bypassMask, queue>>
    BY <1>6 DEF SetValid, LockFree, ThreadHolds, btVars
  <2>2. status'[op.bypass] = "valid"
    BY <1>1, <1>6 DEF SetValid, TypeOK
  <2>3. \A c \in Analog : c # op.bypass =>
          status'[c] = status[c] /\ until'[c] = until[c]
    BY <1>1, <1>6 DEF SetValid, TypeOK
  <2> QED BY <2>1, <2>2, <2>3 DEF MaskInv, BeingSet
<1>7. CASE PushEntry
  <2>1. /\ opPc = "push" /\ opPc' = "idle" /\ op' = op /\ btPc' = btPc
        /\ btPc \notin {"extended", "expire", "mask"}
        /\ UNCHANGED <<status, until>>
        /\ bypassMask' = bypassMask \cup MaskBits(op.bypass)
        /\ queue' = queue \cup EntryOf(op)
    BY <1>7 DEF PushEntry, btVars, TimerInv, Exclusive, OperatorHolds, ThreadHolds
  <2>2. ASSUME NEW b \in Analog
        PROVE  b \in bypassMask' <=> status'[b] = "valid"
    BY <2>1, <2>2 DEF MaskInv, BeingSet, MaskBits
  <2>3. ASSUME NEW b \in Analog, NEW e \in queue', e.bypass = b, e.time < until'[b]
        PROVE  status'[b] = "valid"
    <3>1. CASE e \in queue
      BY <2>1, <2>3, <3>1 DEF MaskInv
    <3>2. CASE e \notin queue
      <4>1. e.bypass = op.bypass
        BY <2>1, <2>3, <3>2 DEF EntryOf
      <4> QED BY <2>1, <2>3, <4>1 DEF MaskInv, BeingSet
    <3> QED BY <3>1, <3>2
  <2> QED BY <2>1, <2>2, <2>3 DEF MaskInv, BeingSet
<1>8. CASE CancelUntil
  <2>1. opPc = "until" /\ op.bypass \notin Analog
    BY <1>8 DEF CancelUntil, TimerInv
  <2>2. \A c \in Analog : until'[c] = until[c]
    BY <1>1, <1>8, <2>1 DEF CancelUntil, TypeOK
  <2> QED BY <1>8, <2>1, <2>2 DEF CancelUntil, btVars, MaskInv, BeingSet
<1>9. CASE CancelLoad
  BY <1>2, <1>9 DEF CancelLoad, byVars, btVars
<1>10. CASE CancelMask
  <2>1. opPc = "mask" /\ op.bypass \notin Analog
    BY <1>10 DEF CancelMask, TimerInv
  <2> QED BY <1>2, <1>10, <2>1 DEF CancelMask, btVars
<1>11. CASE ThreadLoop \/ ThreadLock \/ QueueServed \/ TestRefresh \/ Sleep
  BY <1>3, <1>11 DEF ThreadLoop, ThreadLock, QueueServed, TestRefresh, Sleep,
                     byVars, opVars
<1>12. CASE ReloadDone
  BY <1>3, <1>12 DEF ReloadDone, opVars
<1>13. ASSUME NEW b \in Fast, ReloadInput(b)
       PROVE  MaskInv'
  BY <1>3, <1>13 DEF ReloadInput, byVars, opVars
<1>14. CASE PopTop
  <2>1. PICK e \in Due :
          /\ \A f \in queue : e.time <= f.time
          /\ top' = e
          /\ queue' = queue \ {e}
          /\ btPc' = IF Superseded(e) THEN "extended" ELSE "expire"
    BY <1>14 DEF PopTop
  <2>2. /\ opPc # "push" /\ opPc' = opPc
        /\ UNCHANGED <<status, until, bypassMask>>
    BY <1>14 DEF PopTop, opVars, TimerInv, Exclusive, OperatorHolds, ThreadHolds
  <2>3. /\ e \in queue /\ e.bypass \in Bypasses /\ e.time \in Nat
        /\ \A f \in queue : f.time \in Nat
        /\ \A c \in Bypasses : until[c] \in Nat
    BY DEF Due, TypeOK, Entry
  <2>4. \A f \in queue' : f.time >= top'.time
    BY <2>1, <2>3
  <2>5. \A b \in Analog : btPc' = "extended" /\ top'.bypass = b => status'[b] = "valid"
    BY <2>1, <2>2, <2>3 DEF Superseded, MaskInv
  <2>6. btPc' # "mask"
    BY <2>1
  <2> QED BY <2>1, <2>2, <2>4, <2>5, <2>6 DEF MaskInv, BeingSet
<1>15. CASE Extended
  <2>1. btPc = "extended" /\ btPc' \in {"top", "refresh"}
        /\ UNCHANGED <<until, bypassMask, queue, op, opPc, top, btMask>>
    BY <1>15 DEF Extended, opVars
  <2>2. \A c \in Analog : status'[c] = status[c]
    BY <1>1, <1>15, <2>1 DEF Extended, MaskInv, TypeOK
  <2> QED BY <2>1, <2>2 DEF MaskInv, BeingSet
<1>16. CASE ExpireLoad
  BY <1>16 DEF ExpireLoad, byVars, opVars, MaskInv, BeingSet
<1>17. CASE Expire
  <2>1. /\ btPc = "mask" /\ btPc' = "top" /\ opPc # "push"
        /\ UNCHANGED <<until, queue, op, opPc, top>>
        /\ status' = [status EXCEPT ![top.bypass] = "expired"]
        /\ bypassMask' = IF top.bypass \in Analog THEN bypassMask \ {top.bypass}
                                                  ELSE bypassMask
    BY <1>17 DEF Expire, opVars, TimerInv, Exclusive, OperatorHolds, ThreadHolds,
                 MaskInv, MaskWithout, MaskBits
  <2>2. /\ status'[top.bypass] = "expired"
        /\ \A c \in Bypasses : c # top.bypass => status'[c] = status[c]
    BY <1>1, <2>1 DEF TypeOK
  <2>3. \A b \in Analog : b \in bypassMask' <=> status'[b] = "valid"
    BY <2>1, <2>2 DEF MaskInv, BeingSet
  <2>4. \A e \in queue : e.time \in Nat /\ until[top.bypass] \in Nat
    BY <1>1 DEF TypeOK, Entry
  <2>5. top.time \in Nat
    BY DEF TypeOK, Entry
  <2>6. \A e \in queue : ~(e.time < until[top.bypass])
    BY <2>1, <2>4, <2>5 DEF MaskInv, TimerInv
  <2> QED BY <2>1, <2>2, <2>3, <2>6 DEF MaskInv, BeingSet
<1>18. CASE Tick \/ StopBypassThread \/ UNCHANGED vars
  BY <1>3, <1>18 DEF Tick, StopBypassThread, vars, byVars, opVars, btVars
<1> QED
  BY <1>4, <1>5, <1>6, <1>7, <1>8, <1>9, <1>10, <1>11, <1>12, <1>13, <1>14, <1>15,
     <1>16, <1>17, <1>18
  DEF Next, OperatorCalls, OperatorSteps, ThreadNext

(* Where no analog bypass is cancelled, the bits of the mask are those of  *)
(* the bypasses in force: the load and the store of the word by the thread *)
(* lose no bit, and a bypass that was extended is not found expired.       *)
THEOREM MaskFollows == Spec => []MaskOfUncancelled
<1>1. CASE MayCancel \cap Analog = {}
  <2>1. Init => TypeOK /\ TimerInv /\ MaskInv
    <3>1. Init => MaskInv
      BY KindAssumption DEF Init, MaskInv, BeingSet, KindAssumption
    <3> QED BY <3>1, TypeInit, TimerInit
  <2>2. (TypeOK /\ TimerInv /\ MaskInv) /\ [Next]_vars
          => (TypeOK /\ TimerInv /\ MaskInv)'
    BY <1>1, TypeStep, TimerStep, MaskStep
  <2>3. MaskInv => MaskOfUncancelled
    BY DEF MaskInv, MaskOfUncancelled, Settled, BeingSet
  <2> QED BY <2>1, <2>2, <2>3, PTL DEF Spec
<1>2. CASE MayCancel \cap Analog # {}
  <2>1. MaskOfUncancelled
    BY <1>2 DEF MaskOfUncancelled
  <2> QED BY <2>1, PTL
<1> QED BY <1>1, <1>2
=============================================================================
