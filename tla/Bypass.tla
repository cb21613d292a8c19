------------------------------- MODULE Bypass -------------------------------
(***************************************************************************)
(* The bypass manager: the operator's setThresholdBypass, the priority     *)
(* queue of expiration times, and the bypass thread that serves it once a  *)
(* second and reloads the firmware configuration.                          *)
(*                                                                         *)
(* New and changed bypasses are written under BypassManager::mutex, and    *)
(* the thread serves the queue under it; a cancelled one is written with   *)
(* no lock, and so is the flag that asks for the firmware reload.  The     *)
(* analog bypasses of the model are the integrators of one device: they    *)
(* share its word bypassMask.  The operator's calls come from one thread.  *)
(***************************************************************************)
EXTENDS Naturals

CONSTANTS
  Bypasses,
  Analog,        \* those of type BYPASS_ANALOG
  Fast,          \* those with configUpdate: the firmware evaluates the input
  MayCancel,     \* bound: the bypasses the operator cancels
  MaxTime,       \* bound: seconds that pass
  MaxRequests    \* bound: calls of setThresholdBypass

ASSUME KindAssumption ==
  /\ Bypasses # {}
  /\ Analog \subseteq Bypasses
  /\ Fast \subseteq Bypasses
  /\ MayCancel \subseteq Bypasses
ASSUME BoundAssumption == MaxTime \in Nat /\ MaxRequests \in Nat

VARIABLES
  now,        \* the clock, in seconds
  status,     \* InputBypass::status: "valid" or "expired"
  until,      \* InputBypass::until
  bypassMask, \* DbAnalogDevice::bypassMask: the bypasses whose bits are 0
  queue,      \* bypassQueue: entries [time, bypass, id]
  refresh,    \* refreshFirmwareConfiguration
  opPc,       \* setThresholdBypass: "idle"; "valid", "push" of a new
              \*   bypass; "until", "load", "mask" of a cancelled one
  op,         \* its arguments and its number: [bypass, until, id]
  opMask,     \* bypassMask as the cancelling thread has read it
  requests,   \* calls made
  btPc,       \* bypassThread: "loop", "lock", "top", "extended", "expire",
              \*   "mask", "refresh", "reload", "sleep", "exited"
  btNow,      \* the time checkBypassQueue works with
  top,        \* the entry it has popped
  btMask,     \* bypassMask as the thread has read it
  btTodo,     \* bypasses writeFirmwareConfiguration has left to write
  fwBypassed, \* bypasses the firmware configuration disables the input of
  threadDone

opVars == <<opPc, op, opMask, requests>>
btVars == <<btPc, btNow, top, btMask, btTodo>>
byVars == <<status, until, bypassMask, queue, refresh>>
vars == <<now, byVars, opVars, btVars, fwBypassed, threadDone>>

Request == [bypass : Bypasses, until : Nat, id : Nat]
Entry   == [time : Nat, bypass : Bypasses, id : Nat]

AnyBypass == CHOOSE b \in Bypasses : TRUE

(* createBypassMap and assignBypass. *)
Init ==
  /\ now = 0
  /\ status = [b \in Bypasses |-> "expired"]
  /\ until = [b \in Bypasses |-> 0]
  /\ bypassMask = {}
  /\ queue = {}
  /\ refresh = FALSE
  /\ opPc = "idle"
  /\ op = [bypass |-> AnyBypass, until |-> 0, id |-> 0]
  /\ opMask = {}
  /\ requests = 0
  /\ btPc = "loop"
  /\ btNow = 0
  /\ top = [time |-> 0, bypass |-> AnyBypass, id |-> 0]
  /\ btMask = {}
  /\ btTodo = {}
  /\ fwBypassed = {}
  /\ threadDone = FALSE

(* Who holds BypassManager::mutex. *)
OperatorHolds == opPc = "push"
ThreadHolds == btPc \in {"top", "extended", "expire", "mask"}

RefreshFor(b) == refresh \/ b \in Fast
-----------------------------------------------------------------------------
(* setThresholdBypass, by setBypass or for one integrator. *)

(* A new or changed bypass: the reload is asked for before the lock.  A    *)
(* time that has passed is ignored.                                        *)
NewBypass(b, u) ==
  /\ opPc = "idle"
  /\ requests < MaxRequests
  /\ u > now
  /\ op' = [bypass |-> b, until |-> u, id |-> requests + 1]
  /\ requests' = requests + 1
  /\ refresh' = RefreshFor(b)
  /\ opPc' = "valid"
  /\ UNCHANGED <<now, status, until, bypassMask, queue, opMask, btVars,
                 fwBypassed, threadDone>>

LockUntested == TRUE
LockFree == ~ThreadHolds

(* Under the lock; the engine and the reload read status without it. *)
SetValid ==
  /\ opPc = "valid"
  /\ LockFree
  /\ until' = [until EXCEPT ![op.bypass] = op.until]
  /\ status' = [status EXCEPT ![op.bypass] = "valid"]
  /\ opPc' = "push"
  /\ UNCHANGED <<now, bypassMask, queue, refresh, op, opMask, requests,
                 btVars, fwBypassed, threadDone>>

(* Every request has an entry of its own, an extended bypass too. *)
EntryOfNewBypass(r) ==
  IF \E e \in queue : e.bypass = r.bypass THEN {}
  ELSE {[time |-> r.until, bypass |-> r.bypass, id |-> r.id]}
EntryOf(r) == {[time |-> r.until, bypass |-> r.bypass, id |-> r.id]}

(* The bits of a bypass in the mask word: a digital one has none. *)
MaskBits(b) == {b} \cap Analog

PushEntry ==
  /\ opPc = "push"
  /\ bypassMask' = bypassMask \cup MaskBits(op.bypass)
  /\ queue' = queue \cup EntryOf(op)
  /\ opPc' = "idle"
  /\ UNCHANGED <<now, status, until, refresh, op, opMask, requests, btVars,
                 fwBypassed, threadDone>>

(* A bypass until 0 is cancelled, without the lock: status, until, the     *)
(* read-modify-write of the mask, and the request to reload.               *)
CancelBypass(b) ==
  /\ opPc = "idle"
  /\ requests < MaxRequests
  /\ op' = [bypass |-> b, until |-> 0, id |-> requests + 1]
  /\ requests' = requests + 1
  /\ status' = [status EXCEPT ![b] = "expired"]
  /\ opPc' = "until"
  /\ UNCHANGED <<now, until, bypassMask, queue, refresh, opMask, btVars,
                 fwBypassed, threadDone>>

CancelUntil ==
  /\ opPc = "until"
  /\ until' = [until EXCEPT ![op.bypass] = 0]
  /\ opPc' = "load"
  /\ UNCHANGED <<now, status, bypassMask, queue, refresh, op, opMask,
                 requests, btVars, fwBypassed, threadDone>>

CancelLoad ==
  /\ opPc = "load"
  /\ opMask' = bypassMask
  /\ opPc' = "mask"
  /\ UNCHANGED <<now, byVars, op, requests, btVars, fwBypassed, threadDone>>

CancelMask ==
  /\ opPc = "mask"
  /\ bypassMask' = IF op.bypass \in Analog THEN opMask \ MaskBits(op.bypass)
                                         ELSE bypassMask
  /\ refresh' = RefreshFor(op.bypass)
  /\ opPc' = "idle"
  /\ UNCHANGED <<now, status, until, queue, op, opMask, requests, btVars,
                 fwBypassed, threadDone>>
-----------------------------------------------------------------------------
(* bypassThread. *)

StopSeen == threadDone

(* The test of threadDone, and the clock read by checkBypassQueue. *)
ThreadLoop ==
  /\ btPc = "loop"
  /\ btPc' = IF StopSeen THEN "exited" ELSE "lock"
  /\ btNow' = now
  /\ UNCHANGED <<now, byVars, opVars, top, btMask, btTodo, fwBypassed,
                 threadDone>>

ThreadLock ==
  /\ btPc = "lock"
  /\ ~OperatorHolds
  /\ btPc' = "top"
  /\ UNCHANGED <<now, byVars, opVars, btNow, top, btMask, btTodo, fwBypassed,
                 threadDone>>

Due == {e \in queue : e.time <= btNow}

(* An entry is superseded when the bypass was extended after it. *)
Superseded(e) == until[e.bypass] > e.time

(* checkBypassQueueTop pops one of the entries that are due first. *)
PopTop ==
  /\ btPc = "top"
  /\ \E e \in Due :
       /\ \A f \in queue : e.time <= f.time
       /\ top' = e
       /\ queue' = queue \ {e}
       /\ btPc' = IF Superseded(e) THEN "extended" ELSE "expire"
  /\ UNCHANGED <<now, status, until, bypassMask, refresh, opVars, btNow,
                 btMask, btTodo, fwBypassed, threadDone>>

QueueServed ==
  /\ btPc = "top"
  /\ Due = {}
  /\ btPc' = "refresh"
  /\ UNCHANGED <<now, byVars, opVars, btNow, top, btMask, btTodo, fwBypassed,
                 threadDone>>

(* An extended bypass stays valid.  One found expired is set back to valid *)
(* and ends the service of the queue.                                      *)
Extended ==
  /\ btPc = "extended"
  /\ IF status[top.bypass] = "valid"
     THEN btPc' = "top" /\ UNCHANGED status
     ELSE btPc' = "refresh" /\ status' = [status EXCEPT ![top.bypass] = "valid"]
  /\ UNCHANGED <<now, until, bypassMask, queue, refresh, opVars, btNow, top,
                 btMask, btTodo, fwBypassed, threadDone>>

ExpireLoad ==
  /\ btPc = "expire"
  /\ btMask' = bypassMask
  /\ btPc' = "mask"
  /\ UNCHANGED <<now, byVars, opVars, btNow, top, btTodo, fwBypassed,
                 threadDone>>

MaskKept(b) == btMask
MaskWithout(b) == btMask \ MaskBits(b)

RefreshUnasked(b) == refresh
RefreshAfterExpiry(b) == refresh \/ b \in Fast

Expire ==
  /\ btPc = "mask"
  /\ bypassMask' = IF top.bypass \in Analog THEN MaskWithout(top.bypass)
                                          ELSE bypassMask
  /\ refresh' = RefreshAfterExpiry(top.bypass)
  /\ status' = [status EXCEPT ![top.bypass] = "expired"]
  /\ btPc' = "top"
  /\ UNCHANGED <<now, until, queue, opVars, btNow, top, btMask, btTodo,
                 fwBypassed, threadDone>>

TestRefresh ==
  /\ btPc = "refresh"
  /\ IF refresh THEN btPc' = "reload" /\ btTodo' = Fast
                ELSE btPc' = "sleep" /\ UNCHANGED btTodo
  /\ UNCHANGED <<now, byVars, opVars, btNow, top, btMask, fwBypassed,
                 threadDone>>

(* Engine::reloadConfig: the destination mask of a fast input is written   *)
(* as zero if its bypass is valid when the write comes to it.              *)
ReloadInput(b) ==
  /\ btPc = "reload"
  /\ b \in btTodo
  /\ fwBypassed' = IF status[b] = "valid" THEN fwBypassed \cup {b}
                                          ELSE fwBypassed \ {b}
  /\ btTodo' = btTodo \ {b}
  /\ UNCHANGED <<now, byVars, opVars, btPc, btNow, top, btMask, threadDone>>

(* The request is cleared after the configuration was written. *)
ReloadDone ==
  /\ btPc = "reload"
  /\ btTodo = {}
  /\ refresh' = FALSE
  /\ btPc' = "sleep"
  /\ UNCHANGED <<now, status, until, bypassMask, queue, opVars, btNow, top,
                 btMask, btTodo, fwBypassed, threadDone>>

Sleep ==
  /\ btPc = "sleep"
  /\ btPc' = "loop"
  /\ UNCHANGED <<now, byVars, opVars, btNow, top, btMask, btTodo, fwBypassed,
                 threadDone>>

Tick ==
  /\ now < MaxTime
  /\ now' = now + 1
  /\ UNCHANGED <<byVars, opVars, btVars, fwBypassed, threadDone>>

StopBypassThread ==
  /\ ~threadDone
  /\ threadDone' = TRUE
  /\ UNCHANGED <<now, byVars, opVars, btVars, fwBypassed>>
-----------------------------------------------------------------------------
OperatorCalls ==
  \/ \E b \in Bypasses, u \in 1..MaxTime : NewBypass(b, u)
  \/ \E b \in MayCancel : CancelBypass(b)

OperatorSteps == SetValid \/ PushEntry \/ CancelUntil \/ CancelLoad \/ CancelMask

ThreadNext ==
  \/ ThreadLoop \/ ThreadLock \/ PopTop \/ QueueServed \/ Extended
  \/ ExpireLoad \/ Expire \/ TestRefresh \/ ReloadDone \/ Sleep
  \/ \E b \in Fast : ReloadInput(b)

Next ==
  \/ OperatorCalls \/ OperatorSteps \/ ThreadNext \/ Tick \/ StopBypassThread

Spec == Init /\ [][Next]_vars

(* The clock advances, the thread wakes from its sleep of a second, and a  *)
(* call of the operator returns unless it waits for the lock.              *)
Fairness == WF_vars(Tick) /\ WF_vars(ThreadNext) /\ WF_vars(OperatorSteps)

FairSpec == Spec /\ Fairness
-----------------------------------------------------------------------------
TypeOK ==
  /\ now \in 0..MaxTime
  /\ status \in [Bypasses -> {"valid", "expired"}]
  /\ until \in [Bypasses -> Nat]
  /\ bypassMask \subseteq Analog
  /\ queue \subseteq Entry
  /\ refresh \in BOOLEAN
  /\ opPc \in {"idle", "valid", "push", "until", "load", "mask"}
  /\ op \in Request
  /\ opMask \subseteq Analog
  /\ requests \in Nat
  /\ btPc \in {"loop", "lock", "top", "extended", "expire", "mask", "refresh",
               "reload", "sleep", "exited"}
  /\ btNow \in Nat
  /\ top \in Entry
  /\ btMask \subseteq Analog
  /\ btTodo \subseteq Fast
  /\ fwBypassed \subseteq Fast
  /\ threadDone \in BOOLEAN

(* Nobody is in the middle of writing bypass b. *)
Settled(b) ==
  /\ ~(opPc # "idle" /\ op.bypass = b)
  /\ ~(ThreadHolds /\ top.bypass = b)

(* A bypass in force always has an entry left in the queue that will find  *)
(* it: however often it was extended, shortened, cancelled and set again,  *)
(* no input stays bypassed with nothing to end it.                         *)
ValidHasTimer ==
  \A b \in Bypasses : Settled(b) /\ status[b] = "valid" =>
    \E e \in queue : e.bypass = b /\ e.time >= until[b]

(* A bypass that was never cancelled has an entry for the very time it was *)
(* last set to end at: "the last one to be added will be the one that      *)
(* controls when the bypass expires".                                      *)
LastSetControls ==
  \A b \in Bypasses \ MayCancel : Settled(b) /\ status[b] = "valid" =>
    \E e \in queue : e.bypass = b /\ e.time = until[b]

(* The thread ends no bypass before the time it was last set to end at.    *)
NoEarlyEnd ==
  [][\A b \in Bypasses :
       btPc # btPc' /\ status[b] = "valid" /\ status'[b] = "expired"
       => until[b] <= now]_vars

(* An input whose bypass the thread has ended is protected by the firmware *)
(* again when the thread goes to sleep.                                    *)
NoLostExpiry ==
  btPc \in {"sleep", "loop", "lock", "exited"} =>
    \A b \in Fast \ MayCancel : b \in fwBypassed => status[b] = "valid"

(* The bits of the mask are those of the bypasses in force, as long as     *)
(* none of them is cancelled.                                              *)
MaskOfUncancelled ==
  MayCancel \cap Analog = {} =>
    \A b \in Analog : Settled(b) => (b \in bypassMask <=> status[b] = "valid")

(* A bypass, cancelled or not, comes to an end, unless the thread does.    *)
BypassEnds ==
  \A b \in Bypasses : status[b] = "valid" ~> (status[b] = "expired" \/ btPc = "exited")

(* "The firmware configuration is reloaded when a fast digital input       *)
(* bypass is created or expires": when nobody is at work and no reload is  *)
(* pending, the firmware disables the inputs bypassed and no other.        *)
FirmwareFollows ==
  opPc = "idle" /\ btPc = "sleep" /\ ~refresh =>
    fwBypassed = {b \in Fast : status[b] = "valid"}
=============================================================================
