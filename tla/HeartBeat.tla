----------------------------- MODULE HeartBeat -----------------------------
(***************************************************************************)
(* The heartbeat that keeps the software watchdog of the firmware quiet    *)
(* (NonBlockingBeat): the engine counts up the requests, a thread takes    *)
(* them one at a time and writes the register, the operator clears the     *)
(* statistics meanwhile, and the destructor stops the thread.              *)
(***************************************************************************)
EXTENDS Naturals

CONSTANTS
  MaxBeats,   \* bound: beats the engine asks for
  MaxClears   \* bound: calls of clear

ASSUME BoundAssumption == MaxBeats \in Nat /\ MaxClears \in Nat

VARIABLES
  beatReqCount, beatReqCountMax, run,  \* as in the code
  writer,        \* where beatWriter is, see WriterSteps
  hbCnt, wdErrorCnt,
  copy,          \* one of them as ++ has read it
  clearing,      \* clear() is "idle", "beats" (hbCnt is next) or "errors"
  clears,
  sent,          \* heartbeats the firmware got
  \* history variables
  counted,       \* beats counted since hbCnt was last cleared
  askedSince,    \* beats asked for since the maximum was cleared
  sentAfterStop  \* beats sent since run was reset

requestVars == <<beatReqCount, beatReqCountMax, askedSince>>
statVars == <<hbCnt, wdErrorCnt, copy, counted>>
clearVars == <<clearing, clears>>
sentVars == <<sent, sentAfterStop>>
vars == <<requestVars, run, writer, statVars, clearVars, sentVars>>

(* beatWriter waits for a request, or has taken one and reads the error of *)
(* the watchdog, counts it, writes the register, counts the beat (a read   *)
(* and a write), and tests run.                                            *)
Taken == {"taken", "error", "execute"}
WriterSteps == Taken \cup {"waiting", "count", "counting", "testing", "exited"}

Init ==
  /\ beatReqCount = 0
  /\ beatReqCountMax = 0
  /\ run = TRUE
  /\ writer = "waiting"
  /\ hbCnt = 0
  /\ wdErrorCnt = 0
  /\ copy = 0
  /\ clearing = "idle"
  /\ clears = 0
  /\ sent = 0
  /\ counted = 0
  /\ askedSince = 0
  /\ sentAfterStop = 0

(* Requests not yet served. *)
InFlight == IF writer \in Taken THEN 1 ELSE 0
Asked == beatReqCount + InFlight + sent
-----------------------------------------------------------------------------
(* The engine: beat(), under the lock. *)
MaxOf(a, b) == IF a > b THEN a ELSE b

Beat ==
  /\ Asked < MaxBeats
  /\ beatReqCount' = beatReqCount + 1
  /\ beatReqCountMax' = MaxOf(beatReqCount + 1, beatReqCountMax)
  /\ askedSince' = askedSince + 1
  /\ UNCHANGED <<run, writer, statVars, clearVars, sentVars>>
-----------------------------------------------------------------------------
(* The thread. *)
Pred == beatReqCount > 0

AllTaken == 0
OneTaken == beatReqCount - 1

TakeRequest ==
  /\ writer = "waiting"
  /\ Pred
  /\ beatReqCount' = OneTaken
  /\ writer' = "taken"
  /\ UNCHANGED <<beatReqCountMax, askedSince, run, statVars, clearVars, sentVars>>

(* wait_for ends after 5 ms without a request. *)
RequestTimeout ==
  /\ writer = "waiting"
  /\ ~Pred
  /\ writer' = "testing"
  /\ UNCHANGED <<requestVars, run, statVars, clearVars, sentVars>>

(* The firmware may report an error of the watchdog. *)
ReadWdError ==
  /\ writer = "taken"
  /\ \/ writer' = "execute" /\ UNCHANGED copy
     \/ writer' = "error" /\ copy' = wdErrorCnt
  /\ UNCHANGED <<requestVars, run, hbCnt, wdErrorCnt, counted, clearVars, sentVars>>

CountWdError ==
  /\ writer = "error"
  /\ wdErrorCnt' = copy + 1
  /\ writer' = "execute"
  /\ UNCHANGED <<requestVars, run, hbCnt, copy, counted, clearVars, sentVars>>

Execute ==
  /\ writer = "execute"
  /\ sent' = sent + 1
  /\ sentAfterStop' = IF run THEN 0 ELSE sentAfterStop + 1
  /\ writer' = "count"
  /\ UNCHANGED <<requestVars, run, statVars, clearVars>>

ReadCount ==
  /\ writer = "count"
  /\ copy' = hbCnt
  /\ writer' = "counting"
  /\ UNCHANGED <<requestVars, run, hbCnt, wdErrorCnt, counted, clearVars, sentVars>>

SameCount == copy
NextCount == copy + 1

WriteCount ==
  /\ writer = "counting"
  /\ hbCnt' = NextCount
  /\ counted' = counted + 1
  /\ writer' = "testing"
  /\ UNCHANGED <<requestVars, run, wdErrorCnt, copy, clearVars, sentVars>>

(* run is tested after each turn of the loop, whatever is still requested. *)
AfterDrained == IF run \/ beatReqCount > 0 THEN "waiting" ELSE "exited"
AfterTest == IF run THEN "waiting" ELSE "exited"

TestRun ==
  /\ writer = "testing"
  /\ writer' = AfterTest
  /\ UNCHANGED <<requestVars, run, statVars, clearVars, sentVars>>
-----------------------------------------------------------------------------
(* The operator: clear(), the first part under the lock, then one counter  *)
(* after the other without it.                                             *)
ClearRequests ==
  /\ clearing = "idle"
  /\ clears < MaxClears
  /\ clears' = clears + 1
  /\ beatReqCountMax' = 0
  /\ askedSince' = 0
  /\ clearing' = "beats"
  /\ UNCHANGED <<beatReqCount, run, writer, statVars, sentVars>>

ClearBeats ==
  /\ clearing = "beats"
  /\ hbCnt' = 0
  /\ counted' = 0
  /\ clearing' = "errors"
  /\ UNCHANGED <<requestVars, run, writer, wdErrorCnt, copy, clears, sentVars>>

ClearErrors ==
  /\ clearing = "errors"
  /\ wdErrorCnt' = 0
  /\ clearing' = "idle"
  /\ UNCHANGED <<requestVars, run, writer, hbCnt, copy, counted, clears, sentVars>>

(* The destructor resets run and joins the thread. *)
StopBeat ==
  /\ run
  /\ run' = FALSE
  /\ UNCHANGED <<requestVars, writer, statVars, clearVars, sentVars>>

WriterNext ==
  \/ TakeRequest \/ RequestTimeout \/ ReadWdError \/ CountWdError
  \/ Execute \/ ReadCount \/ WriteCount \/ TestRun

Next ==
  \/ WriterNext \/ Beat \/ StopBeat
  \/ ClearRequests \/ ClearBeats \/ ClearErrors

Fairness == WF_vars(WriterNext)

Spec == Init /\ [][Next]_vars /\ Fairness
-----------------------------------------------------------------------------
TypeOK ==
  /\ beatReqCount \in Nat
  /\ beatReqCountMax \in Nat
  /\ run \in BOOLEAN
  /\ writer \in WriterSteps
  /\ hbCnt \in Nat /\ wdErrorCnt \in Nat /\ copy \in Nat
  /\ clearing \in {"idle", "beats", "errors"}
  /\ clears \in Nat
  /\ sent \in Nat
  /\ counted \in Nat
  /\ askedSince \in Nat
  /\ sentAfterStop \in Nat

(* One heartbeat for each request, none unasked (a backlog does not keep   *)
(* the watchdog quiet longer than it was asked for), one after the stop.   *)
Beats == INSTANCE BeatCounter WITH
           asked <- Asked, stopped <- ~run, spent <- sentAfterStop > 0
BeatSpec == Beats!Spec

(* The maximum reported is at least the backlog, once the engine has asked *)
(* for a beat since it was cleared.                                        *)
BacklogReported == askedSince > 0 => beatReqCountMax >= beatReqCount

(* A clear that races the count of a beat may be undone, but no beat since *)
(* the clear goes uncounted, and none is counted that was not sent.        *)
CountCovers == counted <= hbCnt /\ hbCnt <= sent

(* Every beat asked for is sent, unless the thread has ended. *)
EveryBeatSent ==
  \A n \in 1 .. MaxBeats : Asked >= n ~> (sent >= n \/ writer = "exited")
=============================================================================
