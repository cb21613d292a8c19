----------------------------- MODULE HistoryLog -----------------------------
(***************************************************************************)
(* The history: threads that log a change fill in one message they all     *)
(* share, without a lock, and push a copy of it on a bounded queue; the    *)
(* sender thread empties the queue over the network.  The engine logs      *)
(* under the database mutex, the bypass manager under its own, the input   *)
(* thread under neither, so that calls overlap.                            *)
(*                                                                         *)
(* Two fields stand for the five of a message: the one that is assigned    *)
(* first and the one that is assigned last.                                *)
(***************************************************************************)
EXTENDS Naturals, Sequences, FiniteSets

CONSTANTS
  Threads,   \* the threads that log
  MaxQueue,  \* HIST_QUEUE_MAX_SIZE
  MaxCalls,  \* bound: calls of log
  None       \* what a field holds before the first call

ASSUME ThreadAssumption == "sender" \notin Threads /\ "nobody" \notin Threads
ASSUME SizeAssumption == MaxQueue \in Nat \ {0} /\ MaxCalls \in Nat

Calls == 1..MaxCalls
Messages == [first : Calls \cup {None}, last : Calls \cup {None}]

VARIABLES
  message,   \* History::message
  calls,     \* the calls begun so far
  call,      \* per thread, its call
  pc,        \* per thread: "idle", "fill", "add", "copy"
  copied,    \* per thread, the first field of the copy it is pushing
  queue,     \* _histQueue
  mutex,     \* who holds _mutex: "nobody", a thread or "sender"
  sender,    \* the sender thread: "lock", "waiting", "woken", "sending",
             \*   "exited"
  done,      \* _done
  counter,   \* _counter
  \* what the properties tell of, no state of the program
  accepted,  \* the messages pushed
  taken,     \* the messages given to send()
  refused,   \* the calls that found the queue full
  overlapped \* the calls that ran at the same time as another

logVars  == <<message, calls, call, pc, copied, accepted, refused, overlapped>>
sendVars == <<sender, counter, taken>>
historyVars == <<logVars, queue, mutex, sendVars, done>>

HistoryInit ==
  /\ message = [first |-> None, last |-> None]
  /\ calls = 0
  /\ call = [t \in Threads |-> 0]
  /\ pc = [t \in Threads |-> "idle"]
  /\ copied = [t \in Threads |-> None]
  /\ queue = <<>>
  /\ mutex = "nobody"
  /\ sender = "lock"
  /\ done = FALSE
  /\ counter = 0
  /\ accepted = <<>>
  /\ taken = <<>>
  /\ refused = {}
  /\ overlapped = {}

Move(t, from, to) == pc[t] = from /\ pc' = [pc EXCEPT ![t] = to]
-----------------------------------------------------------------------------
(* log: the fields are assigned one after the other. *)

Busy == {t \in Threads : pc[t] # "idle"}

LogFirst(t) ==
  /\ calls < MaxCalls
  /\ Move(t, "idle", "fill")
  /\ calls' = calls + 1
  /\ call' = [call EXCEPT ![t] = calls + 1]
  /\ message' = [message EXCEPT !.first = calls + 1]
  /\ overlapped' = IF Busy = {} THEN overlapped
                   ELSE overlapped \cup {call'[u] : u \in Busy \cup {t}}
  /\ UNCHANGED <<copied, accepted, refused, queue, mutex, sendVars, done>>

StaleField(t) == message.last
LastField(t) == call[t]

LogLast(t) ==
  /\ Move(t, "fill", "add")
  /\ message' = [message EXCEPT !.last = LastField(t)]
  /\ UNCHANGED <<calls, call, copied, accepted, refused, overlapped, queue, mutex,
                 sendVars, done>>

(* add, under the mutex.  The lock does not keep others from the message   *)
(* that is copied.  The flag enabled, which the constructor sets and       *)
(* nothing in the program resets, is TRUE here and in send.                *)
FullWhenOver == Len(queue) > MaxQueue
Full == Len(queue) >= MaxQueue

AddRefused(t) ==
  /\ mutex = "nobody"
  /\ Full
  /\ Move(t, "add", "idle")
  /\ refused' = refused \cup {call[t]}
  /\ UNCHANGED <<message, calls, call, copied, accepted, overlapped, queue, mutex,
                 sendVars, done>>

AddCopy(t) ==
  /\ mutex = "nobody"
  /\ ~Full
  /\ Move(t, "add", "copy")
  /\ mutex' = t
  /\ copied' = [copied EXCEPT ![t] = message.first]
  /\ UNCHANGED <<message, calls, call, accepted, refused, overlapped, queue,
                 sendVars, done>>

Keep == mutex
Release == "nobody"

(* The copy is in the queue; a sender that waits is notified, one that     *)
(* does not wait never hears of it.                                        *)
AddPush(t) ==
  /\ Move(t, "copy", "idle")
  /\ LET m == [first |-> copied[t], last |-> message.last]
     IN  queue' = Append(queue, m) /\ accepted' = Append(accepted, m)
  /\ sender' = IF sender = "waiting" THEN "woken" ELSE sender
  /\ mutex' = Release
  /\ UNCHANGED <<message, calls, call, copied, refused, overlapped, counter, taken, done>>

LogNext(t) ==
  LogFirst(t) \/ LogLast(t) \/ AddRefused(t) \/ AddCopy(t) \/ AddPush(t)
-----------------------------------------------------------------------------
(* sendFront, again and again. *)

SenderWait ==
  /\ mutex = "nobody"
  /\ sender = "lock"
  /\ sender' = "waiting"
  /\ UNCHANGED <<logVars, queue, mutex, counter, taken, done>>

(* wait_for gives up after 200 ms, whatever is in the queue. *)
TimesOutNever == FALSE
TimesOut == sender = "waiting"

SenderTimeout ==
  /\ TimesOut
  /\ sender' = "woken"
  /\ UNCHANGED <<logVars, queue, mutex, counter, taken, done>>

Stop == done

SenderWake ==
  /\ mutex = "nobody"
  /\ sender = "woken"
  /\ \/ Stop /\ sender' = "exited" /\ UNCHANGED mutex
     \/ ~Stop /\ sender' = "sending" /\ mutex' = "sender"
  /\ UNCHANGED <<logVars, queue, counter, taken, done>>

NextToSend == queue[Len(queue)]
Front == Head(queue)

(* send, with the mutex held: a message sendto refuses is gone too. *)
SendFront ==
  /\ sender = "sending"
  /\ queue # <<>>
  /\ counter' \in {counter, counter + 1}
  /\ taken' = Append(taken, Front)
  /\ queue' = Tail(queue)
  /\ UNCHANGED <<logVars, mutex, sender, done>>

SendDone ==
  /\ sender = "sending"
  /\ queue = <<>>
  /\ sender' = "lock"
  /\ mutex' = Release
  /\ UNCHANGED <<logVars, queue, counter, taken, done>>

SenderNext ==
  SenderWait \/ SenderTimeout \/ SenderWake \/ SendFront \/ SendDone

(* stopSenderThread, which then joins the sender. *)
StopSenderThread ==
  /\ ~done
  /\ done' = TRUE
  /\ UNCHANGED <<logVars, queue, mutex, sendVars>>

HistoryNext == SenderNext \/ StopSenderThread \/ \E t \in Threads : LogNext(t)

HistorySpec == HistoryInit /\ [][HistoryNext]_historyVars

(* A thread that logs goes on, the sender runs; both get the mutex in the  *)
(* end, for each leaves it between two holds.                              *)
HistoryFairness ==
  /\ \A t \in Threads : /\ WF_historyVars(LogLast(t) \/ AddPush(t))
                        /\ SF_historyVars(AddRefused(t) \/ AddCopy(t))
  /\ WF_historyVars(SenderTimeout \/ SendFront \/ SendDone)
  /\ SF_historyVars(SenderWait \/ SenderWake)

HistoryFairSpec == HistorySpec /\ HistoryFairness
-----------------------------------------------------------------------------
HistoryTypeOK ==
  /\ message \in Messages
  /\ calls \in 0..MaxCalls
  /\ call \in [Threads -> 0..MaxCalls]
  /\ pc \in [Threads -> {"idle", "fill", "add", "copy"}]
  /\ copied \in [Threads -> Calls \cup {None}]
  /\ queue \in Seq(Messages)
  /\ Len(queue) <= MaxQueue
  /\ mutex \in Threads \cup {"nobody", "sender"}
  /\ sender \in {"lock", "waiting", "woken", "sending", "exited"}
  /\ done \in BOOLEAN
  /\ counter \in Nat
  /\ accepted \in Seq(Messages)
  /\ taken \in Seq(Messages)
  /\ refused \subseteq Calls
  /\ overlapped \subseteq Calls

Positions(field, c) == {i \in DOMAIN accepted : accepted[i][field] = c}

(* The message is no mixture of two calls unless they overlapped: a call   *)
(* that met no other is logged once, with all its fields and in no other   *)
(* record, or was refused because the queue was full.                      *)
SoleCallLogged ==
  \A c \in 1..calls :
    c \notin overlapped /\ c \notin {call[t] : t \in Busy}
    => /\ Positions("first", c) = Positions("last", c)
       /\ Cardinality(Positions("first", c)) = IF c \in refused THEN 0 ELSE 1

(* What the log calls have accepted is sent in that order, each message    *)
(* once, and none is lost on the way to sendto.                            *)
SentInOrder ==
  /\ taken \o queue = accepted
  /\ counter <= Len(taken)

(* "notify_all" may come when nobody waits; a message is sent all the      *)
(* same, unless the sender has ended.                                      *)
QueueDrained == queue # <<>> ~> (queue = <<>> \/ sender = "exited")

(* A call returns, though it waits for a sender that keeps the mutex while *)
(* it sends: neither the engine nor the bypass thread hangs in the log.    *)
LogReturns == \A t \in Threads : pc[t] # "idle" ~> pc[t] = "idle"
=============================================================================
