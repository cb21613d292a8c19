--------------------------- MODULE ServiceProofs ---------------------------
(***************************************************************************)
(* Proofs about two services of the engine.  HeartBeat: it implements      *)
(* BeatCounter, and its statistics may be cleared at any moment.           *)
(* HistoryLog: what is accepted is sent in order, and a record mixes the   *)
(* fields of calls that overlap only.                                      *)
(***************************************************************************)
EXTENDS HeartBeat, HistoryLog, SequenceTheorems, FiniteSetTheorems, TLAPS

LEMMA TypeInit == Init => TypeOK
<1>1. Init => writer \in WriterSteps
  BY DEF Init, WriterSteps
<1> QED
  BY <1>1 DEF Init, TypeOK

LEMMA TypeStep == TypeOK /\ [Next]_vars => TypeOK'
<1> SUFFICES ASSUME TypeOK, [Next]_vars PROVE TypeOK'
  OBVIOUS
<1> USE DEF TypeOK, WriterSteps, Taken, requestVars, statVars, clearVars, sentVars
<1>1. CASE Beat
  BY <1>1 DEF Beat, MaxOf
<1>2. CASE TakeRequest
  BY <1>2 DEF TakeRequest, Pred, OneTaken
<1>3. CASE RequestTimeout
  BY <1>3 DEF RequestTimeout
<1>4. CASE ReadWdError
  <2>1. writer' \in {"execute", "error"} /\ copy' \in {copy, wdErrorCnt}
    BY <1>4 DEF ReadWdError
  <2>2. writer' \in WriterSteps /\ copy' \in Nat
    BY <2>1
  <2> QED
    BY <1>4, <2>2 DEF ReadWdError
<1>5. CASE CountWdError
  BY <1>5 DEF CountWdError
<1>6. CASE Execute
  BY <1>6 DEF Execute
<1>7. CASE ReadCount
  BY <1>7 DEF ReadCount
<1>8. CASE WriteCount
  BY <1>8 DEF WriteCount, NextCount
<1>9. CASE TestRun
  BY <1>9 DEF TestRun, AfterTest
<1>10. CASE ClearRequests
  BY <1>10 DEF ClearRequests
<1>11. CASE ClearBeats
  BY <1>11 DEF ClearBeats
<1>12. CASE ClearErrors
  BY <1>12 DEF ClearErrors
<1>13. CASE StopBeat
  BY <1>13 DEF StopBeat
<1>14. CASE UNCHANGED vars
  BY <1>14 DEF vars
<1> QED
  BY <1>1, <1>2, <1>3, <1>4, <1>5, <1>6, <1>7, <1>8, <1>9, <1>10, <1>11, <1>12, <1>13, <1>14
  DEF Next, WriterNext

(* Every variable keeps its type: no request is taken that is not there.   *)
THEOREM TypeCorrect == Spec => []TypeOK
<1> QED
  BY TypeInit, TypeStep, PTL DEF Spec
-----------------------------------------------------------------------------
(* After the stop, who has sent a beat does not wait for another one.      *)
StopInv ==
  sentAfterStop > 0 =>
    ~run /\ writer \in {"count", "counting", "testing", "exited"}

LEMMA StopStep == TypeOK /\ StopInv /\ [Next]_vars => StopInv'
<1> SUFFICES ASSUME TypeOK, StopInv, [Next]_vars PROVE StopInv'
  OBVIOUS
<1> USE DEF TypeOK, StopInv, requestVars, statVars, clearVars, sentVars
<1>1. CASE WriterNext
  BY <1>1 DEF WriterNext, TakeRequest, RequestTimeout, ReadWdError, CountWdError,
              Execute, ReadCount, WriteCount, TestRun, AfterTest
<1>2. CASE Beat \/ StopBeat \/ ClearRequests \/ ClearBeats \/ ClearErrors \/ UNCHANGED vars
  BY <1>2 DEF Beat, StopBeat, ClearRequests, ClearBeats, ClearErrors, vars
<1> QED
  BY <1>1, <1>2 DEF Next

(* A step of the service is a step of the counter of beats, or a stutter.  *)
LEMMA BeatStep == TypeOK /\ StopInv /\ [Next]_vars => [Beats!Next]_(Beats!vars)
<1> SUFFICES ASSUME TypeOK, StopInv, [Next]_vars PROVE [Beats!Next]_(Beats!vars)
  OBVIOUS
<1> USE DEF Asked, InFlight, Taken, Beats!vars, requestVars, statVars, clearVars, sentVars
<1>1. CASE Beat
  <2>1. Asked' = Asked + 1 /\ sent' = sent /\ run' = run /\ sentAfterStop' = sentAfterStop
    BY <1>1 DEF Beat, TypeOK
  <2> QED
    BY <2>1 DEF Beats!Next, Beats!Ask
<1>2. CASE TakeRequest
  <2>1. Asked' = Asked
    BY <1>2 DEF TakeRequest, OneTaken, TypeOK
  <2> QED
    BY <1>2, <2>1 DEF TakeRequest
<1>3. CASE Execute
  <2>1. Asked' = Asked /\ sent < Asked
    BY <1>3 DEF Execute, TypeOK
  <2>2. ~(sentAfterStop > 0) /\ ((sentAfterStop > 0)' <=> ~run)
    BY <1>3 DEF Execute, StopInv, TypeOK
  <2>3. sent' = sent + 1 /\ run' = run
    BY <1>3 DEF Execute
  <2>4. ((sentAfterStop > 0)') = ~run
    BY <2>2
  <2> QED
    BY <2>1, <2>2, <2>3, <2>4 DEF Beats!Next, Beats!Send
<1>4. CASE StopBeat
  <2>1. Asked' = Asked /\ sent' = sent /\ sentAfterStop' = sentAfterStop
    BY <1>4 DEF StopBeat
  <2> QED
    BY <1>4, <2>1 DEF StopBeat, Beats!Next, Beats!Stop
<1>5. CASE \/ RequestTimeout \/ ReadWdError \/ CountWdError \/ ReadCount \/ WriteCount \/ TestRun
           \/ ClearRequests \/ ClearBeats \/ ClearErrors \/ UNCHANGED vars
  <2>1. (writer \in Taken)' = (writer \in Taken)
    BY <1>5 DEF RequestTimeout, ReadWdError, CountWdError, ReadCount, WriteCount, TestRun, AfterTest,
                ClearRequests, ClearBeats, ClearErrors, vars
  <2>2. UNCHANGED <<beatReqCount, run, sent, sentAfterStop>>
    BY <1>5 DEF RequestTimeout, ReadWdError, CountWdError, ReadCount, WriteCount, TestRun,
                ClearRequests, ClearBeats, ClearErrors, vars
  <2> QED
    BY <2>1, <2>2
<1> QED
  BY <1>1, <1>2, <1>3, <1>4, <1>5 DEF Next, WriterNext

(* One heartbeat for each request, none unasked, and at most one after the *)
(* service is stopped.                                                     *)
THEOREM BeatsImplemented == Spec => BeatSpec
<1>1. Init => Beats!Init /\ StopInv
  BY DEF Init, Beats!Init, Asked, InFlight, Taken, StopInv
<1> QED
  BY <1>1, TypeInit, TypeStep, StopStep, BeatStep, PTL DEF Spec, BeatSpec, Beats!Spec
-----------------------------------------------------------------------------
(* The maximum reported is at least the backlog, once a beat was asked for *)
(* since it was cleared.                                                   *)
THEOREM BacklogShown == Spec => []BacklogReported
<1>1. Init => BacklogReported
  BY DEF Init, BacklogReported
<1>2. TypeOK /\ BacklogReported /\ [Next]_vars => BacklogReported'
  <2> SUFFICES ASSUME TypeOK, BacklogReported, [Next]_vars PROVE BacklogReported'
    OBVIOUS
  <2> USE DEF TypeOK, BacklogReported, requestVars
  <2>1. CASE Beat
    BY <2>1 DEF Beat, MaxOf
  <2>2. CASE TakeRequest
    BY <2>2 DEF TakeRequest, OneTaken
  <2>3. CASE ClearRequests
    BY <2>3 DEF ClearRequests
  <2>4. CASE ~(Beat \/ TakeRequest \/ ClearRequests)
    BY <2>4 DEF Next, WriterNext, RequestTimeout, ReadWdError, CountWdError, Execute, ReadCount,
                WriteCount, TestRun, ClearBeats, ClearErrors, StopBeat, vars
  <2> QED
    BY <2>1, <2>2, <2>3, <2>4
<1> QED
  BY <1>1, <1>2, TypeInit, TypeStep, PTL DEF Spec

(* The beat being counted is sent already, and what ++ holds covers what   *)
(* was counted since the clear, even one between its read and its write.   *)
CountInv ==
  /\ counted <= hbCnt
  /\ writer = "counting" => counted <= copy /\ copy < sent
  /\ hbCnt <= sent
  /\ writer \in {"count", "counting"} => hbCnt < sent

(* A clear that races the count may be undone, but no beat since goes      *)
(* uncounted, and none is counted that was not sent.                       *)
THEOREM CountsCover == Spec => []CountCovers
<1>1. Init => CountInv
  BY DEF Init, CountInv
<1>2. TypeOK /\ CountInv /\ [Next]_vars => CountInv'
  <2> SUFFICES ASSUME TypeOK, CountInv, [Next]_vars PROVE CountInv'
    OBVIOUS
  <2> USE DEF TypeOK, CountInv, requestVars, statVars, clearVars, sentVars
  <2>1. CASE Execute
    BY <2>1 DEF Execute
  <2>2. CASE ReadCount
    BY <2>2 DEF ReadCount
  <2>3. CASE WriteCount
    BY <2>3 DEF WriteCount, NextCount
  <2>4. CASE ClearBeats
    BY <2>4 DEF ClearBeats
  <2>5. CASE ~(Execute \/ ReadCount \/ WriteCount \/ ClearBeats)
    <3>1. UNCHANGED <<hbCnt, counted, sent>>
      BY <2>5 DEF Next, WriterNext, TakeRequest, RequestTimeout, ReadWdError, CountWdError,
                  TestRun, Beat, ClearRequests, ClearErrors, StopBeat, vars
    <3>2. /\ writer' \in {"count", "counting"} => writer' = writer /\ copy' = copy
      BY <2>5 DEF Next, WriterNext, TakeRequest, RequestTimeout, ReadWdError, CountWdError,
                  TestRun, AfterTest, Beat, ClearRequests, ClearErrors, StopBeat, vars
    <3> QED
      BY <3>1, <3>2
  <2> QED
    BY <2>1, <2>2, <2>3, <2>4, <2>5
<1>3. CountInv => CountCovers
  BY DEF CountInv, CountCovers
<1> QED
  BY <1>1, <1>2, <1>3, TypeInit, TypeStep, PTL DEF Spec
-----------------------------------------------------------------------------
(* The history. *)

(* Who pushes a copy or sends has the mutex, and nobody else pushes before *)
(* a copy for which there was room.                                        *)
LockInv ==
  /\ \A t \in Threads : pc[t] = "copy" <=> mutex = t
  /\ sender = "sending" <=> mutex = "sender"
  /\ mutex \in Threads => Len(queue) < MaxQueue

BusyInv == \A t \in Threads : pc[t] # "idle" => call[t] \in 1..calls

HistoryInv == HistoryTypeOK /\ LockInv /\ BusyInv

LEMMA HistoryStart == HistoryInit => HistoryInv
<1> SUFFICES ASSUME HistoryInit PROVE HistoryInv
  OBVIOUS
<1>1. message \in Messages
  BY DEF HistoryInit, Messages
<1>2. /\ queue \in Seq(Messages) /\ accepted \in Seq(Messages) /\ taken \in Seq(Messages)
      /\ Len(queue) <= MaxQueue
  BY SizeAssumption DEF HistoryInit
<1>3. HistoryTypeOK
  <2>1. 0 \in 0..MaxCalls /\ 0 \in Nat
    BY SizeAssumption
  <2>2. calls \in 0..MaxCalls /\ call \in [Threads -> 0..MaxCalls]
    BY <2>1 DEF HistoryInit
  <2>3. /\ pc \in [Threads -> {"idle", "fill", "add", "copy"}]
        /\ copied \in [Threads -> Calls \cup {None}]
    BY DEF HistoryInit
  <2> QED BY <1>1, <1>2, <2>1, <2>2, <2>3 DEF HistoryInit, HistoryTypeOK
<1>4. LockInv /\ BusyInv
  BY ThreadAssumption DEF HistoryInit, LockInv, BusyInv
<1> QED BY <1>3, <1>4 DEF HistoryInv

(* A new call has the next number. *)
LEMMA NewCall ==
  ASSUME HistoryInv, NEW t \in Threads, LogFirst(t)
  PROVE  /\ calls \in Nat /\ calls' = calls + 1 /\ calls + 1 \in Calls /\ calls + 1 \in 0..MaxCalls
         /\ call'[t] = calls + 1 /\ pc'[t] = "fill" /\ pc[t] = "idle"
         /\ \A u \in Threads : u # t => call'[u] = call[u] /\ pc'[u] = pc[u]
         /\ \A u \in Threads : pc[u] # "idle" => call[u] \in Calls
<1>1. calls \in 0..MaxCalls /\ calls < MaxCalls /\ MaxCalls \in Nat
  BY SizeAssumption DEF HistoryInv, HistoryTypeOK, LogFirst
<1>2. call'[t] = calls + 1 /\ \A u \in Threads : u # t => call'[u] = call[u]
  BY DEF LogFirst, HistoryInv, HistoryTypeOK
<1>3. /\ pc'[t] = "fill" /\ pc[t] = "idle"
      /\ \A u \in Threads : u # t => pc'[u] = pc[u]
  BY DEF LogFirst, Move, HistoryInv, HistoryTypeOK
<1>4. \A u \in Threads : pc[u] # "idle" => call[u] \in Calls
  BY <1>1 DEF HistoryInv, BusyInv, Calls
<1> QED BY <1>1, <1>2, <1>3, <1>4 DEF LogFirst, Calls

(* A thread that moves leaves the others where they are. *)
LEMMA MoveStep ==
  ASSUME HistoryInv, NEW t \in Threads, NEW from, NEW to, Move(t, from, to)
  PROVE  /\ pc[t] = from /\ pc'[t] = to
         /\ \A u \in Threads : u # t => pc'[u] = pc[u]
BY DEF Move, HistoryInv, HistoryTypeOK

LEMMA LogTypeStep ==
  ASSUME HistoryInv, NEW t \in Threads, LogNext(t)
  PROVE  HistoryTypeOK'
<1> USE DEF HistoryInv
<1>0. t # "sender" /\ t # "nobody"
  BY ThreadAssumption
<1>1. CASE LogFirst(t)
  <2>1. calls' \in 0..MaxCalls /\ call' \in [Threads -> 0..MaxCalls] /\ message' \in Messages
    BY <1>1, NewCall DEF LogFirst, HistoryTypeOK, Messages
  <2>2. overlapped' \subseteq Calls
    <3>1. \A u \in Busy \cup {t} : call'[u] \in Calls
      BY <1>1, NewCall DEF Busy
    <3> QED BY <1>1, <3>1 DEF LogFirst, HistoryTypeOK
  <2> QED BY <1>1, <2>1, <2>2 DEF LogFirst, Move, HistoryTypeOK, sendVars
<1>2. CASE LogLast(t)
  <2>1. call[t] \in Calls
    BY <1>2, SizeAssumption DEF LogLast, Move, BusyInv, HistoryTypeOK, Calls
  <2>2. message' \in Messages
    BY <1>2, <2>1 DEF LogLast, LastField, HistoryTypeOK, Messages
  <2> QED BY <1>2, <2>2 DEF LogLast, Move, HistoryTypeOK, sendVars
<1>3. CASE AddRefused(t)
  <2>1. call[t] \in Calls
    BY <1>3, SizeAssumption DEF AddRefused, Move, BusyInv, HistoryTypeOK, Calls
  <2> QED BY <1>3, <2>1 DEF AddRefused, Move, HistoryTypeOK, sendVars
<1>4. CASE AddCopy(t)
  <2>1. message.first \in Calls \cup {None}
    BY DEF HistoryTypeOK, Messages
  <2> QED BY <1>4, <2>1 DEF AddCopy, Move, HistoryTypeOK, sendVars
<1>5. CASE AddPush(t)
  <2> DEFINE m == [first |-> copied[t], last |-> message.last]
  <2>1. m \in Messages
    BY DEF HistoryTypeOK, Messages
  <2>2. Len(queue) < MaxQueue
    BY <1>5 DEF AddPush, Move, LockInv
  <2>3. queue' = Append(queue, m) /\ accepted' = Append(accepted, m)
    BY <1>5 DEF AddPush
  <2> HIDE DEF m
  <2>4. queue' \in Seq(Messages) /\ accepted' \in Seq(Messages) /\ Len(queue') <= MaxQueue
    BY <2>1, <2>2, <2>3, SizeAssumption DEF HistoryTypeOK
  <2> QED BY <1>5, <2>4 DEF AddPush, Move, Release, HistoryTypeOK
<1> QED BY <1>1, <1>2, <1>3, <1>4, <1>5 DEF LogNext

LEMMA LogLockStep ==
  ASSUME HistoryInv, NEW t \in Threads, LogNext(t)
  PROVE  LockInv' /\ BusyInv'
<1> USE DEF HistoryInv
<1>0. t # "sender" /\ t # "nobody" /\ "nobody" \notin Threads
  BY ThreadAssumption
<1>1. CASE LogFirst(t)
  <2>1. LockInv'
    BY <1>1, NewCall DEF LogFirst, LockInv, sendVars
  <2>2. ASSUME NEW u \in Threads, pc'[u] # "idle" PROVE call'[u] \in 1..calls'
    <3>1. CASE u = t
      BY <1>1, <3>1, NewCall
    <3>2. CASE u # t
      <4>1. calls \in Nat /\ calls' = calls + 1 /\ call'[u] = call[u] /\ call[u] \in 1..calls
        BY <1>1, <2>2, <3>2, NewCall DEF BusyInv
      <4> QED BY <4>1
    <3> QED BY <3>1, <3>2
  <2> QED BY <2>1, <2>2 DEF BusyInv
<1>2. ASSUME NEW from, NEW to, Move(t, from, to), UNCHANGED <<calls, call>>, from # "idle"
      PROVE  BusyInv'
  BY <1>2, MoveStep DEF BusyInv
<1>3. CASE LogLast(t)
  BY <1>2, <1>3, MoveStep DEF LogLast, LockInv, sendVars
<1>4. CASE AddRefused(t)
  BY <1>2, <1>4, MoveStep DEF AddRefused, LockInv, sendVars
<1>5. CASE AddCopy(t)
  <2>1. Len(queue) < MaxQueue
    BY <1>5, SizeAssumption DEF AddCopy, Full, HistoryTypeOK
  <2> QED BY <1>0, <1>2, <1>5, <2>1, MoveStep DEF AddCopy, LockInv, sendVars
<1>6. CASE AddPush(t)
  <2>1. mutex = t
    BY <1>6 DEF AddPush, Move, LockInv
  <2> QED BY <1>0, <1>2, <1>6, <2>1, MoveStep DEF AddPush, Release, LockInv
<1> QED BY <1>1, <1>3, <1>4, <1>5, <1>6 DEF LogNext

LEMMA SenderInvStep ==
  ASSUME HistoryInv, SenderNext \/ StopSenderThread \/ UNCHANGED historyVars
  PROVE  HistoryInv'
<1> USE DEF HistoryInv
<1>0. "sender" \notin Threads /\ "nobody" \notin Threads
  BY ThreadAssumption
<1>1. ASSUME UNCHANGED <<logVars, queue, mutex, taken>>, counter' = counter, done' \in BOOLEAN,
             \/ sender' = sender
             \/ sender' \in {"waiting", "woken", "exited"} /\ sender # "sending"
      PROVE  HistoryInv'
  <2>1. HistoryTypeOK'
    BY <1>1 DEF HistoryTypeOK, logVars
  <2> QED BY <1>1, <2>1 DEF LockInv, BusyInv, logVars
<1>2. done \in BOOLEAN
  BY DEF HistoryTypeOK
<1>3. CASE SenderWait \/ SenderTimeout
  BY <1>1, <1>2, <1>3 DEF SenderWait, SenderTimeout, TimesOut
<1>4. CASE SenderWake
  <2>1. CASE Stop /\ sender' = "exited" /\ UNCHANGED mutex
    BY <1>1, <1>2, <1>4, <2>1 DEF SenderWake
  <2>2. CASE ~Stop /\ sender' = "sending" /\ mutex' = "sender"
    <3>1. HistoryTypeOK'
      BY <1>4, <2>2 DEF SenderWake, HistoryTypeOK, logVars
    <3> QED BY <1>0, <1>4, <2>2, <3>1 DEF SenderWake, LockInv, BusyInv, logVars
  <2> QED BY <1>4, <2>1, <2>2 DEF SenderWake
<1>5. CASE SendFront
  <2>1. /\ Front \in Messages /\ Tail(queue) \in Seq(Messages)
        /\ Len(Tail(queue)) <= MaxQueue
    BY <1>5, SizeAssumption DEF SendFront, Front, HistoryTypeOK
  <2>2. taken' \in Seq(Messages) /\ queue' \in Seq(Messages) /\ Len(queue') <= MaxQueue
    BY <1>5, <2>1 DEF SendFront, HistoryTypeOK
  <2>3. HistoryTypeOK'
    BY <1>5, <2>2 DEF SendFront, HistoryTypeOK, logVars
  <2> QED BY <1>0, <1>5, <2>3 DEF SendFront, LockInv, BusyInv, logVars
<1>6. CASE SendDone
  <2>1. HistoryTypeOK'
    BY <1>6 DEF SendDone, Release, HistoryTypeOK, logVars
  <2> QED BY <1>0, <1>6, <2>1 DEF SendDone, Release, LockInv, BusyInv, logVars
<1>7. CASE StopSenderThread
  <2>1. /\ done' = TRUE /\ UNCHANGED <<logVars, queue, mutex, taken>>
        /\ counter' = counter /\ sender' = sender
    BY <1>7 DEF StopSenderThread, sendVars
  <2>2. done' \in BOOLEAN
    BY <2>1
  <2> QED BY <1>1, <2>1, <2>2
<1>8. CASE UNCHANGED historyVars
  <2>1. /\ done' = done /\ UNCHANGED <<logVars, queue, mutex, taken>>
        /\ counter' = counter /\ sender' = sender
    BY <1>8 DEF historyVars, sendVars
  <2>2. done' \in BOOLEAN
    BY <1>2, <2>1
  <2> QED BY <1>1, <2>1, <2>2
<1> QED BY <1>3, <1>4, <1>5, <1>6, <1>7, <1>8 DEF SenderNext

LEMMA HistoryStep == HistoryInv /\ [HistoryNext]_historyVars => HistoryInv'
BY LogTypeStep, LogLockStep, SenderInvStep DEF HistoryNext, HistoryInv

(* Every variable of the history keeps its type, and the queue its bound:  *)
(* the room a call has found is still there when it pushes its copy.       *)
THEOREM HistoryTypeCorrect == HistorySpec => []HistoryTypeOK
<1>1. HistoryInv => HistoryTypeOK
  BY DEF HistoryInv
<1> QED BY <1>1, HistoryStart, HistoryStep, PTL DEF HistorySpec
-----------------------------------------------------------------------------
(* The order of the messages. *)

LEMMA PushedLast ==
  ASSUME NEW T, NEW s \in Seq(T), NEW q \in Seq(T), NEW m \in T
  PROVE  s \o Append(q, m) = Append(s \o q, m)
<1>1. s \o (q \o <<m>>) = (s \o q) \o <<m>>
  BY ConcatAssociative
<1>2. s \o q \in Seq(T)
  BY ConcatProperties
<1>3. Append(q, m) = q \o <<m>> /\ Append(s \o q, m) = (s \o q) \o <<m>>
  BY <1>2, AppendIsConcat
<1> QED BY <1>1, <1>3

LEMMA SentFirst ==
  ASSUME NEW T, NEW s \in Seq(T), NEW q \in Seq(T), q # <<>>
  PROVE  Append(s, Head(q)) \o Tail(q) = s \o q
<1>1. Head(q) \in T /\ Tail(q) \in Seq(T)
  BY HeadTailProperties
<1>2. q = <<Head(q)>> \o Tail(q)
  OBVIOUS
<1>3. Append(s, Head(q)) = s \o <<Head(q)>>
  BY <1>1, AppendIsConcat
<1>4. (s \o <<Head(q)>>) \o Tail(q) = s \o (<<Head(q)>> \o Tail(q))
  BY <1>1, ConcatAssociative
<1> QED BY <1>2, <1>3, <1>4

(* What the log calls have accepted is sent in that order, each message    *)
(* once, and none is lost on the way to sendto, wherever the sender and    *)
(* the threads that log are.                                               *)
THEOREM AcceptedIsSent == HistorySpec => []SentInOrder
<1>1. HistoryInit => SentInOrder
  BY DEF HistoryInit, SentInOrder
<1>2. HistoryInv /\ SentInOrder /\ [HistoryNext]_historyVars => SentInOrder'
  <2> SUFFICES ASSUME HistoryInv, SentInOrder, [HistoryNext]_historyVars PROVE SentInOrder'
    OBVIOUS
  <2>1. /\ queue \in Seq(Messages) /\ taken \in Seq(Messages) /\ accepted \in Seq(Messages)
        /\ counter \in Nat
    BY DEF HistoryInv, HistoryTypeOK
  <2>2. ASSUME UNCHANGED <<queue, taken, accepted, counter>> PROVE SentInOrder'
    BY <2>2 DEF SentInOrder
  <2>3. ASSUME NEW t \in Threads, AddPush(t) PROVE SentInOrder'
    <3> DEFINE m == [first |-> copied[t], last |-> message.last]
    <3>1. m \in Messages
      BY DEF HistoryInv, HistoryTypeOK, Messages
    <3>2. /\ queue' = Append(queue, m) /\ accepted' = Append(accepted, m)
          /\ UNCHANGED <<taken, counter>>
      BY <2>3 DEF AddPush
    <3> HIDE DEF m
    <3>3. taken \o Append(queue, m) = Append(taken \o queue, m)
      BY <2>1, <3>1, PushedLast
    <3> QED BY <3>2, <3>3 DEF SentInOrder
  <2>4. CASE SendFront
    <3>1. Append(taken, Front) \o Tail(queue) = taken \o queue
      BY <2>1, <2>4, SentFirst DEF SendFront, Front
    <3>2. Len(taken') = Len(taken) + 1 /\ Len(taken) \in Nat
      BY <2>1, <2>4 DEF SendFront
    <3>3. counter' <= Len(taken')
      BY <2>1, <2>4, <3>2 DEF SendFront, SentInOrder
    <3> QED BY <2>4, <3>1, <3>3 DEF SendFront, SentInOrder, logVars
  <2>5. ASSUME NEW t \in Threads,
               LogFirst(t) \/ LogLast(t) \/ AddRefused(t) \/ AddCopy(t)
        PROVE  SentInOrder'
    BY <2>2, <2>5 DEF LogFirst, LogLast, AddRefused, AddCopy, sendVars
  <2>6. CASE SenderWait \/ SenderTimeout \/ SenderWake \/ SendDone
    BY <2>2, <2>6 DEF SenderWait, SenderTimeout, SenderWake, SendDone, logVars
  <2>7. CASE StopSenderThread \/ UNCHANGED historyVars
    BY <2>2, <2>7 DEF StopSenderThread, historyVars, logVars, sendVars
  <2> QED BY <2>3, <2>4, <2>5, <2>6, <2>7 DEF HistoryNext, SenderNext, LogNext
<1> QED BY <1>1, <1>2, HistoryStart, HistoryStep, PTL DEF HistorySpec
-----------------------------------------------------------------------------
(* The records of a call that met no other. *)

(* A field holds what thread t has written, or both its call and the call  *)
(* that has written the field overlapped another.                          *)
Own(t, field) == field = call[t] \/ {field, call[t]} \subseteq overlapped

CallsInv ==
  /\ overlapped \subseteq 1..calls /\ refused \subseteq 1..calls
  /\ \A t \in Busy : call[t] \notin refused
  /\ \A t, u \in Busy : t # u => call[t] # call[u] /\ call[t] \in overlapped

FieldsInv ==
  /\ \A t \in Busy : Own(t, message.first)
  /\ \A t \in Threads : pc[t] \in {"add", "copy"} => Own(t, message.last)
  /\ \A t \in Threads : pc[t] = "copy" => Own(t, copied[t])

RecordedAt(c, I) == Positions("first", c) = I /\ Positions("last", c) = I

RecordsInv ==
  /\ \A i \in DOMAIN accepted : {accepted[i].first, accepted[i].last} \subseteq 1..calls
  /\ \A c \in (1..calls) \ overlapped :
       IF c \in refused \cup {call[t] : t \in Busy}
         THEN RecordedAt(c, {})
         ELSE \E i \in DOMAIN accepted : RecordedAt(c, {i})

SoleInv == HistoryInv /\ CallsInv /\ FieldsInv /\ RecordsInv

(* What LogFirst does to the calls. *)
LEMMA CallBegins ==
  ASSUME HistoryInv, NEW t \in Threads, LogFirst(t)
  PROVE  /\ Busy' = Busy \cup {t} /\ t \notin Busy
         /\ calls \in Nat /\ calls' = calls + 1 /\ call'[t] = calls + 1
         /\ \A u \in Busy : call'[u] = call[u] /\ call[u] \in 1..calls
         /\ overlapped \subseteq overlapped'
         /\ overlapped' \subseteq overlapped \cup {calls + 1} \cup {call[u] : u \in Busy}
         /\ Busy # {} => {calls + 1} \cup {call[u] : u \in Busy} \subseteq overlapped'
         /\ message'.first = calls + 1 /\ message'.last = message.last
         /\ UNCHANGED <<copied, accepted, refused>>
<1>1. Busy' = Busy \cup {t} /\ t \notin Busy
  BY NewCall DEF Busy
<1>2. calls \in Nat /\ calls' = calls + 1 /\ call'[t] = calls + 1
  BY NewCall
<1>3. \A u \in Busy : call'[u] = call[u] /\ call[u] \in 1..calls
  BY NewCall DEF Busy, HistoryInv, BusyInv
<1>4. overlapped' = IF Busy = {} THEN overlapped
                    ELSE overlapped \cup {call'[u] : u \in Busy \cup {t}}
  BY DEF LogFirst
<1>5. \A u \in Busy \cup {t} : call'[u] \in {calls + 1} \cup {call[v] : v \in Busy}
  BY <1>2, <1>3
<1>6. overlapped' \subseteq overlapped \cup {calls + 1} \cup {call[u] : u \in Busy}
  BY <1>4, <1>5
<1>7. Busy # {} => {calls + 1} \cup {call[u] : u \in Busy} \subseteq overlapped'
  BY <1>2, <1>3, <1>4
<1>8. message'.first = calls + 1 /\ message'.last = message.last
  BY DEF LogFirst, HistoryInv, HistoryTypeOK, Messages
<1> QED BY <1>1, <1>2, <1>3, <1>4, <1>6, <1>7, <1>8 DEF LogFirst

(* Who moves from one step of log to the next stays busy. *)
LEMMA CallGoesOn ==
  ASSUME HistoryInv, NEW t \in Threads, LogLast(t) \/ AddCopy(t)
  PROVE  /\ Busy' = Busy /\ t \in Busy
         /\ UNCHANGED <<calls, call, accepted, refused, overlapped>>
<1>1. Move(t, "fill", "add") \/ Move(t, "add", "copy")
  BY DEF LogLast, AddCopy
<1>2. Busy' = Busy /\ t \in Busy
  BY <1>1, MoveStep DEF Busy
<1> QED BY <1>2 DEF LogLast, AddCopy

LEMMA CallReturns ==
  ASSUME HistoryInv, NEW t \in Threads, AddRefused(t) \/ AddPush(t)
  PROVE  /\ Busy' = Busy \ {t} /\ t \in Busy
         /\ call[t] \in 1..calls
         /\ \A u \in Threads : pc'[u] # "idle" => u # t /\ pc'[u] = pc[u]
         /\ UNCHANGED <<message, calls, call, copied, overlapped>>
<1>1. Move(t, "add", "idle") \/ Move(t, "copy", "idle")
  BY DEF AddRefused, AddPush
<1>2. Busy' = Busy \ {t} /\ t \in Busy
  BY <1>1, MoveStep DEF Busy
<1>3. call[t] \in 1..calls
  BY <1>2 DEF Busy, HistoryInv, BusyInv
<1>4. \A u \in Threads : pc'[u] # "idle" => u # t /\ pc'[u] = pc[u]
  BY <1>1, MoveStep
<1> QED BY <1>2, <1>3, <1>4 DEF AddRefused, AddPush

LEMMA CallsStep ==
  ASSUME SoleInv, NEW t \in Threads, LogNext(t)
  PROVE  CallsInv'
<1> USE DEF SoleInv
<1>1. CASE LogFirst(t)
  <2> DEFINE c == calls + 1
  <2>1. /\ Busy' = Busy \cup {t} /\ t \notin Busy /\ call'[t] = c
        /\ \A u \in Busy : call'[u] = call[u] /\ call[u] \in 1..calls
        /\ overlapped' \subseteq overlapped \cup {c} \cup {call[u] : u \in Busy}
        /\ overlapped \subseteq overlapped' /\ refused' = refused
        /\ Busy # {} => {c} \cup {call[u] : u \in Busy} \subseteq overlapped'
    BY <1>1, CallBegins
  <2>2. calls' = c /\ c \in 1..c /\ c \notin 1..calls /\ 1..calls \subseteq 1..c
    BY <1>1, CallBegins
  <2> HIDE DEF c
  <2>3. overlapped' \subseteq 1..calls' /\ refused' \subseteq 1..calls'
    BY <2>1, <2>2 DEF CallsInv
  <2>4. \A u \in Busy' : call'[u] \notin refused'
    BY <2>1, <2>2 DEF CallsInv
  <2>5. \A u, v \in Busy' : u # v => call'[u] # call'[v] /\ call'[u] \in overlapped'
    BY <2>1, <2>2 DEF CallsInv
  <2> QED BY <2>3, <2>4, <2>5 DEF CallsInv
<1>2. CASE LogLast(t) \/ AddCopy(t)
  BY <1>2, CallGoesOn DEF CallsInv
<1>3. CASE AddRefused(t)
  <2>1. refused' = refused \cup {call[t]}
    BY <1>3 DEF AddRefused
  <2> QED BY <1>3, <2>1, CallReturns DEF CallsInv
<1>4. CASE AddPush(t)
  <2>1. refused' = refused
    BY <1>4 DEF AddPush
  <2> QED BY <1>4, <2>1, CallReturns DEF CallsInv
<1> QED BY <1>1, <1>2, <1>3, <1>4 DEF LogNext

LEMMA FieldsStep ==
  ASSUME SoleInv, NEW t \in Threads, LogNext(t)
  PROVE  FieldsInv'
<1> USE DEF SoleInv
<1>0. /\ \A u \in Threads : pc[u] # "idle" => u \in Busy
      /\ \A u \in Threads : pc'[u] # "idle" => u \in Busy'
  BY DEF Busy
<1>1. CASE LogFirst(t)
  <2>1. /\ Busy' = Busy \cup {t} /\ t \notin Busy
        /\ \A u \in Busy : call'[u] = call[u]
        /\ overlapped \subseteq overlapped'
        /\ Busy # {} => {calls + 1} \cup {call[u] : u \in Busy} \subseteq overlapped'
        /\ message'.first = calls + 1 /\ message'.last = message.last
        /\ call'[t] = calls + 1 /\ copied' = copied
    BY <1>1, CallBegins
  <2>2. \A u \in Threads : pc'[u] \in {"add", "copy"} => u \in Busy /\ pc'[u] = pc[u]
    BY <1>0, <1>1, NewCall
  <2>3. \A u \in Busy' : Own(u, message.first)'
    BY <2>1 DEF Own
  <2>4. \A u \in Busy : \A x : Own(u, x) =>
          x = call'[u] \/ {x, call'[u]} \subseteq overlapped'
    BY <2>1 DEF Own
  <2>5. \A u \in Threads : pc'[u] \in {"add", "copy"} => Own(u, message.last)'
    BY <2>1, <2>2, <2>4 DEF FieldsInv, Own
  <2>6. \A u \in Threads : pc'[u] = "copy" => Own(u, copied[u])'
    BY <2>1, <2>2, <2>4 DEF FieldsInv, Own
  <2> QED BY <2>3, <2>5, <2>6 DEF FieldsInv
<1>2. CASE LogLast(t)
  <2>1. /\ message'.last = call[t] /\ message'.first = message.first /\ copied' = copied
        /\ Move(t, "fill", "add")
    BY <1>2 DEF LogLast, LastField, HistoryInv, HistoryTypeOK, Messages
  <2>2. Busy' = Busy /\ t \in Busy /\ UNCHANGED <<call, overlapped>>
    BY <1>2, CallGoesOn
  <2>3. \A u \in Threads : pc'[u] = "copy" => pc[u] = "copy"
    BY <2>1, MoveStep
  <2>4. \A u \in Busy : Own(u, call[t])
    BY <2>2 DEF CallsInv, Own
  <2> QED BY <1>0, <2>1, <2>2, <2>3, <2>4 DEF FieldsInv, Own
<1>3. CASE AddCopy(t)
  <2>1. /\ copied'[t] = message.first /\ message' = message
        /\ \A u \in Threads : u # t => copied'[u] = copied[u]
    BY <1>3 DEF AddCopy, HistoryInv, HistoryTypeOK
  <2>2. Busy' = Busy /\ t \in Busy /\ UNCHANGED <<call, overlapped>>
    BY <1>3, CallGoesOn
  <2>3. pc[t] = "add" /\ \A u \in Threads : u # t => pc'[u] = pc[u]
    BY <1>3, MoveStep DEF AddCopy
  <2> QED BY <2>1, <2>2, <2>3 DEF FieldsInv, Own
<1>4. CASE AddRefused(t) \/ AddPush(t)
  BY <1>4, CallReturns DEF FieldsInv, Own
<1> QED BY <1>1, <1>2, <1>3, <1>4 DEF LogNext

(* A message that is pushed adds its place to those of its two fields. *)
LEMMA PushedPositions ==
  ASSUME HistoryInv, NEW m \in Messages, accepted' = Append(accepted, m), NEW c
  PROVE  LET n == Len(accepted) + 1
         IN  /\ n \in DOMAIN accepted' /\ DOMAIN accepted \subseteq DOMAIN accepted'
             /\ accepted'[n] = m
             /\ \A i \in DOMAIN accepted' : i # n => i \in DOMAIN accepted /\ accepted'[i] = accepted[i]
             /\ Positions("first", c)' =
                  Positions("first", c) \cup (IF m.first = c THEN {n} ELSE {})
             /\ Positions("last", c)' =
                  Positions("last", c) \cup (IF m.last = c THEN {n} ELSE {})
<1> DEFINE n == Len(accepted) + 1
<1>0. accepted \in Seq(Messages)
  BY DEF HistoryInv, HistoryTypeOK
<1>1. /\ Len(accepted) \in Nat /\ DOMAIN accepted = 1..Len(accepted)
      /\ DOMAIN accepted' = 1..n
      /\ accepted'[n] = m
      /\ \A i \in 1..Len(accepted) : accepted'[i] = accepted[i]
  BY <1>0, AppendProperties, LenProperties
<1>2. 1..n = (1..Len(accepted)) \cup {n} /\ n \notin 1..Len(accepted)
  BY <1>1
<1> HIDE DEF n
<1>3. \A i \in DOMAIN accepted' : i # n => i \in DOMAIN accepted /\ accepted'[i] = accepted[i]
  BY <1>1, <1>2
<1>4. Positions("first", c)' = Positions("first", c) \cup (IF m.first = c THEN {n} ELSE {})
  BY <1>1, <1>2 DEF Positions
<1>5. Positions("last", c)' = Positions("last", c) \cup (IF m.last = c THEN {n} ELSE {})
  BY <1>1, <1>2 DEF Positions
<1> QED BY <1>1, <1>2, <1>3, <1>4, <1>5 DEF n

LEMMA RecordsPush ==
  ASSUME SoleInv, NEW t \in Threads, AddPush(t)
  PROVE  RecordsInv'
<1> USE DEF SoleInv
<1> DEFINE m == [first |-> copied[t], last |-> message.last]
           n == Len(accepted) + 1
<1>1. m \in Messages /\ accepted' = Append(accepted, m) /\ refused' = refused
  BY DEF AddPush, HistoryInv, HistoryTypeOK, Messages
<1>2. /\ Busy' = Busy \ {t} /\ t \in Busy /\ call[t] \in 1..calls
      /\ UNCHANGED <<calls, call, overlapped>>
  BY CallReturns
<1>3. Own(t, m.first) /\ Own(t, m.last)
  BY DEF AddPush, Move, FieldsInv
<1> HIDE DEF m
<1>4. {m.first, m.last} \subseteq 1..calls
  BY <1>2, <1>3 DEF Own, CallsInv
<1>5. \A c : /\ n \in DOMAIN accepted' /\ DOMAIN accepted \subseteq DOMAIN accepted'
             /\ accepted'[n] = m
             /\ \A i \in DOMAIN accepted' : i # n => i \in DOMAIN accepted /\ accepted'[i] = accepted[i]
             /\ Positions("first", c)' =
                  Positions("first", c) \cup (IF m.first = c THEN {n} ELSE {})
             /\ Positions("last", c)' =
                  Positions("last", c) \cup (IF m.last = c THEN {n} ELSE {})
  BY <1>1, PushedPositions
<1> HIDE DEF n
<1>6. \A i \in DOMAIN accepted' : {accepted'[i].first, accepted'[i].last} \subseteq 1..calls'
  BY <1>2, <1>4, <1>5 DEF RecordsInv
<1>7. ASSUME NEW c \in (1..calls) \ overlapped
      PROVE  IF c \in refused \cup {call[u] : u \in Busy'}
               THEN RecordedAt(c, {})'
               ELSE \E i \in DOMAIN accepted' : Positions("first", c)' = {i} /\ Positions("last", c)' = {i}
  <2>1. CASE c = call[t]
    <3>1. m.first = c /\ m.last = c
      BY <1>3, <1>7, <2>1 DEF Own
    <3>2. RecordedAt(c, {})
      BY <1>2, <2>1, <1>7 DEF RecordsInv
    <3>3. c \notin refused \cup {call[u] : u \in Busy'}
      BY <1>2, <2>1 DEF CallsInv
    <3> QED BY <1>5, <3>1, <3>2, <3>3 DEF RecordedAt
  <2>2. CASE c # call[t]
    <3>1. m.first # c /\ m.last # c
      BY <1>3, <1>7, <2>2 DEF Own
    <3>2. /\ Positions("first", c)' = Positions("first", c)
          /\ Positions("last", c)' = Positions("last", c)
      <4>1. (IF m.first = c THEN {n} ELSE {}) = {} /\ (IF m.last = c THEN {n} ELSE {}) = {}
        BY <3>1
      <4>2. /\ Positions("first", c)' = Positions("first", c) \cup (IF m.first = c THEN {n} ELSE {})
            /\ Positions("last", c)' = Positions("last", c) \cup (IF m.last = c THEN {n} ELSE {})
        BY <1>5
      <4> QED BY <4>1, <4>2
    <3>3. c \in refused \cup {call[u] : u \in Busy'} <=> c \in refused \cup {call[u] : u \in Busy}
      BY <1>2, <2>2
    <3>4. IF c \in refused \cup {call[u] : u \in Busy}
            THEN RecordedAt(c, {}) ELSE \E i \in DOMAIN accepted : RecordedAt(c, {i})
      BY <1>7 DEF RecordsInv
    <3> QED BY <1>5, <3>2, <3>3, <3>4 DEF RecordedAt
  <2> QED BY <2>1, <2>2
<1> QED BY <1>1, <1>2, <1>6, <1>7 DEF RecordsInv, RecordedAt

LEMMA RecordsStep ==
  ASSUME SoleInv, NEW t \in Threads, LogNext(t)
  PROVE  RecordsInv'
<1> USE DEF SoleInv
<1>1. ASSUME accepted' = accepted, calls' = calls, overlapped' = overlapped,
             refused' \cup {call'[u] : u \in Busy'} = refused \cup {call[u] : u \in Busy}
      PROVE  RecordsInv'
  BY <1>1 DEF RecordsInv, RecordedAt, Positions
<1>2. CASE LogFirst(t)
  <2> DEFINE new == calls + 1
  <2>1. /\ Busy' = Busy \cup {t} /\ t \notin Busy /\ call'[t] = new
        /\ \A u \in Busy : call'[u] = call[u]
        /\ overlapped \subseteq overlapped'
        /\ accepted' = accepted /\ refused' = refused
    BY <1>2, CallBegins
  <2>2. /\ calls' = new /\ new \notin 1..calls
        /\ 1..new = (1..calls) \cup {new}
    BY <1>2, CallBegins
  <2> HIDE DEF new
  <2>3. {call'[u] : u \in Busy'} = {call[u] : u \in Busy} \cup {new}
    BY <2>1
  <2>4. RecordedAt(new, {})
    BY <2>2 DEF RecordsInv, RecordedAt, Positions
  <2>5. \A c : /\ Positions("first", c)' = Positions("first", c)
               /\ Positions("last", c)' = Positions("last", c)
    BY <2>1 DEF Positions
  <2>6. ASSUME NEW c \in (1..calls') \ overlapped'
        PROVE  IF c \in refused' \cup {call'[u] : u \in Busy'}
                 THEN RecordedAt(c, {})
                 ELSE \E i \in DOMAIN accepted : RecordedAt(c, {i})
    <3>1. CASE c = new
      BY <2>3, <2>4, <3>1
    <3>2. CASE c # new
      <4>1. c \in (1..calls) \ overlapped
        BY <2>1, <2>2, <2>6, <3>2
      <4>2. c \in refused' \cup {call'[u] : u \in Busy'} <=> c \in refused \cup {call[u] : u \in Busy}
        BY <2>1, <2>3, <3>2
      <4> QED BY <4>1, <4>2 DEF RecordsInv
    <3> QED BY <3>1, <3>2
  <2>7. \A i \in DOMAIN accepted' : {accepted'[i].first, accepted'[i].last} \subseteq 1..calls'
    BY <2>1, <2>2 DEF RecordsInv
  <2> QED BY <2>1, <2>5, <2>6, <2>7 DEF RecordsInv, RecordedAt
<1>3. CASE LogLast(t) \/ AddCopy(t)
  BY <1>1, <1>3, CallGoesOn
<1>4. CASE AddRefused(t)
  <2>1. refused' = refused \cup {call[t]} /\ accepted' = accepted
    BY <1>4 DEF AddRefused
  <2>2. /\ Busy' = Busy \ {t} /\ t \in Busy
        /\ UNCHANGED <<calls, call, overlapped>>
    BY <1>4, CallReturns
  <2>3. refused' \cup {call'[u] : u \in Busy'} = refused \cup {call[u] : u \in Busy}
    BY <2>1, <2>2
  <2> QED BY <1>1, <2>1, <2>2, <2>3
<1>5. CASE AddPush(t)
  BY <1>5, RecordsPush
<1> QED BY <1>2, <1>3, <1>4, <1>5 DEF LogNext

LEMMA SoleStep == SoleInv /\ [HistoryNext]_historyVars => SoleInv'
<1> SUFFICES ASSUME SoleInv, [HistoryNext]_historyVars PROVE SoleInv'
  OBVIOUS
<1>1. HistoryInv'
  BY HistoryStep DEF SoleInv
<1>2. ASSUME NEW t \in Threads, LogNext(t) PROVE SoleInv'
  BY <1>1, <1>2, CallsStep, FieldsStep, RecordsStep DEF SoleInv
<1>3. CASE SenderNext \/ StopSenderThread \/ UNCHANGED historyVars
  <2>1. UNCHANGED logVars
    BY <1>3 DEF SenderNext, SenderWait, SenderTimeout, SenderWake, SendFront, SendDone,
                StopSenderThread, historyVars
  <2>2. UNCHANGED <<message, calls, call, pc, copied, accepted, refused, overlapped>>
    BY <2>1 DEF logVars
  <2>3. CallsInv' /\ FieldsInv'
    BY <2>2 DEF SoleInv, CallsInv, FieldsInv, Own, Busy
  <2>4. RecordsInv'
    BY <2>2 DEF SoleInv, RecordsInv, RecordedAt, Positions, Busy
  <2> QED BY <1>1, <2>3, <2>4 DEF SoleInv
<1> QED BY <1>2, <1>3 DEF HistoryNext

(* A record mixes the fields of two calls only if these overlapped: a call *)
(* that met no other is in the history once, whole, or was refused, for    *)
(* every number of threads and calls.                                      *)
THEOREM SoleCallsWhole == HistorySpec => []SoleCallLogged
<1>1. HistoryInit => SoleInv
  <2> SUFFICES ASSUME HistoryInit PROVE CallsInv /\ FieldsInv /\ RecordsInv
    BY HistoryStart DEF SoleInv
  <2>1. Busy = {} /\ calls = 0 /\ accepted = <<>> /\ overlapped = {} /\ refused = {}
    BY DEF HistoryInit, Busy
  <2>2. \A t \in Threads : pc[t] = "idle"
    BY DEF HistoryInit
  <2>3. 1..calls = {} /\ DOMAIN accepted = {}
    BY <2>1
  <2> QED BY <2>1, <2>2, <2>3 DEF CallsInv, FieldsInv, RecordsInv
<1>2. SoleInv => SoleCallLogged
  <2> SUFFICES ASSUME SoleInv, NEW c \in 1..calls, c \notin overlapped,
                      c \notin {call[t] : t \in Busy}
               PROVE  /\ Positions("first", c) = Positions("last", c)
                      /\ Cardinality(Positions("first", c)) = IF c \in refused THEN 0 ELSE 1
    BY DEF SoleCallLogged
  <2>1. CASE c \in refused
    <3>1. Positions("first", c) = {} /\ Positions("last", c) = {}
      BY <2>1 DEF SoleInv, RecordsInv, RecordedAt
    <3> QED BY <2>1, <3>1, FS_EmptySet
  <2>2. CASE c \notin refused
    <3>1. PICK i \in DOMAIN accepted : Positions("first", c) = {i} /\ Positions("last", c) = {i}
      BY <2>2 DEF SoleInv, RecordsInv, RecordedAt
    <3> QED BY <2>2, <3>1, FS_Singleton
  <2> QED BY <2>1, <2>2
<1> QED BY <1>1, <1>2, SoleStep, PTL DEF HistorySpec
=============================================================================
