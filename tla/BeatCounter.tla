---------------------------- MODULE BeatCounter ----------------------------
(***************************************************************************)
(* What the heartbeat service promises: the firmware gets one heartbeat    *)
(* for each the engine asks for, none that was not asked for, and at most  *)
(* one once the service is stopped.                                        *)
(***************************************************************************)
EXTENDS Naturals

VARIABLES
  asked,    \* heartbeats asked for
  sent,     \* heartbeats sent
  stopped,  \* the service is told to stop
  spent     \* and has sent its last one

vars == <<asked, sent, stopped, spent>>

Init == asked = 0 /\ sent = 0 /\ stopped = FALSE /\ spent = FALSE

Ask ==
  /\ asked' = asked + 1
  /\ UNCHANGED <<sent, stopped, spent>>

Send ==
  /\ sent < asked
  /\ ~spent
  /\ sent' = sent + 1
  /\ spent' = stopped
  /\ UNCHANGED <<asked, stopped>>

Stop ==
  /\ stopped' = TRUE
  /\ UNCHANGED <<asked, sent, spent>>

Next == Ask \/ Send \/ Stop

Spec == Init /\ [][Next]_vars
=============================================================================
