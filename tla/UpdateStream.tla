---------------------------- MODULE UpdateStream ----------------------------
(***************************************************************************)
(* What the update path of the central node promises, whatever threads and *)
(* queues it is built from: the k-th mitigation message handed to the      *)
(* firmware was computed from the k-th input update the firmware sent, all *)
(* application cards taken from that one update, and no update is skipped, *)
(* repeated or reordered.                                                  *)
(***************************************************************************)
EXTENDS Naturals

CONSTANT Cards  \* the application cards an update carries the inputs of

VARIABLES
  received,   \* updates read from the firmware
  evaluated,  \* updates the engine has evaluated
  applied,    \* mitigation messages the firmware got
  written     \* the last of them: per card, the update it was computed from

streamVars == <<received, evaluated, applied, written>>

(* The message computed from update n and from nothing else. *)
From(n) == [c \in Cards |-> n]

StreamInit ==
  /\ received = 0
  /\ evaluated = 0
  /\ applied = 0
  /\ written = From(0)

Receive ==
  /\ received' = received + 1
  /\ UNCHANGED <<evaluated, applied, written>>

Evaluate ==
  /\ evaluated < received
  /\ evaluated' = evaluated + 1
  /\ UNCHANGED <<received, applied, written>>

Apply ==
  /\ applied < evaluated
  /\ applied' = applied + 1
  /\ written' = From(applied + 1)
  /\ UNCHANGED <<received, evaluated>>

StreamNext == Receive \/ Evaluate \/ Apply

StreamSpec == StreamInit /\ [][StreamNext]_streamVars
=============================================================================
