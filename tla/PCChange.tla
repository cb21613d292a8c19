------------------------------ MODULE PCChange ------------------------------
(***************************************************************************)
(* The reader of the power class change messages: the firmware sends one   *)
(* at each change, with a sequence tag of 16 bits; fwPCChangeReader counts *)
(* what it receives, what it takes for lost or out of order, the errors of *)
(* the flags and the classes of every destination.                         *)
(*                                                                         *)
(* A packet is identified by its tag and by the turn of the tag counter it *)
(* was sent in (of which the program knows nothing).  The network loses,   *)
(* repeats and reorders packets at will.                                   *)
(***************************************************************************)
EXTENDS Integers, FiniteSets

CONSTANTS
  TagModulus,     \* number of values of a tag, 65536 in the code
  Destinations, Classes,
  Flags,          \* the error flags of a packet
  MonitorReady,   \* the one of bit 0: the classes of the packet are void
  MaxTurn,        \* bound: turns of the tag counter
  MaxPackets      \* bound: packets read

ASSUME ModulusAssumption == TagModulus \in Nat /\ TagModulus > 2
ASSUME FlagAssumption == MonitorReady \in Flags
ASSUME BoundAssumption == MaxTurn \in Nat /\ MaxPackets \in Nat

Tags == 0 .. TagModulus - 1
Packets == [turn : 0 .. MaxTurn, tag : Tags]

VARIABLES
  run,              \* the flag that ends the reader
  reader,           \* "reading", "testing" or "exited"
  firstPacket,      \* _pcChangeFirstPacket
  tag,              \* _pcChangeTag
  valid, sameTag, loss, outOfOrder, badSize,  \* the counters of the stream
  flagCount,        \* per flag, _pcFlagsCounters
  classCount,       \* per destination and class, _pcCounters
  \* history variables
  received,         \* packets of the right size read
  got,              \* which ones
  first, last,      \* the first and the last of them
  inOrder,          \* each came after the one before, by less than a turn
  afterStop         \* packets read since run was reset

streamVars == <<firstPacket, tag, valid, sameTag, loss, outOfOrder>>
wordVars == <<flagCount, classCount>>
seenVars == <<received, got, first, last, inOrder>>
vars == <<run, reader, streamVars, badSize, wordVars, seenVars, afterStop>>

(* The tag is not initialised: it has any value until a packet came. *)
Init ==
  /\ run = TRUE
  /\ reader = "reading"
  /\ firstPacket = TRUE
  /\ tag \in Tags
  /\ valid = 0 /\ sameTag = 0 /\ loss = 0 /\ outOfOrder = 0 /\ badSize = 0
  /\ flagCount = [f \in Flags |-> 0]
  /\ classCount = [d \in Destinations |-> [c \in Classes |-> 0]]
  /\ received = 0
  /\ got = {}
  /\ last \in [turn : {0}, tag : {tag}]
  /\ first = last
  /\ inOrder = TRUE
  /\ afterStop = 0
-----------------------------------------------------------------------------
(* p was sent before q; and by less than a turn. *)
Before(p, q) == p.turn < q.turn \/ (p.turn = q.turn /\ p.tag < q.tag)
Follows(q, p) ==
  \/ q.turn = p.turn /\ q.tag > p.tag
  \/ q.turn = p.turn + 1 /\ q.tag < p.tag

(* The difference of two tags, as integers; as numbers of 16 bits.         *)
DeltaWrapped(t) == (t - tag) % TagModulus
Delta(t) == t - tag

(* The missing packets, the gap, and the width of it, in a difference.     *)
GapIn(delta) == IF delta > 1 THEN 1 ELSE 0
WidthIn(delta) == IF delta > 1 THEN delta ELSE 0
MissingIn(delta) == IF delta > 0 THEN delta - 1 ELSE 0

(* How a packet with tag t compares with the one before. *)
CompareTag(t) ==
  IF firstPacket
    THEN /\ valid' = valid + 1
         /\ UNCHANGED <<sameTag, loss, outOfOrder>>
    ELSE /\ valid' = IF Delta(t) = 1 THEN valid + 1 ELSE valid
         /\ sameTag' = IF Delta(t) = 0 THEN sameTag + 1 ELSE sameTag
         /\ loss' = loss + MissingIn(Delta(t))
         /\ outOfOrder' = IF Delta(t) < 0 THEN outOfOrder + 1 ELSE outOfOrder

(* The counters of the flags with an error. *)
CountFlags(errors) ==
  flagCount' = [f \in Flags |-> IF f \in errors THEN flagCount[f] + 1 ELSE flagCount[f]]

(* The destinations that are counted: all, unless the classes are void. *)
Counted(errors) == IF MonitorReady \in errors THEN {} ELSE Destinations

CountClasses(errors, class) ==
  classCount' = [d \in Destinations |-> [c \in Classes |->
    IF d \in Counted(errors) /\ c = class[d] THEN classCount[d][c] + 1
                                             ELSE classCount[d][c]]]

(* A packet of the right size. *)
ReadPacket(p, errors, class) ==
  /\ reader = "reading"
  /\ received + badSize < MaxPackets
  /\ CompareTag(p.tag)
  /\ firstPacket' = FALSE
  /\ tag' = p.tag
  /\ CountFlags(errors)
  /\ CountClasses(errors, class)
  /\ reader' = "testing"
  /\ received' = received + 1
  /\ got' = got \cup {p}
  /\ first' = IF firstPacket THEN p ELSE first
  /\ last' = p
  /\ inOrder' = (inOrder /\ (firstPacket \/ Follows(p, last)))
  /\ afterStop' = IF run THEN afterStop ELSE afterStop + 1
  /\ UNCHANGED <<run, badSize>>

(* One of another size, or an error of the stream. *)
ReadBadSize ==
  /\ reader = "reading"
  /\ received + badSize < MaxPackets
  /\ badSize' = badSize + 1
  /\ reader' = "testing"
  /\ afterStop' = IF run THEN afterStop ELSE afterStop + 1
  /\ UNCHANGED <<run, streamVars, wordVars, seenVars>>

(* while (run): the loop that waits for a packet does not look at run. *)
AfterTest == IF run THEN "reading" ELSE "exited"

TestRun ==
  /\ reader = "testing"
  /\ reader' = AfterTest
  /\ UNCHANGED <<run, streamVars, badSize, wordVars, seenVars, afterStop>>

(* ~MpsDb resets run. *)
StopDb ==
  /\ run
  /\ run' = FALSE
  /\ UNCHANGED <<reader, streamVars, badSize, wordVars, seenVars, afterStop>>

Next ==
  \/ \E p \in Packets, errors \in SUBSET Flags, class \in [Destinations -> Classes] :
       ReadPacket(p, errors, class)
  \/ ReadBadSize \/ TestRun \/ StopDb

Spec == Init /\ [][Next]_vars
-----------------------------------------------------------------------------
TypeOK ==
  /\ run \in BOOLEAN
  /\ reader \in {"reading", "testing", "exited"}
  /\ firstPacket \in BOOLEAN
  /\ tag \in Tags
  /\ valid \in Nat /\ sameTag \in Nat /\ loss \in Nat /\ outOfOrder \in Nat
  /\ badSize \in Nat
  /\ flagCount \in [Flags -> Nat]
  /\ classCount \in [Destinations -> [Classes -> Nat]]
  /\ received \in Nat
  /\ got \subseteq Packets
  /\ first \in Packets
  /\ last \in Packets
  /\ inOrder \in BOOLEAN
  /\ afterStop \in Nat

(* The packets that were sent after the first one read and before another  *)
(* one that was read, and never read.                                      *)
Missing ==
  {p \in Packets : /\ p \notin got
                   /\ Before(first, p)
                   /\ \E q \in got : Before(p, q)}

(* Within the first turn of the tag, the loss counter covers every packet  *)
(* that is missing, however packets are repeated and reordered.            *)
LossesCovered ==
  (\A p \in got : p.turn = 0) => Cardinality(Missing) <= loss

(* A stream in order shows no loss it has not, even across turns.          *)
NoLossInvented == inOrder => loss <= Cardinality(Missing)

(* Within the first turn of the tag, the counters of repeated packets and  *)
(* of packets out of order show together whether the stream came in order. *)
DisorderShown ==
  (\A p \in got : p.turn = 0) => (inOrder <=> sameTag + outOfOrder = 0)

(* "<  0 : packet received out of order": a stream in order has no such    *)
(* packet.  It does not hold across turns (README, section 6).             *)
OnlyDisorderCounted == inOrder => outOfOrder = 0

(* Once told to stop, the reader takes one more packet at the most: the    *)
(* loop that waits for a packet does not look at run.                      *)
OneAfterStop == afterStop <= 1
=============================================================================
