--------------------------- MODULE DatabaseProofs ---------------------------
(***************************************************************************)
(* Proofs about the two jobs of the database, MpsDb: PCChange, what the    *)
(* counters of its reader of power class changes tell of the stream, for a *)
(* tag of any width; and CardConfig, what becomes of a database on its way *)
(* to the firmware, for every database.                                    *)
(***************************************************************************)
EXTENDS PCChange, CardConfig, FunctionTheorems, FiniteSetTheorems,
        WellFoundedInduction, TLAPS

LEMMA TypeInit == Init => TypeOK
BY ModulusAssumption, BoundAssumption DEF Init, TypeOK, Packets, Tags

LEMMA CompareType ==
  ASSUME TypeOK, NEW t \in Tags, CompareTag(t)
  PROVE  valid' \in Nat /\ sameTag' \in Nat /\ loss' \in Nat /\ outOfOrder' \in Nat
<1>1. t \in Int /\ tag \in Int /\ Delta(t) \in Int
  BY ModulusAssumption DEF TypeOK, Tags, Delta
<1>2. MissingIn(Delta(t)) \in Nat
  BY <1>1 DEF MissingIn
<1> QED
  BY <1>1, <1>2 DEF CompareTag, TypeOK

LEMMA TypeStep == TypeOK /\ [Next]_vars => TypeOK'
<1> SUFFICES ASSUME TypeOK, [Next]_vars PROVE TypeOK'
  OBVIOUS
<1>1. ASSUME NEW p \in Packets, NEW errors \in SUBSET Flags,
             NEW class \in [Destinations -> Classes], ReadPacket(p, errors, class)
      PROVE  TypeOK'
  <2>1. valid' \in Nat /\ sameTag' \in Nat /\ loss' \in Nat /\ outOfOrder' \in Nat
    BY <1>1, CompareType DEF ReadPacket, Packets
  <2>2. flagCount' \in [Flags -> Nat]
    BY <1>1 DEF ReadPacket, CountFlags, TypeOK
  <2>3. classCount' \in [Destinations -> [Classes -> Nat]]
    BY <1>1 DEF ReadPacket, CountClasses, TypeOK
  <2>4. tag' \in Tags /\ first' \in Packets /\ last' \in Packets /\ got' \subseteq Packets
    BY <1>1 DEF ReadPacket, TypeOK, Packets
  <2>5. received' \in Nat /\ afterStop' \in Nat /\ inOrder' \in BOOLEAN
    BY <1>1 DEF ReadPacket, TypeOK
  <2> QED
    BY <1>1, <2>1, <2>2, <2>3, <2>4, <2>5 DEF ReadPacket, TypeOK
<1>2. CASE ReadBadSize
  BY <1>2 DEF ReadBadSize, TypeOK, streamVars, wordVars, seenVars
<1>3. CASE TestRun
  BY <1>3 DEF TestRun, AfterTest, TypeOK, streamVars, wordVars, seenVars
<1>4. CASE StopDb
  BY <1>4 DEF StopDb, TypeOK, streamVars, wordVars, seenVars
<1>5. CASE UNCHANGED vars
  BY <1>5 DEF vars, TypeOK, streamVars, wordVars, seenVars
<1> QED
  BY <1>1, <1>2, <1>3, <1>4, <1>5 DEF Next

(* Every variable keeps its type: no counter falls below zero. *)
THEOREM TypeCorrect == Spec => []TypeOK
<1> QED
  BY TypeInit, TypeStep, PTL DEF Spec
-----------------------------------------------------------------------------
(* What the reader remembers, and what has come. *)
MemoryInv ==
  /\ firstPacket => /\ got = {} /\ last = first /\ inOrder
                    /\ loss = 0 /\ sameTag = 0 /\ outOfOrder = 0
  /\ ~firstPacket => first \in got /\ last \in got /\ tag = last.tag

LEMMA MemoryInit == Init => MemoryInv
BY DEF Init, MemoryInv

LEMMA MemoryStep == TypeOK /\ MemoryInv /\ [Next]_vars => MemoryInv'
<1> SUFFICES ASSUME TypeOK, MemoryInv, [Next]_vars PROVE MemoryInv'
  OBVIOUS
<1>1. ASSUME NEW p \in Packets, NEW errors \in SUBSET Flags,
             NEW class \in [Destinations -> Classes], ReadPacket(p, errors, class)
      PROVE  MemoryInv'
  BY <1>1 DEF ReadPacket, MemoryInv
<1>2. CASE ~ \E p \in Packets, errors \in SUBSET Flags, class \in [Destinations -> Classes] :
                ReadPacket(p, errors, class)
  BY <1>2 DEF Next, ReadBadSize, TestRun, StopDb, vars, streamVars, seenVars, MemoryInv
<1> QED
  BY <1>1, <1>2

LEMMA Memory == Spec => [](TypeOK /\ MemoryInv)
<1> QED
  BY TypeInit, TypeStep, MemoryInit, MemoryStep, PTL DEF Spec

LEMMA DisorderStep ==
  TypeOK /\ MemoryInv /\ DisorderShown /\ [Next]_vars => DisorderShown'
<1> SUFFICES ASSUME TypeOK, MemoryInv, DisorderShown, [Next]_vars,
                    \A p \in got' : p.turn = 0
             PROVE  inOrder' <=> sameTag' + outOfOrder' = 0
  BY DEF DisorderShown
<1>1. ASSUME NEW p \in Packets, NEW errors \in SUBSET Flags,
             NEW class \in [Destinations -> Classes], ReadPacket(p, errors, class)
      PROVE  inOrder' <=> sameTag' + outOfOrder' = 0
  <2>1. p.turn = 0 /\ \A q \in got : q.turn = 0
    BY <1>1 DEF ReadPacket
  <2>2. p.tag \in Int /\ tag \in Int /\ sameTag \in Nat /\ outOfOrder \in Nat
    BY ModulusAssumption, BoundAssumption DEF TypeOK, Packets, Tags
  <2>3. CASE firstPacket
    <3>1. inOrder' /\ sameTag' = 0 /\ outOfOrder' = 0
      BY <1>1, <2>3 DEF ReadPacket, CompareTag, MemoryInv
    <3> QED BY <3>1
  <2>4. CASE ~firstPacket
    <3>1. last.turn = 0 /\ tag = last.tag /\ (inOrder <=> sameTag + outOfOrder = 0)
      BY <2>1, <2>4 DEF MemoryInv, DisorderShown
    <3>2. inOrder' <=> inOrder /\ p.tag > tag
      <4>1. Follows(p, last) <=> p.tag > tag
        BY <2>1, <2>2, <3>1 DEF Follows
      <4>2. inOrder' = (inOrder /\ Follows(p, last))
        BY <1>1, <2>4 DEF ReadPacket
      <4> QED BY <4>1, <4>2, Zenon
    <3>3. /\ sameTag' = IF p.tag - tag = 0 THEN sameTag + 1 ELSE sameTag
          /\ outOfOrder' = IF p.tag - tag < 0 THEN outOfOrder + 1 ELSE outOfOrder
      BY <1>1, <2>4 DEF ReadPacket, CompareTag, Delta
    <3> QED
      BY <2>2, <3>1, <3>2, <3>3
  <2> QED
    BY <2>3, <2>4
<1>2. CASE ~ \E p \in Packets, errors \in SUBSET Flags, class \in [Destinations -> Classes] :
                ReadPacket(p, errors, class)
  BY <1>2 DEF Next, ReadBadSize, TestRun, StopDb, vars, streamVars, seenVars, DisorderShown
<1> QED
  BY <1>1, <1>2

(* Within the first turn of a tag of any width, the counters of order and  *)
(* of repetition are zero just when the stream came in order.              *)
THEOREM DisorderFound == Spec => []DisorderShown
<1>1. Init => DisorderShown
  BY DEF Init, DisorderShown
<1> QED
  BY <1>1, Memory, DisorderStep, PTL DEF Spec
-----------------------------------------------------------------------------
(* Losses. *)

(* The packets of one turn with tags from a to b. *)
Stretch(turn, a, b) == {[turn |-> turn, tag |-> t] : t \in a .. b}

LEMMA StretchSize ==
  ASSUME NEW turn, NEW a \in Int, NEW b \in Int
  PROVE  /\ IsFiniteSet(Stretch(turn, a, b))
         /\ Cardinality(Stretch(turn, a, b)) = IF a > b THEN 0 ELSE b - a + 1
<1> DEFINE packet == [t \in a .. b |-> [turn |-> turn, tag |-> t]]
<1>1. packet \in [a .. b -> Stretch(turn, a, b)]
  BY DEF Stretch
<1>2. \A s, t \in a .. b : packet[s] = packet[t] => s = t
  <2> SUFFICES ASSUME NEW s \in a .. b, NEW t \in a .. b, packet[s] = packet[t]
               PROVE  s = t
    OBVIOUS
  <2>1. packet[s].tag = s /\ packet[t].tag = t
    OBVIOUS
  <2> QED
    BY <2>1
<1>3. \A p \in Stretch(turn, a, b) : \E t \in a .. b : packet[t] = p
  BY DEF Stretch
<1>4. ExistsBijection(a .. b, Stretch(turn, a, b))
  <2>1. packet \in Bijection(a .. b, Stretch(turn, a, b))
    BY <1>1, <1>2, <1>3, Fun_IsBij
  <2> QED
    BY <2>1 DEF ExistsBijection
<1> QED
  BY <1>4, FS_Interval, FS_Bijection

LEMMA PacketsFinite == IsFiniteSet(Packets)
<1> DEFINE packet == [x \in (0 .. MaxTurn) \X Tags |-> [turn |-> x[1], tag |-> x[2]]]
<1>1. IsFiniteSet(0 .. MaxTurn) /\ IsFiniteSet(Tags)
  BY ModulusAssumption, BoundAssumption, FS_Interval DEF Tags
<1>2. IsFiniteSet((0 .. MaxTurn) \X Tags)
  BY <1>1, FS_Product
<1>3. packet \in Surjection((0 .. MaxTurn) \X Tags, Packets)
  <2>1. packet \in [(0 .. MaxTurn) \X Tags -> Packets]
    BY DEF Packets
  <2>2. ASSUME NEW p \in Packets
        PROVE  \E x \in (0 .. MaxTurn) \X Tags : packet[x] = p
    <3>1. <<p.turn, p.tag>> \in (0 .. MaxTurn) \X Tags /\ packet[<<p.turn, p.tag>>] = p
      BY DEF Packets
    <3> QED
      BY <3>1
  <2> QED
    BY <2>1, <2>2 DEF Surjection
<1> QED
  BY <1>2, <1>3, FS_Surjection

LEMMA MissingFinite == IsFiniteSet(Missing)
BY PacketsFinite, FS_Subset DEF Missing

LEMMA Parts ==
  ASSUME NEW p \in Packets
  PROVE  p.turn \in Nat /\ p.tag \in Int /\ p = [turn |-> p.turn, tag |-> p.tag]
BY ModulusAssumption, BoundAssumption DEF Packets, Tags

LEMMA CoveredStep ==
  TypeOK /\ MemoryInv /\ LossesCovered /\ [Next]_vars => LossesCovered'
<1> SUFFICES ASSUME TypeOK, MemoryInv, LossesCovered, [Next]_vars,
                    \A p \in got' : p.turn = 0
             PROVE  Cardinality(Missing') <= loss'
  BY DEF LossesCovered
<1>1. ASSUME NEW p \in Packets, NEW errors \in SUBSET Flags,
             NEW class \in [Destinations -> Classes], ReadPacket(p, errors, class)
      PROVE  Cardinality(Missing') <= loss'
  <2>1. got' = got \cup {p} /\ p.turn = 0 /\ \A q \in got : q.turn = 0
    BY <1>1 DEF ReadPacket
  <2>2. CASE firstPacket
    <3>1. got' = {p} /\ first' = p /\ loss' = 0
      BY <1>1, <2>2 DEF ReadPacket, MemoryInv, CompareTag
    <3>2. Missing' = {}
      <4> SUFFICES ASSUME NEW x \in Packets, Before(p, x), Before(x, p)
                   PROVE  FALSE
        BY <3>1 DEF Missing
      <4> QED
        BY Parts DEF Before
    <3> QED
      BY <3>1, <3>2, FS_EmptySet
  <2>3. CASE ~firstPacket
    <3> DEFINE new == Stretch(0, tag + 1, p.tag - 1)
    <3>1. first' = first /\ last \in got /\ tag = last.tag /\ last \in Packets
      BY <1>1, <2>3 DEF ReadPacket, MemoryInv, TypeOK
    <3>2. Missing' \subseteq Missing \cup new
      <4> SUFFICES ASSUME NEW x \in Missing', x \notin Missing
                   PROVE  x \in new
        OBVIOUS
      <4>1. x \in Packets /\ x \notin got /\ Before(first, x)
        BY <2>1, <3>1 DEF Missing
      <4>2. ~Before(x, last) /\ Before(x, p)
        BY <2>1, <3>1, <4>1 DEF Missing
      <4>3. x.turn = 0 /\ last.turn = 0
        BY <2>1, <3>1, <4>1, <4>2, Parts DEF Before
      <4>4. x.tag < p.tag /\ x.tag >= last.tag
        BY <2>1, <3>1, <4>1, <4>2, <4>3, Parts DEF Before
      <4>5. x.tag # last.tag
        BY <3>1, <4>1, <4>3, Parts
      <4>6. x.tag \in tag + 1 .. p.tag - 1
        BY <3>1, <4>1, <4>4, <4>5, Parts
      <4> QED
        BY <4>1, <4>3, <4>6, Parts DEF Stretch
    <3>3. tag \in Int /\ p.tag \in Int /\ loss \in Int
      BY <3>1, Parts DEF TypeOK
    <3>4. /\ IsFiniteSet(new)
          /\ Cardinality(new) = MissingIn(p.tag - tag) /\ Cardinality(new) \in Nat
      BY <3>3, StretchSize DEF MissingIn
    <3>5. /\ IsFiniteSet(Missing \cup new)
          /\ Cardinality(Missing \cup new) <= Cardinality(Missing) + Cardinality(new)
      <4>1. IsFiniteSet(Missing \cap new)
        BY MissingFinite, FS_Subset
      <4>2. Cardinality(Missing) \in Nat /\ Cardinality(Missing \cap new) \in Nat
        BY <4>1, MissingFinite, FS_CardinalityType
      <4>3. IsFiniteSet(Missing) /\ IsFiniteSet(new)
        BY <3>4, MissingFinite
      <4> HIDE DEF new
      <4>4. /\ IsFiniteSet(Missing \cup new)
            /\ Cardinality(Missing \cup new) =
                 Cardinality(Missing) + Cardinality(new) - Cardinality(Missing \cap new)
        BY <4>3, FS_Union
      <4> QED
        BY <3>4, <4>2, <4>4
    <3>6. Cardinality(Missing') <= Cardinality(Missing \cup new)
      BY <3>2, <3>5, FS_Subset
    <3>7. loss' = loss + MissingIn(p.tag - tag)
      BY <1>1, <2>3 DEF ReadPacket, CompareTag, Delta
    <3>8. Cardinality(Missing) <= loss
      BY <2>1 DEF LossesCovered
    <3>9. /\ Cardinality(Missing) \in Nat /\ Cardinality(Missing \cup new) \in Nat
          /\ Cardinality(Missing') \in Nat
      <4>1. IsFiniteSet(Missing')
        BY <3>2, <3>5, FS_Subset
      <4> QED
        BY <3>5, <4>1, MissingFinite, FS_CardinalityType
    <3> QED
      BY <3>3, <3>4, <3>5, <3>6, <3>7, <3>8, <3>9
  <2> QED
    BY <2>2, <2>3
<1>2. CASE ~ \E p \in Packets, errors \in SUBSET Flags, class \in [Destinations -> Classes] :
                ReadPacket(p, errors, class)
  <2>1. got' = got /\ first' = first /\ loss' = loss
    BY <1>2 DEF Next, ReadBadSize, TestRun, StopDb, vars, streamVars, seenVars
  <2>2. Missing' = Missing
    BY <2>1 DEF Missing
  <2> QED
    BY <2>1, <2>2 DEF LossesCovered
<1> QED
  BY <1>1, <1>2

(* Within the first turn of the tag, whatever its width, the loss counter  *)
(* covers every missing packet of a stream repeated and reordered at will. *)
THEOREM LossesCounted == Spec => []LossesCovered
<1>1. Init => LossesCovered
  <2> SUFFICES ASSUME Init PROVE LossesCovered
    OBVIOUS
  <2>1. Missing = {} /\ loss = 0
    BY DEF Init, Missing
  <2> QED
    BY <2>1, FS_EmptySet DEF LossesCovered
<1> QED
  BY <1>1, Memory, CoveredStep, PTL DEF Spec
-----------------------------------------------------------------------------
(* In a stream in order nothing that was read is later than the last.      *)
OrderInv == inOrder => \A q \in got : ~Before(last, q)

LEMMA BeforeTransitive ==
  ASSUME NEW p \in Packets, NEW q \in Packets, NEW r \in Packets,
         ~Before(q, p), Before(q, r)
  PROVE  Before(p, r)
BY Parts DEF Before

LEMMA OrderStep == TypeOK /\ MemoryInv /\ OrderInv /\ [Next]_vars => OrderInv'
<1> SUFFICES ASSUME TypeOK, MemoryInv, OrderInv, [Next]_vars, inOrder', NEW q \in got'
             PROVE  ~Before(last', q)
  BY DEF OrderInv
<1>1. ASSUME NEW p \in Packets, NEW errors \in SUBSET Flags,
             NEW class \in [Destinations -> Classes], ReadPacket(p, errors, class)
      PROVE  ~Before(last', q)
  <2>1. last' = p /\ q \in got \cup {p} /\ q \in Packets /\ last \in Packets
    BY <1>1 DEF ReadPacket, TypeOK
  <2>2. CASE q = p
    BY <2>1, <2>2, Parts DEF Before
  <2>3. CASE q \in got
    <3>1. inOrder /\ Follows(p, last)
      BY <1>1, <2>3 DEF ReadPacket, MemoryInv, TypeOK
    <3>2. ~Before(last, q) /\ Before(last, p)
      BY <2>1, <2>3, <3>1, Parts DEF OrderInv, Follows, Before
    <3>3. Before(q, p)
      BY <2>1, <3>2, BeforeTransitive
    <3> QED
      BY <2>1, <3>3, Parts DEF Before
  <2> QED
    BY <2>1, <2>2, <2>3
<1>2. CASE ~ \E p \in Packets, errors \in SUBSET Flags, class \in [Destinations -> Classes] :
                ReadPacket(p, errors, class)
  BY <1>2 DEF Next, ReadBadSize, TestRun, StopDb, vars, seenVars, OrderInv
<1> QED
  BY <1>1, <1>2

LEMMA InventedStep ==
  TypeOK /\ MemoryInv /\ OrderInv /\ NoLossInvented /\ [Next]_vars => NoLossInvented'
<1> SUFFICES ASSUME TypeOK, MemoryInv, OrderInv, NoLossInvented, [Next]_vars, inOrder'
             PROVE  loss' <= Cardinality(Missing')
  BY DEF NoLossInvented
<1>1. ASSUME NEW p \in Packets, NEW errors \in SUBSET Flags,
             NEW class \in [Destinations -> Classes], ReadPacket(p, errors, class)
      PROVE  loss' <= Cardinality(Missing')
  <2>1. IsFiniteSet(Missing') /\ Cardinality(Missing') \in Nat
    <3>1. IsFiniteSet(Missing')
      BY PacketsFinite, FS_Subset DEF Missing
    <3> QED
      BY <3>1, FS_CardinalityType
  <2>2. CASE firstPacket
    <3>1. loss' = 0
      BY <1>1, <2>2 DEF ReadPacket, CompareTag, MemoryInv
    <3> QED
      BY <2>1, <3>1
  <2>3. CASE ~firstPacket
    <3> DEFINE new == IF p.turn = last.turn THEN Stretch(p.turn, tag + 1, p.tag - 1) ELSE {}
    <3>1. /\ first' = first /\ last \in got /\ tag = last.tag /\ got' = got \cup {p}
          /\ last \in Packets /\ first \in got /\ first \in Packets /\ got \subseteq Packets
      BY <1>1, <2>3 DEF ReadPacket, MemoryInv, TypeOK
    <3>2. inOrder /\ Follows(p, last) /\ Before(last, p)
      BY <1>1, <2>3, <3>1, Parts DEF ReadPacket, Follows, Before, TypeOK
    <3>3. \A q \in got : ~Before(last, q)
      BY <3>2 DEF OrderInv
    <3>4. ASSUME NEW x \in Missing
          PROVE  x \in Packets /\ x \notin got /\ Before(first, x) /\ Before(x, last)
      <4>1. PICK q \in got : Before(x, q)
        BY DEF Missing
      <4>2. x \in Packets /\ x \notin got /\ Before(first, x)
        BY DEF Missing
      <4>3. ~Before(last, q) /\ q \in Packets
        BY <3>1, <3>3, <4>1
      <4> QED
        BY <3>1, <4>1, <4>2, <4>3, Parts DEF Before
    <3>5. ASSUME NEW x \in new
          PROVE  x \in Packets /\ x \notin got' /\ Before(last, x) /\ Before(x, p)
      <4>1. PICK t \in tag + 1 .. p.tag - 1 : x = [turn |-> p.turn, tag |-> t]
        BY DEF Stretch
      <4>2. p.turn = last.turn /\ x.turn = p.turn /\ x.tag = t
        BY <4>1
      <4>3. tag \in Nat /\ p.tag \in Int /\ p.tag < TagModulus /\ t \in Int
        BY <3>1, <4>1, ModulusAssumption DEF Packets, Tags
      <4>4. x \in Packets
        BY <4>1, <4>3, ModulusAssumption DEF Packets, Tags
      <4>5. Before(last, x) /\ Before(x, p)
        BY <3>1, <4>1, <4>2, <4>3, Parts DEF Before
      <4> QED
        BY <3>1, <3>3, <4>4, <4>5, Parts DEF Before
    <3>6. Missing \cup new \subseteq Missing'
      <4>1. ASSUME NEW x \in Missing PROVE x \in Missing'
        <5>1. x \in Packets /\ x \notin got /\ Before(first, x) /\ Before(x, last)
          BY <3>4
        <5>2. x # p
          BY <3>1, <3>2, <5>1, Parts DEF Before
        <5> QED
          BY <3>1, <5>1, <5>2 DEF Missing
      <4>2. ASSUME NEW x \in new PROVE x \in Missing'
        <5>1. x \in Packets /\ x \notin got' /\ Before(last, x) /\ Before(x, p)
          BY <3>5
        <5>2. Before(first, x)
          BY <3>1, <3>3, <5>1, BeforeTransitive
        <5> QED
          BY <3>1, <5>1, <5>2 DEF Missing
      <4> QED
        BY <4>1, <4>2
    <3>7. Missing \cap new = {}
      <4> SUFFICES ASSUME NEW x \in Missing, x \in new PROVE FALSE
        OBVIOUS
      <4> QED
        BY <3>1, <3>4, <3>5, Parts DEF Before
    <3>8. tag \in Int /\ p.tag \in Int /\ loss \in Nat
      BY <3>1, Parts DEF TypeOK
    <3>9. /\ IsFiniteSet(new)
          /\ Cardinality(new) = MissingIn(p.tag - tag) /\ Cardinality(new) \in Nat
      <4>1. CASE p.turn = last.turn
        BY <3>8, <4>1, StretchSize DEF MissingIn
      <4>2. CASE p.turn # last.turn
        BY <3>1, <3>2, <3>8, <4>2, FS_EmptySet DEF MissingIn, Follows
      <4> QED
        BY <4>1, <4>2
    <3>10. Cardinality(Missing \cup new) = Cardinality(Missing) + Cardinality(new)
      <4>1. Cardinality(Missing) \in Nat
        BY MissingFinite, FS_CardinalityType
      <4>2. QED
        <5>1. Cardinality(Missing \cap new) = 0
          BY <3>7, FS_EmptySet
        <5>2. Cardinality(Missing \cup new)
                = Cardinality(Missing) + Cardinality(new) - Cardinality(Missing \cap new)
          BY <3>9, MissingFinite, FS_Union
        <5> QED
          BY <3>9, <4>1, <5>1, <5>2
    <3>11. Cardinality(Missing \cup new) <= Cardinality(Missing')
      BY <2>1, <3>6, FS_Subset
    <3>12. loss' = loss + MissingIn(p.tag - tag) /\ loss <= Cardinality(Missing)
      BY <1>1, <2>3, <3>2 DEF ReadPacket, CompareTag, Delta, NoLossInvented
    <3>13. Cardinality(Missing) \in Nat
      BY MissingFinite, FS_CardinalityType
    <3> QED
      BY <2>1, <3>8, <3>9, <3>10, <3>11, <3>12, <3>13
  <2> QED
    BY <2>2, <2>3
<1>2. CASE ~ \E p \in Packets, errors \in SUBSET Flags, class \in [Destinations -> Classes] :
                ReadPacket(p, errors, class)
  <2>1. got' = got /\ first' = first /\ loss' = loss /\ inOrder' = inOrder
    BY <1>2 DEF Next, ReadBadSize, TestRun, StopDb, vars, streamVars, seenVars
  <2>2. Missing' = Missing
    BY <2>1 DEF Missing
  <2> QED
    BY <2>1, <2>2 DEF NoLossInvented
<1> QED
  BY <1>1, <1>2

(* A stream in order shows no loss it has not, across any number of turns. *)
THEOREM LossesReal == Spec => []NoLossInvented
<1>1. Init => NoLossInvented /\ OrderInv
  <2> SUFFICES ASSUME Init PROVE NoLossInvented /\ OrderInv
    OBVIOUS
  <2>1. Missing = {} /\ loss = 0 /\ got = {}
    BY DEF Init, Missing
  <2> QED
    BY <2>1, FS_EmptySet DEF NoLossInvented, OrderInv
<1> QED
  BY <1>1, Memory, OrderStep, InventedStep, PTL DEF Spec
-----------------------------------------------------------------------------
(* Once told to stop, the reader takes one more packet at the most.        *)
THEOREM StopsSoon == Spec => []OneAfterStop
<1> DEFINE StopInv == IF run THEN afterStop = 0
                             ELSE afterStop <= 1 /\ (reader = "reading" => afterStop = 0)
<1>1. Init => StopInv
  BY DEF Init
<1>2. TypeOK /\ StopInv /\ [Next]_vars => StopInv'
  <2> SUFFICES ASSUME TypeOK, StopInv, [Next]_vars PROVE StopInv'
    OBVIOUS
  <2>1. ASSUME NEW p \in Packets, NEW errors \in SUBSET Flags,
               NEW class \in [Destinations -> Classes], ReadPacket(p, errors, class)
        PROVE  StopInv'
    BY <2>1 DEF ReadPacket, TypeOK
  <2>2. CASE ReadBadSize
    BY <2>2 DEF ReadBadSize, TypeOK
  <2>3. CASE TestRun
    BY <2>3 DEF TestRun, AfterTest, TypeOK
  <2>4. CASE StopDb
    BY <2>4 DEF StopDb, TypeOK
  <2>5. CASE UNCHANGED vars
    BY <2>5 DEF vars
  <2> QED
    BY <2>1, <2>2, <2>3, <2>4, <2>5 DEF Next
<1>3. StopInv => OneAfterStop
  BY DEF OneAfterStop
<1> QED
  BY <1>1, <1>2, <1>3, TypeInit, TypeStep, PTL DEF Spec
-----------------------------------------------------------------------------
(* CardConfig.                                                             *)

(* What load and every configure function let through. *)
Loadable == db.nodes \subseteq Known /\ \A o \in db.odd : Tolerated(o)

ClassesResolve ==
  /\ ~Absent({"BeamClass", "AllowedClass", "BeamDestination", "FaultState"})
  /\ ~Dangling({"class", "destination"})

InputsResolve ==
  /\ ~Absent({"DeviceState", "DeviceType", "DeviceInput", "DigitalDevice",
              "DigitalChannel"})
  /\ ~Dangling({"input device", "input channel"})
  /\ ~Dangling({"digital type"})

AnalogResolve ==
  /\ ~Absent({"Fault", "FaultInput", "AnalogDevice", "AnalogChannel"})
  /\ ~Dangling({"analog type", "analog channel"})

IgnoresResolve ==
  /\ ~Absent({"Condition", "IgnoreCondition", "ConditionInput"})
  /\ ~Dangling(IgnoreReferences)

CardsResolve ==
  /\ ~Absent({"ApplicationCard", "Crate", "ApplicationType"})
  /\ ~(Dangling({"card type"}) /\ \E d \in Analog : db.card[d] # None)
  /\ ~MixedCard

SingleInputs == \A c \in Cards : SeveralInputs(c) = {}
Readable == \A i \in Inputs : CardOf(i) # None => HasCard(i) \/ Misled(i)
InRoom == \A c \in Cards : Within(c, Room)

(* The parts of Usable, in the order of the functions that test them. *)
LEMMA SoundTables ==
  Tables \subseteq db.nodes <=>
    /\ ~Absent({"BeamClass", "AllowedClass", "BeamDestination", "FaultState"})
    /\ ~Absent({"DeviceState", "DeviceType", "DeviceInput", "DigitalDevice",
                "DigitalChannel"})
    /\ ~Absent({"Fault", "FaultInput", "AnalogDevice", "AnalogChannel"})
    /\ ~Absent({"Condition", "IgnoreCondition", "ConditionInput"})
    /\ ~Absent({"ApplicationCard", "Crate", "ApplicationType"})
<1>1. DOMAIN Fields =
        {"Crate", "DatabaseInfo", "ApplicationType", "ApplicationCard",
         "DigitalChannel", "AnalogChannel", "DeviceType", "DeviceState",
         "DigitalDevice", "DeviceInput", "Condition", "IgnoreCondition",
         "ConditionInput", "Fault", "FaultInput", "FaultState", "AnalogDevice",
         "BeamDestination", "BeamClass", "AllowedClass"}
  BY DEF Fields
<1>2. Tables =
        {"BeamClass", "AllowedClass", "BeamDestination", "FaultState"}
        \cup {"DeviceState", "DeviceType", "DeviceInput", "DigitalDevice", "DigitalChannel"}
        \cup {"Fault", "FaultInput", "AnalogDevice", "AnalogChannel"}
        \cup {"Condition", "IgnoreCondition", "ConditionInput"}
        \cup {"ApplicationCard", "Crate", "ApplicationType"}
  BY <1>1 DEF Tables
<1> QED BY <1>2 DEF Absent

LEMMA SoundReferences ==
  ASSUME db \in Databases
  PROVE  db.dangling \subseteq PassedOver \cup {"card type"} <=>
           /\ ~Dangling({"class", "destination"})
           /\ ~Dangling({"input device", "input channel"})
           /\ ~Dangling({"digital type"})
           /\ ~Dangling({"analog type", "analog channel"})
           /\ ~Dangling(IgnoreReferences)
<1>1. db.dangling \subseteq References
  BY DatabaseAssumption
<1>2. References = PassedOver \cup {"card type"} \cup {"class", "destination"}
         \cup {"input device", "input channel"} \cup {"digital type"}
         \cup {"analog type", "analog channel"} \cup IgnoreReferences
  BY DEF References, PassedOver, IgnoreReferences
<1>3. (PassedOver \cup {"card type"}) \cap
         ({"class", "destination"} \cup {"input device", "input channel"}
          \cup {"digital type"} \cup {"analog type", "analog channel"} \cup IgnoreReferences) = {}
  BY DEF PassedOver, IgnoreReferences
<1> QED BY <1>1, <1>2, <1>3 DEF Dangling

LEMMA SoundFile ==
  Loadable <=>
    /\ db.nodes \subseteq Tables \cup {"DatabaseInfo", "MitigationDevice", "LinkNode"}
    /\ \A o \in db.odd : <<o.node, o.field>> \in Optional /\ o.value # "missing"
<1>1. "DatabaseInfo" \in DOMAIN Fields
  BY DEF Fields
<1>2. Known = Tables \cup {"DatabaseInfo", "MitigationDevice", "LinkNode"}
  BY <1>1 DEF Known, Tables, Skipped
<1>3. \A o : Tolerated(o) <=> <<o.node, o.field>> \in Optional /\ o.value # "missing"
  BY DEF Tolerated, Optional
<1> QED BY <1>2, <1>3 DEF Loadable

LEMMA SoundCards ==
  ASSUME db \in Databases
  PROVE  (\A d, e \in Devices :
            d \in Digital /\ e \in Analog /\ db.card[d] # None => db.card[d] # db.card[e])
         <=> ~MixedCard
<1>1. \A d \in Devices : db.card[d] \in Cards \cup {None}
  BY DatabaseAssumption
<1>2. Devices = Digital \cup Analog /\ None \notin Cards
  BY IdAssumption DEF Devices
<1> QED BY <1>1, <1>2 DEF MixedCard, On

LEMMA SoundInputs ==
  ASSUME db \in Databases
  PROVE  (\A d \in Digital :
            db.card[d] # None =>
              CASE db.evaluation[d] = "fast" -> Cardinality(InputsOf(d)) = 1
                [] db.evaluation[d] = "slow" -> InputsOf(d) # {}
                [] OTHER -> TRUE)
         <=> ~WithoutInputs /\ SingleInputs
<1> DEFINE Right(d) == CASE db.evaluation[d] = "fast" -> Cardinality(InputsOf(d)) = 1
                         [] db.evaluation[d] = "slow" -> InputsOf(d) # {}
                         [] OTHER -> TRUE
           Right2(d) == /\ db.evaluation[d] # "none" => InputsOf(d) # {}
                        /\ db.evaluation[d] = "fast" => Cardinality(InputsOf(d)) = 1
<1>1. \A d \in Digital : /\ db.card[d] \in Cards \cup {None}
                         /\ db.evaluation[d] \in {"fast", "slow", "none"}
  BY DatabaseAssumption DEF Devices
<1>2. None \notin Cards
  BY IdAssumption
<1>3. \A d : InputsOf(d) = {} => Cardinality(InputsOf(d)) # 1
  BY FS_EmptySet
<1>4. \A d \in Digital : Right(d) <=> Right2(d)
  <2> HIDE DEF InputsOf
  <2> QED BY <1>1, <1>3
<1>5. (\A d \in Digital : db.card[d] # None => Right2(d))
      <=> ~WithoutInputs /\ SingleInputs
  BY <1>1, <1>2 DEF WithoutInputs, SingleInputs, SeveralInputs, Fast, On
<1> QED BY <1>4, <1>5

LEMMA UsableParts ==
  ASSUME db \in Databases
  PROVE  Usable <=> /\ Loadable /\ ClassesResolve /\ InputsResolve /\ AnalogResolve
                    /\ IgnoresResolve /\ CardsResolve /\ ~WithoutInputs /\ SingleInputs
                    /\ Readable /\ InRoom
<1>1. ("card type" \in db.dangling => \A d \in Analog : db.card[d] = None)
      <=> ~(Dangling({"card type"}) /\ \E d \in Analog : db.card[d] # None)
  BY DEF Dangling
<1> QED BY <1>1, SoundTables, SoundReferences, SoundFile, SoundCards, SoundInputs
        DEF Usable, ClassesResolve, InputsResolve, AnalogResolve, IgnoresResolve, CardsResolve,
            Readable, InRoom
-----------------------------------------------------------------------------
(* Where every input of a device on a card is read from, once its card has *)
(* been bound and once all have been.                                      *)
BoundInv ==
  /\ step = "elsewhere" =>
       \A i \in Inputs : CardOf(i) # None =>
         reads[i] = IF Misled(i) THEN CardOf(i) ELSE None
  /\ step \in {"write", "written", "running"} =>
       \A i \in Inputs : CardOf(i) # None =>
         reads[i] = IF Misled(i) THEN CardOf(i)
                    ELSE IF HasCard(i) THEN db.channel[i].card ELSE None

LEMMA BoundInit == CardInit => BoundInv
BY DEF CardInit, BoundInv

LEMMA ElsewhereBinds ==
  ASSUME BoundInv, ConfigureElsewhere
  PROVE  BoundInv'
<1>1. PICK configured \in SUBSET {i \in Inputs : CardOf(i) = None} :
        reads' = [x \in Channelled |->
          IF x \in Inputs \ configured /\ reads[x] = None /\ FoundById(x) # {}
          THEN CHOOSE c \in FoundById(x) : TRUE ELSE reads[x]]
  BY DEF ConfigureElsewhere
<1>2. step = "elsewhere" /\ step' = "write" /\ db' = db
  BY DEF ConfigureElsewhere
<1>3. ASSUME NEW i \in Inputs, CardOf(i) # None
      PROVE  reads'[i] = IF Misled(i) THEN CardOf(i)
                         ELSE IF HasCard(i) THEN db.channel[i].card ELSE None
  <2>1. i \in Channelled /\ i \in Inputs \ configured
    BY <1>1, <1>3 DEF Channelled
  <2>2. reads[i] = IF Misled(i) THEN CardOf(i) ELSE None
    BY <1>2, <1>3 DEF BoundInv
  <2>3. FoundById(i) = IF HasCard(i) THEN {db.channel[i].card} ELSE {}
    BY DEF FoundById, HasCard
  <2>4. (CHOOSE c \in {db.channel[i].card} : TRUE) = db.channel[i].card
    OBVIOUS
  <2> QED BY <1>1, <1>3, <2>1, <2>2, <2>3, <2>4
<1> QED BY <1>2, <1>3 DEF BoundInv, Misled, HasCard, CardOf

LEMMA BoundStep ==
  ASSUME BoundInv, [CardNext]_cardVars
  PROVE  BoundInv'
<1>1. CASE ConfigureUpdateBuffers
  <2>1. ASSUME NEW i \in Inputs, step' = "elsewhere", CardOf(i) # None
        PROVE  reads'[i] = IF Misled(i) THEN CardOf(i) ELSE None
    <3>1. i \in Channelled /\ i \notin Analog
      BY IdAssumption DEF Channelled
    <3> QED BY <1>1, <2>1, <3>1 DEF ConfigureUpdateBuffers, OnCardOf, Misled
  <2>2. db' = db /\ step' \in {"failed", "elsewhere"}
    BY <1>1 DEF ConfigureUpdateBuffers
  <2> QED BY <2>1, <2>2 DEF BoundInv, Misled, CardOf
<1>2. CASE ConfigureElsewhere
  BY <1>2, ElsewhereBinds
<1>3. CASE WriteConfiguration \/ Update \/ Rewrite \/ UNCHANGED cardVars
  <2>1. /\ db' = db /\ reads' = reads
        /\ step' = "elsewhere" => step = "elsewhere"
        /\ step' \in {"write", "written", "running"} => step \in {"write", "written", "running"}
    BY <1>3 DEF WriteConfiguration, Update, Rewrite, cardVars
  <2> QED BY <2>1 DEF BoundInv, Misled, HasCard, CardOf
<1>4. CASE \/ Load \/ ConfigureAllowedClasses \/ ConfigureDeviceInputs \/ ConfigureAnalogDevices
           \/ ConfigureIgnoreConditions \/ ConfigureApplicationCards
  <2>1. step' \notin {"elsewhere", "write", "written", "running"}
    BY <1>4 DEF Load, Resolve, ConfigureAllowedClasses, ConfigureDeviceInputs,
                ConfigureAnalogDevices, ConfigureIgnoreConditions, ConfigureApplicationCards
  <2> QED BY <2>1 DEF BoundInv
<1> QED BY <1>1, <1>2, <1>3, <1>4 DEF CardNext

(* Every input is read from the card its channel names, but for the ones   *)
(* the NUMBER of the device's card misleads.                               *)
THEOREM ReadsOwnCard == CardSpec => []ReadsItsCard
<1>1. BoundInv => ReadsItsCard
  BY DEF BoundInv, ReadsItsCard
<1>2. BoundInv /\ [CardNext]_cardVars => BoundInv'
  BY BoundStep
<1> QED BY <1>1, <1>2, BoundInit, PTL DEF CardSpec
-----------------------------------------------------------------------------
(* Nothing past load changes the database. *)
Ended == {"failed", "crashed"}

PassedInv ==
  /\ db \in Databases /\ step \in Steps /\ todo \subseteq Cards
  /\ step \in Ended => ~Usable
  /\ step \notin Ended \cup {"load"} => Loadable
  /\ step \notin Ended \cup {"load", "allowed classes"} => ClassesResolve
  /\ step \notin Ended \cup {"load", "allowed classes", "device inputs"} => InputsResolve
  /\ step \in {"ignore conditions", "cards", "bind", "elsewhere", "write", "written", "running"}
       => AnalogResolve
  /\ step \in {"cards", "bind", "elsewhere", "write", "written", "running"} => IgnoresResolve
  /\ step \in {"bind", "elsewhere", "write", "written", "running"} => CardsResolve
  /\ step \in {"elsewhere", "write", "written", "running"} => ~WithoutInputs
  /\ step \in {"write", "written", "running"} => \A c \in Cards \ todo : ~Throws(c)
  /\ step \in {"written", "running"} => todo = {}
  /\ step = "running" => Readable

LEMMA DatabaseKept ==
  ASSUME db' = db
  PROVE  /\ (Usable' <=> Usable) /\ (Loadable' <=> Loadable) /\ (ClassesResolve' <=> ClassesResolve)
         /\ (InputsResolve' <=> InputsResolve) /\ (AnalogResolve' <=> AnalogResolve)
         /\ (IgnoresResolve' <=> IgnoresResolve) /\ (CardsResolve' <=> CardsResolve)
         /\ (WithoutInputs' <=> WithoutInputs) /\ (Readable' <=> Readable)
         /\ \A c : Throws(c)' <=> Throws(c)
<1>1. \A c : FastInputs(c)' = FastInputs(c) /\ FastParts(c)' = FastParts(c)
  BY DEF FastInputs, FastParts, AnalogParts, Integrators, Fast, On
<1>2. \A c : Within(c, Room)' <=> Within(c, Room)
  BY <1>1, Zenon DEF Within, MaskSlot, ClassSlot, Number
<1>3. (Usable' <=> Usable) /\ (Readable' <=> Readable)
  <2>1. Readable' <=> Readable
    BY DEF Readable, HasCard, Misled, CardOf
  <2>2. InRoom' <=> InRoom
    BY <1>2 DEF InRoom
  <2> QED BY <2>1, <2>2, Zenon DEF Usable, InputsOf, Readable, InRoom
<1>4. /\ (Loadable' <=> Loadable) /\ (ClassesResolve' <=> ClassesResolve)
      /\ (InputsResolve' <=> InputsResolve) /\ (AnalogResolve' <=> AnalogResolve)
      /\ (IgnoresResolve' <=> IgnoresResolve)
  BY DEF Loadable, ClassesResolve, InputsResolve, AnalogResolve, IgnoresResolve,
         Absent, Dangling
<1>5. (CardsResolve' <=> CardsResolve)
  BY DEF CardsResolve, MixedCard, Absent, Dangling, On
<1>6. (WithoutInputs' <=> WithoutInputs)
  BY DEF WithoutInputs, On, InputsOf
<1>7. \A c : SeveralInputs(c)' = SeveralInputs(c)
  BY DEF SeveralInputs, Fast, On, InputsOf
<1>8. \A c : Throws(c)' <=> Throws(c)
  BY <1>2, <1>7 DEF Throws
<1> QED BY <1>3, <1>4, <1>5, <1>6, <1>8

LEMMA PassedInit == CardInit => PassedInv
BY DEF CardInit, PassedInv, Steps, Ended

LEMMA LoadPasses ==
  ASSUME PassedInv, Load
  PROVE  PassedInv'
<1>1. Usable => Loadable
  BY UsableParts DEF PassedInv
<1>2. Loadable => ~(~(db.nodes \subseteq Known) \/ \E o \in db.odd : Refused(o))
  BY DEF Loadable, Refused
<1>3. Loadable => ~ \E o \in db.odd : Escapes(o)
  BY DEF Loadable, Tolerated, Escapes
<1> QED
  BY <1>1, <1>2, <1>3, DatabaseKept DEF Load, PassedInv, Loadable, Steps, Ended

(* A configure function that resolves references: what it lets through is  *)
(* all that a sound database asks of it.                                   *)
LEMMA ResolvePasses ==
  ASSUME PassedInv,
         \/ ConfigureAllowedClasses \/ ConfigureDeviceInputs \/ ConfigureAnalogDevices
         \/ ConfigureIgnoreConditions \/ ConfigureApplicationCards
  PROVE  PassedInv'
<1>1. Usable => /\ ClassesResolve /\ InputsResolve /\ AnalogResolve
               /\ IgnoresResolve /\ CardsResolve
  BY UsableParts DEF PassedInv
<1> USE DEF Resolve, PassedInv, Steps, Ended
<1>2. CASE ConfigureAllowedClasses
  BY <1>1, <1>2, DatabaseKept DEF ConfigureAllowedClasses, ClassesResolve
<1>3. CASE ConfigureDeviceInputs
  BY <1>1, <1>3, DatabaseKept DEF ConfigureDeviceInputs, InputsResolve
<1>4. CASE ConfigureAnalogDevices
  BY <1>1, <1>4, DatabaseKept DEF ConfigureAnalogDevices, AnalogResolve
<1>5. CASE ConfigureIgnoreConditions
  BY <1>1, <1>5, DatabaseKept DEF ConfigureIgnoreConditions, IgnoresResolve
<1>6. CASE ConfigureApplicationCards
  BY <1>1, <1>6, DatabaseKept DEF ConfigureApplicationCards, CardsResolve
<1> QED BY <1>2, <1>3, <1>4, <1>5, <1>6

LEMMA BindPasses ==
  ASSUME PassedInv, ConfigureUpdateBuffers \/ ConfigureElsewhere
  PROVE  PassedInv'
<1>1. Usable => ~WithoutInputs
  BY UsableParts DEF PassedInv
<1> USE DEF PassedInv, Steps, Ended
<1>2. CASE ConfigureUpdateBuffers
  BY <1>1, <1>2, DatabaseKept DEF ConfigureUpdateBuffers
<1>3. CASE ConfigureElsewhere
  BY <1>3, DatabaseKept DEF ConfigureElsewhere
<1> QED BY <1>2, <1>3

LEMMA WritePasses ==
  ASSUME PassedInv, WriteConfiguration
  PROVE  PassedInv'
<1> USE DEF PassedInv
<1>1. PICK c \in todo :
        \/ Throws(c) /\ step' = "failed" /\ UNCHANGED todo
        \/ /\ ~Throws(c) /\ todo' = todo \ {c}
           /\ step' = IF todo = {c} THEN "written" ELSE "write"
  BY DEF WriteConfiguration
<1>2. step = "write" /\ db' = db
  BY DEF WriteConfiguration
<1>3. CASE Throws(c)
  <2>1. ~SingleInputs \/ ~InRoom
    BY <1>1, <1>3 DEF SingleInputs, InRoom, Throws
  <2> QED BY <1>1, <1>2, <1>3, <2>1, UsableParts, DatabaseKept DEF Steps, Ended
<1>4. CASE ~Throws(c)
  <2>1. \A k \in Cards \ (todo \ {c}) : ~Throws(k)
    BY <1>2, <1>4
  <2>2. step' \in {"written", "write"} /\ (step' = "written" => todo' = {})
    BY <1>1, <1>4
  <2> QED BY <1>1, <1>2, <1>4, <2>1, <2>2, DatabaseKept DEF Steps, Ended
<1> QED BY <1>3, <1>4

(* The first update finds every input bound just when the database lets it. *)
LEMMA UpdatePasses ==
  ASSUME PassedInv, BoundInv, Update
  PROVE  PassedInv'
<1>1. step = "written" /\ db' = db /\ todo' = todo
      /\ step' = IF Unbound = {} THEN "running" ELSE "crashed"
  BY DEF Update
<1>2. Unbound = {} <=> Readable
  <2>1. ASSUME NEW i \in Inputs, CardOf(i) # None
        PROVE  reads[i] = None <=> ~(HasCard(i) \/ Misled(i))
    BY <1>1, <2>1, IdAssumption DEF BoundInv, HasCard
  <2> QED BY <2>1 DEF Unbound, Readable
<1> QED BY <1>1, <1>2, UsableParts, DatabaseKept DEF PassedInv, Steps, Ended

LEMMA RewritePasses ==
  ASSUME PassedInv, Rewrite
  PROVE  PassedInv'
BY DatabaseKept DEF Rewrite, PassedInv, Steps, Ended

LEMMA PassedStep == PassedInv /\ BoundInv /\ [CardNext]_cardVars => PassedInv'
<1> SUFFICES ASSUME PassedInv, BoundInv, [CardNext]_cardVars PROVE PassedInv'
  OBVIOUS
<1>1. CASE UNCHANGED cardVars
  BY <1>1, DatabaseKept DEF PassedInv, cardVars
<1> QED
  BY <1>1, LoadPasses, ResolvePasses, BindPasses, WritePasses, UpdatePasses, RewritePasses
     DEF CardNext

LEMMA Passed == CardSpec => [](PassedInv /\ BoundInv)
<1>1. BoundInv /\ [CardNext]_cardVars => BoundInv'
  BY BoundStep
<1> QED BY <1>1, PassedInit, BoundInit, PassedStep, PTL DEF CardSpec

(* No database without a flaw is refused or brings the process down.       *)
THEOREM SoundAccepted == CardSpec => []SoundIsAccepted
<1>1. PassedInv => SoundIsAccepted
  BY DEF PassedInv, SoundIsAccepted, Sound, Ended
<1> QED BY <1>1, Passed, PTL

(* The checks of load and of the configure functions, the exceptions of    *)
(* the writing and the crash of the first update add up: no database that  *)
(* is not usable runs.                                                     *)
THEOREM FlawsStopped == CardSpec => []FlawsAreStopped
<1>1. PassedInv => FlawsAreStopped
  <2> SUFFICES ASSUME PassedInv, step = "running" PROVE Usable
    BY DEF FlawsAreStopped
  <2>1. SingleInputs /\ InRoom
    BY DEF PassedInv, SingleInputs, InRoom, Throws
  <2> QED BY <2>1, UsableParts DEF PassedInv, Ended
<1> QED BY <1>1, Passed, PTL
-----------------------------------------------------------------------------
(* Of finitely many numbers one is the greatest: a smallest set without    *)
(* one would have one more than a set that has one.                        *)
LEMMA LeastNumber ==
  ASSUME NEW A \in SUBSET Nat, A # {}
  PROVE  \E n \in A : \A k \in A : n <= k
<1>1. PICK n \in A : \A k \in A : ~(<<k, n>> \in OpToRel(<, Nat))
  BY NatLessThanWellFounded, WFMin, Zenon
<1>2. \A k \in A : ~(k < n)
  BY <1>1, Zenon DEF OpToRel
<1>3. \A k \in A : n <= k
  BY <1>2
<1> QED BY <1>3

LEMMA GreatestNumber ==
  ASSUME NEW A \in SUBSET Nat, IsFiniteSet(A), A # {}
  PROVE  \E n \in A : \A k \in A : k <= n
<1> DEFINE HasGreatest(S) == \E n \in S : \A k \in S : k <= n
           Without(n, S) == /\ S \in SUBSET Nat /\ IsFiniteSet(S) /\ S # {}
                            /\ Cardinality(S) = n /\ ~HasGreatest(S)
           Sizes == {n \in Nat : \E S : Without(n, S)}
<1>1. SUFFICES ASSUME Sizes # {} PROVE FALSE
  BY FS_CardinalityType
<1>2. PICK n \in Sizes : \A k \in Sizes : n <= k
  BY <1>1, LeastNumber
<1>3. PICK S : Without(n, S)
  BY <1>2
<1>4. PICK x \in S : TRUE
  BY <1>3
<1> DEFINE R == S \ {x}
<1>5. IsFiniteSet(R) /\ Cardinality(R) = n - 1 /\ Cardinality(R) \in Nat /\ R \in SUBSET Nat
  BY <1>3, <1>4, FS_RemoveElement, FS_CardinalityType
<1>6. ~Without(n - 1, R)
  BY <1>2, <1>5
<1>7. CASE R = {}
  BY <1>3, <1>4, <1>7
<1>8. CASE R # {}
  <2>1. PICK y \in R : \A k \in R : k <= y
    BY <1>5, <1>6, <1>8
  <2> QED BY <1>3, <1>4, <2>1
<1> QED BY <1>7, <1>8

Turns == Devices \X (0..MaxIntegrators)

LEMMA LastWriteAmong ==
  ASSUME NEW writes, writes # {}, \A w \in writes : w.turn \in Turns
  PROVE  LastWrite(writes) \in writes
<1> DEFINE A == {w.turn[1] : w \in writes}
<1>1. A \in SUBSET Nat /\ IsFiniteSet(A) /\ A # {}
  <2>1. A \subseteq Devices
    BY DEF Turns
  <2> QED BY <2>1, IdAssumption, FS_Subset
<1>2. PICK m \in A : \A k \in A : k <= m
  BY <1>1, GreatestNumber
<1> DEFINE B == {w.turn[2] : w \in {v \in writes : v.turn[1] = m}}
<1>3. B \in SUBSET Nat /\ IsFiniteSet(B) /\ B # {}
  <2>1. B \subseteq 0..MaxIntegrators
    BY DEF Turns
  <2>2. IsFiniteSet(0..MaxIntegrators) /\ 0..MaxIntegrators \subseteq Nat
    BY SlotAssumption, FS_Interval
  <2>3. B # {}
    BY <1>2
  <2> QED BY <2>1, <2>2, <2>3, FS_Subset
<1>4. PICK n \in B : \A k \in B : k <= n
  BY <1>3, GreatestNumber
<1>5. PICK w \in writes : w.turn[1] = m /\ w.turn[2] = n
  BY <1>4
<1>6. ASSUME NEW v \in writes PROVE NotAfter(v.turn, w.turn)
  <2>1. v.turn[1] \in A /\ v.turn[1] <= m /\ v.turn[1] \in Nat /\ m \in Nat
    BY <1>1, <1>2
  <2>2. CASE v.turn[1] = m
    <3>1. v.turn[2] \in B
      BY <2>2
    <3> QED BY <1>4, <1>5, <2>2, <3>1 DEF NotAfter
  <2>3. CASE v.turn[1] # m
    BY <1>5, <2>1, <2>3 DEF NotAfter
  <2> QED BY <2>2, <2>3
<1> QED BY <1>6 DEF LastWrite

LEMMA PartsOf ==
  ASSUME NEW p
  PROVE  p \in AnalogParts <=> /\ p = <<p[1], p[2]>> /\ p[1] \in Analog
                                /\ p[2] \in Integrators(p[1])
BY DEF AnalogParts

(* When the rules of a card keep to their places, its slots are in the     *)
(* buffer.                                                                 *)
LEMMA InputSlots ==
  ASSUME db \in Databases, NEW c \in Cards, Within(c, Area), NEW i \in FastInputs(c)
  PROVE  /\ Number(i) \in 0..(Area.channel - 1)
         /\ db.device[i] \in Digital /\ db.device[i] \in Devices
<1>1. Number(i) \in Nat /\ Number(i) < Area.channel /\ Area.channel \in Nat
  BY DatabaseAssumption, SlotAssumption DEF FastInputs, Number, Channelled, Within
<1>2. db.device[i] \in Digital
  BY DatabaseAssumption DEF FastInputs
<1> QED BY <1>1, <1>2 DEF Devices

LEMMA PartNumbers ==
  ASSUME db \in Databases, NEW c \in Cards, NEW p \in FastParts(c)
  PROVE  /\ MaskSlot(c, p[1], p[2]) \in Nat
         /\ ClassSlot(c, p[1], p[2]) = MaskSlot(c, p[1], p[2]) * NumThresholds
         /\ p = <<p[1], p[2]>> /\ p \in Turns /\ p[1] \in Analog /\ p[2] \in Nat
<1>1. p \in AnalogParts /\ p[1] \in Analog
  BY DEF FastParts, Fast, On
<1>2. db.integrators[p[1]] \in 0..MaxIntegrators /\ MaxIntegrators \in Nat
  BY <1>1, DatabaseAssumption, SlotAssumption
<1>3. p = <<p[1], p[2]>> /\ p[2] \in 0..(db.integrators[p[1]] - 1)
  BY <1>1, PartsOf DEF Integrators
<1>4. p[2] \in Nat /\ p[2] \in 0..MaxIntegrators
  BY <1>2, <1>3
<1>5. Number(p[1]) \in Nat /\ db.channelCount[c] \in Nat
  BY <1>1, DatabaseAssumption DEF Number, Channelled
<1>6. p[2] * db.channelCount[c] \in Nat
  BY <1>4, <1>5
<1>7. MaskSlot(c, p[1], p[2]) \in Nat
  BY <1>5, <1>6 DEF MaskSlot
<1> QED BY <1>1, <1>3, <1>4, <1>7 DEF MaskSlot, ClassSlot, Turns, Devices

LEMMA PartSlots ==
  ASSUME db \in Databases, NEW c \in Cards, Within(c, Area), NEW p \in FastParts(c)
  PROVE  /\ MaskSlot(c, p[1], p[2]) \in 0..(Area.integrator - 1)
         /\ \A j \in Thresholds : ClassSlot(c, p[1], p[2]) + j \in 0..(Area.class - 1)
<1> DEFINE m == MaskSlot(c, p[1], p[2])
           k == ClassSlot(c, p[1], p[2])
<1>1. m \in Nat /\ k = m * NumThresholds
  BY PartNumbers
<1>2. NumThresholds \in Nat \ {0} /\ Area.integrator \in Nat /\ Area.class \in Nat
  BY SlotAssumption
<1>3. m < Area.integrator /\ k + NumThresholds <= Area.class
  BY DEF Within
<1> HIDE DEF m, k
<1>4. k \in Nat
  BY <1>1, <1>2
<1>5. m \in 0..(Area.integrator - 1)
  BY <1>1, <1>2, <1>3
<1>6. ASSUME NEW j \in Thresholds PROVE k + j \in 0..(Area.class - 1)
  BY <1>2, <1>3, <1>4 DEF Thresholds
<1> QED BY <1>5, <1>6 DEF m, k

(* The writes of a card, one by one. *)
DigitalWrite(i, w) ==
  /\ w.turn = <<db.device[i], 0>> /\ w.content = <<db.device[i]>>
  /\ \/ w.slot = <<"rule", Number(i)>>
     \/ w.slot = <<"mask", Number(i)>> /\ <<i>> \notin silenced

AnalogWrite(c, p, w) ==
  /\ w.turn = p
  /\ \/ \E j \in Thresholds : /\ w.slot = <<"class", ClassSlot(c, p[1], p[2]) + j>>
                              /\ w.content = <<p[1], p[2], j>>
     \/ /\ w.slot = <<"integrator", MaskSlot(c, p[1], p[2])>>
        /\ w.content = IF p \in silenced THEN Zero ELSE p

LEMMA WriteOf ==
  ASSUME NEW c \in Cards, NEW w \in Writes(c)
  PROVE  \/ \E i \in FastInputs(c) : DigitalWrite(i, w)
         \/ \E p \in FastParts(c) : AnalogWrite(c, p, w)
<1>1. CASE w \in DigitalWrites(c)
  <2>1. PICK i \in FastInputs(c) :
          w \in {[slot |-> <<"rule", Number(i)>>, turn |-> <<db.device[i], 0>>,
                 content |-> <<db.device[i]>>]}
               \cup (IF <<i>> \in silenced THEN {}
                     ELSE {[slot |-> <<"mask", Number(i)>>, turn |-> <<db.device[i], 0>>,
                            content |-> <<db.device[i]>>]})
    BY <1>1 DEF DigitalWrites
  <2>2. DigitalWrite(i, w)
    BY <2>1 DEF DigitalWrite
  <2> QED BY <2>2
<1>2. CASE w \in AnalogWrites(c)
  <2>1. PICK p \in FastParts(c) :
          w \in {[slot |-> <<"class", ClassSlot(c, p[1], p[2]) + j>>, turn |-> p,
                  content |-> <<p[1], p[2], j>>] : j \in Thresholds}
               \cup {[slot |-> <<"integrator", MaskSlot(c, p[1], p[2])>>, turn |-> p,
                      content |-> IF p \in silenced THEN Zero ELSE p]}
    BY <1>2 DEF AnalogWrites
  <2>2. AnalogWrite(c, p, w)
    BY <2>1 DEF AnalogWrite
  <2> QED BY <2>2
<1> QED BY <1>1, <1>2 DEF Writes

LEMMA WriteType ==
  ASSUME db \in Databases, NEW c \in Cards, Within(c, Area), NEW w \in Writes(c)
  PROVE  w.slot \in Slots /\ w.turn \in Turns /\ w.content \in Contents
<1>1. CASE \E i \in FastInputs(c) : DigitalWrite(i, w)
  <2>1. PICK i \in FastInputs(c) : DigitalWrite(i, w)
    BY <1>1
  <2>2. /\ Number(i) \in 0..(Area.channel - 1)
        /\ db.device[i] \in Digital /\ db.device[i] \in Devices
    BY InputSlots
  <2>3. <<db.device[i], 0>> \in Turns
    BY <2>2, SlotAssumption DEF Turns
  <2> QED BY <2>1, <2>2, <2>3 DEF DigitalWrite, Slots, Contents
<1>2. CASE \E p \in FastParts(c) : AnalogWrite(c, p, w)
  <2>1. PICK p \in FastParts(c) : AnalogWrite(c, p, w)
    BY <1>2
  <2>2. /\ MaskSlot(c, p[1], p[2]) \in 0..(Area.integrator - 1)
        /\ \A j \in Thresholds : ClassSlot(c, p[1], p[2]) + j \in 0..(Area.class - 1)
    BY PartSlots
  <2>3. w.turn \in Turns /\ p \in AnalogParts
    BY <2>1, PartNumbers DEF AnalogWrite, FastParts
  <2> DEFINE n == MaskSlot(c, p[1], p[2])
  <2>4. CASE \E j \in Thresholds : /\ w.slot = <<"class", ClassSlot(c, p[1], p[2]) + j>>
                                  /\ w.content = <<p[1], p[2], j>>
    <3>1. PICK j \in Thresholds : /\ w.slot = <<"class", ClassSlot(c, p[1], p[2]) + j>>
                                 /\ w.content = <<p[1], p[2], j>>
      BY <2>4
    <3> DEFINE k == ClassSlot(c, p[1], p[2]) + j
    <3>2. w.slot = <<"class", k>> /\ k \in 0..(Area.class - 1)
      BY <2>2, <3>1
    <3> HIDE DEF k
    <3>3. w.slot \in Slots
      BY <3>2 DEF Slots
    <3>4. w.content \in Contents
      BY <2>3, <3>1 DEF Contents
    <3> QED BY <2>3, <3>3, <3>4
  <2>5. CASE /\ w.slot = <<"integrator", n>>
             /\ w.content = IF p \in silenced THEN Zero ELSE p
    <3>1. n \in 0..(Area.integrator - 1)
      BY <2>2
    <3> HIDE DEF n
    <3>2. w.slot \in Slots
      BY <2>5, <3>1 DEF Slots
    <3>3. w.content \in Contents
      BY <2>3, <2>5 DEF Contents
    <3> QED BY <2>3, <3>2, <3>3
  <2> QED BY <2>1, <2>4, <2>5 DEF AnalogWrite
<1> QED BY <1>1, <1>2, WriteOf

LEMMA WrittenType ==
  ASSUME db \in Databases, NEW c \in Cards
  PROVE  Written(c) \in [Slots -> Contents]
<1>1. CASE Throws(c) \/ ~Within(c, Area)
  BY <1>1 DEF Written, Unknown, Contents
<1>2. CASE ~Throws(c) /\ Within(c, Area)
  <2> DEFINE Here(s) == {w \in Writes(c) : w.slot = s}
             Value(s) == IF Here(s) = {} THEN Cleared(c)[s] ELSE LastWrite(Here(s)).content
  <2>1. Written(c) = [s \in Slots |-> Value(s)]
    BY <1>2 DEF Written
  <2>2. ASSUME NEW s \in Slots PROVE Value(s) \in Contents
    <3>1. CASE Here(s) = {}
      BY <3>1 DEF Cleared, Contents
    <3>2. CASE Here(s) # {}
      <4>1. Here(s) \subseteq Writes(c)
        OBVIOUS
      <4> HIDE DEF Here
      <4>2. LastWrite(Here(s)) \in Here(s)
        BY <1>2, <3>2, <4>1, WriteType, LastWriteAmong
      <4> QED BY <1>2, <3>2, <4>1, <4>2, WriteType
    <3> QED BY <3>1, <3>2
  <2> HIDE DEF Value
  <2> QED BY <2>1, <2>2
<1> QED BY <1>1, <1>2

LEMMA CardTypeStep ==
  ASSUME PassedInv, BoundInv, CardTypeOK, [CardNext]_cardVars
  PROVE  CardTypeOK'
<1>1. db' = db /\ db \in Databases /\ step' \in Steps /\ todo' \subseteq Cards
  BY PassedStep DEF PassedInv, CardNext, Load, Resolve, ConfigureAllowedClasses,
     ConfigureDeviceInputs, ConfigureAnalogDevices, ConfigureIgnoreConditions,
     ConfigureApplicationCards, ConfigureUpdateBuffers, ConfigureElsewhere,
     WriteConfiguration, Update, Rewrite, cardVars
<1>2. Silenceable' = Silenceable /\ Contents' = Contents
  BY <1>1 DEF Silenceable, Contents, AnalogParts, Integrators
<1>3. ASSUME reads' \in [Channelled -> Cards \cup {None}], silenced' \subseteq Silenceable,
             buffer' \in [Cards -> [Slots -> Contents]],
             firmware' \in [Cards -> [Slots -> Contents]]
      PROVE  CardTypeOK'
  BY <1>1, <1>2, <1>3 DEF CardTypeOK
<1>4. CASE ConfigureUpdateBuffers
  <2>1. \A x \in Channelled : CardOf(x) \in Cards \cup {None}
    BY <1>1, DatabaseAssumption DEF CardOf, Channelled, Devices
  <2>2. reads' \in [Channelled -> Cards \cup {None}]
    BY <1>4, <2>1 DEF ConfigureUpdateBuffers, CardTypeOK
  <2> QED BY <1>3, <1>4, <2>2 DEF ConfigureUpdateBuffers, CardTypeOK
<1>5. CASE ConfigureElsewhere
  <2>1. ASSUME NEW x \in Channelled, FoundById(x) # {}
        PROVE  (CHOOSE c \in FoundById(x) : TRUE) \in Cards
    <3>1. (CHOOSE c \in FoundById(x) : TRUE) \in FoundById(x)
      BY <2>1
    <3>2. FoundById(x) \subseteq Cards
      BY DEF FoundById
    <3> QED BY <3>1, <3>2
  <2>2. reads' \in [Channelled -> Cards \cup {None}]
    BY <1>5, <2>1 DEF ConfigureElsewhere, CardTypeOK
  <2> QED BY <1>3, <1>5, <2>2 DEF ConfigureElsewhere, CardTypeOK
<1>6. CASE WriteConfiguration
  <2>1. PICK c \in todo :
          /\ buffer' = IF Empty(c) THEN buffer ELSE [buffer EXCEPT ![c] = Written(c)]
          /\ firmware' \in {firmware, [firmware EXCEPT ![c] = buffer'[c]]}
    BY <1>6 DEF WriteConfiguration
  <2>2. c \in Cards /\ Written(c) \in [Slots -> Contents]
    BY <1>1, WrittenType DEF CardTypeOK
  <2>3. buffer' \in [Cards -> [Slots -> Contents]]
    BY <2>1, <2>2 DEF CardTypeOK
  <2>4. firmware' \in [Cards -> [Slots -> Contents]]
    BY <2>1, <2>2, <2>3 DEF CardTypeOK
  <2> QED BY <1>3, <1>6, <2>3, <2>4 DEF WriteConfiguration, CardTypeOK
<1>7. CASE Update \/ Rewrite
  BY <1>3, <1>7 DEF Update, Rewrite, CardTypeOK
<1>8. CASE \/ Load \/ ConfigureAllowedClasses \/ ConfigureDeviceInputs \/ ConfigureAnalogDevices
           \/ ConfigureIgnoreConditions \/ ConfigureApplicationCards \/ UNCHANGED cardVars
  <2>1. UNCHANGED <<reads, silenced, buffer, firmware>>
    BY <1>8 DEF Load, Resolve, ConfigureAllowedClasses, ConfigureDeviceInputs, cardVars,
                ConfigureAnalogDevices, ConfigureIgnoreConditions, ConfigureApplicationCards
  <2> QED BY <1>3, <2>1 DEF CardTypeOK
<1> QED BY <1>4, <1>5, <1>6, <1>7, <1>8 DEF CardNext

(* Every variable keeps its type, whatever the numbers of the channels:    *)
(* an input is read from a card that exists, and what keeps to its places  *)
(* is of a device and in the buffer.                                       *)
THEOREM CardTypeCorrect == CardSpec => []CardTypeOK
<1>1. CardInit => CardTypeOK
  BY DEF CardInit, CardTypeOK, Steps, Contents, Unknown
<1>2. PassedInv /\ BoundInv /\ CardTypeOK /\ [CardNext]_cardVars => CardTypeOK'
  BY CardTypeStep
<1> QED BY <1>1, <1>2, Passed, PTL DEF CardSpec
-----------------------------------------------------------------------------
(* A card that has been written holds what its devices and the bypasses    *)
(* now say; what a rewriting has not reached yet counts as not written.    *)
WrittenInv ==
  step \in {"write", "written", "running"} =>
    \A c \in Cards \ todo : ~Empty(c) => firmware[c] = Written(c)

LEMMA WrittenKept ==
  ASSUME db' = db, silenced' = silenced, NEW c
  PROVE  Written(c)' = Written(c) /\ (Empty(c)' <=> Empty(c))
<1>1. FastInputs(c)' = FastInputs(c) /\ FastParts(c)' = FastParts(c)
  BY DEF FastInputs, FastParts, AnalogParts, Integrators, Fast, On
<1>2. DigitalWrites(c)' = DigitalWrites(c)
  BY <1>1 DEF DigitalWrites, Number
<1>3. AnalogWrites(c)' = AnalogWrites(c)
  BY <1>1 DEF AnalogWrites, Number, ClassSlot, MaskSlot
<1>4. Within(c, Area)' <=> Within(c, Area)
  BY <1>1, Zenon DEF Within, MaskSlot, ClassSlot, Number
<1>5. Throws(c)' <=> Throws(c)
  BY DatabaseKept
<1>6. Written(c)' = Written(c)
  BY <1>2, <1>3, <1>4, <1>5 DEF Written, Writes, Cleared, LastWrite, NotAfter, Unknown
<1>7. Empty(c)' <=> Empty(c)
  BY DEF Empty, On
<1> QED BY <1>6, <1>7

LEMMA WrittenStep ==
  ASSUME PassedInv, CardTypeOK, WrittenInv, [CardNext]_cardVars
  PROVE  WrittenInv'
<1>1. CASE WriteConfiguration
  <2>1. PICK c \in todo :
          /\ buffer' = IF Empty(c) THEN buffer ELSE [buffer EXCEPT ![c] = Written(c)]
          /\ \/ step' = "failed"
             \/ firmware' = [firmware EXCEPT ![c] = buffer'[c]] /\ todo' = todo \ {c}
    BY <1>1 DEF WriteConfiguration
  <2>2. db' = db /\ silenced' = silenced /\ step = "write" /\ c \in Cards
    BY <1>1 DEF WriteConfiguration, PassedInv
  <2>3. ASSUME step' # "failed", NEW k \in Cards \ todo', ~Empty(k)
        PROVE  firmware'[k] = Written(k)
    BY <2>1, <2>2, <2>3 DEF WrittenInv, CardTypeOK
  <2>4. \A k : Written(k)' = Written(k) /\ (Empty(k)' <=> Empty(k))
    BY <2>2, WrittenKept
  <2> QED BY <2>3, <2>4 DEF WrittenInv
<1>2. CASE UNCHANGED cardVars
  <2>1. \A k : Written(k)' = Written(k) /\ (Empty(k)' <=> Empty(k))
    BY <1>2, WrittenKept DEF cardVars
  <2> QED BY <1>2, <2>1 DEF WrittenInv, cardVars
<1>5. CASE Update
  <2>1. \A k : Written(k)' = Written(k) /\ (Empty(k)' <=> Empty(k))
    BY <1>5, WrittenKept DEF Update
  <2> QED BY <1>5, <2>1 DEF WrittenInv, Update
<1>3. CASE ConfigureElsewhere \/ Rewrite
  BY <1>3 DEF ConfigureElsewhere, Rewrite, WrittenInv
<1>4. CASE \/ Load \/ ConfigureAllowedClasses \/ ConfigureDeviceInputs \/ ConfigureAnalogDevices
           \/ ConfigureIgnoreConditions \/ ConfigureApplicationCards \/ ConfigureUpdateBuffers
  <2>1. step' \notin {"write", "written", "running"}
    BY <1>4 DEF Load, Resolve, ConfigureAllowedClasses, ConfigureDeviceInputs,
                ConfigureAnalogDevices, ConfigureIgnoreConditions, ConfigureApplicationCards,
                ConfigureUpdateBuffers
  <2> QED BY <2>1 DEF WrittenInv
<1> QED BY <1>1, <1>2, <1>3, <1>4, <1>5 DEF CardNext

CardInv == PassedInv /\ BoundInv /\ CardTypeOK /\ WrittenInv

LEMMA CardInvHolds == CardSpec => []CardInv
<1>1. CardInit => CardInv
  BY PassedInit, BoundInit
     DEF CardInit, CardInv, CardTypeOK, Steps, Contents, Unknown, WrittenInv
<1>2. CardInv /\ [CardNext]_cardVars => CardInv'
  BY PassedStep, BoundStep, CardTypeStep, WrittenStep DEF CardInv
<1> QED BY <1>1, <1>2, PTL DEF CardSpec

(* A slot that is written with one content only holds that content, and    *)
(* one that is not written is cleared.                                     *)
LEMMA SlotContent ==
  ASSUME db \in Databases, NEW c \in Cards, ~Throws(c), Within(c, Area), NEW s \in Slots
  PROVE  LET here == {w \in Writes(c) : w.slot = s}
         IN  IF here = {} THEN Written(c)[s] = Zero
                          ELSE \E w \in here : Written(c)[s] = w.content
<1> DEFINE Here == {w \in Writes(c) : w.slot = s}
<1>1. Written(c)[s] = IF Here = {} THEN Zero ELSE LastWrite(Here).content
  BY DEF Written, Cleared
<1>2. ASSUME Here # {} PROVE LastWrite(Here) \in Here
  <2>1. \A w \in Here : w.turn \in Turns
    BY WriteType
  <2> HIDE DEF Here
  <2> QED BY <1>2, <2>1, LastWriteAmong
<1> QED BY <1>1, <1>2

LEMMA SlotUnwritten ==
  ASSUME db \in Databases, NEW c \in Cards, ~Throws(c), Within(c, Area), NEW s \in Slots,
         \A w \in Writes(c) : w.slot # s
  PROVE  Written(c)[s] = Zero
BY SlotContent

LEMMA SlotWritten ==
  ASSUME db \in Databases, NEW c \in Cards, ~Throws(c), Within(c, Area), NEW s \in Slots,
         NEW v, \E w \in Writes(c) : w.slot = s, \A w \in Writes(c) : w.slot = s => w.content = v
  PROVE  Written(c)[s] = v
BY SlotContent

(* Every fast input and every part of a fast analog device is written. *)
LEMMA Writing ==
  ASSUME NEW c \in Cards
  PROVE  /\ \A i \in FastInputs(c) :
              /\ \E w \in Writes(c) : w.slot = <<"rule", Number(i)>>
              /\ <<i>> \notin silenced => \E w \in Writes(c) : w.slot = <<"mask", Number(i)>>
         /\ \A p \in FastParts(c) :
              /\ \E w \in Writes(c) : w.slot = <<"integrator", MaskSlot(c, p[1], p[2])>>
              /\ \A j \in Thresholds :
                   \E w \in Writes(c) : w.slot = <<"class", ClassSlot(c, p[1], p[2]) + j>>
<1>1. ASSUME NEW i \in FastInputs(c)
      PROVE  /\ \E w \in Writes(c) : w.slot = <<"rule", Number(i)>>
             /\ <<i>> \notin silenced => \E w \in Writes(c) : w.slot = <<"mask", Number(i)>>
  <2> DEFINE d == db.device[i]
             rule == [slot |-> <<"rule", Number(i)>>, turn |-> <<d, 0>>, content |-> <<d>>]
             mask == [slot |-> <<"mask", Number(i)>>, turn |-> <<d, 0>>, content |-> <<d>>]
  <2>1. rule \in Writes(c)
    BY DEF Writes, DigitalWrites
  <2>2. <<i>> \notin silenced => mask \in Writes(c)
    BY DEF Writes, DigitalWrites
  <2> QED BY <2>1, <2>2
<1>2. ASSUME NEW p \in FastParts(c)
      PROVE  /\ \E w \in Writes(c) : w.slot = <<"integrator", MaskSlot(c, p[1], p[2])>>
             /\ \A j \in Thresholds :
                  \E w \in Writes(c) : w.slot = <<"class", ClassSlot(c, p[1], p[2]) + j>>
  <2> DEFINE mask == [slot |-> <<"integrator", MaskSlot(c, p[1], p[2])>>, turn |-> p,
                      content |-> IF p \in silenced THEN Zero ELSE p]
             class(j) == [slot |-> <<"class", ClassSlot(c, p[1], p[2]) + j>>, turn |-> p,
                          content |-> <<p[1], p[2], j>>]
             OfPart(q) ==
               {[slot |-> <<"class", ClassSlot(c, q[1], q[2]) + j>>, turn |-> q,
                 content |-> <<q[1], q[2], j>>] : j \in Thresholds}
               \cup {[slot |-> <<"integrator", MaskSlot(c, q[1], q[2])>>, turn |-> q,
                      content |-> IF q \in silenced THEN Zero ELSE q]}
  <2>1. AnalogWrites(c) = UNION {OfPart(q) : q \in FastParts(c)}
    BY Zenon DEF AnalogWrites
  <2>2. mask \in OfPart(p) /\ \A j \in Thresholds : class(j) \in OfPart(p)
    OBVIOUS
  <2> HIDE DEF OfPart, mask, class
  <2>3. mask \in Writes(c) /\ \A j \in Thresholds : class(j) \in Writes(c)
    BY <1>2, <2>1, <2>2 DEF Writes
  <2> QED BY <2>3 DEF mask, class
<1> QED BY <1>1, <1>2

(* Two numbers below k and two multiples of k with the same sum. *)
LEMMA Division ==
  ASSUME NEW k \in Nat, NEW a \in Nat, NEW b \in Nat, NEW i \in Nat, NEW j \in Nat,
         a < k, b < k, a + i * k = b + j * k
  PROVE  a = b /\ i = j
<1>1. ASSUME NEW m \in Nat, NEW n \in Nat, m < n PROVE n * k >= m * k + k
  <2>1. PICK r \in Nat : n = m + 1 + r
    <3>1. n - m - 1 \in Nat /\ n = m + 1 + (n - m - 1)
      BY <1>1
    <3> QED BY <3>1
  <2>2. (m + 1 + r) * k = m * k + k + r * k /\ r * k \in Nat /\ m * k \in Nat
    OBVIOUS
  <2> QED BY <2>1, <2>2
<1>2. i * k \in Nat /\ j * k \in Nat
  OBVIOUS
<1>3. ~(i < j)
  <2> SUFFICES ASSUME i < j PROVE FALSE
    OBVIOUS
  <2>1. j * k >= i * k + k
    BY <1>1
  <2> QED BY <1>2, <2>1
<1>4. ~(j < i)
  <2> SUFFICES ASSUME j < i PROVE FALSE
    OBVIOUS
  <2>1. i * k >= j * k + k
    BY <1>1
  <2> QED BY <1>2, <2>1
<1>5. i = j
  BY <1>3, <1>4
<1> QED BY <1>2, <1>5

(* On a consistent card no two parts share a mask. *)
LEMMA MaskOfOne ==
  ASSUME db \in Databases, NEW c \in Cards, Consistent(c),
         NEW p \in FastParts(c), NEW q \in FastParts(c),
         MaskSlot(c, p[1], p[2]) = MaskSlot(c, q[1], q[2])
  PROVE  p = q
<1>1. /\ p \in AnalogParts /\ p[1] \in Fast(c, Analog)
      /\ q \in AnalogParts /\ q[1] \in Fast(c, Analog)
  BY DEF FastParts
<1>2. p = <<p[1], p[2]>> /\ q = <<q[1], q[2]>> /\ p[2] \in Nat /\ q[2] \in Nat
  BY PartNumbers
<1>3. /\ db.channelCount[c] \in Nat /\ Number(p[1]) \in Nat /\ Number(q[1]) \in Nat
  BY <1>1, DatabaseAssumption DEF Number, Channelled, Fast, On
<1>4. Number(p[1]) < db.channelCount[c] /\ Number(q[1]) < db.channelCount[c]
  BY <1>1 DEF Consistent
<1>5. Number(p[1]) + p[2] * db.channelCount[c] = Number(q[1]) + q[2] * db.channelCount[c]
  BY DEF MaskSlot
<1>6. Number(p[1]) = Number(q[1]) /\ p[2] = q[2]
  BY <1>2, <1>3, <1>4, <1>5, Division
<1>7. p[1] = q[1]
  BY <1>1, <1>6 DEF Consistent
<1> QED BY <1>2, <1>6, <1>7

LEMMA ClassOfOne ==
  ASSUME db \in Databases, NEW c \in Cards, Consistent(c),
         NEW p \in FastParts(c), NEW q \in FastParts(c),
         NEW j \in Thresholds, NEW l \in Thresholds,
         ClassSlot(c, p[1], p[2]) + j = ClassSlot(c, q[1], q[2]) + l
  PROVE  p = q /\ j = l
<1> DEFINE T == NumThresholds
           m == MaskSlot(c, p[1], p[2])
           n == MaskSlot(c, q[1], q[2])
<1>1. T \in Nat /\ j \in Nat /\ l \in Nat /\ j < T /\ l < T
  BY SlotAssumption DEF Thresholds
<1>2. m \in Nat /\ n \in Nat
  BY PartNumbers
<1>3. ClassSlot(c, p[1], p[2]) = m * T /\ ClassSlot(c, q[1], q[2]) = n * T
  BY PartNumbers
<1> HIDE DEF T, m, n
<1>4. m * T \in Nat /\ n * T \in Nat
  BY <1>1, <1>2
<1>5. j + m * T = l + n * T
  BY <1>1, <1>3, <1>4
<1>6. j = l /\ m = n
  BY <1>1, <1>2, <1>5, Division
<1> QED BY <1>6, MaskOfOne DEF m, n

LEMMA RulesWritten ==
  ASSUME db \in Databases, NEW c \in Cards, ~Throws(c), Consistent(c), Within(c, Area),
         NEW n \in 0..(Area.channel - 1)
  PROVE  LET here == {i \in FastInputs(c) : Number(i) = n}
         IN  /\ Written(c)[<<"rule", n>>] \in
                  IF here = {} THEN {Zero} ELSE {<<db.device[i]>> : i \in here}
             /\ Written(c)[<<"mask", n>>] \in
                  IF {<<i>> : i \in here} \ silenced = {} THEN {Zero} ELSE {<<db.device[i]>> : i \in here}
<1> DEFINE here == {i \in FastInputs(c) : Number(i) = n}
<1>1. \A i, k \in here : i = k
  BY DEF Consistent
<1>2. <<"rule", n>> \in Slots /\ <<"mask", n>> \in Slots
  BY DEF Slots
<1>3. ASSUME NEW w \in Writes(c), w.slot = <<"rule", n>>
      PROVE  \E i \in here : w.content = <<db.device[i]>>
  <2>1. \A p \in FastParts(c) : ~AnalogWrite(c, p, w)
    BY <1>3 DEF AnalogWrite
  <2>2. PICK i \in FastInputs(c) : DigitalWrite(i, w)
    BY <2>1, WriteOf
  <2> QED BY <1>3, <2>2 DEF DigitalWrite
<1>4. ASSUME NEW w \in Writes(c), w.slot = <<"mask", n>>
      PROVE  \E i \in here : w.content = <<db.device[i]>> /\ <<i>> \notin silenced
  <2>1. \A p \in FastParts(c) : ~AnalogWrite(c, p, w)
    BY <1>4 DEF AnalogWrite
  <2>2. PICK i \in FastInputs(c) : DigitalWrite(i, w)
    BY <2>1, WriteOf
  <2> QED BY <1>4, <2>2 DEF DigitalWrite
<1>5. Written(c)[<<"rule", n>>] \in IF here = {} THEN {Zero} ELSE {<<db.device[i]>> : i \in here}
  <2>1. CASE here = {}
    BY <1>2, <1>3, <2>1, SlotUnwritten
  <2>2. CASE here # {}
    <3>1. PICK i \in here : TRUE
      BY <2>2
    <3>2. \E w \in Writes(c) : w.slot = <<"rule", n>>
      BY <3>1, Writing
    <3>3. \A w \in Writes(c) : w.slot = <<"rule", n>> => w.content = <<db.device[i]>>
      BY <1>1, <1>3, <3>1
    <3>4. Written(c)[<<"rule", n>>] = <<db.device[i]>>
      BY <1>2, <3>2, <3>3, SlotWritten
    <3> QED BY <2>2, <3>1, <3>4
  <2> QED BY <2>1, <2>2
<1>6. Written(c)[<<"mask", n>>] \in
        IF {<<i>> : i \in here} \ silenced = {} THEN {Zero} ELSE {<<db.device[i]>> : i \in here}
  <2>1. CASE {<<i>> : i \in here} \ silenced = {}
    <3>1. \A w \in Writes(c) : w.slot # <<"mask", n>>
      BY <1>4, <2>1
    <3> QED BY <1>2, <2>1, <3>1, SlotUnwritten
  <2>2. CASE {<<i>> : i \in here} \ silenced # {}
    <3>1. PICK i \in here : <<i>> \notin silenced
      BY <2>2
    <3>2. \E w \in Writes(c) : w.slot = <<"mask", n>>
      BY <3>1, Writing
    <3>3. \A w \in Writes(c) : w.slot = <<"mask", n>> => w.content = <<db.device[i]>>
      BY <1>1, <1>4, <3>1
    <3>4. Written(c)[<<"mask", n>>] = <<db.device[i]>>
      BY <1>2, <3>2, <3>3, SlotWritten
    <3> QED BY <2>2, <3>1, <3>4
  <2> QED BY <2>1, <2>2
<1> QED BY <1>5, <1>6

LEMMA IntegratorWrite ==
  ASSUME NEW c \in Cards, NEW n, NEW w \in Writes(c), w.slot = <<"integrator", n>>
  PROVE  \E p \in FastParts(c) : /\ MaskSlot(c, p[1], p[2]) = n
                                /\ w.content = IF p \in silenced THEN Zero ELSE p
<1>1. \A i : ~DigitalWrite(i, w)
  BY DEF DigitalWrite
<1>2. PICK p \in FastParts(c) : AnalogWrite(c, p, w)
  BY <1>1, WriteOf
<1> QED BY <1>2 DEF AnalogWrite

LEMMA MasksWritten ==
  ASSUME db \in Databases, NEW c \in Cards, ~Throws(c), Consistent(c), Within(c, Area)
  PROVE  {Written(c)[<<"integrator", n>>] : n \in 0..(Area.integrator - 1)} \ {Zero}
           = FastParts(c) \ silenced
<1> DEFINE Mask(n) == Written(c)[<<"integrator", n>>]
<1>1. ASSUME NEW p \in FastParts(c)
      PROVE  LET n == MaskSlot(c, p[1], p[2])
             IN  n \in 0..(Area.integrator - 1) /\ Mask(n) = IF p \in silenced THEN Zero ELSE p
  <2> DEFINE n == MaskSlot(c, p[1], p[2])
  <2>1. n \in 0..(Area.integrator - 1) /\ <<"integrator", n>> \in Slots
    BY PartSlots DEF Slots
  <2>2. \E w \in Writes(c) : w.slot = <<"integrator", n>>
    BY Writing
  <2>3. ASSUME NEW w \in Writes(c), w.slot = <<"integrator", n>>
        PROVE  w.content = IF p \in silenced THEN Zero ELSE p
    <3>1. PICK q \in FastParts(c) : /\ MaskSlot(c, q[1], q[2]) = n
                                    /\ w.content = IF q \in silenced THEN Zero ELSE q
      BY <2>3, IntegratorWrite
    <3>2. q = p
      BY <3>1, MaskOfOne
    <3> QED BY <3>1, <3>2
  <2> HIDE DEF n
  <2>4. Mask(n) = IF p \in silenced THEN Zero ELSE p
    BY <2>1, <2>2, <2>3, SlotWritten
  <2> QED BY <2>1, <2>4 DEF n
<1>2. ASSUME NEW n \in 0..(Area.integrator - 1)
      PROVE  Mask(n) = Zero \/ Mask(n) \in FastParts(c) \ silenced
  <2>1. CASE \E p \in FastParts(c) : MaskSlot(c, p[1], p[2]) = n
    BY <1>1, <2>1
  <2>2. CASE ~ \E p \in FastParts(c) : MaskSlot(c, p[1], p[2]) = n
    <3>1. \A w \in Writes(c) : w.slot # <<"integrator", n>>
      BY <2>2, IntegratorWrite
    <3>2. <<"integrator", n>> \in Slots
      BY DEF Slots
    <3> QED BY <3>1, <3>2, SlotUnwritten
  <2> QED BY <2>1, <2>2
<1>3. \A p \in FastParts(c) : p # Zero
  <2>1. \A d, i : <<d, i>> # <<>>
    OBVIOUS
  <2> QED BY <2>1, PartsOf DEF FastParts, Zero
<1> HIDE DEF Mask
<1>4. {Mask(n) : n \in 0..(Area.integrator - 1)} \ {Zero} = FastParts(c) \ silenced
  BY <1>1, <1>2, <1>3
<1> QED BY <1>4 DEF Mask

(* The firmware has the rule and the mask of every fast device at its      *)
(* channel and no other.                                                   *)
THEOREM RulesInFirmware == CardSpec => []FirmwareHasRules
<1>1. ASSUME CardInv, NEW c \in Cards, Configured(c)
      PROVE  /\ firmware[c] = Written(c) /\ ~Throws(c) /\ Consistent(c)
             /\ Within(c, Area) /\ db \in Databases
  BY <1>1 DEF CardInv, PassedInv, WrittenInv, Configured, Consistent
<1>2. CardInv => FirmwareHasRules
  <2> SUFFICES ASSUME CardInv PROVE FirmwareHasRules
    OBVIOUS
  <2>1. ASSUME NEW c \in Cards, Configured(c), NEW n \in 0..(Area.channel - 1)
        PROVE  LET here == {i \in FastInputs(c) : Number(i) = n}
               IN  /\ firmware[c][<<"rule", n>>] \in
                        IF here = {} THEN {Zero} ELSE {<<db.device[i]>> : i \in here}
                   /\ firmware[c][<<"mask", n>>] \in
                        IF {<<i>> : i \in here} \ silenced = {} THEN {Zero} ELSE {<<db.device[i]>> : i \in here}
    BY <1>1, <2>1, RulesWritten
  <2>2. ASSUME NEW c \in Cards, Configured(c)
        PROVE  {firmware[c][<<"integrator", n>>] : n \in 0..(Area.integrator - 1)} \ {Zero}
                 = FastParts(c) \ silenced
    BY <1>1, <2>2, MasksWritten
  <2> QED BY <2>1, <2>2, Zenon DEF FirmwareHasRules
<1> QED BY <1>2, CardInvHolds, PTL

(* A threshold is judged by the class that stands where the update of its  *)
(* device reads it, whatever the layout of the card.                       *)
THEOREM ThresholdsFound == CardSpec => []ThresholdsMatch
<1>1. ASSUME CardInv, NEW c \in Cards, Configured(c), NEW d \in Fast(c, Analog),
             NEW i \in Integrators(d), NEW j \in Thresholds
      PROVE  firmware[c][<<"class", UpdatePosition(d, i, j)>>] = <<d, i, j>>
  <2> DEFINE p == <<d, i>>
             k == ClassSlot(c, d, i) + j
  <2>1. /\ firmware[c] = Written(c) /\ ~Throws(c) /\ Consistent(c)
        /\ Within(c, Area) /\ db \in Databases
    BY <1>1 DEF CardInv, PassedInv, WrittenInv, Configured, Consistent
  <2>2. d \in Analog /\ db.card[d] = c /\ p \in FastParts(c)
    BY PartsOf DEF Fast, On, FastParts
  <2>3. UpdatePosition(d, i, j) = k
    <3>1. /\ db.channelCount[c] \in Nat /\ Number(d) \in Nat /\ NumThresholds \in Nat
          /\ i \in Nat /\ j \in Nat
      <4>1. db.integrators[d] \in Nat
        BY <2>1, <2>2, DatabaseAssumption
      <4> QED BY <2>1, <2>2, <4>1, DatabaseAssumption, SlotAssumption
              DEF Number, Channelled, Integrators, Thresholds
    <3>2. \A cc, n, T, x, y \in Nat : cc * T * x + n * T + y = (n + x * cc) * T + y
      OBVIOUS
    <3> QED BY <2>2, <3>1, <3>2 DEF UpdatePosition, ClassSlot
  <2>4. p[1] = d /\ p[2] = i
    OBVIOUS
  <2> HIDE DEF p
  <2>5. k \in 0..(Area.class - 1) /\ \E w \in Writes(c) : w.slot = <<"class", k>>
    BY <2>1, <2>2, <2>4, PartSlots, Writing
  <2>6. ASSUME NEW w \in Writes(c), w.slot = <<"class", k>>
        PROVE  w.content = <<d, i, j>>
    <3>1. \A x : ~DigitalWrite(x, w)
      BY <2>6 DEF DigitalWrite
    <3>2. PICK q \in FastParts(c) : AnalogWrite(c, q, w)
      BY <3>1, WriteOf
    <3>3. PICK l \in Thresholds : /\ w.slot = <<"class", ClassSlot(c, q[1], q[2]) + l>>
                                  /\ w.content = <<q[1], q[2], l>>
      BY <2>6, <3>2 DEF AnalogWrite
    <3>4. ClassSlot(c, p[1], p[2]) + j = ClassSlot(c, q[1], q[2]) + l
      BY <2>4, <2>6, <3>3
    <3>5. p = q /\ j = l
      BY <2>1, <2>2, <3>4, ClassOfOne
    <3> QED BY <2>4, <3>3, <3>5
  <2> HIDE DEF k
  <2>7. <<"class", k>> \in Slots
    BY <2>5 DEF Slots
  <2> QED BY <2>1, <2>3, <2>5, <2>6, <2>7, SlotWritten
<1>2. CardInv => ThresholdsMatch
  BY <1>1 DEF ThresholdsMatch
<1> QED BY <1>2, CardInvHolds, PTL
=============================================================================
