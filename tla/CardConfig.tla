----------------------------- MODULE CardConfig -----------------------------
(***************************************************************************)
(* A database on its way to the firmware: MpsDb::load reads its tables,    *)
(* configure resolves the references between them and gives every input    *)
(* the part of the update message it is read from, and                     *)
(* writeFirmwareConfiguration lays out the rules of the fast devices, card *)
(* by card, in the buffer the firmware is given.  What the rules of a      *)
(* device say is Configure; here a rule is named by its device, and the    *)
(* question is where it ends up.                                           *)
(*                                                                         *)
(* A database is one of Databases: records of its nodes, of the oddities   *)
(* of its entries, and of what its tables say, with None where a reference *)
(* finds nothing.                                                          *)
(***************************************************************************)
EXTENDS Naturals, FiniteSets, DatabaseFile

CONSTANTS
  Cards, Digital, Analog, Inputs,  \* the ids in the tables, numbers
  Databases,      \* the databases that may be loaded
  NumThresholds,  \* ANALOG_DEVICE_NUM_THRESHOLDS
  MaxIntegrators, \* ANALOG_CHANNEL_MAX_INTEGRATORS_PER_CHANNEL
  Area,           \* the digital channels, classes and integrators the layout
                  \*   of the buffer has a place for, and
  Room,           \* those its bits have room for, which is what is checked
  None

Devices == Digital \cup Analog
Channelled == Inputs \cup Analog
Thresholds == 0..(NumThresholds - 1)

(* What the entries of the tables refer to. *)
References ==
  {"class", "destination", "class state", "state type", "input device",
   "input channel", "digital type", "analog type", "analog channel",
   "ignore condition", "ignore state", "ignore device", "ignore nothing",
   "input condition", "input state", "crate", "card type"}

ASSUME IdAssumption ==
  /\ Cards \cup Devices \cup Inputs \subseteq Nat
  /\ Digital \cap Analog = {} /\ Inputs \cap Analog = {} /\ None \notin Nat
  /\ IsFiniteSet(Devices)
ASSUME DatabaseAssumption ==
  \A b \in Databases :
    /\ b.number \in [Cards -> Nat]               \* DbApplicationCard::number
    /\ b.channelCount \in [Cards -> Nat]         \* of its ApplicationType
    /\ b.card \in [Devices -> Cards \cup {None}]
    /\ b.evaluation \in [Devices -> {"fast", "slow", "none"}]
    /\ b.integrators \in [Analog -> 0..MaxIntegrators] \* of its DeviceType
    /\ b.device \in [Inputs -> Digital]          \* the device of an input
    /\ b.odd \subseteq {o \in Oddities : o.node \in b.nodes}
    /\ (\E o \in b.odd : o.node = "DigitalDevice" /\ Tolerated(o))
         => \E d \in Digital : b.card[d] = None
    /\ b.channel \in [Channelled -> [card : Nat, number : Nat]] \* any id
    /\ b.dangling \subseteq References
ASSUME SlotAssumption ==
  /\ NumThresholds \in Nat \ {0} /\ MaxIntegrators \in Nat
  /\ {Area, Room} \subseteq [channel : Nat, class : Nat, integrator : Nat]
  /\ Area.channel <= Room.channel /\ Area.class <= Room.class
  /\ Area.integrator <= Room.integrator

VARIABLES
  db,        \* the database
  step,      \* where load, configure and writeFirmwareConfiguration are
  reads,     \* per input and analog device, the card whose part of the
             \*   update message it is read from
  silenced,  \* what has a valid bypass or is ignored: <<input>>, and
             \*   <<analog device, integrator>>
  buffer,    \* fastConfigurationBuffer: per card, its slots
  firmware,  \* per card, the slots of the buffer it has been given
  todo       \* the cards writeFirmwareConfiguration has left

cardVars == <<db, step, reads, silenced, buffer, firmware, todo>>

(* The fields of the buffer: per digital channel the class with the        *)
(* expected state and the mask; of an analog card, the class of every      *)
(* threshold and the mask of every integrator.                             *)
Slots ==
  {"rule", "mask"} \X (0..(Area.channel - 1))
  \cup {"class"} \X (0..(Area.class - 1))
  \cup {"integrator"} \X (0..(Area.integrator - 1))

(* The content of a slot names what the rule is of; Garbage stands for any *)
(* content.                                                                *)
Zero == <<>>
Garbage == <<None>>
Unknown == [s \in Slots |-> Garbage]

(* The buffer is not initialised. *)
CardInit ==
  /\ db \in Databases
  /\ step = "load"
  /\ reads = [i \in Channelled |-> None]
  /\ silenced = {}
  /\ buffer = [c \in Cards |-> Unknown]
  /\ firmware = [c \in Cards |-> Unknown]
  /\ todo = {}

InputsOf(d) == {i \in Inputs : db.device[i] = d}
On(c, devices) == {d \in devices : db.card[d] = c}
Integrators(d) == 0..(db.integrators[d] - 1)
AnalogParts == UNION {{d} \X Integrators(d) : d \in Analog}
Number(x) == db.channel[x].number

Dangling(references) == db.dangling \cap references # {}
Absent(tables) == ~(tables \subseteq db.nodes)
-----------------------------------------------------------------------------
(* load: one node of the file after the other; one it does not know makes  *)
(* it throw, and so does an entry it cannot read; a table that never comes *)
(* stays a null pointer.  (A file that cannot be parsed is here one with   *)
(* an unknown node.)                                                       *)
Load ==
  /\ step = "load"
  /\ \/ /\ ~(db.nodes \subseteq Known) \/ \E o \in db.odd : Refused(o)
        /\ step' = "failed"
     \/ /\ \E o \in db.odd : Escapes(o)
        /\ step' = "crashed"
     \/ /\ db.nodes \subseteq Known /\ \A o \in db.odd : Tolerated(o)
        /\ step' = "allowed classes"
  /\ UNCHANGED <<db, reads, silenced, buffer, firmware, todo>>

(* A configure function resolves references: one that finds nothing throws *)
(* or, where the throw is commented out, dereferences the end of the map.  *)
Resolve(from, to, crashes, throws) ==
  /\ step = from
  /\ \/ crashes /\ step' = "crashed"
     \/ throws /\ step' = "failed"
     \/ ~crashes /\ ~throws /\ step' = to
  /\ UNCHANGED <<db, reads, silenced, buffer, firmware, todo>>

(* A class that is allowed for no fault state is passed over. *)
ConfigureAllowedClasses ==
  Resolve("allowed classes", "device inputs",
          Absent({"BeamClass", "AllowedClass", "BeamDestination", "FaultState"}),
          Dangling({"class", "destination"}))

ConfigureDeviceInputs ==
  Resolve("device inputs", "analog devices",
          \/ Absent({"DeviceState", "DeviceType", "DeviceInput", "DigitalDevice",
                      "DigitalChannel"})
          \/ Dangling({"input device", "input channel"}),
          Dangling({"digital type"}))

ConfigureAnalogDevices ==
  Resolve("analog devices", "ignore conditions",
          Absent({"Fault", "FaultInput", "AnalogDevice", "AnalogChannel"}),
          Dangling({"analog type", "analog channel"}))

(* The device may be digital or analog, the fault state and the device may *)
(* be left out, but not both.                                              *)
IgnoreReferences ==
  {"ignore condition", "ignore state", "ignore device", "ignore nothing",
   "input condition", "input state"}

ConfigureIgnoreConditions ==
  Resolve("ignore conditions", "cards",
          Absent({"Condition", "IgnoreCondition", "ConditionInput"}),
          Dangling(IgnoreReferences))

(* The devices of every card, the digital ones first.  The type of a card  *)
(* may be missing until an analog device asks it for its channels.         *)
MixedUnseen == FALSE
MixedCard == \E c \in Cards : On(c, Digital) # {} /\ On(c, Analog) # {}

ConfigureApplicationCards ==
  Resolve("cards", "bind",
          \/ Absent({"ApplicationCard", "Crate", "ApplicationType"})
          \/ Dangling({"card type"}) /\ \E d \in Analog : db.card[d] # None,
          MixedCard)

(* configureUpdateBuffers, of every card.  An input is on the card of its  *)
(* device when the card its channel names has the NUMBER of that card.     *)
WithoutAnyInputs ==
  \E c \in Cards, d \in Digital : d \in On(c, Digital) /\ InputsOf(d) = {}

WithoutInputs ==
  \E c \in Cards, d \in Digital :
    d \in On(c, Digital) /\ db.evaluation[d] # "none" /\ InputsOf(d) = {}

OnCardOf(x, c) == x \in Analog \/ db.channel[x].card = db.number[c]
CardOf(x) == IF x \in Analog THEN db.card[x] ELSE db.card[db.device[x]]

ConfigureUpdateBuffers ==
  /\ step = "bind"
  /\ \/ WithoutInputs /\ step' = "failed" /\ UNCHANGED reads
     \/ /\ ~WithoutInputs
        /\ step' = "elsewhere"
        /\ reads' = [x \in Channelled |->
             IF CardOf(x) # None /\ OnCardOf(x, CardOf(x)) THEN CardOf(x) ELSE None]
  /\ UNCHANGED <<db, silenced, buffer, firmware, todo>>

(* "Deal with special case where one device input is not in same           *)
(* application card": this time the channel names the ID of the card, and  *)
(* one that is no card's is passed over.  The flag that says the input is  *)
(* configured is not initialised for devices without a card.               *)
FoundByNumber(i) == {c \in Cards : db.number[c] = db.channel[i].card}
FoundById(i) == {db.channel[i].card} \cap Cards

ConfigureElsewhere ==
  /\ step = "elsewhere"
  /\ \E configured \in SUBSET {i \in Inputs : CardOf(i) = None} :
       reads' = [x \in Channelled |->
         IF x \in Inputs \ configured /\ reads[x] = None /\ FoundById(x) # {}
         THEN CHOOSE c \in FoundById(x) : TRUE ELSE reads[x]]
  /\ step' = "write"
  /\ todo' = Cards
  /\ UNCHANGED <<db, silenced, buffer, firmware>>
-----------------------------------------------------------------------------
(* writeFirmwareConfiguration: a write puts a content in a slot. *)

Fast(c, devices) == {d \in On(c, devices) : db.evaluation[d] = "fast"}

FastInputs(c) == {i \in Inputs : db.device[i] \in Fast(c, Digital)}

DigitalWrites(c) ==
  UNION {LET d == db.device[i]
         IN  {[slot |-> <<"rule", Number(i)>>, turn |-> <<d, 0>>, content |-> <<d>>]}
             \cup (IF <<i>> \in silenced THEN {}
                   ELSE {[slot |-> <<"mask", Number(i)>>, turn |-> <<d, 0>>, content |-> <<d>>]})
         : i \in FastInputs(c)}

(* The classes of an integrator stand together for all channels of the     *)
(* card, and so do the masks.                                              *)
ClassSlotByChannel(c, d, i) == (Number(d) * db.integrators[d] + i) * NumThresholds
ClassSlot(c, d, i) == (Number(d) + i * db.channelCount[c]) * NumThresholds

MaskSlot(c, d, i) == Number(d) + i * db.channelCount[c]

FastParts(c) == {p \in AnalogParts : p[1] \in Fast(c, Analog)}

AnalogWrites(c) ==
  UNION {{[slot |-> <<"class", ClassSlot(c, p[1], p[2]) + j>>, turn |-> p,
           content |-> <<p[1], p[2], j>>] : j \in Thresholds}
         \cup {[slot |-> <<"integrator", MaskSlot(c, p[1], p[2])>>, turn |-> p,
                content |-> IF p \in silenced THEN Zero ELSE p]}
         : p \in FastParts(c)}

Writes(c) == DigitalWrites(c) \cup AnalogWrites(c)

(* The devices are visited in the order of their ids, and the integrators  *)
(* of a device one after the other.                                        *)
NotAfter(v, w) == v[1] < w[1] \/ (v[1] = w[1] /\ v[2] <= w[2])
LastWrite(writes) == CHOOSE w \in writes : \A v \in writes : NotAfter(v.turn, w.turn)

ClearedNever(c) == buffer[c]
Cleared(c) == [s \in Slots |-> Zero]

(* Nobody checks the number of a channel.  A write beyond the bits of the  *)
(* buffer throws; one within them that is beyond the place of its kind in  *)
(* the layout lands in a place of another kind, or where the firmware does *)
(* not look.                                                               *)
Within(c, size) ==
  /\ \A i \in FastInputs(c) : Number(i) < size.channel
  /\ \A p \in FastParts(c) :
       /\ MaskSlot(c, p[1], p[2]) < size.integrator
       /\ ClassSlot(c, p[1], p[2]) + NumThresholds <= size.class

(* A fast digital device must have one input. *)
SeveralInputs(c) == {d \in Fast(c, Digital) : Cardinality(InputsOf(d)) # 1}

Throws(c) == SeveralInputs(c) # {} \/ ~Within(c, Room)

(* What is written of the card.  A writing that throws leaves a part that  *)
(* nobody is given, and of one that does not keep to its places nothing is *)
(* said here.                                                              *)
Written(c) ==
  IF Throws(c) \/ ~Within(c, Area) THEN Unknown
  ELSE [s \in Slots |->
          LET writes == {w \in Writes(c) : w.slot = s}
          IN  IF writes = {} THEN Cleared(c)[s] ELSE LastWrite(writes).content]

(* A card without devices is given what its part of the buffer holds. *)
Empty(c) == On(c, Devices) = {}

WriteConfiguration ==
  /\ step = "write"
  /\ \E c \in todo :
       /\ \A k \in todo : c <= k
       /\ buffer' = IF Empty(c) THEN buffer ELSE [buffer EXCEPT ![c] = Written(c)]
       /\ \/ /\ Throws(c)
             /\ step' = "failed"
             /\ UNCHANGED <<firmware, todo>>
          \/ /\ ~Throws(c)
             /\ firmware' = [firmware EXCEPT ![c] = buffer'[c]]
             /\ todo' = todo \ {c}
             /\ step' = IF todo = {c} THEN "written" ELSE "write"
  /\ UNCHANGED <<db, reads, silenced>>

(* The first update of the inputs: one of a device on a card that has been *)
(* given no part of the message to read makes the update thread throw,     *)
(* which nobody catches.                                                   *)
Unbound == {i \in Inputs : CardOf(i) # None /\ reads[i] = None}

Update ==
  /\ step = "written"
  /\ step' = IF Unbound = {} THEN "running" ELSE "crashed"
  /\ UNCHANGED <<db, reads, silenced, buffer, firmware, todo>>

(* A bypass or an ignore condition comes or goes, and the configuration is *)
(* written again (ConfigReload says when).                                 *)
Silenceable == {<<i>> : i \in Inputs} \cup AnalogParts

Rewrite ==
  /\ step \in {"written", "running"}
  /\ \E x \in Silenceable :
       silenced' = IF x \in silenced THEN silenced \ {x} ELSE silenced \cup {x}
  /\ step' = "write"
  /\ todo' = Cards
  /\ UNCHANGED <<db, reads, buffer, firmware>>

CardNext ==
  \/ Load \/ ConfigureAllowedClasses \/ ConfigureDeviceInputs
  \/ ConfigureAnalogDevices \/ ConfigureIgnoreConditions
  \/ ConfigureApplicationCards \/ ConfigureUpdateBuffers \/ ConfigureElsewhere
  \/ WriteConfiguration \/ Update \/ Rewrite

CardSpec == CardInit /\ [][CardNext]_cardVars
-----------------------------------------------------------------------------
Steps ==
  {"load", "allowed classes", "device inputs", "analog devices",
   "ignore conditions", "cards", "bind", "elsewhere", "write", "written",
   "running", "failed", "crashed"}

Contents ==
  {Garbage, Zero} \cup {<<d>> : d \in Digital} \cup AnalogParts
  \cup {<<p[1], p[2], j>> : p \in AnalogParts, j \in Thresholds}

(* db stays the one of Databases it is from the start. *)
CardTypeOK ==
  /\ step \in Steps
  /\ reads \in [Channelled -> Cards \cup {None}]
  /\ silenced \subseteq Silenceable
  /\ buffer \in [Cards -> [Slots -> Contents]]
  /\ firmware \in [Cards -> [Slots -> Contents]]
  /\ todo \subseteq Cards

(* What the machine cannot do without: every table is there, every field   *)
(* but two can be read, every reference finds its entry but for those that *)
(* are looked up and passed over, no card has devices of both kinds, every *)
(* evaluated device on a card has inputs, a fast one a single one, every   *)
(* input of a device on a card has a card it can be read from, and no rule *)
(* is past the end of the buffer.                                          *)
Optional == {<<"DigitalDevice", "card_id">>, <<"IgnoreCondition", "fault_state_id">>}
PassedOver == {"class state", "state type", "crate"}

HasCard(i) == db.channel[i].card \in Cards
Misled(i) == db.number[CardOf(i)] = db.channel[i].card

Usable ==
  /\ Tables \subseteq db.nodes
  /\ db.nodes \subseteq Tables \cup {"DatabaseInfo", "MitigationDevice", "LinkNode"}
  /\ \A o \in db.odd : <<o.node, o.field>> \in Optional /\ o.value # "missing"
  /\ db.dangling \subseteq PassedOver \cup {"card type"}
  /\ "card type" \in db.dangling => \A d \in Analog : db.card[d] = None
  /\ \A d, e \in Devices :
       d \in Digital /\ e \in Analog /\ db.card[d] # None => db.card[d] # db.card[e]
  /\ \A d \in Digital :
       db.card[d] # None =>
         CASE db.evaluation[d] = "fast" -> Cardinality(InputsOf(d)) = 1
           [] db.evaluation[d] = "slow" -> InputsOf(d) # {}
           [] OTHER -> TRUE
  /\ \A i \in Inputs : CardOf(i) # None => HasCard(i) \/ Misled(i)
  /\ \A c \in Cards : Within(c, Room)

(* A database without a flaw: besides, every reference and every channel   *)
(* finds its entry, and every rule has its place.                          *)
Sound ==
  /\ Usable
  /\ db.dangling = {}
  /\ \A x \in Channelled : HasCard(x)
  /\ \A c \in Cards : Within(c, Area)

(* No database without a flaw is refused, and none brings the process down *)
(* while it is loaded, written or first updated.                           *)
SoundIsAccepted == step \in {"failed", "crashed"} => ~Sound

(* The checks are spread over ten functions and some are commented out, or *)
(* come as an exception or a crash: together they keep a database that is  *)
(* not usable from running the machine.                                    *)
FlawsAreStopped == step = "running" => Usable

(* "The configure*() methods look for the actual item referenced by the    *)
(* foreign key and saves a pointer to the referenced element": in a        *)
(* database that runs, every reference has been resolved.  It has not,     *)
(* where one is passed over (README, section 6).                           *)
ReferencesResolved == step = "running" => db.dangling = {}

(* Every input of a device on a card, wherever its channel is, is read     *)
(* from the part of the update that belongs to the card its channel names, *)
(* unless the NUMBER of the device's card, compared where the ids should   *)
(* be, happens to be the id of that card.                                  *)
ReadsItsCard ==
  step \in {"write", "written", "running"} =>
    \A i \in Inputs :
      CardOf(i) # None /\ HasCard(i) => reads[i] = db.channel[i].card \/ Misled(i)

(* The channels of the fast devices of a card are channels of that card,   *)
(* each of one device, and there is a place for the rules of all.  (The    *)
(* rule of a fast device goes to the card of the DEVICE, at the number its *)
(* channel has on the channel's card.)                                     *)
Consistent(c) ==
  LET channelled == FastInputs(c) \cup Fast(c, Analog)
  IN  /\ \A x \in channelled : db.channel[x].card = c
      /\ \A x, y \in channelled : Number(x) = Number(y) => x = y
      /\ \A d \in Fast(c, Analog) : Number(d) < db.channelCount[c]
      /\ Within(c, Area)

Configured(c) == step \in {"written", "running"} /\ ~Empty(c) /\ Consistent(c)

(* In the firmware, the channel of every fast device has the rule of that  *)
(* device, its mask unless it is bypassed or ignored now, and no other     *)
(* channel has a rule or a mask: none that an earlier writing left.        *)
FirmwareHasRules ==
  \A c \in Cards : Configured(c) =>
    /\ \A n \in 0..(Area.channel - 1) :
         LET here == {i \in FastInputs(c) : Number(i) = n}
         IN  /\ firmware[c][<<"rule", n>>] \in
                  IF here = {} THEN {Zero} ELSE {<<db.device[i]>> : i \in here}
             /\ firmware[c][<<"mask", n>>] \in
                  IF {<<i>> : i \in here} \ silenced = {} THEN {Zero} ELSE {<<db.device[i]>> : i \in here}
    /\ {firmware[c][<<"integrator", n>>] : n \in 0..(Area.integrator - 1)} \ {Zero}
         = FastParts(c) \ silenced

(* The class of a threshold stands in the firmware where the update of the *)
(* device reads that threshold, so that both judge the same comparator.    *)
UpdatePosition(d, i, j) ==
  db.channelCount[db.card[d]] * NumThresholds * i + Number(d) * NumThresholds + j

ThresholdsMatch ==
  \A c \in Cards : Configured(c) =>
    \A d \in Fast(c, Analog) : \A i \in Integrators(d), j \in Thresholds :
      firmware[c][<<"class", UpdatePosition(d, i, j)>>] = <<d, i, j>>
=============================================================================
