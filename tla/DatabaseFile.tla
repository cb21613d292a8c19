---------------------------- MODULE DatabaseFile ----------------------------
(***************************************************************************)
(* What load demands of the nodes of a database file: for every table it   *)
(* knows, the fields its decode function reads from each entry and what    *)
(* they are converted to.                                                  *)
(***************************************************************************)

(* The kinds of value a field of the file may have; "nested" is not a      *)
(* scalar, "large" does not fit in a short.                                *)
Values == {"number", "large", "text", "truth", "nested", "missing"}

(* What can be converted to an unsigned int, a short, a string, a bool. *)
Accepted ==
  [number |-> {"number", "large"}, short |-> {"number"},
   text |-> {"number", "large", "text", "truth"}, truth |-> {"truth"}]

Crate ==
  [id |-> "number", crate_id |-> "number", num_slots |-> "number",
   shelf_number |-> "number"]

DatabaseInfo ==
  [source |-> "text", user |-> "text", date |-> "text", md5sum |-> "text"]

ApplicationType ==
  [id |-> "number", number |-> "number", analog_channel_count |-> "number",
   analog_channel_size |-> "number", digital_channel_count |-> "number",
   digital_channel_size |-> "number", name |-> "text"]

ApplicationCard ==
  [id |-> "number", number |-> "number", crate_id |-> "number",
   slot_number |-> "number", type_id |-> "number", global_id |-> "number",
   name |-> "text", description |-> "text"]

(* Digital or analog. *)
Channel ==
  [id |-> "number", name |-> "text", number |-> "number", card_id |-> "number"]

DeviceType ==
  [id |-> "number", name |-> "text", num_integrators |-> "number"]

DeviceState ==
  [id |-> "number", value |-> "number", mask |-> "number",
   device_type_id |-> "number", name |-> "text"]

DigitalDevice ==
  [id |-> "number", device_type_id |-> "number", name |-> "text",
   description |-> "text", evaluation |-> "number", card_id |-> "number"]

DeviceInput ==
  [id |-> "number", bit_position |-> "number", fault_value |-> "number",
   digital_device_id |-> "number", channel_id |-> "number",
   auto_reset |-> "number"]

Condition ==
  [id |-> "number", name |-> "text", description |-> "text", value |-> "number"]

IgnoreCondition ==
  [id |-> "number", condition_id |-> "number", fault_state_id |-> "number",
   device_id |-> "number"]

ConditionInput ==
  [id |-> "number", bit_position |-> "number", fault_state_id |-> "number",
   condition_id |-> "number"]

Fault ==
  [id |-> "number", name |-> "text", description |-> "text"]

FaultInput ==
  [id |-> "number", bit_position |-> "number", device_id |-> "number",
   fault_id |-> "number"]

FaultState ==
  [id |-> "number", fault_id |-> "number", device_state_id |-> "number",
   default |-> "truth"]

AnalogDevice ==
  [id |-> "number", device_type_id |-> "number", channel_id |-> "number",
   name |-> "text", description |-> "text", evaluation |-> "number",
   card_id |-> "number"]

BeamDestination ==
  [id |-> "number", name |-> "text", destination_mask |-> "short"]

BeamClass ==
  [id |-> "number", name |-> "text", number |-> "number", min_period |-> "number",
   integration_window |-> "number", total_charge |-> "number",
   description |-> "text"]

AllowedClass ==
  [id |-> "number", beam_class_id |-> "number", fault_state_id |-> "number",
   beam_destination_id |-> "number"]

(* The nodes load decodes, those it knows and skips, and those it can do   *)
(* without.                                                                *)
Fields ==
  [Crate |-> Crate, DatabaseInfo |-> DatabaseInfo,
   ApplicationType |-> ApplicationType, ApplicationCard |-> ApplicationCard,
   DigitalChannel |-> Channel, AnalogChannel |-> Channel,
   DeviceType |-> DeviceType, DeviceState |-> DeviceState,
   DigitalDevice |-> DigitalDevice, DeviceInput |-> DeviceInput,
   Condition |-> Condition, IgnoreCondition |-> IgnoreCondition,
   ConditionInput |-> ConditionInput, Fault |-> Fault, FaultInput |-> FaultInput,
   FaultState |-> FaultState, AnalogDevice |-> AnalogDevice,
   BeamDestination |-> BeamDestination, BeamClass |-> BeamClass,
   AllowedClass |-> AllowedClass]

Skipped == {"MitigationDevice", "LinkNode"}
Known == DOMAIN Fields \cup Skipped
Tables == DOMAIN Fields \ {"DatabaseInfo"}

(* An oddity of the file: an entry of a node has in a field a value that   *)
(* the field cannot be converted from, or no value.                        *)
Oddities ==
  UNION {UNION {{[node |-> n, field |-> f, value |-> v]
                 : v \in Values \ Accepted[Fields[n][f]]}
                : f \in DOMAIN Fields[n]}
         : n \in DOMAIN Fields}

(* A digital device may have no card, and an ignore condition no fault     *)
(* state, but the field must be there.                                     *)
Tolerated(o) ==
  /\ o.value # "missing"
  /\ \/ o.node = "DigitalDevice" /\ o.field = "card_id"
     \/ o.node = "IgnoreCondition" /\ o.field = "fault_state_id"

(* What the decode functions do not catch: the name of a channel. *)
Escapes(o) ==
  o.node \in {"DigitalChannel", "AnalogChannel"} /\ o.field = "name"
  /\ o.value # "missing"

Refused(o) == ~Tolerated(o) /\ ~Escapes(o)
=============================================================================
