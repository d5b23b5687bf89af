-------------------------------- MODULE Climate --------------------------------
(***************************************************************************)
(* The two vocabularies and the translation between them (protocol.py), the *)
(* merge of what the appliance says into what the bridge knows (state.py),  *)
(* and what Home Assistant is told it may send (ha_discovery.py).           *)
(*                                                                          *)
(* A state, and the result of a message, is a total function on Key; a key  *)
(* that is not there has the value Absent.  Flags are Booleans, levels and  *)
(* temperatures integers.  Of what else a device may send, Odd stands for a *)
(* scalar that no table knows (a string, say), which is true as a flag, and *)
(* Container for a list or an object.  JSON null is not modelled.           *)
(***************************************************************************)
EXTENDS Integers

CONSTANTS Absent, Odd, Container, Unknown   \* Unknown: null in the document

ASSUME Markers ==
    /\ Absent \notin {Odd, Container, Unknown} /\ Odd \notin {Container, Unknown}
    /\ Container # Unknown
    /\ \A m \in {Absent, Odd, Container, Unknown} :
          m \notin Int /\ m \notin BOOLEAN /\ m \notin STRING

Flags == {"poweron", "extra", "eco", "sleep", "oscset1", "oscset2", "muteon",
          "lighton", "childlockon"}
Numbers == {"mode", "windlevel", "templevel", "temperature", "worktime", "wrong"}
Key == Flags \cup Numbers

\* The values a key may have in a state, and what a message may bring.
Value(k) == {Odd} \cup (IF k \in Flags THEN BOOLEAN ELSE Int)

Silent == [k \in Key |-> Absent]
Mentions(result, k) == result[k] \notin {Absent, Container}

-----------------------------------------------------------------------------
(* DeviceState *)

\* Mutants: containers are kept as well; only values that are true are merged.
MergeAnything(known, result) ==
    [k \in Key |-> IF result[k] = Absent THEN known[k] ELSE result[k]]
MergeTruthy(known, result) ==
    [k \in Key |-> IF \/ result[k] \in {Absent, Container}
                      \/ k \in Flags /\ result[k] = FALSE
                   THEN known[k] ELSE result[k]]

\* _merge_scalars: what is not a scalar is dropped.
Merge(known, result) ==
    [k \in Key |-> IF Mentions(result, k) THEN result[k] ELSE known[k]]

HasCoreState(known) == known["poweron"] # Absent /\ known["mode"] # Absent

-----------------------------------------------------------------------------
(* device_state_to_ha *)

HVAC_MODE_TO_DEVICE == [cool |-> 1, dry |-> 2, fan_only |-> 3, heat |-> 4]
FAN_MODE_TO_DEVICE == [low |-> 1, medium |-> 2, high |-> 3, auto |-> 4]

Truthy(v) == v \notin {Absent, FALSE}

\* Mutant: a mode no table knows is shown as it came.
RawName(table, v) ==
    IF v \in Int THEN CHOOSE name \in DOMAIN table : table[name] = v ELSE v

\* _mapped_enum_or_default
NameOf(table, v) ==
    IF \E name \in DOMAIN table : table[name] = v
    THEN CHOOSE name \in DOMAIN table : table[name] = v
    ELSE Unknown

NumberOrNone(v) == IF v \in Int THEN v ELSE Unknown
Swing(v) == IF Truthy(v) THEN "on" ELSE "off"
OnOff(v) == IF v = Absent THEN Unknown ELSE IF Truthy(v) THEN "ON" ELSE "OFF"

HvacMode(s) ==
    IF s["poweron"] = Absent THEN Unknown
    ELSE IF ~Truthy(s["poweron"]) THEN "off"
    ELSE NameOf(HVAC_MODE_TO_DEVICE, s["mode"])

FanMode(s) ==
    IF Truthy(s["extra"]) THEN "extra" ELSE NameOf(FAN_MODE_TO_DEVICE, s["windlevel"])

Preset(s) ==
    IF Truthy(s["eco"]) THEN "eco" ELSE IF Truthy(s["sleep"]) THEN "sleep" ELSE "none"

HaDocument(s) ==
    [power |-> OnOff(s["poweron"]), hvac_mode |-> HvacMode(s),
     target_temp |-> NumberOrNone(s["templevel"]),
     current_temp |-> NumberOrNone(s["temperature"]),
     fan_mode |-> FanMode(s), preset |-> Preset(s),
     swing_v |-> Swing(s["oscset1"]), swing_h |-> Swing(s["oscset2"]),
     mute |-> OnOff(s["muteon"]), light |-> OnOff(s["lighton"]),
     child_lock |-> OnOff(s["childlockon"]),
     runtime |-> NumberOrNone(s["worktime"]), fault |-> NumberOrNone(s["wrong"])]

-----------------------------------------------------------------------------
(* ha_command_to_device.  A command is a topic and a payload, stripped, and   *)
(* case-folded where the code does; a temperature's is the rounded integer.  *)

MIN_TARGET_TEMP_F == 61
MAX_TARGET_TEMP_F == 86

Clamp(t) ==
    IF t < MIN_TARGET_TEMP_F THEN MIN_TARGET_TEMP_F
    ELSE IF t > MAX_TARGET_TEMP_F THEN MAX_TARGET_TEMP_F ELSE t

On == {"ON", "TRUE", "1"}
Off == {"OFF", "FALSE", "0"}

\* What each topic takes; anything else is an UnknownCommandError.
Payloads ==
    [hvac_mode |-> {"off"} \cup DOMAIN HVAC_MODE_TO_DEVICE,
     fan_mode |-> {"extra"} \cup DOMAIN FAN_MODE_TO_DEVICE,
     temperature |-> Int,
     preset |-> {"eco", "sleep", "none"},
     swing |-> {"on", "off"}, swing_horizontal |-> {"on", "off"},
     power |-> On \cup Off, mute |-> On \cup Off, light |-> On \cup Off,
     child_lock |-> On \cup Off]

Accepted(c) == c.topic \in DOMAIN Payloads /\ c.payload \in Payloads[c.topic]

\* _on_off_to_bool and _swing_to_bool
ToBool(payload) == IF payload \in On \cup {"on"} THEN TRUE ELSE FALSE

\* The keys of the topics that set one flag.
FlagOf == [power |-> "poweron", swing |-> "oscset1", swing_horizontal |-> "oscset2",
           mute |-> "muteon", light |-> "lighton", child_lock |-> "childlockon"]

Hvac(mode) ==
    IF mode = "off" THEN [Silent EXCEPT !["poweron"] = FALSE]
    ELSE [Silent EXCEPT !["poweron"] = TRUE, !["mode"] = HVAC_MODE_TO_DEVICE[mode]]

\* Mutant: a speed does not take the boost back.
SpeedOnly(mode) ==
    IF mode = "extra" THEN [Silent EXCEPT !["extra"] = TRUE]
    ELSE [Silent EXCEPT !["windlevel"] = FAN_MODE_TO_DEVICE[mode]]

\* A speed takes back the boost and both presets, as the vendor's app does.
Fan(mode) ==
    IF mode = "extra" THEN [Silent EXCEPT !["extra"] = TRUE]
    ELSE [Silent EXCEPT !["eco"] = FALSE, !["extra"] = FALSE, !["sleep"] = FALSE,
                        !["windlevel"] = FAN_MODE_TO_DEVICE[mode]]

Changes(c) ==
    CASE c.topic = "hvac_mode" -> Hvac(c.payload)
      [] c.topic = "fan_mode" -> Fan(c.payload)
      [] c.topic = "temperature" -> [Silent EXCEPT !["templevel"] = Clamp(c.payload)]
      [] c.topic = "preset" -> [Silent EXCEPT !["eco"] = (c.payload = "eco"),
                                              !["sleep"] = (c.payload = "sleep")]
      [] OTHER -> [Silent EXCEPT ![FlagOf[c.topic]] = ToBool(c.payload)]

-----------------------------------------------------------------------------
(* build_discovery_payload: per command topic, what Home Assistant offers    *)
(* (the preset "none" it adds by itself), and the field it reads it back     *)
(* from; the power topic has no state of its own there.                      *)

Offered ==
    [hvac_mode |-> {"off", "cool", "dry", "fan_only", "heat"},
     fan_mode |-> {"auto", "low", "medium", "high", "extra"},
     temperature |-> MIN_TARGET_TEMP_F .. MAX_TARGET_TEMP_F,
     preset |-> {"eco", "sleep", "none"},
     swing |-> {"on", "off"}, swing_horizontal |-> {"on", "off"},
     power |-> {"ON", "OFF"}, mute |-> {"ON", "OFF"}, light |-> {"ON", "OFF"},
     child_lock |-> {"ON", "OFF"}]

FieldOf ==
    [hvac_mode |-> "hvac_mode", fan_mode |-> "fan_mode", temperature |-> "target_temp",
     preset |-> "preset", swing |-> "swing_v", swing_horizontal |-> "swing_h",
     power |-> "power", mute |-> "mute", light |-> "light", child_lock |-> "child_lock"]

\* The document shows what command c, one that is offered or out of range, asks.
Shows(doc, c) ==
    doc[FieldOf[c.topic]] = IF c.topic = "temperature" THEN Clamp(c.payload) ELSE c.payload
=============================================================================
