--------------------------- MODULE CommandParsing ---------------------------
(***************************************************************************)
(* MapToCommand: from a JSON object to a command.  An object is a function *)
(* from the keys it has to values, a value is its JSON kind and what the   *)
(* code can tell apart of it: a string is itself, of an array of names the *)
(* strings in it are kept (elements of another kind are skipped), of an    *)
(* object its string members.                                              *)
(***************************************************************************)
EXTENDS Naturals, Sequences, TLC

Key == {"command", "serialization", "type", "pv_name", "pv_name_list",
        "pv_field_filter_list", "reply_topic", "monitor_dest_topic",
        "monitor_destination_topic", "value", "reply_id", "snapshot_name",
        "repeat_delay_msec", "time_window_msec", "triggered", "tags",
        "sub_push_delay_msec"}

(* values of the kinds that commands use *)
Str(s)   == [kind |-> "string", v |-> s]
Names(s) == [kind |-> "array", v |-> s]
Num(n)   == [kind |-> "int64", v |-> n]
Flag(b)  == [kind |-> "bool", v |-> b]
Tags(s)  == [kind |-> "object", v |-> s]
Null     == [kind |-> "null", v |-> ""]

(* the command names of getCMDType, and the type each one selects *)
CommandNames ==
  [monitor |-> "monitor", get |-> "get", put |-> "put", info |-> "info",
   snapshot |-> "snapshot", repeating_snapshot |-> "repeating_snapshot",
   repeating_snapshot_stop |-> "repeating_snapshot_stop",
   repeating_snapshot_trigger |-> "repeating_snapshot_trigger"]
  @@ ("multi-monitor" :> "multi_monitor")

CommandType == {CommandNames[n] : n \in DOMAIN CommandNames}

(* as_string throws on any other kind: parse does not return *)
Throws(obj) == "command" \in DOMAIN obj /\ obj["command"].kind # "string"

getCMDType(obj) ==
  IF "command" \in DOMAIN obj /\ obj["command"].v \in DOMAIN CommandNames
    THEN CommandNames[obj["command"].v]
    ELSE "unknown"

(* all required keys are there, each with its kind *)
checkFields(obj, required) ==
  \A k \in DOMAIN required : k \in DOMAIN obj /\ obj[k].kind = required[k]

(* an optional field: the default when it is missing or of another kind.     *)
(* value_to converts between the kinds of numbers: one that is exact in the  *)
(* wanted type, written unsigned or as a double, counts as its kind here.    *)
check_json_field(obj, key, kind, default) ==
  IF key \in DOMAIN obj /\ obj[key].kind = kind THEN obj[key].v ELSE default

(* the members of a map that are strings, nothing when it is no map *)
check_json_field_for_map(obj, key) == check_json_field(obj, key, "object", {})

check_reply_topic(obj)  == check_json_field(obj, "reply_topic", "string", "")
check_for_reply_id(obj) == check_json_field(obj, "reply_id", "string", "")

(* any text but the two names selects the default; the code lowers the case, *)
(* so that every way of writing json is JSON, of which these are two         *)
check_for_serialization(obj) ==
  IF check_json_field(obj, "serialization", "string", "") \in {"json", "JSON"}
    THEN "JSON" ELSE "Msgpack"

snapshot_type_from_string(s) ==
  CASE s \in {"normal", "Normal"} -> "NORMAL"
    [] s \in {"timedbuffered", "TimedBuffered"} -> "TIMED_BUFFERED"
    [] OTHER -> "unknown"

(* what every command has *)
Base(obj) ==
  [type |-> getCMDType(obj), serialization |-> check_for_serialization(obj),
   reply_topic |-> check_reply_topic(obj), reply_id |-> check_for_reply_id(obj)]

NoCommand == [type |-> "nullptr"]

MonitorDestination(obj) ==
  check_json_field(obj, "monitor_dest_topic", "string", check_reply_topic(obj))

ParseMonitor(obj) ==
  IF MonitorDestination(obj) # "" /\ checkFields(obj, [pv_name |-> "string"])
    THEN Base(obj) @@ [pv_name |-> obj["pv_name"].v,
                       monitor_destination_topic |-> MonitorDestination(obj)]
    ELSE NoCommand

ParseMultiMonitor(obj) ==
  IF checkFields(obj, [pv_name_list |-> "array"]) /\ obj["pv_name_list"].v # {}
    THEN Base(obj) @@ [pv_name_list |-> obj["pv_name_list"].v]
    ELSE NoCommand

ParseGet(obj) ==
  IF checkFields(obj, [pv_name |-> "string", reply_topic |-> "string"])
    THEN Base(obj) @@ [pv_name |-> obj["pv_name"].v]
    ELSE NoCommand

ParsePut(obj) ==
  IF checkFields(obj, [pv_name |-> "string", value |-> "string"])
    THEN Base(obj) @@ [pv_name |-> obj["pv_name"].v, value |-> obj["value"].v]
    ELSE NoCommand

ParseInfo(obj) ==
  IF checkFields(obj, [pv_name |-> "string", reply_topic |-> "string"])
    THEN Base(obj) @@ [pv_name |-> obj["pv_name"].v]
    ELSE NoCommand

SnapshotFields == [pv_name_list |-> "array", reply_topic |-> "string", reply_id |-> "string"]

ParseSnapshot(obj) ==
  IF checkFields(obj, SnapshotFields) /\ obj["pv_name_list"].v # {}
    THEN Base(obj) @@
         [pv_name_list |-> obj["pv_name_list"].v,
          time_window_msec |-> check_json_field(obj, "time_window_msec", "int64", 1000)]
    ELSE NoCommand

ParseRepeatingSnapshot(obj) ==
  IF checkFields(obj, SnapshotFields) /\ obj["pv_name_list"].v # {}
    THEN Base(obj) @@
         [pv_name_list |-> obj["pv_name_list"].v,
          snapshot_name |-> check_json_field(obj, "snapshot_name", "string", ""),
          repeat_delay_msec |-> check_json_field(obj, "repeat_delay_msec", "int64", 0),
          time_window_msec |-> check_json_field(obj, "time_window_msec", "int64", 1000),
          sub_push_delay_msec |-> check_json_field(obj, "sub_push_delay_msec", "int64", 0),
          triggered |-> check_json_field(obj, "triggered", "bool", FALSE),
          snapshot_type |->
            snapshot_type_from_string(check_json_field(obj, "type", "string", "normal")),
          pv_field_filter_list |-> check_json_field(obj, "pv_field_filter_list", "array", {})]
    ELSE NoCommand

ReplyFields == [reply_topic |-> "string", reply_id |-> "string"]

ParseStop(obj) ==
  IF checkFields(obj, ReplyFields)
    THEN Base(obj) @@ [snapshot_name |-> check_json_field(obj, "snapshot_name", "string", "")]
    ELSE NoCommand

ParseTrigger(obj) ==
  IF checkFields(obj, ReplyFields)
    THEN Base(obj) @@ [snapshot_name |-> check_json_field(obj, "snapshot_name", "string", ""),
                       tags |-> check_json_field_for_map(obj, "tags")]
    ELSE NoCommand

parse(obj) ==
  CASE getCMDType(obj) = "monitor"       -> ParseMonitor(obj)
    [] getCMDType(obj) = "multi_monitor" -> ParseMultiMonitor(obj)
    [] getCMDType(obj) = "get"           -> ParseGet(obj)
    [] getCMDType(obj) = "put"           -> ParsePut(obj)
    [] getCMDType(obj) = "info"          -> ParseInfo(obj)
    [] getCMDType(obj) = "snapshot"      -> ParseSnapshot(obj)
    [] getCMDType(obj) = "repeating_snapshot" -> ParseRepeatingSnapshot(obj)
    [] getCMDType(obj) = "repeating_snapshot_stop" -> ParseStop(obj)
    [] getCMDType(obj) = "repeating_snapshot_trigger" -> ParseTrigger(obj)
    [] OTHER -> NoCommand

OnlyKnownCommands(obj) == check_for_reply_id(obj) # "" /\ getCMDType(obj) # "unknown"

(* returnFailCommandParsing can tell the client only with both *)
CanReportFailure(obj) == check_for_reply_id(obj) # "" /\ check_reply_topic(obj) # ""
=============================================================================
