------------------------- MODULE MCCommandPipeline -------------------------
(* Topics for TLC: every kind of message alone, and pairs of the commands *)
(* whose processing takes several steps.                                  *)
EXTENDS CommandPipeline

Message(obj) == [form |-> "object", obj |-> obj]
Named(name) == "command" :> Str(name)
Back == [reply_topic |-> Str("topic"), reply_id |-> Str("id")]
Pva == "pv_name" :> Str("pva://pv")
Json == "serialization" :> Str("json")

GetUnserved == Message(Named("get") @@ Back @@ [pv_name |-> Str("pva://unserved")])
GetCa == Message(Named("get") @@ Back @@ [pv_name |-> Str("ca://pv"), serialization |-> Str("text")])
PutPva == Message(Named("put") @@ Back @@ Pva @@ [value |-> Str("map")])
GetList == Message(Named("get") @@ Back @@ [pv_name |-> Names({"pva://pv"})])

Gets ==
  <<Message(Named("get") @@ Back @@ Pva @@ Json),
   Message(Named("get") @@ Back @@ [pv_name |-> Str("pv")]),
   Message(Named("get") @@ Pva @@ [reply_topic |-> Str("")]),
   Message(Named("get") @@ Pva @@ [reply_topic |-> Num(1), reply_id |-> Str("id")])>>

Puts ==
  [n \in 1 .. 5 |->
     Message(Named("put") @@ Back @@ Pva @@
             [value |-> Str(<<"", "not base64", "not msgpack", "not a map", "map of a union">>[n])])]
  \o
  <<Message(Named("put") @@ Pva @@ [value |-> Str("map"), reply_topic |-> Str("topic")]),
   Message(Named("put") @@ Back @@ Json @@ [value |-> Str("map"), pv_name |-> Str("pv")]),
   Message(Named("put") @@ Back @@ Pva)>>

Monitors ==
  <<Message(Named("monitor") @@ Back @@ Pva),
   Message(Named("monitor") @@ Back @@ Pva @@ [monitor_dest_topic |-> Str("events")]),
   Message(Named("monitor") @@ Pva @@ [reply_id |-> Str("id")]),
   Message(Named("multi-monitor") @@ Back @@ [pv_name_list |-> Names({"pva://pv"})]),
   Message(Named("multi-monitor") @@ Back @@ [pv_name_list |-> Names({})]),
   Message(Named("monitor") @@ Back @@ [pv_name |-> Names({"pva://pv"})])>>

MonitorElsewhere ==
  Message(Named("monitor") @@ Back @@ Pva @@ [monitor_destination_topic |-> Str("events")])

Snapshots ==
  <<Message(Named("snapshot") @@ Back @@ [pv_name_list |-> Names({"pva://pv"})]),
   Message(Named("repeating_snapshot") @@ Back @@
           [pv_name_list |-> Names({"pva://pv"}), snapshot_name |-> Str("s"),
            type |-> Str("TimedBuffered"), triggered |-> Flag(TRUE), repeat_delay_msec |-> Num(5)]),
   Message(Named("snapshot") @@ Back @@ [pv_name_list |-> Names({})]),
   Message(Named("repeating_snapshot_stop") @@ Back @@ [snapshot_name |-> Null]),
   Message(Named("repeating_snapshot_trigger") @@ Back @@ [tags |-> Tags({"tag"})]),
   Message(Named("repeating_snapshot_trigger") @@ [reply_topic |-> Str("topic")])>>

Others ==
  <<[form |-> "empty"], [form |-> "garbage"],
   Message(Named("info") @@ Back @@ Pva),
   Message("command" :> Num(1) @@ Back),
   Message(Back), Message(Named("unheard") @@ Back @@ Json)>>

Alone(messages) == [n \in DOMAIN messages |-> <<messages[n]>>]

AllLogs ==
  Alone(<<GetCa>> \o Gets \o Puts \o Monitors \o Snapshots \o Others)
    \o <<<<GetUnserved, GetUnserved>>, <<PutPva, GetList>>>>
OneMonitor == <<<<MonitorElsewhere>>>>
=============================================================================
