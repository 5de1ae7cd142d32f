------------------------- MODULE MCMonitorPublishing -------------------------
(* Instances of MonitorPublishing. *)
EXTENDS MonitorPublishing

CONSTANTS k1, k2

MCCaller == {Task, Worker}
MCMessage == EventMessage \cup {ReplyMessage}
MCSerialization == [k \in Consumer |-> "JSON"]
=============================================================================
