--------------------------- MODULE CommandReplies ---------------------------
(***************************************************************************)
(* The messages that answer commands and carry repeating snapshots, as     *)
(* they are laid out on the wire.  A MessagePack map starts with the       *)
(* number of its pairs, written before the pairs are: a wrong number makes *)
(* the rest of the message unreadable.  A wire message keeps that number   *)
(* (header) and the keys in the order they are written.  JSON objects are  *)
(* built key by key and count nothing.                                     *)
(***************************************************************************)
EXTENDS Naturals, Sequences

(* an optional member is written only when it is not empty *)
Opt(key, text) == IF text = "" THEN <<>> ELSE <<key>>

Wire(header, keys) == [header |-> header, keys |-> keys]

(* CommandReply: map_size is what the derived reply adds *)
CommandReplyMsgpack(map_size) == Wire(map_size + 2, <<"error", "reply_id">>)
CommandReplyJson == {"error", "reply_id"}

(* replies that carry the data of a PV: one pair, the PV's name and value *)
DataReplyMsgpack(pv) ==
  LET base == CommandReplyMsgpack(1) IN [base EXCEPT !.keys = @ \o <<pv>>]
DataReplyJson(pv) == CommandReplyJson \cup {pv}

MessageAlwaysCounted(message) ==
  LET base == CommandReplyMsgpack(1) IN [base EXCEPT !.keys = @ \o Opt("message", message)]

(* replies with a message: get faults, put, monitor, snapshot faults *)
MessageReplyMsgpack(message) ==
  LET base == CommandReplyMsgpack(IF message = "" THEN 0 ELSE 1)
  IN [base EXCEPT !.keys = @ \o Opt("message", message)]
MessageReplyJson(message) ==
  CommandReplyJson \cup (IF message = "" THEN {} ELSE {"message"})

(* the compact form counts the message only; no command can select it *)
ContinuousReplyCompact(message, topic) ==
  LET base == CommandReplyMsgpack(IF message = "" THEN 0 ELSE 1)
  IN [base EXCEPT !.keys = @ \o Opt("message", message) \o Opt("publishing_topic", topic)]

(* reply to the commands of a repeating snapshot *)
ContinuousReplyMsgpack(message, topic) ==
  LET fields == (IF message = "" THEN 0 ELSE 1) + (IF topic = "" THEN 0 ELSE 1)
      base == CommandReplyMsgpack(fields)
  IN [base EXCEPT !.keys = @ \o Opt("message", message) \o Opt("publishing_topic", topic)]

(* a reader finds as many pairs as announced, under different keys *)
Decodable(w) ==
  /\ w.header = Len(w.keys)
  /\ \A i, j \in DOMAIN w.keys : w.keys[i] = w.keys[j] => i = j
=============================================================================
