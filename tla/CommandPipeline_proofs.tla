----------------------- MODULE CommandPipeline_proofs -----------------------
(***************************************************************************)
(* Proofs about CommandPipeline, for any topic, batch size, number of      *)
(* threads and amount of trouble: what the broker knows as committed was   *)
(* handed over, a process answers a command at most once with a reply that *)
(* can be read, and a put is reported as done only when it was.            *)
(***************************************************************************)
EXTENDS CommandPipeline, FiniteSetTheorems, SequenceTheorems, TLAPS

-----------------------------------------------------------------------------
(* The inductive invariant. *)

\* The topic never changes, and trouble is bounded in all.
TopicInv ==
    /\ log \in Seq(ToSet(log))
    /\ flaps + faults + crashes <= MaxTrouble

\* All that was read before the current batch is covered, and the batch is
\* once consume is through with it; whatever is being committed is covered.
Covered == handled \cup faulted
CoverInv ==
    /\ \A i \in origin + 1 .. committed : i \in Covered
    /\ \A i \in origin + 1 .. committing : i \in Covered
    /\ \A i \in origin + 1 .. first : i \in Covered
    /\ cpc \in {"fetch", "commit", "ended"} => \A i \in origin + 1 .. position : i \in Covered
    /\ cpc = "dispatch" => \A i \in Batch : cmd[i] = NoCommand => i \in handled

\* A command whose worker has not begun: not read yet, or being parsed or
\* dispatched; and one that may have been answered by the parser.
Ahead(i) == i > position \/ (cpc \in {"parse", "dispatch"} /\ i \in Batch)
Rejected(i) == cpc = "dispatch" /\ i \in Batch /\ ~Accepted(i)

\* Nobody answers a command that is still under way.
RepliesInv(i) ==
    /\ replies[i] \in Seq(ToSet(replies[i])) /\ Len(replies[i]) <= 1
    /\ pc[i] # "none" => replies[i] = <<>>
    /\ Ahead(i) => pc[i] = "none"
    /\ Ahead(i) /\ ~Rejected(i) => replies[i] = <<>>

\* An operation that is not open holds nothing, and one that is was made for
\* a name that is well formed.
OpenInv(i) ==
    /\ ~Open(i) => /\ ~conn[i] /\ ~written[i] /\ flight[i] = {}
                   /\ evt[i] = [p \in Part |-> "Fail"]
    /\ pc[i] = "data" => Type(i) = "get"
    /\ Open(i) /\ Type(i) = "get" => ~Malformed(i)

\* The IOC carries a put out at most once for each time the channel connected,
\* and has done so when the put succeeded.
AppliedInv(i) ==
    /\ Ahead(i) \/ pc[i] = "process" => applied[i] = 0
    /\ applied[i] <= flaps + 1
    /\ Open(i) /\ ~(conn[i] /\ written[i]) => applied[i] <= flaps
    /\ written[i] => applied[i] > 0
    /\ Type(i) = "put" /\ evt[i]["a"] = "Success" => applied[i] > 0

\* A reply says what happened, and can be read.
Truthful(i, r) == r.error = 0 /\ Type(i) = "put" => applied[i] > 0
Readable(i, r) ==
    r.ser = "Msgpack" =>
      /\ Decodable(r.body)
      /\ ToSet(r.body.keys) \in {CommandReplyJson, MessageReplyJson("text")}
           \cup (IF Accepted(i) /\ Type(i) = "get" THEN {DataReplyJson(cmd[i].pv_name)} ELSE {})
GoodReplies(i) == \A n \in DOMAIN replies[i] : Truthful(i, replies[i][n]) /\ Readable(i, replies[i][n])

CommandInv(i) == RepliesInv(i) /\ OpenInv(i) /\ AppliedInv(i) /\ GoodReplies(i)

PipelineIInv ==
    /\ TypeOK /\ TopicInv /\ CoverInv
    /\ replies = [i \in Offset |-> replies[i]]
    /\ \A i \in Offset : CommandInv(i)

-----------------------------------------------------------------------------
(* Sequences. *)

LEMMA EmptyFacts == Len(<<>>) = 0 /\ DOMAIN <<>> = {} /\ ToSet(<<>>) = {} /\ <<>> \in Seq({})
  BY DEF ToSet

LEMMA OneReplyFacts ==
  ASSUME NEW a
  PROVE  LET s == Append(<<>>, a)
         IN  s \in Seq(ToSet(s)) /\ Len(s) = 1 /\ s[1] = a /\ DOMAIN s = {1}
  <1> DEFINE s == Append(<<>>, a)
  <1>1. <<>> \in Seq({a}) OBVIOUS
  <1>2. s \in Seq({a}) /\ Len(s) = Len(<<>>) + 1 /\ s[Len(<<>>) + 1] = a
    BY <1>1, AppendProperties
  <1>3. Len(s) = 1 /\ s[1] = a BY <1>2, EmptyFacts
  <1> HIDE DEF s
  <1>4. DOMAIN s = {1} BY <1>2, <1>3
  <1>5. ToSet(s) = {a} BY <1>3, <1>4 DEF ToSet
  <1> QED BY <1>2, <1>3, <1>4, <1>5 DEF s

LEMMA TailType ==
  ASSUME NEW S, NEW s \in Seq(S), s # <<>>
  PROVE  Tail(s) \in Seq(S)
  OBVIOUS

-----------------------------------------------------------------------------
(* The replies on the wire. *)

\* Every pair is announced.
LEMMA CommandWire ==
  Decodable(CommandReplyMsgpack(0)) /\ ToSet(CommandReplyMsgpack(0).keys) = CommandReplyJson
  <1> DEFINE w == CommandReplyMsgpack(0)
  <1>1. w.header = 2 /\ w.keys = <<"error", "reply_id">> BY DEF CommandReplyMsgpack, Wire
  <1> HIDE DEF w
  <1>2. Len(w.keys) = 2 /\ DOMAIN w.keys = {1, 2} /\ w.keys[1] = "error" /\ w.keys[2] = "reply_id"
    BY <1>1
  <1> QED BY <1>1, <1>2 DEF w, Decodable, ToSet, CommandReplyJson

LEMMA PairAppended ==
  ASSUME NEW key, key \notin {"error", "reply_id"},
         NEW w, w.header = 3, w.keys = <<"error", "reply_id">> \o <<key>>
  PROVE  Decodable(w) /\ ToSet(w.keys) = {"error", "reply_id", key}
  <1> DEFINE s == <<"error", "reply_id">>
             t == <<key>>
             S == {"error", "reply_id", key}
  <1>1. s \in Seq(S) /\ Len(s) = 2 /\ s[1] = "error" /\ s[2] = "reply_id" OBVIOUS
  <1>2. t \in Seq(S) /\ Len(t) = 1 /\ t[1] = key OBVIOUS
  <1> HIDE DEF s, t
  <1>3. w.keys = s \o t BY DEF s, t
  <1>4. /\ w.keys \in Seq(S) /\ Len(w.keys) = 3
        /\ \A i \in 1 .. 3 : w.keys[i] = IF i <= 2 THEN s[i] ELSE t[i - 2]
    BY <1>1, <1>2, <1>3, ConcatProperties
  <1>5. w.keys[1] = "error" /\ w.keys[2] = "reply_id" /\ w.keys[3] = key
    BY <1>1, <1>2, <1>4
  <1>6. DOMAIN w.keys = {1, 2, 3} BY <1>4
  <1>7. Decodable(w) BY <1>4, <1>5, <1>6 DEF Decodable
  <1>8. ToSet(w.keys) = {"error", "reply_id", key} BY <1>5, <1>6 DEF ToSet
  <1> QED BY <1>7, <1>8

LEMMA DataWire ==
  ASSUME NEW pv, pv \notin {"error", "reply_id"}
  PROVE  Decodable(DataReplyMsgpack(pv)) /\ ToSet(DataReplyMsgpack(pv).keys) = DataReplyJson(pv)
  <1> DEFINE w == DataReplyMsgpack(pv)
  <1>1. w.header = 3 /\ w.keys = <<"error", "reply_id">> \o <<pv>>
    BY DEF DataReplyMsgpack, CommandReplyMsgpack, Wire
  <1> HIDE DEF w
  <1>2. Decodable(w) /\ ToSet(w.keys) = {"error", "reply_id", pv} BY <1>1, PairAppended
  <1> QED BY <1>2 DEF w, DataReplyJson, CommandReplyJson

LEMMA MessageWire ==
  ASSUME NEW m
  PROVE  /\ Decodable(MessageReplyMsgpack(m))
         /\ ToSet(MessageReplyMsgpack(m).keys) \in {CommandReplyJson, MessageReplyJson("text")}
  <1> DEFINE w == MessageReplyMsgpack(m)
  <1>1. CASE m = ""
    <2>1. w = [CommandReplyMsgpack(0) EXCEPT !.keys = @ \o <<>>]
      BY <1>1, Zenon DEF MessageReplyMsgpack, Opt
    <2>2. w.header = 2 /\ w.keys = <<"error", "reply_id">> \o <<>>
      BY <2>1 DEF CommandReplyMsgpack, Wire
    <2> HIDE DEF w
    <2>3. w.keys = <<"error", "reply_id">> BY <2>2
    <2>4. Len(w.keys) = 2 /\ DOMAIN w.keys = {1, 2} /\ w.keys[1] = "error" /\ w.keys[2] = "reply_id"
      BY <2>3
    <2> QED BY <2>2, <2>4 DEF w, Decodable, ToSet, CommandReplyJson
  <1>2. CASE m # ""
    <2>1. w = [CommandReplyMsgpack(1) EXCEPT !.keys = @ \o <<"message">>]
      BY <1>2, Zenon DEF MessageReplyMsgpack, Opt
    <2>2. w.header = 3 /\ w.keys = <<"error", "reply_id">> \o <<"message">>
      BY <2>1 DEF CommandReplyMsgpack, Wire
    <2> HIDE DEF w
    <2>3. Decodable(w) /\ ToSet(w.keys) = {"error", "reply_id", "message"} BY <2>2, PairAppended
    <2>4. MessageReplyJson("text") = {"error", "reply_id"} \cup {"message"}
      BY Zenon DEF MessageReplyJson, CommandReplyJson
    <2> QED BY <2>3, <2>4 DEF w
  <1> QED BY <1>1, <1>2

-----------------------------------------------------------------------------
(* Types. *)

PcType == pc \in [Offset -> {"none", "process", "check", "relax", "data"}]
OpType ==
    /\ conn \in [Offset -> BOOLEAN] /\ written \in [Offset -> BOOLEAN]
    /\ flight \in [Offset -> SUBSET Part] /\ done \in [Offset -> SUBSET Part]
    /\ evt \in [Offset -> [Part -> Event]]
    /\ expired \in [Offset -> BOOLEAN]
    /\ flaps \in 0 .. MaxTrouble
    /\ applied \in [Offset -> 0 .. MaxTrouble + 1]
ReadType ==
    /\ position \in 0 .. Len(log) /\ first \in 0 .. position
    /\ committed \in 0 .. Len(log) /\ committing \in 0 .. position
    /\ origin \in 0 .. Len(log)
    /\ cpc \in {"fetch", "parse", "dispatch", "commit", "ended"}
    /\ run \in BOOLEAN /\ node \in {"serving", "draining", "gone"}
HistType ==
    /\ handled \subseteq Offset /\ faulted \subseteq Offset
    /\ faults \in 0 .. MaxTrouble /\ crashes \in 0 .. MaxTrouble

LEMMA TypeParts ==
  /\ TypeOK <=> ReadType /\ queue \in Seq(Offset) /\ PcType /\ OpType /\ HistType
  /\ TypeOK' <=> ReadType' /\ queue' \in Seq(Offset') /\ PcType' /\ OpType' /\ HistType'
  BY DEF TypeOK, ReadType, PcType, OpType, HistType

-----------------------------------------------------------------------------
(* Steps of one command. *)

\* What a step for command i leaves alone.
Elsewhere(i) ==
    /\ UNCHANGED <<topicVars, cmd, first, cpc, run, node, histVars>>
    /\ flaps' >= flaps
    /\ \A j \in Offset : j # i =>
         /\ pc'[j] = pc[j] /\ conn'[j] = conn[j] /\ flight'[j] = flight[j] /\ written'[j] = written[j]
         /\ evt'[j] = evt[j] /\ applied'[j] = applied[j] /\ replies'[j] = replies[j]

LEMMA OneCommand ==
  ASSUME PipelineIInv, NEW i \in Offset, Elsewhere(i),
         queue' \in Seq(Offset), PcType', OpType', flaps' + faults + crashes <= MaxTrouble,
         replies' = [j \in Offset |-> replies'[j]], CommandInv(i)'
  PROVE  PipelineIInv'
  <1>0. UNCHANGED <<topicVars, cmd, first, cpc, run, node, histVars>> BY DEF Elsewhere
  <1>1. /\ UNCHANGED <<log, position, committed, committing, origin>>
        /\ UNCHANGED <<cmd, first, cpc, run, node>>
        /\ UNCHANGED <<handled, faulted, faults, crashes>>
        /\ Offset' = Offset
    BY <1>0 DEF topicVars, histVars, Offset
  <1>2. TypeOK'
    <2>1. ReadType' BY <1>1 DEF PipelineIInv, TypeOK, ReadType
    <2>2. HistType' BY <1>1 DEF PipelineIInv, TypeOK, HistType
    <2> QED BY <1>1, <2>1, <2>2, TypeParts
  <1>3. TopicInv' BY <1>1 DEF PipelineIInv, TopicInv
  <1>4. CoverInv' BY <1>1 DEF PipelineIInv, CoverInv, Covered, Batch
  <1>5. ASSUME NEW j \in Offset, j # i PROVE CommandInv(j)'
    <2>1. /\ pc'[j] = pc[j] /\ conn'[j] = conn[j] /\ flight'[j] = flight[j] /\ written'[j] = written[j]
          /\ evt'[j] = evt[j] /\ applied'[j] = applied[j] /\ replies'[j] = replies[j]
          /\ flaps' >= flaps
      BY <1>5 DEF Elsewhere
    <2>2. CommandInv(j) BY DEF PipelineIInv
    <2>3. /\ Ahead(j)' <=> Ahead(j)
          /\ Rejected(j)' <=> Rejected(j)
          /\ Open(j)' <=> Open(j)
          /\ Malformed(j)' <=> Malformed(j)
          /\ Type(j)' = Type(j)
      BY <1>1, <2>1 DEF Ahead, Rejected, Open, Malformed, Type, Batch, Accepted
    <2>4. RepliesInv(j)' BY <2>1, <2>2, <2>3 DEF CommandInv, RepliesInv
    <2>5. OpenInv(j)' BY <2>1, <2>2, <2>3 DEF CommandInv, OpenInv
    <2>6. AppliedInv(j)'
      <3>1. /\ Ahead(j) \/ pc[j] = "process" => applied[j] = 0
            /\ written[j] => applied[j] > 0
            /\ Type(j) = "put" /\ evt[j]["a"] = "Success" => applied[j] > 0
        BY <2>2 DEF CommandInv, AppliedInv
      <3>2. /\ applied[j] <= flaps + 1
            /\ Open(j) /\ ~(conn[j] /\ written[j]) => applied[j] <= flaps
        BY <2>2 DEF CommandInv, AppliedInv
      <3>3. applied[j] \in Int /\ flaps \in Int /\ flaps' \in Int
        <4>1. applied \in [Offset -> 0 .. MaxTrouble + 1] /\ flaps \in 0 .. MaxTrouble
          BY TypeParts DEF PipelineIInv, OpType
        <4>2. flaps' \in 0 .. MaxTrouble BY DEF OpType
        <4> QED BY <4>1, <4>2
      <3>4. applied[j] <= flaps' + 1 BY <2>1, <3>2, <3>3
      <3>5. Open(j) /\ ~(conn[j] /\ written[j]) => applied[j] <= flaps' BY <2>1, <3>2, <3>3
      <3> QED BY <2>1, <2>3, <3>1, <3>4, <3>5 DEF AppliedInv
    <2>7. GoodReplies(j)'
      BY <1>1, <2>1, <2>2, <2>3 DEF CommandInv, GoodReplies, Truthful, Readable, Accepted
    <2> QED BY <2>4, <2>5, <2>6, <2>7 DEF CommandInv
  <1>6. \A j \in Offset : CommandInv(j)' BY <1>5
  <1> QED BY <1>1, <1>2, <1>3, <1>4, <1>6 DEF PipelineIInv

Steady == UNCHANGED <<topicVars, cmd, first, cpc, run, node, histVars>>

\* The operators over the topic and the commands do not change in such a step.
LEMMA SteadyFacts ==
  ASSUME Steady, NEW i
  PROVE  /\ UNCHANGED log /\ Offset' = Offset /\ UNCHANGED cmd /\ UNCHANGED faults /\ UNCHANGED crashes
         /\ Ahead(i)' <=> Ahead(i)
         /\ Rejected(i)' <=> Rejected(i)
         /\ Type(i)' = Type(i)
         /\ Malformed(i)' <=> Malformed(i)
         /\ Accepted(i)' <=> Accepted(i)
  <1>1. /\ UNCHANGED <<log, position, committed, committing, origin>>
        /\ UNCHANGED <<cmd, first, cpc, run, node>>
        /\ UNCHANGED <<handled, faulted, faults, crashes>>
    BY DEF Steady, topicVars, histVars
  <1> QED BY <1>1 DEF Offset, Ahead, Rejected, Type, Malformed, Accepted, Batch

\* What a step for command i does to the tasks and operations of the others.
OthersPc(i) == \A j \in Offset : j # i => pc'[j] = pc[j]
OthersOp(i) == \A j \in Offset : j # i =>
    /\ conn'[j] = conn[j] /\ flight'[j] = flight[j] /\ written'[j] = written[j]
    /\ evt'[j] = evt[j] /\ applied'[j] = applied[j]
OthersReplies(i) == \A j \in Offset : j # i => replies'[j] = replies[j]

LEMMA PcEffect ==
  ASSUME PcType, UNCHANGED log, NEW i \in Offset,
         NEW point \in {"none", "process", "check", "relax", "data"}, pc' = [pc EXCEPT ![i] = point]
  PROVE  PcType' /\ OthersPc(i) /\ pc'[i] = point
  BY DEF PcType, OthersPc, Offset

LEMMA CloseEffect ==
  ASSUME PcType, OpType, UNCHANGED log, NEW i \in Offset, Close(i)
  PROVE  /\ PcType' /\ OthersPc(i) /\ pc'[i] = "none"
         /\ OpType' /\ OthersOp(i) /\ flaps' = flaps /\ applied'[i] = applied[i]
         /\ ~conn'[i] /\ ~written'[i] /\ flight'[i] = {} /\ evt'[i] = [p \in Part |-> "Fail"]
  <1>1. /\ pc' = [pc EXCEPT ![i] = "none"]
        /\ conn' = [conn EXCEPT ![i] = FALSE]
        /\ flight' = [flight EXCEPT ![i] = {}]
        /\ written' = [written EXCEPT ![i] = FALSE]
        /\ done' = [done EXCEPT ![i] = {}]
        /\ evt' = [evt EXCEPT ![i] = [p \in Part |-> "Fail"]]
        /\ expired' = [expired EXCEPT ![i] = FALSE]
        /\ UNCHANGED <<flaps, applied>> /\ Offset' = Offset
    BY DEF Close, Offset
  <1>2. PcType' /\ OthersPc(i) /\ pc'[i] = "none" BY <1>1, PcEffect
  <1>3. conn' \in [Offset -> BOOLEAN] /\ ~conn'[i] /\ \A j \in Offset : j # i => conn'[j] = conn[j]
    BY <1>1 DEF OpType
  <1>4. written' \in [Offset -> BOOLEAN] /\ ~written'[i] /\ \A j \in Offset : j # i => written'[j] = written[j]
    BY <1>1 DEF OpType
  <1>5. flight' \in [Offset -> SUBSET Part] /\ flight'[i] = {} /\ \A j \in Offset : j # i => flight'[j] = flight[j]
    BY <1>1 DEF OpType
  <1>6. done' \in [Offset -> SUBSET Part] /\ expired' \in [Offset -> BOOLEAN] BY <1>1 DEF OpType
  <1>7. /\ evt' \in [Offset -> [Part -> Event]] /\ evt'[i] = [p \in Part |-> "Fail"]
        /\ \A j \in Offset : j # i => evt'[j] = evt[j]
    <2>1. [p \in Part |-> "Fail"] \in [Part -> Event] BY DEF Event
    <2> QED BY <1>1, <2>1 DEF OpType
  <1>8. OpType' BY <1>1, <1>3, <1>4, <1>5, <1>6, <1>7 DEF OpType
  <1>9. OthersOp(i) BY <1>1, <1>3, <1>4, <1>5, <1>7 DEF OthersOp
  <1> QED BY <1>1, <1>2, <1>3, <1>4, <1>5, <1>7, <1>8, <1>9

LEMMA OpUnchanged ==
  ASSUME OpType, UNCHANGED log, UNCHANGED opVars, NEW i \in Offset
  PROVE  /\ OpType' /\ OthersOp(i) /\ flaps' = flaps /\ applied'[i] = applied[i]
         /\ conn'[i] = conn[i] /\ written'[i] = written[i] /\ flight'[i] = flight[i] /\ evt'[i] = evt[i]
  BY DEF OpType, OthersOp, opVars, Offset

LEMMA SendEffect ==
  ASSUME replies = [j \in Offset |-> replies[j]], NEW i \in Offset, NEW r, Send(i, r)
  PROVE  /\ replies' = [j \in Offset |-> replies'[j]] /\ OthersReplies(i)
         /\ replies'[i] = Append(replies[i], r)
  <1>1. replies' = [replies EXCEPT ![i] = Append(replies[i], r)] BY DEF Send
  <1>2. DOMAIN replies = Offset OBVIOUS
  <1>3. replies'[i] = Append(replies[i], r) /\ \A j \in Offset : j # i => replies'[j] = replies[j]
    BY <1>1, <1>2
  <1>4. replies' = [j \in Offset |-> IF j = i THEN Append(replies[i], r) ELSE replies[j]]
    BY <1>1, <1>2
  <1>5. replies' = [j \in Offset |-> replies'[j]] BY <1>4
  <1> QED BY <1>3, <1>5 DEF OthersReplies

LEMMA ManageEffect ==
  ASSUME replies = [j \in Offset |-> replies[j]], NEW i \in Offset, NEW e, NEW m, ManageReply(i, e, m)
  PROVE  /\ replies' = [j \in Offset |-> replies'[j]] /\ OthersReplies(i)
         /\ replies'[i] = replies[i] \/ replies'[i] = Append(replies[i], MessageReply(i, e, m))
  <1>1. CASE CanReply(i)
    <2>1. PICK r : r = MessageReply(i, e, m) OBVIOUS
    <2>2. Send(i, r) BY <1>1, <2>1 DEF ManageReply
    <2>3. /\ replies' = [j \in Offset |-> replies'[j]] /\ OthersReplies(i)
          /\ replies'[i] = Append(replies[i], r)
      BY <2>2, SendEffect
    <2> QED BY <2>1, <2>3
  <1>2. CASE ~CanReply(i) BY <1>2 DEF ManageReply, OthersReplies
  <1> QED BY <1>1, <1>2

LEMMA MessageReplyFacts ==
  ASSUME NEW i, NEW e, NEW m
  PROVE  MessageReply(i, e, m).error = e /\ Readable(i, MessageReply(i, e, m))
  <1> DEFINE r == MessageReply(i, e, m)
  <1>1. /\ r.error = e /\ r.ser = cmd[i].serialization
        /\ r.ser # "JSON" => r.body = MessageReplyMsgpack(m)
    BY DEF MessageReply, Reply
  <1> HIDE DEF r
  <1>2. r.ser = "Msgpack" => r.body = MessageReplyMsgpack(m) BY <1>1
  <1>3. Readable(i, r) BY <1>2, MessageWire DEF Readable
  <1> QED BY <1>1, <1>3 DEF r

\* The reply that ends a command.
LEMMA Answered ==
  ASSUME NEW i, NEW r, replies[i] = <<>>,
         replies'[i] = replies[i] \/ replies'[i] = Append(replies[i], r),
         Truthful(i, r)', Readable(i, r)'
  PROVE  /\ replies'[i] \in Seq(ToSet(replies'[i])) /\ Len(replies'[i]) <= 1
         /\ GoodReplies(i)'
  <1>1. CASE replies'[i] = <<>>
    <2>1. DOMAIN replies'[i] = {} BY <1>1, EmptyFacts
    <2>2. GoodReplies(i)' BY <2>1 DEF GoodReplies
    <2>3. Len(replies'[i]) = 0 BY <1>1, EmptyFacts
    <2>4. replies'[i] \in Seq(ToSet(replies'[i])) BY <1>1, EmptyFacts
    <2> QED BY <2>2, <2>3, <2>4
  <1>2. CASE replies'[i] = Append(<<>>, r)
    <2> DEFINE s == Append(<<>>, r)
    <2>1. s \in Seq(ToSet(s)) /\ Len(s) = 1 /\ s[1] = r /\ DOMAIN s = {1} BY OneReplyFacts
    <2> HIDE DEF s
    <2>2. replies'[i] = s BY <1>2 DEF s
    <2>3. DOMAIN replies'[i] = {1} /\ replies'[i][1] = r BY <2>1, <2>2
    <2>4. GoodReplies(i)' BY <2>3 DEF GoodReplies
    <2>5. Len(replies'[i]) = 1 BY <2>1, <2>2
    <2>6. Len(replies'[i]) <= 1 BY <2>5
    <2>7. replies'[i] \in Seq(ToSet(replies'[i])) BY <2>1, <2>2
    <2> QED BY <2>4, <2>6, <2>7
  <1> QED BY <1>1, <1>2

\* The task of a command ends, with a good reply or with none.
LEMMA Ended ==
  ASSUME PipelineIInv, Steady, NEW i \in Offset, pc[i] # "none",
         queue' \in Seq(Offset), PcType', OthersPc(i), pc'[i] = "none",
         OpType', OthersOp(i), flaps' = flaps, applied'[i] = applied[i],
         ~conn'[i], ~written'[i], flight'[i] = {}, evt'[i] = [p \in Part |-> "Fail"],
         replies' = [j \in Offset |-> replies'[j]], OthersReplies(i),
         NEW r, replies'[i] = replies[i] \/ replies'[i] = Append(replies[i], r),
         Truthful(i, r), Readable(i, r)
  PROVE  PipelineIInv'
  <1>1. CommandInv(i) BY DEF PipelineIInv
  <1>2. replies[i] = <<>> /\ ~Ahead(i) BY <1>1 DEF CommandInv, RepliesInv
  <1>3. Truthful(i, r)' /\ Readable(i, r)'
    BY SteadyFacts DEF Truthful, Readable
  <1>4. /\ replies'[i] \in Seq(ToSet(replies'[i])) /\ Len(replies'[i]) <= 1 /\ GoodReplies(i)'
    BY <1>2, <1>3, Answered
  <1>5. ~Ahead(i)' /\ ~Open(i)' BY <1>2, SteadyFacts DEF Open
  <1>6. RepliesInv(i)' BY <1>4, <1>5 DEF RepliesInv
  <1>7. OpenInv(i)' BY <1>5 DEF OpenInv
  <1>8. AppliedInv(i)'
    <2>1. applied[i] <= flaps + 1 BY <1>1 DEF CommandInv, AppliedInv
    <2>2. evt'[i]["a"] = "Fail" BY DEF Part
    <2> QED BY <1>5, <2>1, <2>2 DEF AppliedInv
  <1>9. CommandInv(i)' BY <1>4, <1>6, <1>7, <1>8 DEF CommandInv
  <1>10. Elsewhere(i)
    <2>1. flaps' >= flaps
      <3>1. flaps \in 0 .. MaxTrouble BY DEF PipelineIInv, TypeOK
      <3> QED BY <3>1
    <2> QED BY <2>1 DEF Elsewhere, Steady, OthersPc, OthersOp, OthersReplies
  <1>11. flaps' + faults + crashes <= MaxTrouble BY DEF PipelineIInv, TopicInv
  <1> QED BY <1>9, <1>10, <1>11, OneCommand

\* The task of a command goes on, and nothing is told to the client.
LEMMA GoesOn ==
  ASSUME PipelineIInv, Steady, NEW i \in Offset, pc[i] # "none",
         queue' \in Seq(Offset), PcType', OthersPc(i), pc'[i] \in {"check", "relax", "data"},
         UNCHANGED opVars, UNCHANGED replies,
         pc'[i] = "data" => Type(i) = "get",
         pc[i] = "process" /\ Type(i) = "get" => ~Malformed(i)
  PROVE  PipelineIInv'
  <1>1. CommandInv(i) BY DEF PipelineIInv
  <1>2. replies[i] = <<>> /\ ~Ahead(i) BY <1>1 DEF CommandInv, RepliesInv
  <1>3. ~Ahead(i)' /\ Open(i)' /\ (Malformed(i)' <=> Malformed(i)) /\ Type(i)' = Type(i)
    BY <1>2, SteadyFacts DEF Open
  <1>4. pc[i] = "process" \/ Open(i)
    <2>1. pc[i] \in {"none", "process", "check", "relax", "data"} BY DEF PipelineIInv, TypeOK
    <2> QED BY <2>1 DEF Open
  <1>5. OpType BY TypeParts DEF PipelineIInv
  <1>6. UNCHANGED log BY SteadyFacts
  <1>7. /\ OpType' /\ OthersOp(i) /\ flaps' = flaps /\ applied'[i] = applied[i]
        /\ conn'[i] = conn[i] /\ written'[i] = written[i] /\ flight'[i] = flight[i] /\ evt'[i] = evt[i]
    BY <1>5, <1>6, OpUnchanged
  <1>8. applied[i] \in Nat /\ flaps \in Nat BY <1>5 DEF OpType
  <1>9. RepliesInv(i)'
    BY <1>1, <1>2, <1>3 DEF CommandInv, RepliesInv
  <1>10. OpenInv(i)'
    <2>1. Open(i) /\ Type(i) = "get" => ~Malformed(i) BY <1>1 DEF CommandInv, OpenInv
    <2> QED BY <1>3, <1>4, <2>1 DEF OpenInv
  <1>11. AppliedInv(i)'
    <2>1. ~(conn[i] /\ written[i]) => applied[i] <= flaps
      <3>1. CASE pc[i] = "process"
        <4>1. applied[i] = 0 BY <1>1, <3>1 DEF CommandInv, AppliedInv
        <4> QED BY <1>8, <4>1
      <3>2. CASE Open(i) BY <1>1, <3>2 DEF CommandInv, AppliedInv
      <3> QED BY <1>4, <3>1, <3>2
    <2>2. /\ applied[i] <= flaps + 1 /\ (written[i] => applied[i] > 0)
          /\ Type(i) = "put" /\ evt[i]["a"] = "Success" => applied[i] > 0
      BY <1>1 DEF CommandInv, AppliedInv
    <2>3. pc'[i] # "process" OBVIOUS
    <2> QED BY <1>3, <1>7, <2>1, <2>2, <2>3 DEF AppliedInv
  <1>12. GoodReplies(i)'
    <2>1. DOMAIN replies'[i] = {} BY <1>2, EmptyFacts
    <2> QED BY <2>1 DEF GoodReplies
  <1>13. CommandInv(i)' BY <1>9, <1>10, <1>11, <1>12 DEF CommandInv
  <1>14. Elsewhere(i)
    <2>1. flaps' >= flaps BY <1>7, <1>8
    <2> QED BY <1>7, <2>1 DEF Elsewhere, Steady, OthersPc, OthersOp
  <1>15. flaps' + faults + crashes <= MaxTrouble BY <1>7 DEF PipelineIInv, TopicInv
  <1>16. replies' = [j \in Offset |-> replies'[j]] BY DEF PipelineIInv
  <1> QED BY <1>7, <1>13, <1>14, <1>15, <1>16, OneCommand

-----------------------------------------------------------------------------
(* The workers. *)

\* What the invariant says to a step of a worker.
LEMMA WorkerFacts ==
  ASSUME PipelineIInv, NEW i \in Offset
  PROVE  /\ queue \in Seq(Offset) /\ PcType /\ OpType /\ replies = [j \in Offset |-> replies[j]]
         /\ queue # <<>> => Tail(queue) \in Seq(Offset) /\ Append(Tail(queue), i) \in Seq(Offset)
         /\ Append(queue, i) \in Seq(Offset)
         /\ CommandInv(i)
  <1>1. queue \in Seq(Offset) /\ PcType /\ OpType BY TypeParts DEF PipelineIInv
  <1>2. queue # <<>> => Tail(queue) \in Seq(Offset) BY <1>1, TailType
  <1>3. Append(queue, i) \in Seq(Offset) BY <1>1, AppendProperties
  <1>4. queue # <<>> => Append(Tail(queue), i) \in Seq(Offset)
    <2>1. ASSUME NEW S, NEW q \in Seq(S), NEW x \in S PROVE Append(q, x) \in Seq(S) OBVIOUS
    <2> QED BY <1>2, <2>1
  <1> QED BY <1>1, <1>2, <1>3, <1>4 DEF PipelineIInv

LEMMA StartedInductive ==
  ASSUME PipelineIInv, Steady, NEW i \in Offset, Takes(i, "process"), Started(i), UNCHANGED opVars,
         Type(i) = "get" => ~Malformed(i)
  PROVE  PipelineIInv'
  <1>1. /\ queue # <<>> /\ pc[i] = "process" /\ pc' = [pc EXCEPT ![i] = "check"]
        /\ queue' = Append(Tail(queue), i) /\ UNCHANGED replies
    BY DEF Takes, Started
  <1>2. PcType /\ queue' \in Seq(Offset) BY <1>1, WorkerFacts
  <1>3. PcType' /\ OthersPc(i) /\ pc'[i] = "check" BY <1>1, <1>2, PcEffect, SteadyFacts
  <1> QED BY <1>1, <1>2, <1>3, GoesOn

LEMMA RefusedInductive ==
  ASSUME PipelineIInv, Steady, NEW i \in Offset, Takes(i, "process"), UNCHANGED opVars,
         NEW e, e # 0, NEW m, Refused(i, e, m)
  PROVE  PipelineIInv'
  <1>1. /\ queue # <<>> /\ pc[i] = "process" /\ pc' = [pc EXCEPT ![i] = "none"]
        /\ queue' = Tail(queue) /\ ManageReply(i, e, m)
    BY DEF Takes, Refused
  <1>2. PcType /\ OpType /\ queue' \in Seq(Offset) /\ replies = [j \in Offset |-> replies[j]] /\ CommandInv(i)
    BY <1>1, WorkerFacts
  <1>3. PcType' /\ OthersPc(i) /\ pc'[i] = "none" BY <1>1, <1>2, PcEffect, SteadyFacts
  <1>4. /\ OpType' /\ OthersOp(i) /\ flaps' = flaps /\ applied'[i] = applied[i]
        /\ conn'[i] = conn[i] /\ written'[i] = written[i] /\ flight'[i] = flight[i] /\ evt'[i] = evt[i]
    BY <1>2, OpUnchanged, SteadyFacts
  <1>5. ~conn[i] /\ ~written[i] /\ flight[i] = {} /\ evt[i] = [p \in Part |-> "Fail"]
    <2>1. ~Open(i) BY <1>1 DEF Open
    <2> QED BY <1>2, <2>1 DEF CommandInv, OpenInv
  <1>6. PICK r : r = MessageReply(i, e, m) OBVIOUS
  <1>7. /\ replies' = [j \in Offset |-> replies'[j]] /\ OthersReplies(i)
        /\ replies'[i] = replies[i] \/ replies'[i] = Append(replies[i], r)
    BY <1>1, <1>2, <1>6, ManageEffect
  <1>8. Truthful(i, r) /\ Readable(i, r) BY <1>6, MessageReplyFacts DEF Truthful
  <1> QED BY <1>1, <1>2, <1>3, <1>4, <1>5, <1>7, <1>8, Ended

\* A worker that closes the operation and tells the client what happened.
LEMMA ReportedInductive ==
  ASSUME PipelineIInv, Steady, NEW i \in Offset, pc[i] # "none", queue' \in Seq(Offset), Close(i),
         NEW e, NEW m, ManageReply(i, e, m), e = 0 /\ Type(i) = "put" => applied[i] > 0
  PROVE  PipelineIInv'
  <1>2. PcType /\ OpType /\ replies = [j \in Offset |-> replies[j]] BY WorkerFacts
  <1>4. /\ PcType' /\ OthersPc(i) /\ pc'[i] = "none"
        /\ OpType' /\ OthersOp(i) /\ flaps' = flaps /\ applied'[i] = applied[i]
        /\ ~conn'[i] /\ ~written'[i] /\ flight'[i] = {} /\ evt'[i] = [p \in Part |-> "Fail"]
    BY <1>2, CloseEffect, SteadyFacts
  <1>6. PICK r : r = MessageReply(i, e, m) OBVIOUS
  <1>7. /\ replies' = [j \in Offset |-> replies'[j]] /\ OthersReplies(i)
        /\ replies'[i] = replies[i] \/ replies'[i] = Append(replies[i], r)
    BY <1>2, <1>6, ManageEffect
  <1>8. Truthful(i, r) /\ Readable(i, r) BY <1>6, MessageReplyFacts DEF Truthful
  <1> QED BY <1>4, <1>7, <1>8, Ended

LEMMA GetReplyFacts ==
  ASSUME NEW i, Type(i) = "get", ~Malformed(i)
  PROVE  Truthful(i, GetReply(i)) /\ Readable(i, GetReply(i))
  <1> DEFINE r == GetReply(i)
             pv == cmd[i].pv_name
  <1>1. r.ser # "JSON" => r.body = DataReplyMsgpack(pv) BY DEF GetReply, Reply
  <1>2. pv \in {"pva://pv", "ca://pv", "pva://unserved"} BY DEF Malformed
  <1>3. pv \notin {"error", "reply_id"} BY <1>2
  <1>4. Accepted(i)
    <2>1. NoCommand.type = "nullptr" BY DEF NoCommand
    <2> QED BY <2>1 DEF Accepted, Type
  <1> HIDE DEF r
  <1>5. r.ser = "Msgpack" => r.body = DataReplyMsgpack(pv) BY <1>1
  <1>6. Readable(i, r) BY <1>3, <1>4, <1>5, DataWire DEF Readable
  <1>7. Truthful(i, r) BY DEF Truthful
  <1> QED BY <1>6, <1>7 DEF r

LEMMA WorkerInductive ==
  ASSUME PipelineIInv, NEW i \in Offset, Worker(i)
  PROVE  PipelineIInv'
  <1>0. /\ queue \in Seq(Offset) /\ PcType /\ OpType /\ replies = [j \in Offset |-> replies[j]]
        /\ queue # <<>> => Tail(queue) \in Seq(Offset) /\ Append(Tail(queue), i) \in Seq(Offset)
        /\ Append(queue, i) \in Seq(Offset)
        /\ CommandInv(i)
    BY WorkerFacts
  <1>1. CASE ProcessGet(i)
    <2>1. Steady /\ UNCHANGED opVars /\ Takes(i, "process") BY <1>1 DEF ProcessGet, Steady
    <2>2. CASE Malformed(i)
      <3>1. Refused(i, -1, "PV name malformed") BY <1>1, <2>2 DEF ProcessGet
      <3>2. PICK e : e = -1 /\ e # 0 BY SMT
      <3>3. Refused(i, e, "PV name malformed") /\ e # 0 BY Zenon, <3>1, <3>2
      <3> QED BY <2>1, <3>3, RefusedInductive
    <2>3. CASE ~Malformed(i)
      <3>1. Started(i) BY <1>1, <2>3 DEF ProcessGet
      <3> QED BY <2>1, <2>3, <3>1, StartedInductive
    <2> QED BY <2>2, <2>3
  <1>2. CASE ProcessPut(i)
    <2>1. Steady /\ UNCHANGED opVars /\ Takes(i, "process") /\ Type(i) = "put"
      BY <1>2 DEF ProcessPut, Steady
    <2>2. CASE ValueError(i) # 0
      <3>1. Refused(i, ValueError(i), "bad value") BY <1>2, <2>2 DEF ProcessPut
      <3>2. PICK e : e = ValueError(i) OBVIOUS
      <3>3. Refused(i, e, "bad value") /\ e # 0 BY Zenon, <2>2, <3>1, <3>2
      <3> QED BY <2>1, <3>3, RefusedInductive
    <2>3. CASE ValueError(i) = 0 /\ Malformed(i)
      <3>1. Refused(i, -4, "PV name malformed") BY <1>2, <2>3 DEF ProcessPut
      <3>2. PICK e : e = -4 /\ e # 0 BY SMT
      <3>3. Refused(i, e, "PV name malformed") /\ e # 0 BY Zenon, <3>1, <3>2
      <3> QED BY <2>1, <3>3, RefusedInductive
    <2>4. CASE ValueError(i) = 0 /\ ~Malformed(i)
      <3>1. Started(i) BY <1>2, <2>4 DEF ProcessPut
      <3> QED BY <2>1, <3>1, StartedInductive
    <2> QED BY <2>2, <2>3, <2>4
  <1>3. CASE ProcessOther(i)
    <2>1. /\ Steady /\ UNCHANGED opVars /\ UNCHANGED replies /\ pc[i] = "process"
          /\ pc' = [pc EXCEPT ![i] = "none"] /\ queue' = Tail(queue) /\ queue # <<>>
      BY <1>3 DEF ProcessOther, Steady, Takes
    <2>2. PcType' /\ OthersPc(i) /\ pc'[i] = "none" BY <1>0, <2>1, PcEffect, SteadyFacts
    <2>3. /\ OpType' /\ OthersOp(i) /\ flaps' = flaps /\ applied'[i] = applied[i]
          /\ conn'[i] = conn[i] /\ written'[i] = written[i] /\ flight'[i] = flight[i] /\ evt'[i] = evt[i]
      BY <1>0, <2>1, OpUnchanged, SteadyFacts
    <2>4. ~conn[i] /\ ~written[i] /\ flight[i] = {} /\ evt[i] = [p \in Part |-> "Fail"]
      <3>1. ~Open(i) BY <2>1 DEF Open
      <3> QED BY <1>0, <3>1 DEF CommandInv, OpenInv
    <2>5. PICK r : r = MessageReply(i, 1, "text") OBVIOUS
    <2>6. Truthful(i, r) /\ Readable(i, r) BY <2>5, MessageReplyFacts DEF Truthful
    <2>7. replies' = [j \in Offset |-> replies'[j]] /\ OthersReplies(i) /\ replies'[i] = replies[i]
      BY <1>0, <2>1 DEF OthersReplies
    <2> QED BY <1>0, <2>1, <2>2, <2>3, <2>4, <2>6, <2>7, Ended
  <1>4. CASE CheckTimeout(i)
    <2>1. /\ Steady /\ pc[i] = "check" /\ queue # <<>> /\ queue' = Tail(queue) /\ Close(i)
          /\ ManageReply(i, -3, "Timeout operation")
      BY <1>4 DEF CheckTimeout, Steady, Takes, AfterTimeout
    <2>2. PICK e : e = -3 /\ e # 0 BY SMT
    <2>3. ManageReply(i, e, "Timeout operation") /\ e # 0 BY Zenon, <2>1, <2>2
    <2>4. queue' \in Seq(Offset) BY <1>0, <2>1
    <2> QED BY <2>1, <2>3, <2>4, ReportedInductive
  <1>5. CASE CheckPending(i)
    <2>1. /\ Steady /\ pc[i] = "check" /\ queue # <<>> /\ queue' = Tail(queue)
          /\ pc' = [pc EXCEPT ![i] = "relax"] /\ UNCHANGED opVars /\ UNCHANGED replies
      BY <1>5 DEF CheckPending, Steady, Takes
    <2>2. PcType' /\ OthersPc(i) /\ pc'[i] = "relax" BY <1>0, <2>1, PcEffect, SteadyFacts
    <2> QED BY <1>0, <2>1, <2>2, GoesOn
  <1>6. CASE NotDone(i)
    <2>1. /\ Steady /\ pc[i] = "relax" /\ queue' = Append(queue, i)
          /\ pc' = [pc EXCEPT ![i] = "check"] /\ UNCHANGED opVars /\ UNCHANGED replies
      BY <1>6 DEF NotDone, Steady
    <2>2. PcType' /\ OthersPc(i) /\ pc'[i] = "check" BY <1>0, <2>1, PcEffect, SteadyFacts
    <2> QED BY <1>0, <2>1, <2>2, GoesOn
  <1>7. CASE OperationFailed(i)
    <2>1. /\ Steady /\ pc[i] = "relax" /\ queue' = queue /\ Close(i)
      BY <1>7 DEF OperationFailed, Steady
    <2>2. PICK e : e = -2 /\ e # 0 BY SMT
    <2>3. PICK m : ManageReply(i, -2, m) BY <1>7 DEF OperationFailed
    <2>4. ManageReply(i, e, m) /\ e # 0 BY Zenon, <2>2, <2>3
    <2> QED BY <1>0, <2>1, <2>4, ReportedInductive
  <1>8. CASE PutSucceeded(i)
    <2>1. /\ Steady /\ pc[i] = "relax" /\ queue' = queue /\ Close(i) /\ Type(i) = "put"
          /\ ManageReply(i, 0, "Successfull operation") /\ GetState(i) = "Success"
      BY <1>8 DEF PutSucceeded, Steady
    <2>2. evt[i]["a"] = "Success" BY <2>1 DEF GetState, Parts
    <2>3. applied[i] > 0 BY <1>0, <2>1, <2>2 DEF CommandInv, AppliedInv
    <2> QED BY <1>0, <2>1, <2>3, ReportedInductive
  <1>9. CASE GetSucceeded(i)
    <2>1. /\ Steady /\ pc[i] = "relax" /\ queue' = queue /\ Type(i) = "get"
          /\ pc' = [pc EXCEPT ![i] = "data"] /\ UNCHANGED opVars /\ UNCHANGED replies
      BY <1>9 DEF GetSucceeded, Steady
    <2>2. PcType' /\ OthersPc(i) /\ pc'[i] = "data" BY <1>0, <2>1, PcEffect, SteadyFacts
    <2> QED BY <1>0, <2>1, <2>2, GoesOn
  <1>10. CASE SendData(i)
    <2>1. /\ Steady /\ pc[i] = "data" /\ queue' = queue /\ Close(i)
          /\ Send(i, GetReply(i)) \/ UNCHANGED replies
      BY <1>10 DEF SendData, Steady
    <2>2. Type(i) = "get" /\ ~Malformed(i)
      <3>1. Open(i) BY <2>1 DEF Open
      <3> QED BY <1>0, <2>1, <3>1 DEF CommandInv, OpenInv
    <2>3. PICK r : r = GetReply(i) OBVIOUS
    <2>4. Truthful(i, r) /\ Readable(i, r) BY <2>2, <2>3, GetReplyFacts
    <2>5. /\ PcType' /\ OthersPc(i) /\ pc'[i] = "none"
          /\ OpType' /\ OthersOp(i) /\ flaps' = flaps /\ applied'[i] = applied[i]
          /\ ~conn'[i] /\ ~written'[i] /\ flight'[i] = {} /\ evt'[i] = [p \in Part |-> "Fail"]
      BY <1>0, <2>1, CloseEffect, SteadyFacts
    <2>6. /\ replies' = [j \in Offset |-> replies'[j]] /\ OthersReplies(i)
          /\ replies'[i] = replies[i] \/ replies'[i] = Append(replies[i], r)
      <3>1. CASE Send(i, GetReply(i))
        <4>1. Send(i, r) BY <2>3, <3>1
        <4> QED BY <1>0, <4>1, SendEffect
      <3>2. CASE UNCHANGED replies BY <1>0, <3>2 DEF OthersReplies
      <3> QED BY <2>1, <3>1, <3>2
    <2> QED BY <1>0, <2>1, <2>4, <2>5, <2>6, Ended
  <1> QED BY <1>1, <1>2, <1>3, <1>4, <1>5, <1>6, <1>7, <1>8, <1>9, <1>10 DEF Worker

-----------------------------------------------------------------------------
(* The operations. *)

\* A step of an open operation, of its channel or of its IOC.
LEMMA OperationStep ==
  ASSUME PipelineIInv, Steady, NEW i \in Offset, Open(i), UNCHANGED taskVars, UNCHANGED replies,
         OpType', OthersOp(i), flaps' >= flaps, flaps' + faults + crashes <= MaxTrouble,
         applied'[i] <= flaps' + 1,
         ~(conn'[i] /\ written'[i]) => applied'[i] <= flaps',
         written'[i] => applied'[i] > 0,
         Type(i) = "put" /\ evt'[i]["a"] = "Success" => applied'[i] > 0
  PROVE  PipelineIInv'
  <1>1. CommandInv(i) /\ queue \in Seq(Offset) /\ PcType BY WorkerFacts
  <1>2. pc[i] # "none" /\ pc[i] # "process" BY DEF Open
  <1>3. UNCHANGED queue /\ UNCHANGED pc BY DEF taskVars
  <1>4. replies[i] = <<>> /\ ~Ahead(i) BY <1>1, <1>2 DEF CommandInv, RepliesInv
  <1>5. /\ ~Ahead(i)' /\ Type(i)' = Type(i) /\ Offset' = Offset
        /\ Malformed(i)' <=> Malformed(i)
    BY <1>4, SteadyFacts
  <1>6. Open(i)' BY <1>3 DEF Open
  <1>7. PcType' BY <1>1, <1>3, <1>5 DEF PcType
  <1>8. RepliesInv(i)' BY <1>1, <1>3, <1>4, <1>5 DEF CommandInv, RepliesInv
  <1>9. OpenInv(i)' BY <1>1, <1>3, <1>5, <1>6 DEF CommandInv, OpenInv
  <1>10. AppliedInv(i)' BY <1>2, <1>3, <1>5 DEF AppliedInv
  <1>11. GoodReplies(i)'
    <2>1. DOMAIN replies'[i] = {} BY <1>4, EmptyFacts
    <2> QED BY <2>1 DEF GoodReplies
  <1>12. CommandInv(i)' BY <1>8, <1>9, <1>10, <1>11 DEF CommandInv
  <1>13. Elsewhere(i) BY <1>3 DEF Elsewhere, Steady, OthersOp
  <1>14. replies' = [j \in Offset |-> replies'[j]] BY DEF PipelineIInv
  <1>15. queue' \in Seq(Offset) BY <1>1, <1>3
  <1> QED BY <1>7, <1>12, <1>13, <1>14, <1>15, OneCommand

LEMMA OperationInductive ==
  ASSUME PipelineIInv, NEW i \in Offset,
         Connect(i) \/ Disconnect(i) \/ IocWrites(i) \/ OperationDone(i) \/ Expire(i)
  PROVE  PipelineIInv'
  <1>0. CommandInv(i) /\ OpType BY WorkerFacts
  <1>1. Steady /\ Open(i) /\ UNCHANGED taskVars /\ UNCHANGED replies
    <2>1. CASE Connect(i) BY <2>1 DEF Connect, Steady
    <2>2. CASE Disconnect(i) BY <2>2 DEF Disconnect, Steady
    <2>3. CASE IocWrites(i) BY <2>3 DEF IocWrites, Steady
    <2>4. CASE OperationDone(i) BY <2>4 DEF OperationDone, Steady
    <2>5. CASE Expire(i) BY <2>5 DEF Expire, Steady
    <2> QED BY <2>1, <2>2, <2>3, <2>4, <2>5
  <1>2. Offset' = Offset /\ UNCHANGED faults /\ UNCHANGED crashes BY <1>1, SteadyFacts
  <1>3. applied[i] \in Nat /\ flaps \in Nat /\ applied[i] \in 0 .. MaxTrouble + 1 /\ flaps \in 0 .. MaxTrouble
    BY <1>0 DEF OpType
  <1>4. /\ applied[i] <= flaps + 1
        /\ ~(conn[i] /\ written[i]) => applied[i] <= flaps
        /\ written[i] => applied[i] > 0
        /\ Type(i) = "put" /\ evt[i]["a"] = "Success" => applied[i] > 0
    BY <1>0, <1>1 DEF CommandInv, AppliedInv
  <1>5. flaps + faults + crashes <= MaxTrouble /\ faults \in Nat /\ crashes \in Nat /\ MaxTrouble \in Nat
    BY PipelineConstants DEF PipelineIInv, TopicInv, TypeOK
  <1>6. CASE Connect(i)
    <2>1. /\ ~conn[i] /\ conn' = [conn EXCEPT ![i] = TRUE]
          /\ flight' = [flight EXCEPT ![i] = Parts(i)]
          /\ written' = [written EXCEPT ![i] = FALSE]
          /\ UNCHANGED <<done, evt, expired, flaps, applied>>
      BY <1>6 DEF Connect
    <2>2. ~written'[i] /\ applied'[i] = applied[i] /\ evt'[i] = evt[i] /\ flaps' = flaps
      BY <1>0, <2>1 DEF OpType
    <2>3. conn' \in [Offset -> BOOLEAN] /\ \A j \in Offset : j # i => conn'[j] = conn[j]
      BY <1>0, <2>1 DEF OpType
    <2>4. written' \in [Offset -> BOOLEAN] /\ \A j \in Offset : j # i => written'[j] = written[j]
      BY <1>0, <2>1 DEF OpType
    <2>5. flight' \in [Offset -> SUBSET Part] /\ \A j \in Offset : j # i => flight'[j] = flight[j]
      <3>1. Parts(i) \subseteq Part BY DEF Parts, Part
      <3> QED BY <1>0, <2>1, <3>1 DEF OpType
    <2>6. OpType' BY <1>0, <1>2, <2>1, <2>3, <2>4, <2>5 DEF OpType
    <2>7. OthersOp(i) BY <2>1, <2>3, <2>4, <2>5 DEF OthersOp
    <2>8. applied[i] <= flaps BY <1>4, <2>1
    <2>9. flaps' >= flaps /\ flaps' + faults + crashes <= MaxTrouble BY <1>3, <1>5, <2>2
    <2> QED BY <1>1, <1>4, <2>2, <2>6, <2>7, <2>8, <2>9, OperationStep
  <1>7. CASE Disconnect(i)
    <2>1. /\ conn[i] /\ Trouble /\ conn' = [conn EXCEPT ![i] = FALSE]
          /\ evt' = [evt EXCEPT ![i] = [p \in Part |-> "Fail"]]
          /\ flaps' = flaps + 1
          /\ UNCHANGED <<flight, written, done, expired, applied>>
      BY <1>7 DEF Disconnect
    <2>2. flaps' + faults + crashes <= MaxTrouble /\ flaps' >= flaps /\ flaps' \in 0 .. MaxTrouble
      BY <1>3, <1>5, <2>1 DEF Trouble
    <2>3. conn' \in [Offset -> BOOLEAN] /\ \A j \in Offset : j # i => conn'[j] = conn[j]
      BY <1>0, <2>1 DEF OpType
    <2>4. /\ evt' \in [Offset -> [Part -> Event]] /\ evt'[i] = [p \in Part |-> "Fail"]
          /\ \A j \in Offset : j # i => evt'[j] = evt[j]
      <3>1. [p \in Part |-> "Fail"] \in [Part -> Event] BY DEF Event
      <3> QED BY <1>0, <2>1, <3>1 DEF OpType
    <2>5. OpType' BY <1>0, <1>2, <2>1, <2>2, <2>3, <2>4 DEF OpType
    <2>6. OthersOp(i) BY <2>1, <2>3, <2>4 DEF OthersOp
    <2>7. applied'[i] = applied[i] /\ written'[i] = written[i] BY <2>1
    <2>8. applied[i] <= flaps' /\ applied[i] <= flaps' + 1 BY <1>3, <1>4, <2>1
    <2>9. evt'[i]["a"] = "Fail" BY <2>4 DEF Part
    <2> QED BY <1>1, <1>4, <2>2, <2>5, <2>6, <2>7, <2>8, <2>9, OperationStep
  <1>8. CASE IocWrites(i)
    <2>1. /\ conn[i] /\ ~written[i] /\ written' = [written EXCEPT ![i] = TRUE]
          /\ applied' = [applied EXCEPT ![i] = applied[i] + 1]
          /\ UNCHANGED <<conn, flight, done, evt, expired, flaps>>
      BY <1>8 DEF IocWrites
    <2>2. applied[i] <= flaps BY <1>4, <2>1
    <2>3. /\ applied[i] + 1 \in 0 .. MaxTrouble + 1 /\ applied[i] + 1 > 0 /\ applied[i] + 1 <= flaps + 1
          /\ flaps >= flaps
      BY <1>3, <1>5, <2>2
    <2>4. /\ applied' \in [Offset -> 0 .. MaxTrouble + 1] /\ applied'[i] = applied[i] + 1
          /\ \A j \in Offset : j # i => applied'[j] = applied[j]
      BY <1>0, <2>1, <2>3 DEF OpType
    <2>5. /\ written' \in [Offset -> BOOLEAN] /\ written'[i]
          /\ \A j \in Offset : j # i => written'[j] = written[j]
      BY <1>0, <2>1 DEF OpType
    <2>6. OpType' BY <1>0, <1>2, <2>1, <2>4, <2>5 DEF OpType
    <2>7. OthersOp(i) BY <2>1, <2>4, <2>5 DEF OthersOp
    <2>8. applied'[i] > 0 /\ applied'[i] <= flaps' + 1 /\ conn'[i] /\ flaps' >= flaps
          /\ flaps' + faults + crashes <= MaxTrouble
      BY <1>5, <2>1, <2>3, <2>4
    <2> QED BY <1>1, <2>5, <2>6, <2>7, <2>8, OperationStep
  <1>9. CASE OperationDone(i)
    <2>1. PICK p \in flight[i], e \in Event :
             /\ e = "Success" => conn[i] /\ (Type(i) = "put" => written[i])
             /\ evt' = [evt EXCEPT ![i] = [evt[i] EXCEPT ![p] = e]]
             /\ done' = [done EXCEPT ![i] = done[i] \cup {p}]
             /\ flight' = [flight EXCEPT ![i] = flight[i] \ {p}]
      BY <1>9 DEF OperationDone
    <2>2. UNCHANGED <<conn, written, expired, flaps, applied>> BY <1>9 DEF OperationDone
    <2>3. flight[i] \subseteq Part /\ done[i] \subseteq Part /\ evt[i] \in [Part -> Event] BY <1>0 DEF OpType
    <2>4. /\ evt' \in [Offset -> [Part -> Event]] /\ evt'[i] = [evt[i] EXCEPT ![p] = e]
          /\ \A j \in Offset : j # i => evt'[j] = evt[j]
      <3>1. [evt[i] EXCEPT ![p] = e] \in [Part -> Event] BY <2>3
      <3> QED BY <1>0, <2>1, <3>1 DEF OpType
    <2>5. /\ flight' \in [Offset -> SUBSET Part] /\ \A j \in Offset : j # i => flight'[j] = flight[j]
          /\ done' \in [Offset -> SUBSET Part]
      BY <1>0, <2>1, <2>3 DEF OpType
    <2>6. OpType' BY <1>0, <1>2, <2>2, <2>4, <2>5 DEF OpType
    <2>7. OthersOp(i) BY <2>2, <2>4, <2>5 DEF OthersOp
    <2>8. evt'[i]["a"] = "Success" => evt[i]["a"] = "Success" \/ e = "Success"
      <3>1. "a" \in Part BY DEF Part
      <3> QED BY <2>3, <2>4, <3>1
    <2>9. Type(i) = "put" /\ evt'[i]["a"] = "Success" => applied[i] > 0 BY <1>4, <2>1, <2>8
    <2>10. /\ applied'[i] = applied[i] /\ conn'[i] = conn[i] /\ written'[i] = written[i] /\ flaps' = flaps
      BY <2>2
    <2>11. flaps' >= flaps /\ flaps' + faults + crashes <= MaxTrouble BY <1>3, <1>5, <2>10
    <2> QED BY <1>1, <1>4, <2>6, <2>7, <2>9, <2>10, <2>11, OperationStep
  <1>10. CASE Expire(i)
    <2>1. expired' = [expired EXCEPT ![i] = TRUE] /\ UNCHANGED <<conn, flight, written, done, evt, flaps, applied>>
      BY <1>10 DEF Expire
    <2>2. expired' \in [Offset -> BOOLEAN] BY <1>0, <2>1 DEF OpType
    <2>3. OpType' BY <1>0, <1>2, <2>1, <2>2 DEF OpType
    <2>4. OthersOp(i) BY <2>1 DEF OthersOp
    <2>5. flaps' >= flaps /\ flaps' + faults + crashes <= MaxTrouble BY <1>3, <1>5, <2>1
    <2> QED BY <1>1, <1>4, <2>1, <2>3, <2>4, <2>5, OperationStep
  <1> QED BY <1>6, <1>7, <1>8, <1>9, <1>10

-----------------------------------------------------------------------------
(* The steps of consume, of the broker and of the process. *)

\* The offsets of a batch are offsets of the topic.
LEMMA Offsets ==
  ASSUME TypeOK, TopicInv
  PROVE  /\ Len(log) \in Nat /\ Offset = 1 .. Len(log)
         /\ position \in 0 .. Len(log) /\ first \in 0 .. position /\ Batch = first + 1 .. position
         /\ committed \in 0 .. Len(log) /\ committing \in 0 .. position /\ origin \in 0 .. Len(log)
         /\ Batch \subseteq Offset
  <1>1. Len(log) \in Nat /\ Offset = 1 .. Len(log) BY DEF TopicInv, Offset
  <1>2. position \in 0 .. Len(log) /\ first \in 0 .. position BY DEF TypeOK
  <1>3. Batch \subseteq Offset BY <1>1, <1>2 DEF Batch
  <1> QED BY <1>1, <1>2, <1>3 DEF TypeOK, Batch

\* A step that touches neither commands, tasks, operations nor replies, and
\* that sends no command back.
LEMMA ControlKeeps ==
  ASSUME PipelineIInv, UNCHANGED <<log, cmd, taskVars, opVars, replies>>,
         \A i \in Offset : Ahead(i)' => Ahead(i),
         \A i \in Offset : Ahead(i)' /\ Rejected(i) => Rejected(i)'
  PROVE  /\ Offset' = Offset /\ queue' \in Seq(Offset') /\ PcType' /\ OpType'
         /\ replies' = [i \in Offset' |-> replies'[i]]
         /\ \A i \in Offset' : CommandInv(i)'
  <1>1. /\ UNCHANGED <<log, cmd>> /\ UNCHANGED <<queue, pc>> /\ UNCHANGED replies
        /\ UNCHANGED <<conn, flight, written, done, evt, expired, flaps, applied>>
        /\ Offset' = Offset
    BY DEF taskVars, opVars, Offset
  <1>2. queue' \in Seq(Offset') /\ PcType' BY <1>1, TypeParts DEF PipelineIInv, PcType
  <1>3. OpType' BY <1>1, TypeParts DEF PipelineIInv, OpType
  <1>4. replies' = [i \in Offset' |-> replies'[i]] BY <1>1 DEF PipelineIInv
  <1>5. ASSUME NEW i \in Offset PROVE CommandInv(i)'
    <2>1. CommandInv(i) BY DEF PipelineIInv
    <2>2. /\ Open(i)' <=> Open(i)
          /\ Type(i)' = Type(i)
          /\ Malformed(i)' <=> Malformed(i)
          /\ Accepted(i)' <=> Accepted(i)
      BY <1>1 DEF Open, Type, Malformed, Accepted
    <2>3. RepliesInv(i)' BY <1>1, <2>1 DEF CommandInv, RepliesInv
    <2>4. OpenInv(i)' BY <1>1, <2>1, <2>2 DEF CommandInv, OpenInv
    <2>5. AppliedInv(i)' BY <1>1, <2>1, <2>2 DEF CommandInv, AppliedInv
    <2>6. GoodReplies(i)' BY <1>1, <2>1, <2>2 DEF CommandInv, GoodReplies, Truthful, Readable
    <2> QED BY <2>3, <2>4, <2>5, <2>6 DEF CommandInv
  <1> QED BY <1>1, <1>2, <1>3, <1>4, <1>5

LEMMA ControlInductive ==
  ASSUME PipelineIInv,
         Fetch \/ Commit \/ CommitThrows \/ CommitTaken \/ Stop \/ ConsumeEnds \/ PoolDrained
  PROVE  PipelineIInv'
  <1> DEFINE n == Len(log)
  <1>0. TypeOK /\ TopicInv /\ CoverInv /\ ReadType /\ HistType BY TypeParts DEF PipelineIInv
  <1>1. /\ n \in Nat /\ Offset = 1 .. n
        /\ position \in 0 .. n /\ first \in 0 .. position /\ Batch = first + 1 .. position
        /\ committed \in 0 .. n /\ committing \in 0 .. position /\ origin \in 0 .. n
    BY <1>0, Offsets
  <1> HIDE DEF n
  <1>2. /\ UNCHANGED <<log, cmd, taskVars, opVars, replies>> /\ UNCHANGED histVars /\ UNCHANGED origin
    <2>1. CASE Fetch BY <2>1 DEF Fetch
    <2>2. CASE Commit BY <2>2 DEF Commit
    <2>3. CASE CommitThrows BY <2>3 DEF CommitThrows, topicVars
    <2>4. CASE CommitTaken BY <2>4 DEF CommitTaken
    <2>5. CASE Stop BY <2>5 DEF Stop, topicVars
    <2>6. CASE ConsumeEnds BY <2>6 DEF ConsumeEnds, topicVars
    <2>7. CASE PoolDrained BY <2>7 DEF PoolDrained, topicVars
    <2> QED BY <2>1, <2>2, <2>3, <2>4, <2>5, <2>6, <2>7
  <1>3. /\ UNCHANGED <<handled, faulted, faults, crashes>> /\ n' = n /\ Covered' = Covered /\ Offset' = Offset
        /\ UNCHANGED log
    BY <1>2 DEF histVars, n, Covered, Offset
  <1>4. HistType' BY <1>0, <1>3 DEF HistType
  <1>5. TopicInv'
    <2>1. flaps' = flaps BY <1>2 DEF opVars
    <2> QED BY <1>0, <1>2, <1>3, <2>1 DEF TopicInv
  <1>6. ReadType' /\ CoverInv' /\ \A i \in Offset : (Ahead(i)' => Ahead(i)) /\ (Ahead(i)' /\ Rejected(i) => Rejected(i)')
    <2>1. CASE Fetch
      <3>1. /\ cpc = "fetch" /\ cpc' = "parse" /\ first' = position /\ UNCHANGED <<committed, committing, run, node>>
        BY <2>1 DEF Fetch, AtFetch
      <3>2. PICK k \in 1 .. MaxFetch : position + k <= n /\ position' = position + k
        BY <2>1 DEF Fetch, n
      <3>3. position' \in 0 .. n /\ first' \in 0 .. position' /\ committing' \in 0 .. position' /\ position' > position
        BY <1>1, <3>1, <3>2, PipelineConstants
      <3>4. ReadType' BY <1>0, <1>2, <1>3, <3>1, <3>3 DEF ReadType, n
      <3>5. CoverInv' BY <1>0, <1>2, <1>3, <3>1 DEF CoverInv
      <3>6. ASSUME NEW i \in Offset, Ahead(i)' PROVE Ahead(i) /\ ~Rejected(i)
        <4>1. i > position' \/ i \in first' + 1 .. position' BY <3>6 DEF Ahead, Batch
        <4>2. i > position BY <1>1, <3>1, <3>3, <4>1
        <4> QED BY <3>1, <4>2 DEF Ahead, Rejected
      <3> QED BY <3>4, <3>5, <3>6
    <2>2. CASE Commit
      <3>1. /\ cpc = "commit" /\ cpc' = "fetch" /\ committing' = position
            /\ UNCHANGED <<position, committed, first, run, node>>
        BY <2>2 DEF Commit, StoredOffset
      <3>2. committing' \in 0 .. position' BY <1>1, <3>1
      <3>3. ReadType' BY <1>0, <1>2, <1>3, <3>1, <3>2 DEF ReadType, n
      <3>4. CoverInv' BY <1>0, <1>2, <1>3, <3>1 DEF CoverInv
      <3> QED BY <3>1, <3>3, <3>4 DEF Ahead, Rejected
    <2>3. CASE CommitThrows
      <3>1. /\ cpc = "commit" /\ cpc' = "fetch"
            /\ UNCHANGED <<position, committed, committing, first, run, node>>
        BY <2>3 DEF CommitThrows, topicVars
      <3>3. ReadType' BY <1>0, <1>2, <1>3, <3>1 DEF ReadType, n
      <3>4. CoverInv' BY <1>0, <1>2, <1>3, <3>1 DEF CoverInv
      <3> QED BY <3>1, <3>3, <3>4 DEF Ahead, Rejected
    <2>4. CASE CommitTaken
      <3>1. committed' = committing /\ UNCHANGED <<position, committing, cmd, first, cpc, run, node>>
        BY <2>4 DEF CommitTaken
      <3>2. committed' \in 0 .. n BY <1>1, <3>1
      <3>3. ReadType' BY <1>0, <1>2, <1>3, <3>1, <3>2 DEF ReadType, n
      <3>4. CoverInv' BY <1>0, <1>2, <1>3, <3>1 DEF CoverInv, Batch
      <3> QED BY <3>1, <3>3, <3>4 DEF Ahead, Rejected, Batch, Accepted
    <2>5. CASE Stop \/ PoolDrained
      <3>1. UNCHANGED <<position, committed, committing, cmd, first, cpc>>
        BY <2>5 DEF Stop, PoolDrained, topicVars
      <3>2. run' \in BOOLEAN /\ node' \in {"serving", "draining", "gone"}
        BY <1>0, <2>5 DEF Stop, PoolDrained, ReadType
      <3>3. ReadType' BY <1>0, <1>2, <1>3, <3>1, <3>2 DEF ReadType, n
      <3>4. CoverInv' BY <1>0, <1>2, <1>3, <3>1 DEF CoverInv, Batch
      <3> QED BY <3>1, <3>3, <3>4 DEF Ahead, Rejected, Batch, Accepted
    <2>6. CASE ConsumeEnds
      <3>1. /\ cpc = "fetch" /\ cpc' = "ended" /\ node' = "draining"
            /\ UNCHANGED <<position, committed, committing, first, run>>
        BY <2>6 DEF ConsumeEnds, topicVars
      <3>3. ReadType' BY <1>0, <1>2, <1>3, <3>1 DEF ReadType, n
      <3>4. CoverInv' BY <1>0, <1>2, <1>3, <3>1 DEF CoverInv
      <3> QED BY <3>1, <3>3, <3>4 DEF Ahead, Rejected
    <2> QED BY <2>1, <2>2, <2>3, <2>4, <2>5, <2>6
  <1>7. /\ queue' \in Seq(Offset') /\ PcType' /\ OpType'
        /\ replies' = [i \in Offset' |-> replies'[i]]
        /\ \A i \in Offset' : CommandInv(i)'
    BY <1>2, <1>6, ControlKeeps
  <1>8. TypeOK' BY <1>4, <1>6, <1>7, TypeParts
  <1> QED BY <1>5, <1>6, <1>7, <1>8 DEF PipelineIInv

LEMMA ParseFailureFacts ==
  ASSUME NEW i
  PROVE  ParseFailure(i).error # 0 /\ Readable(i, ParseFailure(i))
  <1> DEFINE r == ParseFailure(i)
  <1>1. r.error = -1 /\ (r.ser # "JSON" => r.body = CommandReplyMsgpack(0))
    BY DEF ParseFailure, Reply
  <1> HIDE DEF r
  <1>2. r.ser = "Msgpack" => r.body = CommandReplyMsgpack(0) BY <1>1
  <1>3. Readable(i, r) BY <1>2, CommandWire DEF Readable
  <1>4. r.error # 0 BY <1>1
  <1> QED BY <1>3, <1>4 DEF r

LEMMA ParseInductive ==
  ASSUME PipelineIInv, Parse
  PROVE  PipelineIInv'
  <1> DEFINE rejected == {i \in Batch : cmd'[i] = NoCommand}
  <1>0. TypeOK /\ TopicInv /\ CoverInv /\ ReadType /\ HistType /\ PcType /\ OpType /\ queue \in Seq(Offset)
    BY TypeParts DEF PipelineIInv
  <1>1. Batch \subseteq Offset /\ Batch = first + 1 .. position /\ Offset = 1 .. Len(log)
        /\ Len(log) \in Nat /\ first \in 0 .. position /\ position \in 0 .. Len(log)
    BY <1>0, Offsets
  <1>2. /\ cpc = "parse" /\ cpc' = "dispatch" /\ handled' = handled \cup rejected
        /\ cmd' = [i \in Offset |-> IF i \in Batch /\ IsCommand(i) THEN parse(Obj(i)) ELSE cmd[i]]
        /\ replies' = [i \in Offset |->
                         IF i \in rejected /\ IsCommand(i) /\ CanReportFailure(Obj(i))
                           THEN Append(replies[i], ParseFailure(i)) ELSE replies[i]]
        /\ UNCHANGED <<topicVars, first, run, node, taskVars, opVars, faulted, faults, crashes>>
    BY DEF Parse
  <1>3. /\ UNCHANGED <<log, position, committed, committing, origin>>
        /\ UNCHANGED <<first, run, node>> /\ UNCHANGED <<queue, pc>>
        /\ UNCHANGED <<conn, flight, written, done, evt, expired, flaps, applied>>
        /\ UNCHANGED <<faulted, faults, crashes>> /\ Offset' = Offset /\ Batch' = Batch
    BY <1>2 DEF topicVars, taskVars, opVars, Offset, Batch
  <1>4. rejected \subseteq Offset BY <1>1
  <1>5. TypeOK'
    <2>1. ReadType' BY <1>0, <1>2, <1>3 DEF ReadType
    <2>2. HistType' BY <1>0, <1>2, <1>3, <1>4 DEF HistType
    <2>3. queue' \in Seq(Offset') /\ PcType' /\ OpType' BY <1>0, <1>3 DEF PcType, OpType
    <2> QED BY <2>1, <2>2, <2>3, TypeParts
  <1>6. TopicInv' BY <1>0, <1>3 DEF TopicInv
  <1>7. CoverInv'
    <2>1. \A i \in Batch' : cmd'[i] = NoCommand => i \in handled' BY <1>2, <1>3
    <2>2. Covered \subseteq Covered' BY <1>2, <1>3 DEF Covered
    <2> QED BY <1>0, <1>2, <1>3, <2>1, <2>2 DEF CoverInv
  <1>8. replies' = [i \in Offset' |-> replies'[i]] BY <1>2, <1>3
  <1>9. ASSUME NEW i \in Offset, i \notin Batch PROVE CommandInv(i)'
    <2>1. CommandInv(i) BY DEF PipelineIInv
    <2>2. cmd'[i] = cmd[i] /\ replies'[i] = replies[i] BY <1>2, <1>9
    <2>3. /\ Open(i)' <=> Open(i)
          /\ Type(i)' = Type(i)
          /\ Malformed(i)' <=> Malformed(i)
          /\ Accepted(i)' <=> Accepted(i)
          /\ Ahead(i)' <=> Ahead(i)
          /\ ~Rejected(i)' /\ ~Rejected(i)
      BY <1>2, <1>3, <1>9, <2>2 DEF Open, Type, Malformed, Accepted, Ahead, Rejected
    <2>4. RepliesInv(i)' BY <1>3, <2>1, <2>2, <2>3 DEF CommandInv, RepliesInv
    <2>5. OpenInv(i)' BY <1>3, <2>1, <2>2, <2>3 DEF CommandInv, OpenInv
    <2>6. AppliedInv(i)' BY <1>3, <2>1, <2>2, <2>3 DEF CommandInv, AppliedInv
    <2>7. GoodReplies(i)' BY <1>3, <2>1, <2>2, <2>3 DEF CommandInv, GoodReplies, Truthful, Readable
    <2> QED BY <2>4, <2>5, <2>6, <2>7 DEF CommandInv
  <1>10. ASSUME NEW i \in Offset, i \in Batch PROVE CommandInv(i)'
    <2>1. CommandInv(i) BY DEF PipelineIInv
    <2>2. Ahead(i) /\ ~Rejected(i) BY <1>2, <1>10 DEF Ahead, Rejected
    <2>3. pc[i] = "none" /\ replies[i] = <<>> /\ applied[i] = 0
      BY <2>1, <2>2 DEF CommandInv, RepliesInv, AppliedInv
    <2>4. ~Open(i) /\ ~Open(i)' BY <1>3, <2>3 DEF Open
    <2>5. ~conn[i] /\ ~written[i] /\ flight[i] = {} /\ evt[i] = [p \in Part |-> "Fail"]
      BY <2>1, <2>4 DEF CommandInv, OpenInv
    <2>6. OpenInv(i)' BY <1>3, <2>3, <2>4, <2>5 DEF OpenInv
    <2>7. AppliedInv(i)'
      <3>1. evt'[i]["a"] = "Fail" BY <1>3, <2>5 DEF Part
      <3>2. applied'[i] = 0 BY <1>3, <2>3
      <3>3. 0 <= flaps' + 1 /\ 0 <= flaps'
        <4> HIDE DEF rejected
        <4>1. PICK f \in 0 .. MaxTrouble : f = flaps' BY <1>0, <1>3 DEF OpType
        <4>2. 0 <= f + 1 /\ 0 <= f BY PipelineConstants
        <4> QED BY <4>1, <4>2
      <3>4. ~written'[i] BY <1>3, <2>5
      <3> QED BY <3>1, <3>2, <3>3, <3>4 DEF AppliedInv
    <2>8. PICK r : r = ParseFailure(i) OBVIOUS
    <2>9. replies'[i] = replies[i] \/ replies'[i] = Append(replies[i], r)
      BY <1>2, <2>8
    <2>10. Truthful(i, r)' /\ Readable(i, r)'
      <3>1. r.error # 0 BY <2>8, ParseFailureFacts
      <3>2. r.ser = "Msgpack" => Decodable(r.body) /\ ToSet(r.body.keys) = CommandReplyJson
        <4>1. r.ser # "JSON" => r.body = CommandReplyMsgpack(0) BY <2>8 DEF ParseFailure, Reply
        <4>2. r.ser = "Msgpack" => r.body = CommandReplyMsgpack(0) BY <4>1
        <4> QED BY <4>2, CommandWire
      <3> QED BY <3>1, <3>2 DEF Truthful, Readable
    <2>11. /\ replies'[i] \in Seq(ToSet(replies'[i])) /\ Len(replies'[i]) <= 1
           /\ GoodReplies(i)'
      BY <2>3, <2>9, <2>10, Answered
    <2>12. RepliesInv(i)'
      <3>1. ~Rejected(i)' => replies'[i] = <<>>
        BY <1>2, <1>3, <1>10, <2>3 DEF Rejected, Accepted
      <3> QED BY <1>3, <2>3, <2>11, <3>1 DEF RepliesInv
    <2> QED BY <2>6, <2>7, <2>11, <2>12 DEF CommandInv
  <1> QED BY <1>3, <1>5, <1>6, <1>7, <1>8, <1>9, <1>10 DEF PipelineIInv

\* submitCommand queues commands of the batch that were parsed.
LEMMA SubmitKeeps ==
  ASSUME PipelineIInv, cpc = "dispatch", cpc' \in {"commit", "fetch"},
         NEW S \in SUBSET Batch, Submit(S),
         UNCHANGED <<topicVars, cmd, first, opVars, replies>>
  PROVE  /\ Offset' = Offset /\ queue' \in Seq(Offset') /\ PcType' /\ OpType'
         /\ replies' = [i \in Offset' |-> replies'[i]]
         /\ \A i \in Offset' : CommandInv(i)'
         /\ handled' = handled \cup {i \in S : Accepted(i)}
  <1> DEFINE given == {i \in S : Accepted(i) /\ HasWorker(Type(i))}
  <1>0. TypeOK /\ TopicInv /\ PcType /\ OpType /\ queue \in Seq(Offset)
    BY TypeParts DEF PipelineIInv
  <1>1. Batch \subseteq Offset /\ Batch = first + 1 .. position /\ first \in Int /\ position \in Int
    <2>1. Batch \subseteq Offset /\ Batch = first + 1 .. position /\ Len(log) \in Nat
          /\ position \in 0 .. Len(log) /\ first \in 0 .. position
      BY <1>0, Offsets
    <2> QED BY <2>1
  <1>2. PICK tasks \in [1 .. Cardinality(given) -> given] : queue' = queue \o tasks
    BY DEF Submit
  <1>3. /\ pc' = [i \in Offset |-> IF i \in given THEN "process" ELSE pc[i]]
        /\ handled' = handled \cup {i \in S : Accepted(i)}
    BY DEF Submit
  <1>4. /\ UNCHANGED <<log, position, committed, committing, origin>> /\ UNCHANGED <<cmd, first, replies>>
        /\ UNCHANGED <<conn, flight, written, done, evt, expired, flaps, applied>>
        /\ Offset' = Offset
    BY DEF topicVars, opVars, Offset
  <1>5. given \subseteq Batch /\ given \subseteq Offset /\ \A i \in given : Accepted(i) BY <1>1
  <1>6. Cardinality(given) \in Nat
    <2>1. IsFiniteSet(first + 1 .. position) BY <1>1, FS_Interval
    <2>2. IsFiniteSet(given) BY <1>1, <1>5, <2>1, FS_Subset
    <2> QED BY <2>2, FS_CardinalityType
  <1> HIDE DEF given
  <1>7. queue' \in Seq(Offset')
    <2>1. tasks \in [1 .. Cardinality(given) -> Offset] BY <1>2, <1>5
    <2>2. tasks \in Seq(Offset) BY <1>6, <2>1, SeqDef
    <2> QED BY <1>0, <1>2, <1>4, <2>2, ConcatProperties
  <1>8. PcType' BY <1>0, <1>3, <1>4 DEF PcType
  <1>9. OpType' BY <1>0, <1>4 DEF OpType
  <1>10. replies' = [i \in Offset' |-> replies'[i]] BY <1>4 DEF PipelineIInv
  <1>11. ASSUME NEW i \in Offset PROVE CommandInv(i)'
    <2>1. CommandInv(i) BY DEF PipelineIInv
    <2>2. Ahead(i)' => i > position /\ Ahead(i) /\ i \notin Batch
      BY <1>1, <1>4 DEF Ahead, Batch
    <2>3. ~Rejected(i)' BY DEF Rejected
    <2>4. /\ Type(i)' = Type(i)
          /\ Malformed(i)' <=> Malformed(i)
          /\ Accepted(i)' <=> Accepted(i)
      BY <1>4 DEF Type, Malformed, Accepted
    <2>5. GoodReplies(i)' BY <1>4, <2>1, <2>4 DEF CommandInv, GoodReplies, Truthful, Readable
    <2>6. CASE i \in given
      <3>1. Ahead(i) /\ ~Rejected(i) /\ ~Ahead(i)' BY <1>5, <2>2, <2>6 DEF Ahead, Rejected
      <3>2. pc'[i] = "process" BY <1>3, <2>6
      <3>3. pc[i] = "none" /\ replies[i] = <<>> /\ applied[i] = 0
        BY <2>1, <3>1 DEF CommandInv, RepliesInv, AppliedInv
      <3>4. ~Open(i) /\ ~Open(i)' BY <3>2, <3>3 DEF Open
      <3>5. ~conn[i] /\ ~written[i] /\ flight[i] = {} /\ evt[i] = [p \in Part |-> "Fail"]
        BY <2>1, <3>4 DEF CommandInv, OpenInv
      <3>6. RepliesInv(i)' BY <1>4, <2>1, <3>1, <3>3 DEF CommandInv, RepliesInv
      <3>7. OpenInv(i)' BY <1>4, <3>2, <3>4, <3>5 DEF OpenInv
      <3>8. AppliedInv(i)' BY <1>4, <2>1, <2>4, <3>3, <3>4 DEF CommandInv, AppliedInv
      <3> QED BY <2>5, <3>6, <3>7, <3>8 DEF CommandInv
    <2>7. CASE i \notin given
      <3>1. pc'[i] = pc[i] BY <1>3, <2>7
      <3>2. Open(i)' <=> Open(i) BY <3>1 DEF Open
      <3>3. Ahead(i)' => Ahead(i) /\ ~Rejected(i) BY <2>2 DEF Rejected
      <3>4. RepliesInv(i)' BY <1>4, <2>1, <3>1, <3>3 DEF CommandInv, RepliesInv
      <3>5. OpenInv(i)' BY <1>4, <2>1, <2>4, <3>1, <3>2 DEF CommandInv, OpenInv
      <3>6. AppliedInv(i)' BY <1>4, <2>1, <2>4, <3>1, <3>2, <3>3 DEF CommandInv, AppliedInv
      <3> QED BY <2>5, <3>4, <3>5, <3>6 DEF CommandInv
    <2> QED BY <2>6, <2>7
  <1> QED BY <1>3, <1>4, <1>7, <1>8, <1>9, <1>10, <1>11

LEMMA DispatchInductive ==
  ASSUME PipelineIInv, Dispatch \/ DispatchFails
  PROVE  PipelineIInv'
  <1> DEFINE n == Len(log)
  <1>0. TypeOK /\ TopicInv /\ CoverInv /\ ReadType /\ HistType /\ OpType BY TypeParts DEF PipelineIInv
  <1>1. /\ n \in Nat /\ Offset = 1 .. n /\ Batch \subseteq Offset
        /\ position \in 0 .. n /\ first \in 0 .. position /\ Batch = first + 1 .. position
        /\ committed \in 0 .. n /\ committing \in 0 .. position /\ origin \in 0 .. n
    BY <1>0, Offsets
  <1> HIDE DEF n
  <1>2. /\ cpc = "dispatch" /\ cpc' \in {"commit", "fetch"}
        /\ UNCHANGED <<topicVars, cmd, first, opVars, replies>> /\ UNCHANGED <<run, node>> /\ UNCHANGED crashes
    BY DEF Dispatch, DispatchFails
  <1>3. PICK S \in SUBSET Batch :
           /\ Submit(S)
           /\ faulted' \in SUBSET Offset /\ faulted \subseteq faulted'
           /\ \A i \in Batch : i \in S \/ i \in faulted' \/ ~Accepted(i)
    <2>1. CASE Dispatch
      <3>1. Submit(Batch) /\ faulted' = faulted BY <2>1 DEF Dispatch
      <3>2. faulted \subseteq Offset BY <1>0 DEF HistType
      <3> QED BY <3>1, <3>2
    <2>2. CASE DispatchFails
      <3>1. PICK k \in {i \in Batch : Accepted(i)} :
               /\ Submit({i \in Batch : i < k})
               /\ faulted' = faulted \cup {i \in Batch : i >= k}
        BY <2>2 DEF DispatchFails
      <3> DEFINE S == {i \in Batch : i < k}
      <3>2. \A i \in Batch : i < k \/ i >= k BY <1>1
      <3>3. faulted' \subseteq Offset BY <1>0, <1>1, <3>1 DEF HistType
      <3>4. \A i \in Batch : i \in S \/ i \in faulted' BY <3>1, <3>2
      <3>5. S \in SUBSET Batch /\ Submit(S) /\ faulted \subseteq faulted' BY <3>1
      <3> QED BY <3>3, <3>4, <3>5
    <2> QED BY <2>1, <2>2
  <1>4. /\ Offset' = Offset /\ queue' \in Seq(Offset') /\ PcType' /\ OpType'
        /\ replies' = [i \in Offset' |-> replies'[i]]
        /\ \A i \in Offset' : CommandInv(i)'
        /\ handled' = handled \cup {i \in S : Accepted(i)}
    BY <1>2, <1>3, SubmitKeeps
  <1>5. UNCHANGED <<log, position, committed, committing, origin>> /\ n' = n
    BY <1>2 DEF topicVars, n
  <1>6. faults' \in 0 .. MaxTrouble /\ flaps' + faults' + crashes' <= MaxTrouble
    <2>1. flaps' = flaps /\ crashes' = crashes BY <1>2 DEF opVars
    <2>2. flaps + faults + crashes <= MaxTrouble BY <1>0 DEF TopicInv
    <2>3. flaps \in Nat /\ faults \in 0 .. MaxTrouble /\ crashes \in Nat /\ MaxTrouble \in Nat
      BY <1>0, PipelineConstants DEF OpType, HistType
    <2>4. CASE Dispatch
      <3>1. faults' = faults BY <2>4 DEF Dispatch
      <3> QED BY <2>1, <2>2, <2>3, <3>1
    <2>5. CASE DispatchFails
      <3>1. faults' = faults + 1 /\ flaps + faults + crashes < MaxTrouble BY <2>5 DEF DispatchFails, Trouble
      <3> QED BY <2>1, <2>3, <3>1
    <2> QED BY <2>4, <2>5
  <1>7. ReadType' BY <1>0, <1>2, <1>5 DEF ReadType, n
  <1>8. HistType'
    <2>1. handled' \subseteq Offset' BY <1>0, <1>1, <1>3, <1>4 DEF HistType
    <2>2. faulted' \subseteq Offset' BY <1>3, <1>4
    <2>3. crashes' \in 0 .. MaxTrouble BY <1>0, <1>2 DEF HistType
    <2> QED BY <1>6, <2>1, <2>2, <2>3 DEF HistType
  <1>9. TopicInv' BY <1>0, <1>5, <1>6 DEF TopicInv
  <1>10. CoverInv'
    <2>1. Covered \subseteq Covered' BY <1>3, <1>4 DEF Covered
    <2>2. \A i \in Batch : i \in Covered'
      <3> TAKE i \in Batch
      <3>1. CASE i \in S /\ Accepted(i) BY <1>4, <3>1 DEF Covered
      <3>2. CASE i \in faulted' BY <3>2 DEF Covered
      <3>3. CASE ~Accepted(i)
        <4>1. i \in handled BY <1>0, <1>2, <3>3 DEF CoverInv, Accepted
        <4> QED BY <1>4, <4>1 DEF Covered
      <3> QED BY <1>3, <3>1, <3>2, <3>3
    <2>3. \A i \in origin + 1 .. first : i \in Covered' BY <1>0, <2>1 DEF CoverInv
    <2>4. \A i \in origin + 1 .. position : i \in Covered'
      <3> TAKE i \in origin + 1 .. position
      <3>1. i \in origin + 1 .. first \/ i \in first + 1 .. position BY <1>1
      <3> QED BY <1>1, <2>2, <2>3, <3>1
    <2>5. first' = first BY <1>2
    <2> QED BY <1>0, <1>2, <1>5, <2>1, <2>3, <2>4, <2>5 DEF CoverInv
  <1>11. TypeOK' BY <1>4, <1>7, <1>8, TypeParts
  <1> QED BY <1>4, <1>9, <1>10, <1>11 DEF PipelineIInv

\* The state of a process that has not begun.
Fresh ==
    /\ queue = <<>>
    /\ pc = [i \in Offset |-> "none"]
    /\ conn = [i \in Offset |-> FALSE] /\ flight = [i \in Offset |-> {}]
    /\ written = [i \in Offset |-> FALSE] /\ done = [i \in Offset |-> {}]
    /\ evt = [i \in Offset |-> [p \in Part |-> "Fail"]]
    /\ expired = [i \in Offset |-> FALSE]
    /\ applied = [i \in Offset |-> 0]
    /\ replies = [i \in Offset |-> <<>>]

LEMMA FreshCommands ==
  ASSUME Fresh, flaps \in 0 .. MaxTrouble
  PROVE  /\ queue \in Seq(Offset) /\ PcType /\ OpType /\ replies = [i \in Offset |-> replies[i]]
         /\ \A i \in Offset : CommandInv(i)
  <1> USE DEF Fresh
  <1>1. queue \in Seq(Offset) /\ PcType BY DEF PcType
  <1>2. OpType
    <2>1. MaxTrouble \in Nat BY PipelineConstants
    <2>2. applied \in [Offset -> 0 .. MaxTrouble + 1] BY <2>1
    <2>3. conn \in [Offset -> BOOLEAN] /\ written \in [Offset -> BOOLEAN] /\ expired \in [Offset -> BOOLEAN]
      OBVIOUS
    <2>4. flight \in [Offset -> SUBSET Part] /\ done \in [Offset -> SUBSET Part] OBVIOUS
    <2>5. evt \in [Offset -> [Part -> Event]]
      <3>1. [p \in Part |-> "Fail"] \in [Part -> Event] BY DEF Event
      <3> QED BY <3>1
    <2> QED BY <2>2, <2>3, <2>4, <2>5 DEF OpType
  <1>3. replies = [i \in Offset |-> replies[i]] OBVIOUS
  <1>4. ASSUME NEW i \in Offset PROVE CommandInv(i)
    <2>1. pc[i] = "none" /\ replies[i] = <<>> /\ applied[i] = 0 OBVIOUS
    <2>2. ~conn[i] /\ ~written[i] /\ flight[i] = {} /\ evt[i] = [p \in Part |-> "Fail"] OBVIOUS
    <2> HIDE DEF Fresh
    <2>3. RepliesInv(i)
      <3>1. Len(replies[i]) = 0 /\ replies[i] \in Seq(ToSet(replies[i])) BY <2>1, EmptyFacts
      <3> QED BY <2>1, <3>1 DEF RepliesInv
    <2>4. OpenInv(i) BY <2>1, <2>2 DEF OpenInv, Open
    <2>5. AppliedInv(i)
      <3>1. evt[i]["a"] = "Fail" BY <2>2 DEF Part
      <3>2. 0 <= flaps + 1 /\ 0 <= flaps OBVIOUS
      <3> QED BY <2>1, <2>2, <3>1, <3>2 DEF AppliedInv
    <2>6. GoodReplies(i)
      <3>1. DOMAIN replies[i] = {} BY <2>1, EmptyFacts
      <3> QED BY <3>1 DEF GoodReplies
    <2> QED BY <2>3, <2>4, <2>5, <2>6 DEF CommandInv
  <1> QED BY <1>1, <1>2, <1>3, <1>4

FreshStart ==
    Fresh /\ flaps \in 0 .. MaxTrouble =>
      /\ queue \in Seq(Offset) /\ PcType /\ OpType /\ replies = [i \in Offset |-> replies[i]]
      /\ \A i \in Offset : CommandInv(i)

LEMMA FreshNow == FreshStart BY FreshCommands DEF FreshStart
LEMMA FreshNext == FreshStart' BY FreshNow, PTL

LEMMA CrashInductive ==
  ASSUME PipelineIInv, CrashAndRestart
  PROVE  PipelineIInv'
  <1> DEFINE n == Len(log)
  <1>0. TypeOK /\ TopicInv /\ CoverInv /\ ReadType /\ HistType /\ OpType BY TypeParts DEF PipelineIInv
  <1>1. /\ n \in Nat /\ position \in 0 .. n /\ committed \in 0 .. n /\ origin \in 0 .. n
    BY <1>0, Offsets
  <1> HIDE DEF n
  <1>2. /\ UNCHANGED log /\ n' = n /\ Offset' = Offset /\ UNCHANGED <<committed, flaps, cmd, handled, faulted, faults>>
        /\ crashes' = crashes + 1 /\ flaps + faults + crashes < MaxTrouble
        /\ committing' = 0 /\ first' = position' /\ cpc' = "fetch" /\ run' = TRUE /\ node' = "serving"
    BY DEF CrashAndRestart, Trouble, n, Offset
  <1>3. Fresh' BY <1>2 DEF CrashAndRestart, Fresh
  <1>4. flaps' \in 0 .. MaxTrouble BY <1>0, <1>2 DEF OpType
  <1>5. /\ queue' \in Seq(Offset') /\ PcType' /\ OpType' /\ replies' = [i \in Offset' |-> replies'[i]]
        /\ \A i \in Offset' : CommandInv(i)'
    BY <1>3, <1>4, FreshNext DEF FreshStart
  <1>6. /\ position' \in 0 .. n /\ origin' \in 0 .. n
        /\ \A i \in origin' + 1 .. position' : i \in Covered
        /\ \A i \in origin' + 1 .. committed : i \in Covered
    <2>1. CASE committed > 0
      <3>1. position' = committed /\ origin' = origin BY <2>1 DEF CrashAndRestart
      <3> QED BY <1>0, <1>1, <3>1 DEF CoverInv
    <2>2. CASE ~(committed > 0)
      <3>1. PICK end \in position .. n : position' = end /\ origin' = end
        BY <2>2 DEF CrashAndRestart, n
      <3>2. committed = 0 BY <1>1, <2>2
      <3> QED BY <1>1, <3>1, <3>2
    <2> QED BY <2>1, <2>2
  <1>7. ReadType'
    <2>1. first' \in 0 .. position' /\ committing' \in 0 .. position' BY <1>1, <1>2, <1>6
    <2> QED BY <1>0, <1>1, <1>2, <1>6, <2>1 DEF ReadType, n
  <1>8. crashes' \in 0 .. MaxTrouble /\ flaps' + faults' + crashes' <= MaxTrouble
    <2>1. flaps \in Nat /\ faults \in Nat /\ crashes \in Nat /\ MaxTrouble \in Nat
      BY <1>0, PipelineConstants DEF OpType, HistType
    <2>2. flaps + faults + crashes < MaxTrouble /\ flaps' = flaps /\ faults' = faults /\ crashes' = crashes + 1
      BY <1>2
    <2> QED BY <2>1, <2>2
  <1>9. HistType' BY <1>0, <1>2, <1>8 DEF HistType
  <1>10. TopicInv' BY <1>0, <1>2, <1>8 DEF TopicInv
  <1>11. CoverInv'
    <2>1. Covered' = Covered BY <1>2 DEF Covered
    <2>2. PICK start \in Nat : start = origin' BY <1>1, <1>6
    <2>3. \A i \in start + 1 .. 0 : i \in Covered
      <3>1. SUFFICES ASSUME NEW i \in start + 1 .. 0 PROVE FALSE OBVIOUS
      <3>2. start >= 0 /\ start \in Int BY <2>2
      <3>3. i \in Int /\ start + 1 <= i /\ i <= 0 BY <3>2
      <3> QED BY <3>2, <3>3
    <2>4. origin' + 1 .. committing' = start + 1 .. 0 BY <1>2, <2>2
    <2>5. \A i \in origin' + 1 .. committing' : i \in Covered BY <2>3, <2>4
    <2> QED BY <1>2, <1>6, <2>1, <2>5 DEF CoverInv
  <1>12. TypeOK' BY <1>5, <1>7, <1>9, TypeParts
  <1> QED BY <1>5, <1>10, <1>11, <1>12 DEF PipelineIInv

-----------------------------------------------------------------------------
(* The theorems. *)

LEMMA InitPipeline == Init => PipelineIInv
  <1> SUFFICES ASSUME Init PROVE PipelineIInv OBVIOUS
  <1>1. log \in Seq(ToSet(log)) BY PipelineConstants DEF Init
  <1>2. /\ position = 0 /\ committed = 0 /\ committing = 0 /\ origin = 0 /\ first = 0
        /\ cpc = "fetch" /\ run = TRUE /\ node = "serving" /\ flaps = 0
        /\ handled = {} /\ faulted = {} /\ faults = 0 /\ crashes = 0
    BY DEF Init
  <1>3. Fresh BY DEF Init, Fresh
  <1>4. MaxTrouble \in Nat /\ Len(log) \in Nat BY <1>1, PipelineConstants
  <1>5. flaps \in 0 .. MaxTrouble BY <1>2, <1>4
  <1>6. /\ queue \in Seq(Offset) /\ PcType /\ OpType /\ replies = [i \in Offset |-> replies[i]]
        /\ \A i \in Offset : CommandInv(i)
    BY <1>3, <1>5, FreshCommands
  <1>7. ReadType BY <1>2, <1>4 DEF ReadType
  <1>8. HistType BY <1>2, <1>4 DEF HistType
  <1>9. TopicInv BY <1>1, <1>2, <1>4 DEF TopicInv
  <1>10. CoverInv
    <2>1. origin + 1 .. committed = {} /\ origin + 1 .. committing = {}
          /\ origin + 1 .. first = {} /\ origin + 1 .. position = {}
      BY <1>2
    <2> QED BY <1>2, <2>1 DEF CoverInv
  <1>11. TypeOK BY <1>6, <1>7, <1>8, TypeParts
  <1> QED BY <1>6, <1>9, <1>10, <1>11 DEF PipelineIInv

LEMMA NextPipeline ==
  ASSUME PipelineIInv, [Next]_vars
  PROVE  PipelineIInv'
  <1>1. CASE UNCHANGED vars
    <2>1. /\ UNCHANGED <<log, cmd, taskVars, opVars, replies>> /\ UNCHANGED <<run, node>>
          /\ UNCHANGED <<position, committed, committing, origin, first, cpc>>
          /\ UNCHANGED <<handled, faulted, faults, crashes>> /\ UNCHANGED flaps
      BY <1>1 DEF vars, topicVars, histVars, opVars
    <2>2. \A i \in Offset : (Ahead(i)' <=> Ahead(i)) /\ (Rejected(i)' <=> Rejected(i))
      BY <2>1 DEF Ahead, Rejected, Batch, Accepted
    <2>3. /\ Offset' = Offset /\ queue' \in Seq(Offset') /\ PcType' /\ OpType'
          /\ replies' = [i \in Offset' |-> replies'[i]]
          /\ \A i \in Offset' : CommandInv(i)'
      BY <2>1, <2>2, ControlKeeps
    <2>4. ReadType' /\ HistType' BY <2>1, <2>3, TypeParts DEF PipelineIInv, ReadType, HistType
    <2>5. TopicInv' BY <2>1 DEF PipelineIInv, TopicInv
    <2>6. CoverInv' BY <2>1 DEF PipelineIInv, CoverInv, Covered, Batch
    <2>7. TypeOK' BY <2>3, <2>4, TypeParts
    <2> QED BY <2>3, <2>5, <2>6, <2>7 DEF PipelineIInv
  <1>2. CASE Consumer
    BY <1>2, ParseInductive, DispatchInductive, ControlInductive DEF Consumer
  <1>3. CASE Fetch \/ CommitTaken \/ Stop \/ PoolDrained BY <1>3, ControlInductive
  <1>4. CASE CrashAndRestart BY <1>4, CrashInductive
  <1>5. CASE \E i \in Offset :
               Worker(i) \/ Connect(i) \/ Disconnect(i) \/ IocWrites(i) \/ OperationDone(i) \/ Expire(i)
    BY <1>5, WorkerInductive, OperationInductive
  <1>6. CASE AllDone BY <1>1, <1>6 DEF AllDone
  <1> QED BY <1>1, <1>2, <1>3, <1>4, <1>5, <1>6 DEF Next

\* What holds between two steps of the pipeline, for any topic, batch size,
\* number of threads and amount of trouble.
THEOREM PipelineInductive == Spec => []PipelineIInv
  <1>1. PipelineIInv /\ [Next]_vars => PipelineIInv' BY NextPipeline
  <1> QED BY <1>1, InitPipeline, PTL DEF Spec

\* The offset that the broker knows covers only what consume handed over,
\* refused, or lost with a handler that threw.
THEOREM CommitsCover == Spec => []CommitCovered
  <1>1. PipelineIInv => CommitCovered BY DEF PipelineIInv, CoverInv, CommitCovered, Covered
  <1> QED BY <1>1, PipelineInductive, PTL

\* A put is reported as done only when the IOC carried it out.
THEOREM PutsAreWritten == Spec => []SuccessMeansWritten
  <1>1. PipelineIInv => SuccessMeansWritten
    BY DEF PipelineIInv, CommandInv, GoodReplies, Truthful, SuccessMeansWritten
  <1> QED BY <1>1, PipelineInductive, PTL

\* A process answers a command at most once, with a reply that can be read.
THEOREM PipelineCorrect == Spec => []PipelineInv
  <1>1. ASSUME PipelineIInv PROVE PipelineInv
    <2>1. TypeOK BY <1>1 DEF PipelineIInv
    <2>2. OneReply BY <1>1 DEF PipelineIInv, CommandInv, RepliesInv, OneReply
    <2>3. RepliesReadable BY <1>1 DEF PipelineIInv, CommandInv, GoodReplies, Readable, RepliesReadable
    <2> QED BY <2>1, <2>2, <2>3 DEF PipelineInv
  <1> QED BY <1>1, PipelineInductive, PTL
=============================================================================
