-------------------------- MODULE CommandPipeline --------------------------
(***************************************************************************)
(* The way of a command: CMDController fetches a batch from the command    *)
(* topic, parses it, hands the commands to NodeController and commits the  *)
(* offsets; NodeController queues each command for its worker in the       *)
(* processing pool; the get and put workers start an EPICS operation and   *)
(* then queue completion checks until the operation is done or ten seconds *)
(* are over.  The monitor and snapshot workers have modules of their own:  *)
(* here their commands end when their worker took them.                    *)
(*                                                                         *)
(* A command is named by its offset.  It has at most one task in the pool: *)
(* pc is what that task does next, and it waits in queue or is running.    *)
(* The process may crash at any time and start again.                      *)
(***************************************************************************)
EXTENDS Integers, Sequences, FiniteSets, SequencesExt, CommandParsing, CommandReplies

CONSTANTS
  Logs,       \* contents the command topic may have, as a sequence
  MaxLog,     \* bound: messages in the topic
  MaxFetch,   \* max_message_to_fetch
  Threads,    \* threads of processing_pool
  MaxTrouble  \* bound: channels lost, handlers that throw and crashes together

ASSUME PipelineConstants ==
  /\ MaxLog \in Nat
  /\ \A n \in DOMAIN Logs : Logs[n] \in Seq(ToSet(Logs[n])) /\ Len(Logs[n]) <= MaxLog
  /\ MaxFetch \in Nat \ {0}
  /\ Threads \in Nat \ {0}
  /\ MaxTrouble \in Nat

VARIABLES
  log,        \* the messages of the topic, in arrival order
  position,   \* messages given to the application; their offset is stored
  committed,  \* what the broker knows of it; 0 is "never committed"
  committing, \* the commit that is under way; 0 is none
  origin,     \* where the group started to read the topic
  cmd,        \* the parsed commands: result_vec, by offset
  first,      \* the batch is the offsets first + 1 .. position
  cpc,        \* control point of consume
  run,        \* CMDController::run
  node,       \* NodeController: serving, draining (its destructor), gone
  queue,      \* the pool's queue
  pc,         \* the task of a command
  conn,       \* the channel of its operation is connected
  flight,     \* parts of the operation that the IOC has to answer
  written,    \* the IOC carried the pending put out
  done,       \* parts that were answered
  evt,        \* their last event
  expired,    \* the operation is older than its timeout
  flaps,      \* times a channel was lost
  replies,    \* replies sent to the client of a command
  applied,    \* times the IOC carried the put out
  handled,    \* commands handed over, told to be bad, or ignored for good
  faulted,    \* commands in a batch whose handler threw
  faults,     \* batches whose handler threw
  crashes     \* crashes so far

topicVars == <<log, position, committed, committing, origin>>
opVars    == <<conn, flight, written, done, evt, expired, flaps, applied>>
taskVars  == <<queue, pc>>
histVars  == <<handled, faulted, faults, crashes>>
vars == <<topicVars, cmd, first, cpc, run, node, taskVars, opVars, replies, histVars>>

Offset == DOMAIN log
Part == {"a", "b"}
Trouble == flaps + faults + crashes < MaxTrouble
Event == {"Fail", "Cancel", "Success"}

-----------------------------------------------------------------------------
(* What the log holds at an offset *)

Obj(i) == log[i].obj
IsObject(i) == log[i].form = "object"
IsCommand(i) == IsObject(i) /\ ~Throws(Obj(i))
Accepted(i) == cmd[i] # NoCommand
Type(i) == cmd[i].type

(* the types NodeController's constructor registers a worker for *)
HasWorker(type) == type \in CommandType \ {"info"}

(* sanitizePVName: names are (pva|ca)://..., anything else is malformed *)
Malformed(i) == cmd[i].pv_name \notin {"pva://pv", "ca://pv", "pva://unserved"}

(* no IOC serves this PV: its channel never connects *)
Unserved(i) == cmd[i].pv_name = "pva://unserved"

(* a get through channel access fetches two groups of fields *)
Parts(i) ==
  IF Type(i) = "get" /\ cmd[i].pv_name = "ca://pv" THEN {"a", "b"} ELSE {"a"}

(* what is wrong with the value of a put, 0 when nothing is *)
ValueError(i) ==
  CASE cmd[i].value \in {"", "not base64"} -> -1
    [] cmd[i].value = "not msgpack" -> -2
    [] cmd[i].value = "not a map" -> -3
    [] OTHER -> 0

(* collectFieldOffsets sets a bit for every field of the PV that the map      *)
(* names, but for a union none; without a bit putBuild throws and the put     *)
(* never leaves the client                                                    *)
Builds(i) == cmd[i].value \notin {"map of other names", "map of a union"}

-----------------------------------------------------------------------------
(* Replies.  The body is the wire message in the client's serialization. *)

Reply(error, ser, msgpack, json) ==
  [error |-> error, ser |-> ser, body |-> IF ser = "JSON" THEN json ELSE msgpack]

(* CommandReply, when a command could not be parsed *)
ParseFailure(i) ==
  Reply(-1, check_for_serialization(Obj(i)), CommandReplyMsgpack(0), CommandReplyJson)

(* GetFaultyCommandReply and PutCommandReply *)
MessageReply(i, error, message) ==
  Reply(error, cmd[i].serialization, MessageReplyMsgpack(message), MessageReplyJson(message))

GetReply(i) ==
  Reply(0, cmd[i].serialization, DataReplyMsgpack(cmd[i].pv_name), DataReplyJson(cmd[i].pv_name))

(* a get needs the topic, a put needs the id too *)
CanReply(i) ==
  /\ cmd[i].reply_topic # ""
  /\ Type(i) = "put" => cmd[i].reply_id # ""

(* pushMessage to the reply topic.  The workers do not look at its result,  *)
(* so a reply that the publisher gives up is lost without notice; here it   *)
(* arrives (KafkaPublisher has the failures).                               *)
Send(i, r) == replies' = [replies EXCEPT ![i] = Append(@, r)]
ManageReply(i, error, message) ==
  IF CanReply(i) THEN Send(i, MessageReply(i, error, message)) ELSE UNCHANGED replies

-----------------------------------------------------------------------------
Init ==
  /\ \E n \in DOMAIN Logs : log = Logs[n]
  /\ position = 0 /\ committed = 0 /\ committing = 0 /\ origin = 0 /\ first = 0
  /\ cmd = [i \in Offset |-> NoCommand]
  /\ cpc = "fetch" /\ run = TRUE /\ node = "serving"
  /\ queue = <<>>
  /\ pc = [i \in Offset |-> "none"]
  /\ conn = [i \in Offset |-> FALSE] /\ flight = [i \in Offset |-> {}]
  /\ written = [i \in Offset |-> FALSE] /\ done = [i \in Offset |-> {}]
  /\ evt = [i \in Offset |-> [p \in Part |-> "Fail"]]
  /\ expired = [i \in Offset |-> FALSE]
  /\ flaps = 0 /\ applied = [i \in Offset |-> 0]
  /\ replies = [i \in Offset |-> <<>>]
  /\ handled = {} /\ faulted = {} /\ faults = 0 /\ crashes = 0

-----------------------------------------------------------------------------
(* CMDController::consume *)

Batch == first + 1 .. position

(* enable.auto.commit is false: fetching commits nothing *)
CommitOnFetch == committing' = position'
AtFetch == UNCHANGED committing

(* getMsg: what has arrived before the time is over, at most MaxFetch *)
Fetch ==
  /\ cpc = "fetch" /\ run
  /\ \E n \in 1 .. MaxFetch :
       /\ position + n <= Len(log)
       /\ position' = position + n
  /\ AtFetch
  /\ first' = position
  /\ cpc' = "parse"
  /\ UNCHANGED <<log, committed, origin, cmd, run, node, taskVars, opVars, replies, histVars>>

(* empty messages, text that is no object and a command that is no string *)
(* are logged; a command that cannot be built is reported when it can be   *)
Parse ==
  /\ cpc = "parse"
  /\ cmd' = [i \in Offset |->
               IF i \in Batch /\ IsCommand(i) THEN parse(Obj(i)) ELSE cmd[i]]
  /\ LET rejected == {i \in Batch : cmd'[i] = NoCommand} IN
       /\ replies' = [i \in Offset |->
                        IF i \in rejected /\ IsCommand(i) /\ CanReportFailure(Obj(i))
                          THEN Append(replies[i], ParseFailure(i)) ELSE replies[i]]
       /\ handled' = handled \cup rejected
  /\ cpc' = "dispatch"
  /\ UNCHANGED <<topicVars, first, run, node, taskVars, opVars, faulted, faults, crashes>>

(* submitCommand: a task for each command of S whose type has a worker, in *)
(* the order of their offsets                                              *)
Submit(S) ==
  LET given == {i \in S : Accepted(i) /\ HasWorker(Type(i))}
  IN /\ \E tasks \in [1 .. Cardinality(given) -> given] :
          /\ \A j, k \in DOMAIN tasks : j < k => tasks[j] < tasks[k]
          /\ queue' = queue \o tasks
     /\ pc' = [i \in Offset |-> IF i \in given THEN "process" ELSE pc[i]]
     /\ handled' = handled \cup {i \in S : Accepted(i)}

Dispatch ==
  /\ cpc = "dispatch"
  /\ Submit(Batch)
  /\ cpc' = "commit"
  /\ UNCHANGED <<topicVars, cmd, first, run, node, opVars, replies, faulted, faults, crashes>>

(* the handler throws on its way: the rest of the batch and the commit are *)
(* skipped, but the offsets of the batch stay stored                       *)
DispatchFails ==
  /\ cpc = "dispatch" /\ Trouble
  /\ \E k \in {i \in Batch : Accepted(i)} :
       /\ Submit({i \in Batch : i < k})
       /\ faulted' = faulted \cup {i \in Batch : i >= k}
  /\ faults' = faults + 1
  /\ cpc' = "fetch"
  /\ UNCHANGED <<topicVars, cmd, first, run, node, opVars, replies, crashes>>

(* the stored offset: the one after the last message that was given out *)
NextButOne == position + 1
StoredOffset == position

(* commit(false) calls commitAsync: it does not wait for the broker *)
Commit ==
  /\ cpc = "commit"
  /\ committing' = StoredOffset
  /\ cpc' = "fetch"
  /\ UNCHANGED <<log, position, committed, origin, cmd, first, run, node, taskVars, opVars, replies, histVars>>

CommitThrows ==
  /\ cpc = "commit"
  /\ cpc' = "fetch"
  /\ UNCHANGED <<topicVars, cmd, first, run, node, taskVars, opVars, replies, histVars>>

(* the broker takes the offset *)
CommitTaken ==
  /\ committing > committed
  /\ committed' = committing
  /\ UNCHANGED <<log, position, committing, origin, cmd, first, cpc, run, node, taskVars, opVars, replies, histVars>>

-----------------------------------------------------------------------------
(* The processing pool and the get and put workers *)

Running == {i \in Offset : pc[i] \in {"relax", "data"}}

(* a free thread takes the first task *)
Takes(i, point) ==
  /\ queue # <<>> /\ Head(queue) = i
  /\ pc[i] = point
  /\ Cardinality(Running) < Threads

(* the operation is destroyed: cancelled, and no longer a listener *)
Close(i) ==
  /\ pc' = [pc EXCEPT ![i] = "none"]
  /\ conn' = [conn EXCEPT ![i] = FALSE]
  /\ flight' = [flight EXCEPT ![i] = {}]
  /\ written' = [written EXCEPT ![i] = FALSE]
  /\ done' = [done EXCEPT ![i] = {}]
  /\ evt' = [evt EXCEPT ![i] = [p \in Part |-> "Fail"]]
  /\ expired' = [expired EXCEPT ![i] = FALSE]
  /\ UNCHANGED <<flaps, applied>>

(* getChannelData and putChannelData made an operation *)
Started(i) ==
  /\ pc' = [pc EXCEPT ![i] = "check"]
  /\ queue' = Append(Tail(queue), i)
  /\ UNCHANGED replies

Refused(i, error, message) ==
  /\ pc' = [pc EXCEPT ![i] = "none"]
  /\ queue' = Tail(queue)
  /\ ManageReply(i, error, message)

ProcessGet(i) ==
  /\ Takes(i, "process") /\ Type(i) = "get"
  /\ IF Malformed(i) THEN Refused(i, -1, "PV name malformed") ELSE Started(i)
  /\ UNCHANGED <<topicVars, cmd, first, cpc, run, node, opVars, histVars>>

ProcessPut(i) ==
  /\ Takes(i, "process") /\ Type(i) = "put"
  /\ CASE ValueError(i) # 0 -> Refused(i, ValueError(i), "bad value")
       [] ValueError(i) = 0 /\ Malformed(i) -> Refused(i, -4, "PV name malformed")
       [] OTHER -> Started(i)
  /\ UNCHANGED <<topicVars, cmd, first, cpc, run, node, opVars, histVars>>

(* taken by the monitor worker or the snapshot worker *)
ProcessOther(i) ==
  /\ Takes(i, "process") /\ Type(i) \notin {"get", "put"}
  /\ pc' = [pc EXCEPT ![i] = "none"]
  /\ queue' = Tail(queue)
  /\ UNCHANGED <<topicVars, cmd, first, cpc, run, node, opVars, replies, histVars>>

(* WorkerAsyncOperation::isTimeout *)
NeverTimesOut(i) == FALSE
IsTimeout(i) == expired[i]

(* the check returns: the task and its operation are gone *)
GoOn(i) ==
  /\ pc' = [pc EXCEPT ![i] = "relax"]
  /\ queue' = Tail(queue)
  /\ UNCHANGED opVars
AfterTimeout(i) ==
  /\ Close(i)
  /\ queue' = Tail(queue)

(* checkGetCompletion, checkPutCompletion: the timeout is tested first *)
CheckTimeout(i) ==
  /\ Takes(i, "check") /\ IsTimeout(i)
  /\ ManageReply(i, -3, "Timeout operation")
  /\ AfterTimeout(i)
  /\ UNCHANGED <<topicVars, cmd, first, cpc, run, node, histVars>>

(* the thread sleeps for a while *)
CheckPending(i) ==
  /\ Takes(i, "check") /\ ~IsTimeout(i)
  /\ pc' = [pc EXCEPT ![i] = "relax"]
  /\ queue' = Tail(queue)
  /\ UNCHANGED <<topicVars, cmd, first, cpc, run, node, opVars, replies, histVars>>

IsDone(i) == Parts(i) \subseteq done[i]

DoneIsSuccess(i) == "Success"

(* CombinedGetOperation::getState returns the bad one *)
GetState(i) ==
  IF Parts(i) = {"a"} \/ evt[i]["a"] \in {"Fail", "Cancel"} THEN evt[i]["a"] ELSE evt[i]["b"]

NotDone(i) ==
  /\ pc[i] = "relax" /\ ~IsDone(i)
  /\ pc' = [pc EXCEPT ![i] = "check"]
  /\ queue' = Append(queue, i)
  /\ UNCHANGED <<topicVars, cmd, first, cpc, run, node, opVars, replies, histVars>>

OperationFailed(i) ==
  /\ pc[i] = "relax" /\ IsDone(i) /\ GetState(i) \in {"Fail", "Cancel"}
  /\ \E message \in {"", "text"} : ManageReply(i, -2, message)
  /\ Close(i)
  /\ UNCHANGED <<topicVars, cmd, first, cpc, run, node, queue, histVars>>

PutSucceeded(i) ==
  /\ pc[i] = "relax" /\ IsDone(i) /\ Type(i) = "put" /\ GetState(i) = "Success"
  /\ ManageReply(i, 0, "Successfull operation")
  /\ Close(i)
  /\ UNCHANGED <<topicVars, cmd, first, cpc, run, node, queue, histVars>>

GetSucceeded(i) ==
  /\ pc[i] = "relax" /\ IsDone(i) /\ Type(i) = "get" /\ GetState(i) = "Success"
  /\ pc' = [pc EXCEPT ![i] = "data"]
  /\ UNCHANGED <<topicVars, cmd, first, cpc, run, node, queue, opVars, replies, histVars>>

(* the data of a combined get is merged only if the state, read again, is *)
(* still good; without data there is no reply                             *)
HasData(i) == Parts(i) = {"a"} \/ GetState(i) = "Success"

SendData(i) ==
  /\ pc[i] = "data"
  /\ IF HasData(i) THEN Send(i, GetReply(i)) ELSE UNCHANGED replies
  /\ Close(i)
  /\ UNCHANGED <<topicVars, cmd, first, cpc, run, node, queue, histVars>>

-----------------------------------------------------------------------------
(* The EPICS operations and their IOCs.  An operation is open from the     *)
(* task that made it to the task that answers the client.                  *)

Open(i) == pc[i] \in {"check", "relax", "data"}

(* connectEvent, connected: the request is issued, at a reconnection again *)
Connect(i) ==
  /\ Open(i) /\ ~conn[i] /\ ~Unserved(i)
  /\ conn' = [conn EXCEPT ![i] = TRUE]
  /\ flight' = [flight EXCEPT ![i] = Parts(i)]
  /\ written' = [written EXCEPT ![i] = FALSE]
  /\ UNCHANGED <<topicVars, cmd, first, cpc, run, node, taskVars, done, evt, expired, flaps, applied, replies, histVars>>

(* connectEvent, disconnected: the event is overwritten, done is not *)
Disconnect(i) ==
  /\ Open(i) /\ conn[i] /\ Trouble
  /\ conn' = [conn EXCEPT ![i] = FALSE]
  /\ evt' = [evt EXCEPT ![i] = [p \in Part |-> "Fail"]]
  /\ flaps' = flaps + 1
  /\ UNCHANGED <<topicVars, cmd, first, cpc, run, node, taskVars, flight, written, done, expired, applied, replies, histVars>>

IocWrites(i) ==
  /\ Open(i) /\ Type(i) = "put" /\ flight[i] # {} /\ conn[i] /\ ~written[i] /\ Builds(i)
  /\ written' = [written EXCEPT ![i] = TRUE]
  /\ applied' = [applied EXCEPT ![i] = @ + 1]
  /\ UNCHANGED <<topicVars, cmd, first, cpc, run, node, taskVars, conn, flight, done, evt, expired, flaps, replies, histVars>>

(* getDone, putDone: a put succeeds after the IOC carried it out *)
OperationDone(i) ==
  /\ Open(i)
  /\ \E p \in flight[i], e \in Event :
       /\ e = "Success" => conn[i] /\ (Type(i) = "put" => written[i])
       /\ evt' = [evt EXCEPT ![i][p] = e]
       /\ done' = [done EXCEPT ![i] = @ \cup {p}]
       /\ flight' = [flight EXCEPT ![i] = @ \ {p}]
  /\ UNCHANGED <<topicVars, cmd, first, cpc, run, node, taskVars, conn, written, expired, flaps, applied, replies, histVars>>

(* ten seconds since the operation was made *)
Expire(i) ==
  /\ Open(i) /\ ~expired[i]
  /\ expired' = [expired EXCEPT ![i] = TRUE]
  /\ UNCHANGED <<topicVars, cmd, first, cpc, run, node, taskVars, conn, flight, written, done, evt, flaps, applied, replies, histVars>>

-----------------------------------------------------------------------------
(* Shutdown, crash and restart *)

(* CMDController::stop asks consume to end ... *)
Stop ==
  /\ run
  /\ run' = FALSE
  /\ UNCHANGED <<topicVars, cmd, first, cpc, node, taskVars, opVars, replies, histVars>>

(* ... and joins it; then NodeController is destroyed, which waits for the *)
(* pool before it forgets the workers                                      *)
ConsumeEnds ==
  /\ cpc = "fetch" /\ ~run
  /\ cpc' = "ended"
  /\ node' = "draining"
  /\ UNCHANGED <<topicVars, cmd, first, run, taskVars, opVars, replies, histVars>>

PoolDrained ==
  /\ node = "draining" /\ queue = <<>> /\ Running = {}
  /\ node' = "gone"
  /\ UNCHANGED <<topicVars, cmd, first, cpc, run, taskVars, opVars, replies, histVars>>

(* the next process reads on from the offset the broker knows; a group that *)
(* never committed starts with what comes next (auto.offset.reset latest)   *)
CrashAndRestart ==
  /\ Trouble
  /\ crashes' = crashes + 1
  /\ UNCHANGED <<log, committed, flaps, cmd, handled, faulted, faults>>
  /\ IF committed > 0
       THEN position' = committed /\ UNCHANGED origin
       ELSE \E end \in position .. Len(log) : position' = end /\ origin' = end
  /\ committing' = 0
  /\ first' = position'
  /\ cpc' = "fetch" /\ run' = TRUE /\ node' = "serving"
  /\ queue' = <<>>
  /\ pc' = [i \in Offset |-> "none"]
  /\ conn' = [i \in Offset |-> FALSE] /\ flight' = [i \in Offset |-> {}]
  /\ written' = [i \in Offset |-> FALSE] /\ done' = [i \in Offset |-> {}]
  /\ evt' = [i \in Offset |-> [p \in Part |-> "Fail"]]
  /\ expired' = [i \in Offset |-> FALSE]
  /\ applied' = [i \in Offset |-> 0]
  /\ replies' = [i \in Offset |-> <<>>]

AllDone ==
  /\ node = "gone"
  /\ UNCHANGED vars

-----------------------------------------------------------------------------
Worker(i) ==
  \/ ProcessGet(i) \/ ProcessPut(i) \/ ProcessOther(i)
  \/ CheckTimeout(i) \/ CheckPending(i) \/ NotDone(i)
  \/ OperationFailed(i) \/ PutSucceeded(i) \/ GetSucceeded(i) \/ SendData(i)

Consumer == Parse \/ Dispatch \/ DispatchFails \/ Commit \/ CommitThrows \/ ConsumeEnds

Next ==
  \/ Fetch \/ Consumer \/ CommitTaken \/ Stop \/ PoolDrained \/ CrashAndRestart
  \/ \E i \in Offset :
       Worker(i) \/ Connect(i) \/ Disconnect(i) \/ IocWrites(i) \/ OperationDone(i) \/ Expire(i)
  \/ AllDone

Spec == Init /\ [][Next]_vars

(* the threads of the process run, and time passes; nothing is assumed of *)
(* the IOCs, of the broker or of new messages                             *)
FairSpec ==
  /\ Spec
  /\ WF_vars(Consumer) /\ WF_vars(PoolDrained)
  /\ WF_vars(\E i \in Offset : Worker(i))
  /\ WF_vars(\E i \in Offset : Expire(i))

-----------------------------------------------------------------------------
TypeOK ==
  /\ position \in 0 .. Len(log) /\ first \in 0 .. position
  /\ committed \in 0 .. Len(log) /\ committing \in 0 .. position
  /\ origin \in 0 .. Len(log)
  /\ cpc \in {"fetch", "parse", "dispatch", "commit", "ended"}
  /\ run \in BOOLEAN /\ node \in {"serving", "draining", "gone"}
  /\ queue \in Seq(Offset)
  /\ pc \in [Offset -> {"none", "process", "check", "relax", "data"}]
  /\ conn \in [Offset -> BOOLEAN] /\ written \in [Offset -> BOOLEAN]
  /\ flight \in [Offset -> SUBSET Part] /\ done \in [Offset -> SUBSET Part]
  /\ evt \in [Offset -> [Part -> Event]]
  /\ expired \in [Offset -> BOOLEAN]
  /\ flaps \in 0 .. MaxTrouble
  /\ applied \in [Offset -> 0 .. MaxTrouble + 1]
  /\ handled \subseteq Offset /\ faulted \subseteq Offset
  /\ faults \in 0 .. MaxTrouble /\ crashes \in 0 .. MaxTrouble

(* The offset the broker knows never passes a message that was neither      *)
(* handed to the workers nor refused, except those of a batch whose handler *)
(* threw, whose stored offsets a later commit takes along.  It speaks of    *)
(* the messages after origin, where the group began to read: a node that    *)
(* restarts before the first commit begins at the end of the topic.  And it *)
(* ends at the hand-over: a crash loses the commands still in the pool.     *)
CommitCovered == \A i \in origin + 1 .. committed : i \in handled \cup faulted

(* A process answers a command at most once: the timeout and the late       *)
(* answer of the IOC exclude each other, and a rejected command is not run. *)
OneReply == \A i \in Offset : Len(replies[i]) <= 1

(* A put that is reported as done was carried out by the IOC, also when its *)
(* channel was lost meanwhile and the put issued again.                     *)
SuccessMeansWritten ==
  \A i \in Offset : \A n \in DOMAIN replies[i] :
    replies[i][n].error = 0 /\ Type(i) = "put" => applied[i] > 0

(* Every reply can be read: a MessagePack map announces as many pairs as    *)
(* it has, and holds the same members as the JSON form of the reply.        *)
RepliesReadable ==
  \A i \in Offset : \A n \in DOMAIN replies[i] :
    LET r == replies[i][n] IN
      r.ser = "Msgpack" =>
        /\ Decodable(r.body)
        /\ ToSet(r.body.keys) \in {CommandReplyJson, MessageReplyJson("text")}
             \cup (IF Accepted(i) /\ Type(i) = "get" THEN {DataReplyJson(cmd[i].pv_name)} ELSE {})

(* What a client may rely on whatever crashes, timeouts and late answers     *)
(* interleave: one reply of a process at most, and one that can be read.     *)
PipelineInv == TypeOK /\ OneReply /\ RepliesReadable

(* who gave a topic and an id, and sent no info command, no command name of *)
(* another kind, and no get that is combined of two                         *)
Expects(i) ==
  /\ IsCommand(i) /\ check_for_reply_id(Obj(i)) # "" /\ check_reply_topic(Obj(i)) # ""
  /\ ~Accepted(i) \/ Type(i) = "put" \/ (Type(i) = "get" /\ Parts(i) = {"a"})

(* Whoever sent such a command is answered: with the result, the error or   *)
(* the timeout, or with the error of the parser; unless the handler failed  *)
(* or the process crashes.                                                  *)
ClientsAnswered ==
  \A i \in 1 .. MaxLog : \A c \in 0 .. MaxTrouble :
    (i \in Offset /\ cpc = "dispatch" /\ i \in Batch /\ Expects(i) /\ crashes = c)
      ~> ((i \in Offset /\ replies[i] # <<>>) \/ i \in faulted \/ crashes > c)

(* Stopping ends: the completion checks that put themselves back into the   *)
(* pool stop doing so when their operation times out, so the wait of the    *)
(* destructor returns.  Commands of the other workers end at once here; a   *)
(* stop of a snapshot that waits for its removal is in SnapshotRegistry.    *)
ShutdownEnds == (~run) ~> (node = "gone" \/ run)

(* doc/message-format.md: "If `monitor_destination_topic` is omitted, the   *)
(* system uses `reply_topic`": given, it is where the events go.            *)
MonitorDestinationHonoured ==
  \A i \in handled :
    /\ Accepted(i) /\ Type(i) = "monitor"
    /\ "monitor_destination_topic" \in DOMAIN Obj(i)
    => cmd[i].monitor_destination_topic = Obj(i)["monitor_destination_topic"].v
=============================================================================
