--------------------------- MODULE OneShotSnapshot ---------------------------
(***************************************************************************)
(* The snapshot command that is taken once.  SnapshotCommandWorker gets a  *)
(* monitor operation for every PV, sends the value of each PV as soon as   *)
(* it has one, and a completion message when the time window is over.      *)
(* Between two looks its task goes back to the queue of the pool.          *)
(*                                                                         *)
(* For a PV that is not monitored the operation belongs to the command.    *)
(* For a monitored one it is the operation of the channel, which the task  *)
(* of EpicsServiceManager polls and empties at the same time.  Its methods *)
(* are steps here; poll works in part outside the lock of the operation    *)
(* and connectEvent takes none, so two of them at the same time can race   *)
(* (DataRace).  Undefined behaviour ends the behaviour and is recorded in  *)
(* ub.                                                                     *)
(***************************************************************************)
EXTENDS Integers, Sequences, FiniteSets, MonitorOp, PvMerge, PvSerialization

CONSTANTS
  PV,          \* PV names
  Ca,          \* those served by the ca provider
  Enum,        \* those whose value is an enumeration: ca has no display for them
  Wave,        \* those whose value is an array of shorts
  Monitored,   \* those in channel_map
  Cmd,         \* snapshot commands
  Lists,       \* the PV names of a command, in the order of its unordered_set
  BadName,     \* a name that sanitizePVName refuses
  Service,     \* owner of the operations of the channels
  Threads,     \* threads of the command pool
  MaxVersion,  \* bound: versions of a PV
  Sample,      \* the number in the array of a version
  MaxLost      \* bound: connections lost

ASSUME OneShotConstants ==
  /\ Ca \subseteq PV /\ Enum \subseteq PV /\ Wave \subseteq PV \ Enum /\ Monitored \subseteq PV
  /\ Service \notin Cmd /\ BadName \notin PV
  /\ \A l \in Lists : l \in Seq(PV \cup {BadName}) /\ IsInjective(l)
  /\ Threads \in Nat \ {0} /\ MaxVersion \in Nat \ {0} /\ MaxLost \in Nat

ASSUME SampleShorts == Sample \in [1 .. MaxVersion -> -32768 .. 32767]

VARIABLES
  version,    \* version of a PV at its IOC
  lost,       \* connections lost
  op,         \* monitor operations
  ops,        \* v_mon_ops of a command: names of the PVs
  processed,  \* processed_index
  expired,    \* the time window of a command is over
  late,       \* the task looks for the last time
  pc, index,  \* control of the task of a command
  queue,      \* command_pool
  replies,    \* what a command published
  tpc,        \* the channel's task: poll or take
  arrived,    \* PVs that had a value when the last look began
  ub          \* "none", or why the process has no defined state

ioc == <<version, lost>>
work == <<ops, processed, expired, late, pc, index, queue, replies, arrived>>
vars == <<ioc, op, work, tpc, ub>>

OpId == (Cmd \cup {Service}) \X PV
OpOf(c, p) == IF p \in Monitored THEN <<Service, p>> ELSE <<c, p>>

-----------------------------------------------------------------------------
(* What an IOC sends: every field carries the version it was taken from, *)
(* an array its sample.  The meta data of a PV do not change.            *)
PrincipalFields == {"value", "timeStamp", "alarm"}
AdditionalFields == {"display", "control", "valueAlarm"}

Value(p, v) ==
  IF p \in Enum THEN Field("structure", "int", [index |-> v, choices |-> v])
  ELSE IF p \in Wave THEN Field("scalarArray", "short", [val |-> Sample[v]])
  ELSE Field("scalar", "double", [val |-> v])
Block(v) == Field("structure", "long", [val |-> v])

FieldsOf(p, part) ==
  IF p \notin Ca THEN {"value", "timeStamp", "alarm", "display"}
  ELSE IF part = "principal" THEN PrincipalFields
  ELSE IF p \in Enum THEN {} ELSE AdditionalFields

Structure(p, part, v) ==
  IF v = 0 THEN NoStructure
  ELSE [f \in FieldsOf(p, part) |-> IF f = "value" THEN Value(p, v) ELSE Block(v)]

(* the data of an event that getEventData returned *)
DataOf(p, event) ==
  LET principal == Structure(p, "principal", event.principal)
      additional == Structure(p, "additional", event.additional)
  IN IF p \in Ca
       THEN mergeStructureAndValue(<<[structure |-> principal, field_names |-> PrincipalFields],
                                     [structure |-> additional, field_names |-> AdditionalFields]>>)
       ELSE principal

-----------------------------------------------------------------------------
Init ==
  /\ version = [p \in PV |-> 1] /\ lost = 0
  /\ op = [o \in OpId |-> NewOp(o[2] \in Ca)]
  /\ ops = [c \in Cmd |-> <<>>] /\ processed = [c \in Cmd |-> {}]
  /\ expired = [c \in Cmd |-> FALSE] /\ late = [c \in Cmd |-> FALSE]
  /\ pc = [c \in Cmd |-> "idle"] /\ index = [c \in Cmd |-> 1]
  /\ queue = <<>> /\ replies = [c \in Cmd |-> <<>>]
  /\ tpc = [p \in Monitored |-> "poll"]
  /\ arrived = [c \in Cmd |-> {}]
  /\ ub = "none"

(* the environment is followed until the last command is completed *)
Going == ub = "none" /\ \E c \in Cmd : pc[c] # "done"

(* operations that exist: connect listeners are registered in their constructors; *)
(* a channel is followed from the time that a command uses it, and may reach any  *)
(* of its states before the command looks at it                                   *)
Live(o) ==
  IF o[1] = Service
    THEN o[2] \in Monitored /\ \E c \in Cmd : o[2] \in ToSet(ops[c])
  ELSE o[2] \notin Monitored /\ pc[o[1]] \notin {"idle", "done"} /\ o[2] \in ToSet(ops[o[1]])

Unprocessed(c) == {ops[c][i] : i \in DOMAIN ops[c] \ processed[c]}

NotSubscribed(o, part) == ~op[o][part].opening /\ ~op[o][part].subscribed

(* what the operation has not polled is lost: a PV that has arrived for *)
(* the last look of its command may then have no value any more         *)
Connect(o, part) ==
  /\ Going /\ Live(o) /\ NotSubscribed(o, part)
  /\ LET after == [op[o] EXCEPT ![part] = connectEvent(@)]
     IN /\ op' = [op EXCEPT ![o] = after]
        /\ arrived' = [c \in Cmd |->
             IF c = o[1] /\ o[2] \in Unprocessed(c) /\ ~hasData(poll(after))
               THEN arrived[c] \ {o[2]} ELSE arrived[c]]
  /\ UNCHANGED <<ioc, ops, processed, expired, late, pc, index, queue, replies, tpc, ub>>

FirstValue(o, part) ==
  /\ Going /\ Live(o) /\ op[o][part].opening
  /\ op' = [op EXCEPT ![o][part] = firstEvent(@, version[o[2]])]
  /\ UNCHANGED <<ioc, work, tpc, ub>>

Disconnect(o, part) ==
  /\ Going /\ Live(o) /\ ~NotSubscribed(o, part) /\ lost < MaxLost
  /\ lost' = lost + 1
  /\ op' = [op EXCEPT ![o][part] = lostEvent(@)]
  /\ UNCHANGED <<version, work, tpc, ub>>

(* an update; one that nobody listens to is the first value of the next connection *)
Update(p) ==
  /\ Going /\ version[p] < MaxVersion
  /\ \E o \in OpId : o[2] = p /\ Live(o) /\ op[o].principal.subscribed
  /\ version' = [version EXCEPT ![p] = @ + 1]
  /\ op' = [o \in OpId |->
              IF o[2] = p /\ Live(o)
                THEN [op[o] EXCEPT !.principal = monitorEvent(@, version[p] + 1)]
                ELSE op[o]]
  /\ UNCHANGED <<lost, work, tpc, ub>>

(* a failed get leaves no value *)
GetDone(o, part) ==
  /\ Going /\ Live(o) /\ op[o][part].get = "asked"
  /\ \E value \in {version[o[2]], 0} :
       op' = [op EXCEPT ![o][part].get = "done", ![o][part].got = value]
  /\ UNCHANGED <<ioc, work, tpc, ub>>

-----------------------------------------------------------------------------
(* SnapshotCommandWorker *)

(* messages; DataOf is the data that a value is serialised from *)
NoEvent == [principal |-> 0, additional |-> 0]
Faulty == [error |-> -1, pv |-> BadName, event |-> NoEvent]
Completion == [error |-> 1, pv |-> BadName, event |-> NoEvent]
ValueOf(p, event) == [error |-> 0, pv |-> p, event |-> event]

KeepsRefused(names) == names

(* the names before the first one that is refused; all if none is *)
GoodNames(names) ==
  LET refused == {i \in DOMAIN names : names[i] = BadName}
  IN IF refused = {} THEN names ELSE SubSeq(names, 1, (CHOOSE i \in refused : TRUE) - 1)

(* submitSingleSnapshot: an error reply does not stop the command *)
Submit(c, names) ==
  /\ ub = "none" /\ pc[c] = "idle"
  /\ ops' = [ops EXCEPT ![c] = GoodNames(names)]
  /\ replies' = [replies EXCEPT ![c] = IF BadName \in ToSet(names) THEN <<Faulty>> ELSE <<>>]
  /\ queue' = Append(queue, c)
  /\ pc' = [pc EXCEPT ![c] = "queued"]
  /\ UNCHANGED <<ioc, op, processed, expired, late, index, tpc, arrived, ub>>

Expire(c) ==
  /\ ub = "none" /\ pc[c] \notin {"idle", "done"} /\ ~expired[c]
  /\ expired' = [expired EXCEPT ![c] = TRUE]
  /\ UNCHANGED <<ioc, op, ops, processed, late, pc, index, queue, replies, tpc, arrived, ub>>

OnceNoneIsMissing(c) == expired[c] /\ Unprocessed(c) = {}
isTimeout(c) == expired[c]

(* checkGetCompletion starts; isTimeout is asked once *)
StartLook(c) ==
  /\ ub = "none" /\ queue # <<>> /\ Head(queue) = c
  /\ Cardinality({d \in Cmd : pc[d] \in {"look", "have"}}) < Threads
  /\ queue' = Tail(queue)
  /\ pc' = [pc EXCEPT ![c] = "look"]
  /\ index' = [index EXCEPT ![c] = 1]
  /\ late' = [late EXCEPT ![c] = isTimeout(c)]
  /\ arrived' = [arrived EXCEPT ![c] =
                   {p \in Unprocessed(c) \ Monitored : expired[c] /\ hasData(poll(op[OpOf(c, p)]))}]
  /\ UNCHANGED <<ioc, op, ops, processed, expired, replies, tpc, ub>>

At(c) == ops[c][index[c]]

PassOver(c) ==
  /\ ub = "none" /\ pc[c] = "look" /\ index[c] \in processed[c]
  /\ index' = [index EXCEPT ![c] = @ + 1]
  /\ UNCHANGED <<ioc, op, ops, processed, expired, late, pc, queue, replies, tpc, arrived, ub>>

NotPolledWhenLate(c) == IF late[c] THEN forceUpdate(op[OpOf(c, At(c))]) ELSE poll(op[OpOf(c, At(c))])
Polled(c) == poll(IF late[c] THEN forceUpdate(op[OpOf(c, At(c))]) ELSE op[OpOf(c, At(c))])

PollOne(c) ==
  /\ ub = "none" /\ pc[c] = "look" /\ index[c] \in DOMAIN ops[c] \ processed[c]
  /\ op' = [op EXCEPT ![OpOf(c, At(c))] = Polled(c)]
  /\ IF hasData(Polled(c))
       THEN /\ pc' = [pc EXCEPT ![c] = "have"]
            /\ UNCHANGED <<processed, index>>
       ELSE /\ processed' = [processed EXCEPT ![c] = IF late[c] THEN @ \cup {index[c]} ELSE @]
            /\ index' = [index EXCEPT ![c] = @ + 1]
            /\ UNCHANGED pc
  /\ UNCHANGED <<ioc, ops, expired, late, queue, replies, tpc, arrived, ub>>

OnlyMarkedLate(c) == IF late[c] THEN processed[c] \cup {index[c]} ELSE processed[c]
MarkProcessed(c) == processed[c] \cup {index[c]}

(* getEventData, the last of its events, publishSnapshotReply *)
SendValue(c) ==
  /\ ub = "none" /\ pc[c] = "have"
  /\ LET o == OpOf(c, At(c))
         events == getEventData(op[o])
         outcome == IF MergesNull(op[o]) THEN "merge"
                    ELSE IF events = <<>> THEN "back"
                    ELSE IF Last(events).principal = 0 /\ At(c) \notin Ca THEN "null"
                    ELSE "none"
     IN /\ op' = [op EXCEPT ![o] = AfterTake(@)]
        /\ ub' = outcome
        /\ replies' = [replies EXCEPT ![c] =
                         IF outcome = "none" THEN Append(@, ValueOf(At(c), Last(events))) ELSE @]
  /\ processed' = [processed EXCEPT ![c] = MarkProcessed(c)]
  /\ index' = [index EXCEPT ![c] = @ + 1]
  /\ pc' = [pc EXCEPT ![c] = "look"]
  /\ UNCHANGED <<ioc, ops, expired, late, queue, tpc, arrived>>

(* the task goes back to the queue, also when every PV was sent *)
LookAgain(c) ==
  /\ ub = "none" /\ pc[c] = "look" /\ index[c] > Len(ops[c]) /\ ~late[c]
  /\ queue' = Append(queue, c)
  /\ pc' = [pc EXCEPT ![c] = "queued"]
  /\ UNCHANGED <<ioc, op, ops, processed, expired, late, index, replies, tpc, arrived, ub>>

(* publishEndSnapshotReply; the operations of the command are destroyed *)
Complete(c) ==
  /\ ub = "none" /\ pc[c] = "look" /\ index[c] > Len(ops[c]) /\ late[c]
  /\ replies' = [replies EXCEPT ![c] = Append(@, Completion)]
  /\ pc' = [pc EXCEPT ![c] = "done"]
  /\ op' = [o \in OpId |-> IF o[1] = c THEN NewOp(o[2] \in Ca) ELSE op[o]]
  /\ UNCHANGED <<ioc, ops, processed, expired, late, index, queue, tpc, arrived, ub>>

-----------------------------------------------------------------------------
(* EpicsServiceManager::task on a monitored PV; see EpicsChannels *)
TaskPoll(p) ==
  /\ Going /\ Live(<<Service, p>>) /\ tpc[p] = "poll"
  /\ op' = [op EXCEPT ![<<Service, p>>] = poll(@)]
  /\ tpc' = [tpc EXCEPT ![p] = IF hasEvents(poll(op[<<Service, p>>])) THEN "take" ELSE "poll"]
  /\ UNCHANGED <<ioc, work, ub>>

TaskTake(p) ==
  /\ ub = "none" /\ tpc[p] = "take"
  /\ op' = [op EXCEPT ![<<Service, p>>] = AfterTake(@)]
  /\ ub' = IF MergesNull(op[<<Service, p>>]) THEN "merge" ELSE "none"
  /\ tpc' = [tpc EXCEPT ![p] = "poll"]
  /\ UNCHANGED <<ioc, work>>

(* the threads in poll, and in getEventData, of an operation *)
Polling(o) ==
  {c \in Cmd : pc[c] = "look" /\ index[c] \in DOMAIN ops[c] \ processed[c] /\ o = OpOf(c, At(c))}
    \cup {t \in {Service} : o[1] = t /\ tpc[o[2]] = "poll"}
Taking(o) ==
  {c \in Cmd : pc[c] = "have" /\ o = OpOf(c, At(c))}
    \cup {t \in {Service} : o[1] = t /\ tpc[o[2]] = "take"}

(* poll uses get_op, force_update and received_event outside ce_mtx, and    *)
(* connectEvent replaces mon outside it: either of them with another thread *)
DataRace(o) ==
  /\ Going /\ Live(o) /\ Polling(o) # {}
  /\ \/ Cardinality(Polling(o) \cup Taking(o)) > 1
     \/ \E part \in Parts(op[o]) : NotSubscribed(o, part)
  /\ ub' = "race"
  /\ UNCHANGED <<ioc, op, work, tpc>>

Look(c) == StartLook(c) \/ PassOver(c) \/ PollOne(c) \/ SendValue(c) \/ LookAgain(c) \/ Complete(c)

Next ==
  \/ \E o \in OpId : \E part \in Parts(op[o]) :
       Connect(o, part) \/ FirstValue(o, part) \/ Disconnect(o, part) \/ GetDone(o, part)
  \/ \E o \in OpId : DataRace(o)
  \/ \E p \in PV : Update(p)
  \/ \E c \in Cmd : (\E names \in Lists : Submit(c, names)) \/ Expire(c) \/ Look(c)
  \/ \E p \in Monitored : TaskPoll(p) \/ TaskTake(p)
  \/ (ub # "none" \/ \A c \in Cmd : pc[c] = "done") /\ UNCHANGED vars

(* threads of the pool run, and time passes *)
Spec ==
  /\ Init /\ [][Next]_vars
  /\ \A c \in Cmd : WF_vars(Look(c)) /\ WF_vars(Expire(c))

-----------------------------------------------------------------------------
TypeOK ==
  /\ version \in [PV -> 1 .. MaxVersion] /\ lost \in 0 .. MaxLost
  /\ DOMAIN op = OpId /\ \A o \in OpId : op[o].combined <=> o[2] \in Ca
  /\ \A c \in Cmd :
       /\ ToSet(ops[c]) \subseteq PV /\ processed[c] \subseteq DOMAIN ops[c]
       /\ index[c] \in 1 .. Len(ops[c]) + 1
       /\ pc[c] \in {"idle", "queued", "look", "have", "done"}
       /\ expired[c] \in BOOLEAN /\ late[c] \in BOOLEAN
  /\ ToSet(queue) \subseteq Cmd /\ IsInjective(queue)
  /\ tpc \in [Monitored -> {"poll", "take"}]
  /\ ub \in {"none", "back", "merge", "null", "race"}

Values(c) == {i \in DOMAIN replies[c] : replies[c][i].error = 0}
Reported(c) == {replies[c][i].pv : i \in Values(c)}

(* What a client sees of one command: the error of a refused name can only   *)
(* come first, every PV is sent at most once although its operation goes on  *)
(* collecting, and the completion message closes the reply.                  *)
ReplyProtocol ==
  \A c \in Cmd :
    /\ \A i \in DOMAIN replies[c] :
         /\ replies[c][i].error = -1 => i = 1
         /\ replies[c][i].error = 1 => i = Len(replies[c])
    /\ Cardinality(Reported(c)) = Cardinality(Values(c))
    /\ pc[c] = "done" <=> \E i \in DOMAIN replies[c] : replies[c][i].error = 1

(* The race of the last event with the time window: a value that had arrived *)
(* at an operation of the command when its last look began is in the reply,  *)
(* unless a reconnection threw it away before the look came to it.           *)
ArrivedIsReported ==
  \A c \in Cmd : pc[c] = "done" => arrived[c] \subseteq Reported(c)

(* the numbers that an array of shorts keeps: JSON writes bytes, MessagePack *)
(* unsigned numbers                                                          *)
Fitting(ser) == IF ser = "JSON" THEN -128 .. 127 ELSE {n \in Nat : n < 32768}

(* A reply joins the two requests of a ca channel completely, and what the   *)
(* client reads of value, alarm and time stamp comes from one update of the  *)
(* IOC, in either serialization, except that an array of shorts is truncated *)
(* when its number does not fit the type it is written in.  Only on an       *)
(* operation that is shared with the channel task can a forced get of the    *)
(* additional request fail before the reply is made; the meta data are then  *)
(* missing.                                                                  *)
WholeReply ==
  \A c \in Cmd : \A i \in Values(c) : \A ser \in Serialization :
    LET p == replies[c][i].pv
        d == Serialized(DataOf(p, replies[c][i].event), ser)
    IN "value" \in DOMAIN d /\ (p \in Ca \cap Monitored => replies[c][i].event.additional # 0) =>
         /\ FieldsOf(p, "principal") \cup FieldsOf(p, "additional") = DOMAIN d
         /\ \E v \in 1 .. version[p] :
              \A f \in PrincipalFields :
                (f = "value" /\ p \in Wave => Sample[v] \in Fitting(ser))
                  => d[f] = Structure(p, "principal", v)[f]

(* No thread ever joins the events of a principal request while nothing of   *)
(* the additional request is known: mergeStructureAndValue would be called   *)
(* through a null pointer.                                                   *)
NoNullMerge == ub # "merge"

(* A snapshot command keeps the protocol of its replies while its operations *)
(* are shared with the channel task, and nothing is merged from a null one.  *)
OneShotInv == TypeOK /\ ReplyProtocol /\ NoNullMerge

(* Every snapshot command is completed: the task of a command that waits for *)
(* a PV is never lost between two looks.  Undefined behaviour (ub) excuses   *)
(* the process from completing anything.                                     *)
EveryCommandCompletes ==
  \A c \in Cmd : pc[c] = "queued" ~> pc[c] = "done" \/ ub # "none"

(* message-format.md: "If any PV does not produce an event within the window, *)
(* a fallback get operation retrieves its current value."  At completion,     *)
(* every monitored PV that is connected was sent.                             *)
FallbackDelivers ==
  \A c \in Cmd : pc[c] = "done" =>
    \A p \in ToSet(ops[c]) \cap Monitored :
      op[<<Service, p>>].principal.subscribed => p \in Reported(c)
=============================================================================
