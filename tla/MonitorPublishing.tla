-------------------------- MODULE MonitorPublishing --------------------------
(***************************************************************************)
(* The events of a monitored PV on their way to the consumers' topics:     *)
(* MonitorCommandWorker::epicsMonitorEvent, called by the task of the      *)
(* channel with the batch of events one poll has found, composed with the  *)
(* publisher and with a command thread that publishes a reply.  Consumers  *)
(* come and go in between (handleMonitorCheckEvents takes channel_map_mtx  *)
(* exclusively, epicsMonitorEvent shared, once for each event).            *)
(*                                                                         *)
(* An event is its number in the order of arrival; a serialized message is *)
(* the number of the event it was made from.                               *)
(***************************************************************************)
EXTENDS KafkaPublisher, FiniteSets

CONSTANTS
    Consumer,       \* the topics that may be requested, each with its serialization
    SerializationOf,
    MaxEvents,      \* events that arrive
    MaxBatch,       \* max_event_from_monitor_queue
    Task, Worker    \* the two callers

Event == 1 .. MaxEvents
EventMessage == Event \X Consumer
ReplyMessage == <<0, "reply">>
Serialization == {SerializationOf[k] : k \in Consumer}

ASSUME PublishingAssumption ==
    /\ Caller = {Task, Worker} /\ Task # Worker
    /\ Message = EventMessage \cup {ReplyMessage}
    /\ MaxEvents \in Nat /\ MaxBatch \in Nat

VARIABLES
    cmdVec,    \* cmd_vec of the PV in channel_topics_map
    batch,     \* the events left of the batch, the current one first
    at,        \* the position in cmd_vec; 0 between two events
    arrived,   \* events so far
    cache,     \* local_serialization_cache; 0 for no entry
    payload,   \* what each pushed message holds
    batchOf,   \* the first event of the batch an event came with
    served     \* the consumers an event has been forwarded to

monitorVars == <<cmdVec, batch, at, arrived, cache, payload, batchOf, served>>
vars == <<publisherVars, monitorVars>>

TypeOK ==
    /\ PublisherTypeOK
    /\ cmdVec \in Seq(Consumer)
    /\ batch \in Seq(Event) /\ Len(batch) <= MaxBatch
    /\ at \in 0 .. Len(cmdVec) + 1
    /\ arrived \in 0 .. MaxEvents
    /\ cache \in [Serialization -> 0 .. MaxEvents]
    /\ payload \in [EventMessage -> 0 .. MaxEvents]
    /\ batchOf \in [Event -> 0 .. MaxEvents]
    /\ served \in [Event -> SUBSET Consumer]

NoCache == [s \in Serialization |-> 0]

Init ==
    /\ PublisherInit
    /\ cmdVec = <<>>
    /\ batch = <<>> /\ at = 0 /\ arrived = 0
    /\ cache = NoCache
    /\ payload = [m \in EventMessage |-> 0]
    /\ batchOf = [e \in Event |-> 0]
    /\ served = [e \in Event |-> {}]

-----------------------------------------------------------------------------
\* A consumer's monitor is started or stopped (see MonitorLifecycle).
MapFree_Always == TRUE
MapFree == at = 0

StartConsumer(k) ==
    /\ MapFree /\ shut.pc = "up"
    /\ k \notin ToSet(cmdVec)
    /\ cmdVec' = Append(cmdVec, k)
    /\ UNCHANGED <<publisherVars, batch, at, arrived, cache, payload, batchOf, served>>

StopConsumer(i) ==
    /\ MapFree /\ shut.pc = "up"
    /\ cmdVec' = RemoveAt(cmdVec, i)
    /\ UNCHANGED <<publisherVars, batch, at, arrived, cache, payload, batchOf, served>>

\* The task calls the handler with n values.  With no monitor at all the batch
\* is dropped.  (The active flag of the PV, which failures clear and values
\* set, is only logged.)
Cleared_Shared(new) == cache
Cleared(new) == NoCache

ReceiveBatch(n) ==
    /\ batch = <<>> /\ push[Task] = NoPush /\ shut.pc = "up"
    /\ arrived + n <= MaxEvents
    /\ arrived' = arrived + n
    /\ batch' = IF cmdVec = <<>> THEN <<>> ELSE [i \in 1 .. n |-> arrived + i]
    /\ batchOf' = [e \in Event |-> IF e \in arrived + 1 .. arrived + n THEN arrived + 1 ELSE batchOf[e]]
    /\ cache' = Cleared(n)
    /\ UNCHANGED <<publisherVars, cmdVec, at, payload, served>>

\* The next event of the batch, under the shared lock; without an entry for
\* the PV it is skipped.
TakeEvent ==
    /\ batch # <<>> /\ at = 0
    /\ IF cmdVec = <<>>
       THEN batch' = Tail(batch) /\ UNCHANGED at
       ELSE at' = 1 /\ UNCHANGED batch
    /\ UNCHANGED <<publisherVars, cmdVec, arrived, cache, payload, batchOf, served>>

\* Serialize, unless a message of this serialization is in the cache, and push.
Forward ==
    LET e == Head(batch)
        k == cmdVec[at]
        s == SerializationOf[k]
        v == IF cache[s] = 0 THEN e ELSE cache[s]
    IN  /\ at \in 1 .. Len(cmdVec)
        /\ PushMessage(Task, <<e, k>>)
        /\ cache' = [cache EXCEPT ![s] = v]
        /\ payload' = [payload EXCEPT ![<<e, k>>] = v]
        /\ served' = [served EXCEPT ![e] = @ \cup {k}]
        /\ at' = at + 1
        /\ UNCHANGED <<cmdVec, batch, arrived, batchOf>>

EventDone ==
    /\ at > 0 /\ push[Task] = NoPush /\ at > Len(cmdVec)
    /\ at' = 0
    /\ batch' = Tail(batch)
    /\ UNCHANGED <<publisherVars, cmdVec, arrived, cache, payload, batchOf, served>>

\* manageReply of a command, on another thread.
Reply ==
    /\ owner[ReplyMessage] = "none" /\ shut.pc = "up"
    /\ PushMessage(Worker, ReplyMessage)
    /\ UNCHANGED monitorVars

-----------------------------------------------------------------------------
TaskStep == (TakeEvent \/ Forward \/ EventDone) \/ (PushStep(Task) /\ UNCHANGED monitorVars)
WorkerStep == PushStep(Worker) /\ UNCHANGED monitorVars
BrokerStep == Deliver /\ UNCHANGED monitorVars
PollerStep == (AutoPoll \/ AutoPollEnds) /\ UNCHANGED monitorVars
CloseStep  == (Drain \/ Drained \/ Destroyed) /\ UNCHANGED monitorVars
Close      == batch = <<>> /\ Shutdown /\ UNCHANGED monitorVars

Next ==
    \/ \E k \in Consumer : StartConsumer(k)
    \/ \E i \in DOMAIN cmdVec : StopConsumer(i)
    \/ \E n \in 1 .. MaxBatch : ReceiveBatch(n)
    \/ TaskStep \/ Reply \/ WorkerStep
    \/ BrokerStep \/ PollerStep \/ CloseStep \/ Close
    \/ shut.pc = "down" /\ UNCHANGED vars

\* The threads run.  Nothing is assumed of the IOC, of the consumers, of the
\* request to end, or of the broker.
Fairness ==
    /\ WF_vars(TaskStep) /\ WF_vars(WorkerStep)
    /\ WF_vars(PollerStep) /\ WF_vars(CloseStep)

Spec == Init /\ [][Next]_vars /\ Fairness

-----------------------------------------------------------------------------
(* Properties. *)

\* The producer never holds a message whose buffer has been freed: not while
\* it is queued, not when its report is served, however pushes, polls and the
\* broker interleave.
BufferAlive ==
    \A m \in ToSet(outq \o reports) : owner[m] = "library"

\* A message has one fate.  What pushMessage refused is not in the producer
\* and never gets a callback, what it accepted is there once until its single
\* callback, and nothing is freed without the pushing side being told.
OneFate ==
    /\ \A m \in Message : outcome[m] # "none" <=> owner[m] = "freed"
    /\ \A m \in Message :
          Cardinality({i \in DOMAIN (outq \o reports) : (outq \o reports)[i] = m})
            + (IF outcome[m] # "none" THEN 1 ELSE 0) <= 1

\* When the task is done with an event, the consumers of the PV at that moment
\* have each got a message for it and nobody else has, although consumers come
\* and go between the events and although a push may fail or take long.
ConsumersServed ==
    [][at > 0 /\ at' = 0 => served[Head(batch)] = ToSet(cmdVec)]_vars

\* The cache of serialized messages never outlives its batch: a message holds
\* the value of an event of the batch it belongs to.
FromItsBatch ==
    \A e \in Event, k \in Consumer :
        k \in served[e] => payload[<<e, k>>] \in batchOf[e] .. e

\* The whole of what holds between two steps: buffers live as long as the
\* producer holds them, every message has one fate, and every payload belongs
\* to its batch.
PublisherInv == TypeOK /\ BufferAlive /\ OneFate /\ FromItsBatch

\* An accepted message is settled, by a callback or by the end of the
\* publisher, if the library reports every message (it does, within the time
\* limit of messages): the poll thread serves reports even when nobody pushes.
AcceptedIsSettled ==
    WF_vars(BrokerStep) => \A m \in Message : (owner[m] = "library") ~> (owner[m] = "freed" \/ shut.pc = "down")

\* A push returns and the destructor ends, even if the broker is gone and the
\* queue stays full.
PushReturns ==
    /\ \A c \in Caller : (push[c] # NoPush) ~> (push[c] = NoPush)
    /\ (shut.pc = "drain") ~> (shut.pc = "down")

\* Every update of the PV is published with its own value.
UpdateHasItsValue ==
    \A e \in Event, k \in Consumer : k \in served[e] => payload[<<e, k>>] = e
=============================================================================
