--------------------------- MODULE KafkaPublisher ---------------------------
(***************************************************************************)
(* The publisher (service/pubsub/impl/kafka/RDKafkaPublisher.cpp): threads *)
(* that push messages, the thread that polls the producer, the delivery    *)
(* reports and the shutdown.  A message is handed over to librdkafka with  *)
(* its buffer (zero copy), so somebody must free it, once, and only after  *)
(* the delivery report.                                                    *)
(*                                                                         *)
(* External: the producer's queue, which holds a message from produce()    *)
(* until a poll has served its delivery report, at most Capacity of them   *)
(* (queue.buffering.max.messages), and the broker.  A poll serves all the  *)
(* reports there are.                                                      *)
(***************************************************************************)
EXTENDS Sequences, SequencesExt, Naturals

CONSTANTS
    Caller,      \* the threads that call pushMessage
    Message,     \* the messages they push, each once
    NoMessage,
    Capacity,    \* the producer's queue
    MaxRetries,  \* max_retries of pushMessage (3 in the code)
    MaxPolls     \* retry of deinit (100 in the code)

ASSUME PublisherAssumption ==
    /\ NoMessage \notin Message
    /\ Capacity \in Nat \ {0} /\ MaxRetries \in Nat /\ MaxPolls \in Nat

VARIABLES
    outq,     \* messages accepted by produce() and not yet reported
    reports,  \* messages with a delivery report not yet polled
    owner,    \* who has to free the message
    outcome,  \* what the pushing side was told about the message
    push,     \* the pushMessage call of each caller: [pc, msg, retries]
    poller,   \* the auto poll thread: "on" or "off"
    shut      \* the destructor: [pc, polls]

publisherVars == <<outq, reports, owner, outcome, push, poller, shut>>

PushCall == [pc : {"idle", "produce", "poll"}, msg : Message \cup {NoMessage},
             retries : 0 .. MaxRetries]
NoPush == [pc |-> "idle", msg |-> NoMessage, retries |-> 0]

PublisherTypeOK ==
    /\ outq \in Seq(Message)
    /\ reports \in Seq(Message)
    /\ Len(outq) + Len(reports) <= Capacity
    /\ owner \in [Message -> {"none", "caller", "library", "freed"}]
    /\ outcome \in [Message -> {"none", "refused", "called back"}]
    /\ push \in [Caller -> PushCall]
    /\ poller \in {"on", "off"}
    /\ shut \in [pc : {"up", "drain", "join", "down"}, polls : 0 .. MaxPolls]

PublisherInit ==
    /\ outq = <<>> /\ reports = <<>>
    /\ owner = [m \in Message |-> "none"]
    /\ outcome = [m \in Message |-> "none"]
    /\ push = [c \in Caller |-> NoPush]
    /\ poller = "on"
    /\ shut = [pc |-> "up", polls |-> 0]

-----------------------------------------------------------------------------
OutqLen == Len(outq) + Len(reports)

\* producer->poll: for every report dr_cb regains the message, calls back and
\* frees it.  (The callbacks of the workers only log a failed delivery, so the
\* status of the report makes no difference.)
Poll ==
    /\ reports' = <<>>
    /\ outcome' = [m \in Message |-> IF m \in ToSet(reports) THEN "called back" ELSE outcome[m]]
    /\ owner' = [m \in Message |-> IF m \in ToSet(reports) THEN "freed" ELSE owner[m]]

\* The start of pushMessage: message.release() and the headers.
PushMessage(c, m) ==
    /\ push[c] = NoPush
    /\ push' = [push EXCEPT ![c] = [pc |-> "produce", msg |-> m, retries |-> 0]]
    /\ owner' = [owner EXCEPT ![m] = "caller"]
    /\ UNCHANGED <<outq, reports, outcome, poller, shut>>

\* produce() accepts the message, which is now the library's.
Accept_Kept(m) == owner' = [owner EXCEPT ![m] = "freed"]
Accept(m) == owner' = [owner EXCEPT ![m] = "library"]

AfterProduce_Again(c) == push[c]
AfterProduce(c) == NoPush

Produced(c) ==
    /\ push[c].pc = "produce" /\ OutqLen < Capacity
    /\ outq' = Append(outq, push[c].msg)
    /\ Accept(push[c].msg)
    /\ push' = [push EXCEPT ![c] = AfterProduce(c)]
    /\ UNCHANGED <<reports, outcome, poller, shut>>

\* ERR__QUEUE_FULL: poll and try again, at most max_retries times.
RetriesLeft_OneMore(c) == push[c].retries <= MaxRetries
RetriesLeft(c) == push[c].retries < MaxRetries
Retry_NotCounted(p) == [p EXCEPT !.pc = "poll"]
Retry(p) == [p EXCEPT !.pc = "poll", !.retries = @ + 1]

QueueFull(c) ==
    /\ push[c].pc = "produce" /\ OutqLen >= Capacity /\ RetriesLeft(c)
    /\ push' = [push EXCEPT ![c] = Retry(@)]
    /\ UNCHANGED <<outq, reports, owner, outcome, poller, shut>>

PollAndRetry(c) ==
    /\ push[c].pc = "poll"
    /\ Poll
    /\ push' = [push EXCEPT ![c].pc = "produce"]
    /\ UNCHANGED <<outq, poller, shut>>

\* The queue stays full, or produce() fails otherwise (message too large,
\* unknown topic): the message is freed here and -1 is returned.
Refused(c) ==
    /\ push[c].pc = "produce"
    /\ outcome' = [outcome EXCEPT ![push[c].msg] = "refused"]
    /\ owner' = [owner EXCEPT ![push[c].msg] = "freed"]
    /\ push' = [push EXCEPT ![c] = NoPush]
    /\ UNCHANGED <<outq, reports, poller, shut>>

GiveUp(c) == OutqLen >= Capacity /\ push[c].retries = MaxRetries /\ Refused(c)
ProduceFails(c) == Refused(c)

-----------------------------------------------------------------------------
\* The broker, or the time limit of the message, settles the oldest message.
Deliver ==
    /\ shut.pc # "down" /\ outq # <<>>
    /\ outq' = Tail(outq)
    /\ reports' = Append(reports, Head(outq))
    /\ UNCHANGED <<owner, outcome, push, poller, shut>>

\* An iteration of autoPoll that finds something in the queue.
AutoPollWanted_Busy == OutqLen > Capacity
AutoPollWanted == OutqLen > 0

AutoPoll ==
    /\ poller = "on" /\ shut.pc \in {"up", "drain"}
    /\ AutoPollWanted /\ reports # <<>>
    /\ Poll
    /\ UNCHANGED <<outq, push, poller, shut>>

AutoPollEnds ==
    /\ poller = "on" /\ shut.pc = "join"
    /\ poller' = "off"
    /\ UNCHANGED <<outq, reports, owner, outcome, push, shut>>

\* deinit, once no thread can push any more.
Shutdown ==
    /\ shut.pc = "up"
    /\ \A c \in Caller : push[c] = NoPush
    /\ shut' = [pc |-> "drain", polls |-> 0]
    /\ UNCHANGED <<outq, reports, owner, outcome, push, poller>>

Drain ==
    /\ shut.pc = "drain" /\ OutqLen > 0 /\ shut.polls < MaxPolls
    /\ Poll
    /\ shut' = [shut EXCEPT !.polls = @ + 1]
    /\ UNCHANGED <<outq, push, poller>>

Drained ==
    /\ shut.pc = "drain" /\ (OutqLen = 0 \/ shut.polls = MaxPolls)
    /\ shut' = [shut EXCEPT !.pc = "join"]
    /\ UNCHANGED <<outq, reports, owner, outcome, push, poller>>

\* The join, and the destruction of the producer with what is left in it.
Destroyed ==
    /\ shut.pc = "join" /\ poller = "off"
    /\ shut' = [shut EXCEPT !.pc = "down"]
    /\ outq' = <<>> /\ reports' = <<>>
    /\ UNCHANGED <<owner, outcome, push, poller>>

PushStep(c) ==
    Produced(c) \/ QueueFull(c) \/ PollAndRetry(c) \/ GiveUp(c) \/ ProduceFails(c)
=============================================================================
