-------------------------- MODULE SnapshotRegistry --------------------------
(***************************************************************************)
(* The registry of repeating snapshots: startSnapshot, stopSnapshot and    *)
(* triggerSnapshot of ContinuousSnapshotManager, executed by the threads   *)
(* of the node controller's pool, the removal by the expiration thread,    *)
(* the replies, the PVs that snapshots share and the shutdown.  The        *)
(* windows and iterations of a running snapshot are SnapshotEngine and     *)
(* SnapshotWindow; here an iteration is seen only where it makes the       *)
(* expiration thread wait for the last task of an earlier operation of the *)
(* same name.  A PV's channel is EpicsChannels, here its entry, the count  *)
(* of its requests (keep_alive) and the erasing of an entry nobody needs.  *)
(*                                                                         *)
(* A step is a critical section of snapshot_running_mutex_, a call of the  *)
(* EPICS service or a call of the publisher.                               *)
(***************************************************************************)
EXTENDS Integers, Sequences, SequencesExt, FiniteSets, CommandReplies

CONSTANTS
    Start, Stop, Trigger,  \* the commands
    QueueOf,               \* GET_QUEUE_FROM_SNAPSHOT_NAME of a command's snapshot
    PvList,                \* pv_name_list of a start command
    Fault,                 \* what may be wrong with a command: error codes, or 0
    Pv, NoOp,
    PoolThreads            \* threads of the node controller's pool

Command == Start \cup Stop \cup Trigger
Queue == {QueueOf[c] : c \in Command}
Code == 0 .. 7             \* the error codes are negative: 0 to -7
Op == Start                \* a start command makes one SnapshotOpInfo

ASSUME RegistryAssumption ==
    /\ NoOp \notin Op /\ PoolThreads \in Nat \ {0}
    /\ IsFiniteSet(Start)
    /\ Start \cap Stop = {} /\ Start \cap Trigger = {} /\ Stop \cap Trigger = {}
    /\ PvList \in [Start -> Seq(Pv)]
    /\ Fault \in [Command -> SUBSET Code]

VARIABLES
    running,    \* snapshot_running_
    pvMap,      \* pv_snapshot_map_
    requests,   \* keep_alive of each PV's channel
    channel,    \* the PV's entry of channel_map: none, served, or seen unused by its task
    lost,       \* PVs of which a request went to an entry about to be erased
    op,         \* is_running, the removal promise and request_to_trigger
    closing,    \* operations whose last submission task is in the pool
    held,       \* the operation for which the expiration thread waits in
                \* acquireIteration, snapshot_running_mutex_ locked
    stuck,      \* a last task waits in the destructor of the erased condition
                \* variable, for a waiter nobody will notify, iteration_mutex_ locked
    cpc,        \* where the thread of a command is
    todo,       \* PVs a start has still to request
    target,     \* s_to_stop of a stop
    reply,      \* the reply of a command
    shut,       \* the destructor of the node controller
    raced       \* queues that had two commands, or two starts, in progress at a time

channelVars == <<requests, channel, lost>>
registryVars == <<running, pvMap, op, closing, held, stuck>>
vars == <<registryVars, channelVars, cpc, todo, target, reply, shut, raced>>

NoReply == [code |-> 0, topic |-> "", wire |-> Wire(0, <<>>)]
Replied(code, topic) ==
    [code |-> code, topic |-> topic, wire |-> ContinuousReplyMsgpack("text", topic)]
Reply == {NoReply} \cup {Replied(x[1], x[2]) : x \in Code \X {"", "topic"}}
OpRecord == [is_running : BOOLEAN, promise : {"new", "taken", "set"}, trigger : BOOLEAN]
NewOp == [is_running |-> TRUE, promise |-> "new", trigger |-> FALSE]

TypeOK ==
    /\ running \in [Queue -> Op \cup {NoOp}]
    /\ pvMap \in SUBSET (Pv \X Op)
    /\ requests \in [Pv -> Nat]
    /\ channel \in [Pv -> {"none", "served", "leaving"}] /\ lost \in SUBSET Pv
    /\ op \in [Op -> OpRecord]
    /\ closing \in SUBSET Op
    /\ held \in Op \cup {NoOp} /\ stuck \in BOOLEAN
    /\ cpc \in [Command -> {"unsent", "sent", "valid", "request", "wait", "done", "thrown"}]
    /\ todo \in [Start -> Seq(Pv)]
    /\ target \in [Stop -> Op \cup {NoOp}]
    /\ reply \in [Command -> Reply]
    /\ shut \in {"up", "pool", "down"}
    /\ raced \in SUBSET (Queue \X {"commands", "starts"})

Init ==
    /\ running = [q \in Queue |-> NoOp]
    /\ pvMap = {} /\ closing = {} /\ raced = {}
    /\ requests = [p \in Pv |-> 0]
    /\ channel = [p \in Pv |-> "none"] /\ lost = {}
    /\ held = NoOp /\ stuck = FALSE
    /\ op = [o \in Op |-> NewOp]
    /\ cpc = [c \in Command |-> "unsent"]
    /\ todo = [c \in Start |-> <<>>]
    /\ target = [c \in Stop |-> NoOp]
    /\ reply = [c \in Command |-> NoReply]
    /\ shut = "up"

-----------------------------------------------------------------------------
InProgress(c) == cpc[c] \notin {"unsent", "done", "thrown"}

\* A thread of the pool takes the command that submitCommand has put there,
\* before or while the node controller waits for the pool.
Take(c) ==
    /\ shut # "down" /\ cpc[c] = "unsent"
    /\ Cardinality({d \in Command : InProgress(d)}) < PoolThreads
    /\ cpc' = [cpc EXCEPT ![c] = "sent"]
    /\ raced' = raced \cup
         LET others == {d \in Command : InProgress(d) /\ QueueOf[d] = QueueOf[c]} IN
           {<<QueueOf[d], "commands">> : d \in others}
             \cup {<<QueueOf[d], "starts">> : d \in {d \in others : {c, d} \subseteq Start}}
    /\ UNCHANGED <<registryVars, channelVars, todo, target, reply, shut>>

\* manageReply, then the handler returns.
Answer(c, code, topic) ==
    /\ reply' = [reply EXCEPT ![c] = Replied(code, topic)]
    /\ cpc' = [cpc EXCEPT ![c] = "done"]

\* The expiration thread does not hold snapshot_running_mutex_.
Unlocked == held = NoOp

Goto(c, place) == cpc' = [cpc EXCEPT ![c] = place] /\ UNCHANGED reply

\* The already-running test, in a critical section of its own, and after it
\* the parameters, the PV names and init(), which look at the command only.
StartCheck(c) ==
    /\ c \in Start /\ cpc[c] = "sent"
    /\ \E fault \in Fault[c] :
         IF fault = 1 THEN Answer(c, 1, "")
         ELSE /\ Unlocked
              /\ IF running[QueueOf[c]] # NoOp THEN Answer(c, 0, "")
                 ELSE IF fault # 0 THEN Answer(c, fault, "")
                 ELSE Goto(c, "valid")
    /\ UNCHANGED <<registryVars, channelVars, todo, target, shut, raced>>

\* createQueue or getQueueMetadata throws: the pool swallows the exception and
\* nobody is answered.
StartTopicFails(c) ==
    /\ c \in Start /\ cpc[c] = "valid"
    /\ Goto(c, "thrown")
    /\ UNCHANGED <<registryVars, channelVars, todo, target, shut, raced>>

\* The topic exists; the operation is entered.  emplace leaves an entry that is
\* already there.
StartInsert(c) ==
    LET q == QueueOf[c] IN
    /\ c \in Start /\ cpc[c] = "valid" /\ Unlocked
    /\ running' = [running EXCEPT ![q] = IF @ = NoOp THEN c ELSE @]
    /\ pvMap' = pvMap \cup {<<p, c>> : p \in ToSet(PvList[c])}
    /\ todo' = [todo EXCEPT ![c] = PvList[c]]
    /\ Goto(c, "request")
    /\ UNCHANGED <<channelVars, op, closing, held, stuck, target, shut, raced>>

\* monitorChannel(pv, true): the request is counted on the entry that is there,
\* be it one that its task is about to erase, or on a new one.
StartRequest(c) ==
    LET p == Head(todo[c]) IN
    /\ c \in Start /\ cpc[c] = "request" /\ todo[c] # <<>>
    /\ requests' = [requests EXCEPT ![p] = @ + 1]
    /\ channel' = [channel EXCEPT ![p] = IF @ = "none" THEN "served" ELSE @]
    /\ lost' = lost \cup {x \in {p} : channel[x] = "leaving"}
    /\ todo' = [todo EXCEPT ![c] = Tail(@)]
    /\ UNCHANGED <<registryVars, cpc, target, reply, shut, raced>>

StartDone(c) ==
    /\ c \in Start /\ cpc[c] = "request" /\ todo[c] = <<>>
    /\ Answer(c, 0, "topic")
    /\ UNCHANGED <<registryVars, channelVars, todo, target, shut, raced>>

TriggerSnapshot(c) ==
    LET o == running[QueueOf[c]] IN
    /\ c \in Trigger /\ cpc[c] = "sent"
    /\ \E fault \in Fault[c] :
         IF fault # 0 THEN Answer(c, 1, "") /\ UNCHANGED op
         ELSE /\ Unlocked
              /\ IF o = NoOp THEN Answer(c, 2, "") /\ UNCHANGED op
                 ELSE Answer(c, 0, "") /\ op' = [op EXCEPT ![o].trigger = TRUE]
    /\ UNCHANGED <<running, pvMap, closing, held, stuck, channelVars, todo, target, shut, raced>>

\* A stop takes the future of the operation (a second get_future throws),
\* clears is_running and waits.
AfterStop_AtOnce == "done"
AfterStop == "wait"

StopSnapshot(c) ==
    LET o == running[QueueOf[c]] IN
    /\ c \in Stop /\ cpc[c] = "sent"
    /\ \E fault \in Fault[c] :
         IF fault # 0 THEN Answer(c, 1, "") /\ UNCHANGED <<op, target>>
         ELSE /\ Unlocked
              /\ IF o = NoOp THEN Answer(c, 0, "") /\ UNCHANGED <<op, target>>
                 ELSE IF op[o].promise # "new" THEN Goto(c, "thrown") /\ UNCHANGED <<op, target>>
                 ELSE /\ op' = [op EXCEPT ![o] = [@ EXCEPT !.is_running = FALSE, !.promise = "taken"]]
                      /\ target' = [target EXCEPT ![c] = o]
                      /\ Goto(c, AfterStop)
    /\ UNCHANGED <<running, pvMap, closing, held, stuck, channelVars, todo, shut, raced>>

StopDone(c) ==
    /\ c \in Stop /\ cpc[c] = "wait" /\ op[target[c]].promise = "set"
    /\ Answer(c, 0, "")
    /\ UNCHANGED <<registryVars, channelVars, todo, target, shut, raced>>

-----------------------------------------------------------------------------
(* The expiration thread and the last submission task. *)

\* Where a PV is in the list of an operation: URIs that differ may name one PV.
Positions(o, p) == {i \in DOMAIN PvList[o] : PvList[o][i] = p}

\* monitorChannel(pv, false) for every PV of the list; a channel that is not
\* there is left alone.
Released_All(o) == [p \in Pv |-> IF p \in ToSet(PvList[o]) THEN 0 ELSE requests[p]]
Released(o) ==
    [p \in Pv |-> LET n == Cardinality(Positions(o, p))
                  IN  IF requests[p] > n THEN requests[p] - n ELSE 0]

Unmapped_Kept(o) == pvMap
Unmapped(o) == {e \in pvMap : e[2] # o}

\* An earlier operation of the name has its last iteration in progress:
\* acquireIteration of the next one waits, and the expiration thread with it.
LastIteration(q) == \E o \in closing : QueueOf[o] = q

Decommission(q) ==
    LET o == running[q] IN
    /\ shut # "down" /\ Unlocked /\ o # NoOp /\ ~op[o].is_running
    /\ running' = [running EXCEPT ![q] = NoOp]
    /\ pvMap' = Unmapped(o)
    /\ requests' = Released(o)
    /\ IF LastIteration(q) THEN held' = o /\ UNCHANGED closing
                          ELSE closing' = closing \cup {o} /\ UNCHANGED held
    /\ UNCHANGED <<channel, lost, op, stuck, cpc, todo, target, reply, shut, raced>>

\* A running operation is due.  What it submits then is SnapshotEngine; only the
\* wait for the last task of its predecessor is seen here.
Expiration(q) ==
    /\ shut # "down" /\ Unlocked /\ running[q] # NoOp /\ op[running[q]].is_running
    /\ LastIteration(q)
    /\ held' = running[q]
    /\ UNCHANGED <<running, pvMap, op, closing, stuck>>
    /\ UNCHANGED <<channelVars, cpc, todo, target, reply, shut, raced>>

\* removeSnapshot, then the promise.  removeSnapshot notifies who waits for the
\* iteration before it ends the iteration, and erases the condition variable with
\* it: the waiter may look too early and wait again, and then the destructor of
\* the condition variable waits for it.
WaitedFor(o) == held # NoOp /\ QueueOf[held] = QueueOf[o]

RemoveSnapshot(o) ==
    /\ closing' = (closing \ {o})
                    \cup {h \in {held} : WaitedFor(o) /\ running[QueueOf[h]] # h}
    /\ held' = IF WaitedFor(o) THEN NoOp ELSE held
    /\ stuck' = FALSE
    /\ op' = [op EXCEPT ![o].promise = "set"]
    /\ UNCHANGED <<running, pvMap, channelVars, cpc, todo, target, reply, shut, raced>>

LastTask(o) == o \in closing /\ ~stuck /\ RemoveSnapshot(o)

LastTaskHangs(o) ==
    /\ o \in closing /\ ~stuck /\ WaitedFor(o)
    /\ stuck' = TRUE
    /\ UNCHANGED <<running, pvMap, op, closing, held>>
    /\ UNCHANGED <<channelVars, cpc, todo, target, reply, shut, raced>>

\* A condition variable may wake without a notification; nothing makes it.
SpuriousWakeup(o) == o \in closing /\ stuck /\ WaitedFor(o) /\ RemoveSnapshot(o)

-----------------------------------------------------------------------------
(* The task of a channel finds no request left, and erases the entry later, *)
(* with what has been requested of it in between.                           *)

ChannelUnused(p) ==
    /\ channel[p] = "served" /\ requests[p] = 0
    /\ channel' = [channel EXCEPT ![p] = "leaving"]
    /\ UNCHANGED <<requests, lost, registryVars, cpc, todo, target, reply, shut, raced>>

ChannelErased(p) ==
    /\ channel[p] = "leaving"
    /\ channel' = [channel EXCEPT ![p] = "none"]
    /\ requests' = [requests EXCEPT ![p] = 0]
    /\ UNCHANGED <<lost, registryVars, cpc, todo, target, reply, shut, raced>>

-----------------------------------------------------------------------------
\* The node controller waits for its pool before it destroys the workers, and
\* with them the expiration thread, which it joins.
ShutdownBegins ==
    /\ shut = "up"
    /\ shut' = "pool"
    /\ UNCHANGED <<registryVars, channelVars, cpc, todo, target, reply, raced>>

PoolIdle_NotWaited == TRUE
PoolIdle == \A c \in Command : ~InProgress(c)

ShutdownEnds ==
    /\ shut = "pool" /\ PoolIdle /\ Unlocked
    /\ shut' = "down"
    /\ UNCHANGED <<registryVars, channelVars, cpc, todo, target, reply, raced>>

Down == shut = "down" /\ UNCHANGED vars

CommandStep(c) ==
    \/ StartCheck(c) \/ StartTopicFails(c) \/ StartInsert(c)
    \/ StartRequest(c) \/ StartDone(c)
    \/ TriggerSnapshot(c) \/ StopSnapshot(c) \/ StopDone(c)

Next ==
    \/ \E c \in Command : Take(c) \/ CommandStep(c)
    \/ \E q \in Queue : Decommission(q) \/ Expiration(q)
    \/ \E o \in Op : LastTask(o) \/ LastTaskHangs(o) \/ SpuriousWakeup(o)
    \/ \E p \in Pv : ChannelUnused(p) \/ ChannelErased(p)
    \/ ShutdownBegins \/ ShutdownEnds \/ Down

\* The pools and the expiration thread run: a last task comes to its end or to
\* where it hangs.  No spurious wake-up is promised.
Fairness ==
    /\ \A c \in Command : WF_vars(CommandStep(c))
    /\ \A q \in Queue : WF_vars(Decommission(q))
    /\ \A o \in Op : WF_vars(LastTask(o) \/ LastTaskHangs(o))
    /\ WF_vars(ShutdownEnds)

Spec == Init /\ [][Next]_vars /\ Fairness

-----------------------------------------------------------------------------
(* Properties. *)

\* When a stop has been answered, the operation it found is out of both maps,
\* however many commands and removals ran in between: no event reaches it and
\* its name can be started again.
StoppedIsGone ==
    \A c \in Stop : cpc[c] = "done" /\ target[c] # NoOp =>
        /\ \A q \in Queue : running[q] # target[c]
        /\ \A p \in Pv : <<p, target[c]>> \notin pvMap

\* Unless two starts of a name overlap, every operation that receives events
\* is the running one of its name: whatever stops and restarts come between,
\* none is left collecting events that nobody fetches.
NoOrphan ==
    \A e \in pvMap : \/ running[QueueOf[e[2]]] = e[2]
                    \/ <<QueueOf[e[2]], "starts">> \in raced

Raced(q) == <<q, "commands">> \in raced
Users(p) == {o \in Op : p \in ToSet(PvList[o])}
Calm(p) == \A o \in Users(p) : ~Raced(QueueOf[o])

\* A snapshot whose start has been answered keeps its PVs monitored until it is
\* stopped, although other snapshots of the same PVs come and go: the entry has
\* requests and its task does not leave.  Not so once a request of the PV was
\* counted on an entry that its task was about to erase.
StartedIsMonitored ==
    \A p \in Pv, q \in Queue :
        LET o == running[q] IN
        o # NoOp /\ cpc[o] = "done" /\ p \in ToSet(PvList[o]) /\ Calm(p) /\ p \notin lost =>
            requests[p] > 0 /\ channel[p] = "served"

\* When no command is in progress, the requests of a PV are never more than those
\* of the snapshots that run, one for each place in a list: no monitor is left
\* behind.  They are exactly those if no request of the PV was lost: none is
\* released twice.
Quiescent == \A c \in Command : ~InProgress(c)
Wanted(p) == UNION {{o} \X Positions(o, p) : o \in {o \in Op : running[QueueOf[o]] = o}}
RequestsBalanced ==
    Quiescent => \A p \in Pv : Calm(p) =>
        /\ requests[p] <= Cardinality(Wanted(p))
        /\ p \notin lost => requests[p] = Cardinality(Wanted(p))

\* The client can read every reply: the header announces the pairs that follow.
RepliesReadable == \A c \in Command : Decodable(reply[c].wire)

\* The registry as the other parts rely on it: the maps agree, no operation is
\* left collecting (NoOrphan), and what the client is sent can be read.
RegistryInv == TypeOK /\ NoOrphan /\ RepliesReadable

\* Snapshots share PVs and give back only what they took: a PV is monitored as
\* long as a started snapshot needs it, unless a request of it was lost, and no
\* longer, whatever was lost.
SharedPvsHeld == StartedIsMonitored /\ RequestsBalanced

\* Every command that a thread takes is answered, a stop after its removal, even
\* when the shutdown begins meanwhile: in the end none is in progress.  A failing
\* broker, or a command that overlaps another one of its snapshot, may leave it
\* without an answer, and so may a last task that hangs for good because the name
\* was started again before it ran.
Settled(c) ==
    \/ cpc[c] \in {"unsent", "done"}
    \/ cpc[c] = "thrown" /\ (c \in Start \/ Raced(QueueOf[c]))
CommandsAnswered == []<>~stuck => <>[](\A c \in Command : Settled(c))
=============================================================================
