---------------------------- MODULE EpicsChannels ----------------------------
(***************************************************************************)
(* The channels that EpicsServiceManager monitors.  Commands request and   *)
(* give back a PV (monitorChannel); each PV in channel_map has one         *)
(* ChannelTask, a task that runs in the pool, polls its monitor operation, *)
(* broadcasts what it found and puts itself back at the end of the queue,  *)
(* until it finds that nobody requests the PV any more.                    *)
(*                                                                         *)
(* Every critical section on channel_map_mutex is one step; the atomics    *)
(* that the task reads outside of it are read in steps of their own.  PV   *)
(* values are abstracted to version numbers, the monitor queue to the      *)
(* newest version in it.  Throttling only delays a task; the active flag   *)
(* and the counters are statistics.                                        *)
(***************************************************************************)
EXTENDS Integers, Sequences, FiniteSets

CONSTANTS
  Pv,          \* PV names
  Client,      \* who requests channels: snapshots and monitor commands
  Entry,       \* ChannelTask objects; one is reused when its task is over
  NoEntry,     \* "not in the map"
  Threads,     \* thread_count of the pool
  MaxVersion   \* bound: versions of a PV

ASSUME ChannelConstants ==
  /\ NoEntry \notin Entry
  /\ Threads \in Nat \ {0}
  /\ MaxVersion \in Nat \ {0}
  /\ IsFiniteSet(Client)

Version == 0 .. MaxVersion    \* 0 is "nothing"

VARIABLES
  holders,         \* per PV, the clients that requested it and did not give it back
  channel_map,     \* PV name -> ChannelTask
  pv,              \* the PV of an entry
  keep_alive,      \* ChannelMapElement::keep_alive
  to_force,        \* ChannelMapElement::to_force
  force_update,    \* MonitorOperation::force_update
  get_op,          \* the get of a forced update: none, asked or done
  got,             \* the version that get was answered with
  connected,       \* the IOC accepted the subscription
  unread,          \* newest version in the monitor queue
  received,        \* received_event
  pc,              \* control point of the task of an entry
  queue,           \* the pool's queue
  end_processing,  \* set by the destructor
  cleared,         \* the destructor went past the pool's wait
  ioc,             \* current version of a PV at its IOC
  seen             \* last version broadcast to the handlers

mapVars  == <<holders, channel_map, pv, keep_alive>>
monVars  == <<force_update, get_op, got, connected, unread, received>>
endVars  == <<end_processing, cleared>>
vars == <<mapVars, to_force, monVars, pc, queue, endVars, ioc, seen>>

Point == {"free", "created", "queued", "check", "erase", "force", "poll", "get",
          "deliver", "requeue", "ended"}

TypeOK ==
  /\ holders \in [Pv -> SUBSET Client]
  /\ channel_map \in [Pv -> Entry \cup {NoEntry}]
  /\ pv \in [Entry -> Pv]
  /\ keep_alive \in [Entry -> Nat]
  /\ to_force \in [Entry -> BOOLEAN]
  /\ force_update \in [Entry -> BOOLEAN]
  /\ get_op \in [Entry -> {"none", "asked", "done"}]
  /\ got \in [Entry -> Version]
  /\ connected \in [Entry -> BOOLEAN]
  /\ unread \in [Entry -> Version]
  /\ received \in [Entry -> Version]
  /\ pc \in [Entry -> Point]
  /\ queue \in Seq(Entry)
  /\ end_processing \in BOOLEAN
  /\ cleared \in BOOLEAN
  /\ ioc \in [Pv -> Version]
  /\ seen \in [Pv -> Version]

Init ==
  /\ holders = [p \in Pv |-> {}]
  /\ channel_map = [p \in Pv |-> NoEntry]
  /\ pv \in [Entry -> Pv]
  /\ keep_alive = [e \in Entry |-> 0]
  /\ to_force = [e \in Entry |-> FALSE]
  /\ force_update = [e \in Entry |-> FALSE]
  /\ get_op = [e \in Entry |-> "none"]
  /\ got = [e \in Entry |-> 0]
  /\ connected = [e \in Entry |-> FALSE]
  /\ unread = [e \in Entry |-> 0]
  /\ received = [e \in Entry |-> 0]
  /\ pc = [e \in Entry |-> "free"]
  /\ queue = <<>>
  /\ end_processing = FALSE
  /\ cleared = FALSE
  /\ ioc = [p \in Pv |-> 1]
  /\ seen = [p \in Pv |-> 0]

Goto(e, p) == pc' = [pc EXCEPT ![e] = p]
Running == {e \in Entry : pc[e] \notin {"free", "created", "queued", "ended"}}

-----------------------------------------------------------------------------
(***************************************************************************)
(* Commands.                                                               *)
(***************************************************************************)

\* addChannel finds the PV in the map.
AddToChannel(c, p) ==
  LET e == channel_map[p] IN
  /\ ~end_processing
  /\ c \notin holders[p]
  /\ e # NoEntry
  /\ holders' = [holders EXCEPT ![p] = @ \cup {c}]
  /\ keep_alive' = [keep_alive EXCEPT ![e] = @ + 1]
  /\ to_force' = [to_force EXCEPT ![e] = TRUE]
  /\ UNCHANGED <<channel_map, pv, monVars, pc, queue, endVars, ioc, seen>>

\* addChannel creates the entry, its channel and its monitor operation.
\* Mutation: without looking whether the map has one.
NotLooked(p) == TRUE
Unmonitored(p) == channel_map[p] = NoEntry

AddChannel(c, p, e) ==
  /\ ~end_processing
  /\ c \notin holders[p]
  /\ Unmonitored(p)
  /\ pc[e] = "free"
  /\ holders' = [holders EXCEPT ![p] = @ \cup {c}]
  /\ channel_map' = [channel_map EXCEPT ![p] = e]
  /\ pv' = [pv EXCEPT ![e] = p]
  /\ keep_alive' = [keep_alive EXCEPT ![e] = 1]
  /\ to_force' = [to_force EXCEPT ![e] = FALSE]
  /\ Goto(e, "created")
  /\ UNCHANGED <<monVars, queue, endVars, ioc, seen>>

\* The end of addChannel, outside the lock: detach_task.
Detach(e) ==
  /\ pc[e] = "created"
  /\ queue' = Append(queue, e)
  /\ Goto(e, "queued")
  /\ UNCHANGED <<mapVars, to_force, monVars, endVars, ioc, seen>>

\* removeChannel's arithmetic on keep_alive.
\* Mutations: the count is not held at 0; the last request is not given back.
Minus1(k) == k - 1
KeepLast(k) == IF k <= 1 THEN k ELSE k - 1
CountDown(k) == IF k <= 1 THEN 0 ELSE k - 1

RemoveChannel(c, p) ==
  LET e == channel_map[p] IN
  /\ ~end_processing
  /\ c \in holders[p]
  /\ holders' = [holders EXCEPT ![p] = @ \ {c}]
  /\ keep_alive' = IF e = NoEntry THEN keep_alive
                   ELSE [keep_alive EXCEPT ![e] = CountDown(@)]
  /\ UNCHANGED <<channel_map, pv, to_force, monVars, pc, queue, endVars, ioc, seen>>

ForceMonitorChannelUpdate(p) ==
  LET e == channel_map[p] IN
  /\ ~end_processing
  /\ e # NoEntry
  /\ ~to_force[e]
  /\ to_force' = [to_force EXCEPT ![e] = TRUE]
  /\ UNCHANGED <<mapVars, monVars, pc, queue, endVars, ioc, seen>>

-----------------------------------------------------------------------------
(***************************************************************************)
(* The task of a channel.                                                  *)
(***************************************************************************)

\* The task's tests of end_processing.  Mutation: the flag is not seen.
FlagNotSeen == FALSE
EndSeen == end_processing

\* A thread of the pool takes the oldest task, which returns at once when the
\* manager is being destroyed.
Begin ==
  /\ queue # <<>>
  /\ Cardinality(Running) < Threads
  /\ queue' = Tail(queue)
  /\ Goto(Head(queue), IF EndSeen THEN "ended" ELSE "check")
  /\ UNCHANGED <<mapVars, to_force, monVars, endVars, ioc, seen>>

\* The test of keep_alive, outside any lock.
CheckKeepAlive(e) ==
  /\ pc[e] = "check"
  /\ Goto(e, IF keep_alive[e] = 0 THEN "erase" ELSE "force")
  /\ UNCHANGED <<mapVars, to_force, monVars, queue, endVars, ioc, seen>>

\* cleanupAndErase; with the last reference the entry, its subscription and
\* its pending get go away.
CleanupAndErase(e) ==
  /\ pc[e] = "erase"
  /\ channel_map' = [channel_map EXCEPT ![pv[e]] = IF @ = e THEN NoEntry ELSE @]
  /\ keep_alive' = [keep_alive EXCEPT ![e] = 0]
  /\ to_force' = [to_force EXCEPT ![e] = FALSE]
  /\ force_update' = [force_update EXCEPT ![e] = FALSE]
  /\ get_op' = [get_op EXCEPT ![e] = "none"]
  /\ got' = [got EXCEPT ![e] = 0]
  /\ connected' = [connected EXCEPT ![e] = FALSE]
  /\ unread' = [unread EXCEPT ![e] = 0]
  /\ received' = [received EXCEPT ![e] = 0]
  /\ Goto(e, "free")
  /\ UNCHANGED <<holders, pv, queue, endVars, ioc, seen>>

\* Mutation: the request is taken and not passed on.
DropForce(e) == force_update[e]
Forced(e) == force_update[e] \/ to_force[e]

TakeForce(e) ==
  /\ pc[e] = "force"
  /\ to_force' = [to_force EXCEPT ![e] = FALSE]
  /\ force_update' = [force_update EXCEPT ![e] = Forced(e)]
  /\ Goto(e, "poll")
  /\ UNCHANGED <<mapVars, get_op, got, connected, unread, received, queue,
                 endVars, ioc, seen>>

\* poll, first part: drain the monitor queue.
Poll(e) ==
  /\ pc[e] = "poll"
  /\ received' = [received EXCEPT ![e] = unread[e]]
  /\ unread' = [unread EXCEPT ![e] = 0]
  /\ Goto(e, IF unread[e] = 0 /\ force_update[e] THEN "get" ELSE "deliver")
  /\ UNCHANGED <<mapVars, to_force, force_update, get_op, got, connected, queue,
                 endVars, ioc, seen>>

\* poll, second part: a forced update without news asks for the value with a
\* get, or takes the answer of the get it asked for in an earlier round.
PollByGet(e) ==
  /\ pc[e] = "get"
  /\ get_op' = [get_op EXCEPT ![e] = IF @ = "done" THEN "none" ELSE "asked"]
  /\ received' = [received EXCEPT ![e] = IF get_op[e] = "done" THEN got[e] ELSE @]
  /\ got' = [got EXCEPT ![e] = IF get_op[e] = "done" THEN 0 ELSE @]
  /\ force_update' = [force_update EXCEPT ![e] = get_op[e] # "done"]
  /\ Goto(e, "deliver")
  /\ UNCHANGED <<mapVars, to_force, connected, unread, queue, endVars, ioc, seen>>

\* getEventData and the broadcast to the handlers.
Deliver(e) ==
  /\ pc[e] = "deliver"
  /\ seen' = IF received[e] = 0 THEN seen ELSE [seen EXCEPT ![pv[e]] = received[e]]
  /\ received' = [received EXCEPT ![e] = 0]
  /\ Goto(e, "requeue")
  /\ UNCHANGED <<mapVars, to_force, force_update, get_op, got, connected, unread, queue,
                 endVars, ioc>>

\* detach_task appends to the pool's queue.
\* Mutations: a task that comes back is served first; it is not handed back.
InFront(q, e) == <<e>> \o q
NotHandedBack(q, e) == q
AtEnd(q, e) == Append(q, e)

\* The end of the task.
Requeue(e) ==
  /\ pc[e] = "requeue"
  /\ IF EndSeen
     THEN Goto(e, "ended") /\ UNCHANGED queue
     ELSE Goto(e, "queued") /\ queue' = AtEnd(queue, e)
  /\ UNCHANGED <<mapVars, to_force, monVars, endVars, ioc, seen>>

TaskStep(e) ==
  \/ CheckKeepAlive(e)
  \/ CleanupAndErase(e)
  \/ TakeForce(e)
  \/ Poll(e)
  \/ PollByGet(e)
  \/ Deliver(e)
  \/ Requeue(e)

-----------------------------------------------------------------------------
(***************************************************************************)
(* The IOC and its client library, as the code uses them.                  *)
(***************************************************************************)
Live(e) == pc[e] \notin {"free", "ended"} /\ ~cleared

\* The subscription is accepted; its first event is the current value.
Connect(e) ==
  /\ Live(e)
  /\ ~connected[e]
  /\ connected' = [connected EXCEPT ![e] = TRUE]
  /\ unread' = [unread EXCEPT ![e] = ioc[pv[e]]]
  /\ UNCHANGED <<mapVars, to_force, force_update, get_op, got, received, pc, queue,
                 endVars, ioc, seen>>

IocUpdate(p) ==
  /\ ioc[p] < MaxVersion
  /\ ioc' = [ioc EXCEPT ![p] = @ + 1]
  /\ unread' = [e \in Entry |-> IF Live(e) /\ connected[e] /\ pv[e] = p THEN ioc[p] + 1
                                ELSE unread[e]]
  /\ UNCHANGED <<mapVars, to_force, force_update, get_op, got, connected, received, pc,
                 queue, endVars, seen>>

\* The IOC answers the get of a forced update (getDone keeps the answer).
GetDone(e) ==
  /\ Live(e)
  /\ get_op[e] = "asked"
  /\ get_op' = [get_op EXCEPT ![e] = "done"]
  /\ got' = [got EXCEPT ![e] = ioc[pv[e]]]
  /\ UNCHANGED <<mapVars, to_force, force_update, connected, unread, received, pc, queue,
                 endVars, ioc, seen>>

-----------------------------------------------------------------------------
(***************************************************************************)
(* The destructor.  No addChannel is running: its caller keeps the manager *)
(* alive.                                                                  *)
(***************************************************************************)
Shutdown ==
  /\ ~end_processing
  /\ \A e \in Entry : pc[e] # "created"
  /\ end_processing' = TRUE
  /\ UNCHANGED <<mapVars, to_force, monVars, pc, queue, cleared, ioc, seen>>

\* What processing_pool->wait() waits for.
PoolDrained == queue = <<>> /\ Running = {}

\* The wait returned: the channels are cleared.
ShutdownClear ==
  /\ end_processing /\ ~cleared
  /\ PoolDrained
  /\ cleared' = TRUE
  /\ channel_map' = [p \in Pv |-> NoEntry]
  /\ UNCHANGED <<holders, pv, keep_alive, to_force, monVars, pc, queue, end_processing,
                 ioc, seen>>

Destroyed == cleared /\ UNCHANGED vars

Next ==
  \/ \E c \in Client, p \in Pv :
       \/ AddToChannel(c, p)
       \/ RemoveChannel(c, p)
       \/ \E e \in Entry : AddChannel(c, p, e)
  \/ \E p \in Pv : ForceMonitorChannelUpdate(p) \/ IocUpdate(p)
  \/ \E e \in Entry : Detach(e) \/ TaskStep(e) \/ Connect(e) \/ GetDone(e)
  \/ Begin
  \/ Shutdown
  \/ ShutdownClear
  \/ Destroyed

Spec == Init /\ [][Next]_vars

\* The threads of the pool run, a command thread finishes addChannel and the
\* destructor finishes.  Clients and IOCs owe nothing.
Fairness ==
  /\ \A e \in Entry : WF_vars(Detach(e)) /\ WF_vars(TaskStep(e))
  /\ WF_vars(Begin)
  /\ WF_vars(ShutdownClear)

FairSpec == Spec /\ Fairness

-----------------------------------------------------------------------------
(***************************************************************************)
(* Properties.                                                             *)
(***************************************************************************)

\* A channel in the map has a task that is not over, for as long as the
\* manager runs; a task that is not over belongs to a channel in the map; the
\* pool's queue holds exactly the tasks that wait, each of them once.
MapHasTask ==
  \A p \in Pv : channel_map[p] # NoEntry =>
    /\ pv[channel_map[p]] = p
    /\ pc[channel_map[p]] # "free"
    /\ ~end_processing => pc[channel_map[p]] # "ended"

TaskInMap == \A e \in Entry : pc[e] \notin {"free", "ended"} => channel_map[pv[e]] = e

QueuedOnce ==
  /\ \A e \in Entry : pc[e] = "queued" <=> \E i \in 1 .. Len(queue) : queue[i] = e
  /\ \A i, j \in 1 .. Len(queue) : queue[i] = queue[j] => i = j

\* task and addChannel: every channel in the map is worked on by exactly one
\* task, which is in the queue once or in a thread, for as long as the manager
\* runs: no channel is forgotten and none is polled by two threads.
ChannelsServed == MapHasTask /\ TaskInMap /\ QueuedOnce

\* addChannel and removeChannel: a channel is never kept by more requests than
\* there are clients that still hold the PV, whatever requests were lost
\* before and given back later: no request keeps a channel alive after its
\* client gave it back.
KeepAliveBounded ==
  \A p \in Pv : channel_map[p] # NoEntry =>
    keep_alive[channel_map[p]] <= Cardinality(holders[p])

\* addChannel "Start processing immediately" and startSnapshot "start monitor
\* for all needed pv": while a client holds a PV, the PV is monitored.
HeldIsMonitored ==
  \A p \in Pv : holders[p] # {} /\ ~end_processing => channel_map[p] # NoEntry

\* expirationCheckerLoop forwards "the last data for each non-updated PV" with
\* a forced update: what the handlers get never goes back to an older value.
ForcedDataIsLast == [][\A p \in Pv : seen'[p] >= seen[p]]_vars

\* A PV that nobody holds any more is not monitored forever.
UnheldRemoved == \A p \in Pv : holders[p] = {} ~> channel_map[p] = NoEntry \/ holders[p] # {}

\* A forced update is passed on to the monitor operation, or the channel goes
\* away: the flag that forceMonitorChannelUpdate leaves for the task is not lost.
ForceTaken ==
  \A e \in Entry : to_force[e] ~> force_update[e] \/ pc[e] \in {"free", "ended"}

\* Every new value of a PV in the map reaches the handlers, unless the channel
\* is removed: the tasks that requeue themselves do not starve each other.
UpdatesBroadcast ==
  \A e \in Entry : \A v \in 1 .. MaxVersion :
    unread[e] = v ~> seen[pv[e]] >= v \/ pc[e] \in {"free", "ended"}

\* What the self-requeueing tasks owe their clients: new values and forced
\* updates get through, and a channel that nobody holds goes away.
ChannelsProgress == UpdatesBroadcast /\ ForceTaken /\ UnheldRemoved

\* The destructor's wait for the pool ends although tasks requeue themselves.
ShutdownEnds == end_processing ~> cleared
=============================================================================
