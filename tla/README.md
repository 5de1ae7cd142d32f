# Verification of k2eg

k2eg is a gateway between EPICS process variables (PVs) and Kafka: clients send
JSON commands on a topic, the gateway reads, writes, monitors and snapshots PVs
and publishes the results. The program is a set of thread pools, callbacks and
timers around a few shared maps; almost all of its difficult behaviour is
concurrency. This directory models that behaviour in TLA+, checks it with TLC on
small instances and proves part of it with TLAPS.

All source paths below are relative to `src/src/k2eg/` unless they start with
`src/`.

## 1. Inventory

| Component | State | Operations | What is hard |
|---|---|---|---|
| Repeating snapshot engine (`controller/node/worker/snapshot/ContinuousSnapshotManager.*`, `SnapshotOpInfo.*`) | `snapshot_running_`, `pv_snapshot_map_`, `active_iteration_id_`; per name `current_iteration_`, `iteration_in_progress_`, `iteration_cv_`, `iteration_states_`; per operation header gate, data counter, `removal_promise` | start, trigger, stop; expiration scan; submission task (Header, Data, Tail); removal | an expiration thread, a pool of publishers and command threads; order of the parts on a topic; restart of a name while its predecessor is removed |
| Snapshot windows (`SnapshotRepeatingOpInfo.cpp`, `BackTimedBufferedSnapshotOpInfo.cpp`, `common/TimeWindowEventBuffer.h`) | latest value per PV; two swapped ring buffers, PVs without events | addData, isTimeout, getData | events arriving while buffers are swapped; window boundaries; growth of the ring |
| EPICS channel service (`service/epics/EpicsServiceManager.*`, `common/ThrottlingManager.h`) | `channel_map`, per channel `keep_alive`, `to_force`; pool queue | addChannel, removeChannel, forceMonitorChannelUpdate, channel task, destructor | reference count tested outside the lock; tasks that requeue themselves; forced updates |
| EPICS monitor/get/put operations (`service/epics/Epics*Operation.cpp`) | `received_event`, `force_update`, `get_op`; merge of two requests | poll, getEventData, callbacks of the client library | callbacks against polls; one operation shared by a monitor and a one-shot snapshot |
| One-shot snapshot worker (`controller/node/worker/SnapshotCommandWorker.cpp`) | processed bit per PV, timeout | submit, completion check | shares monitor operations with the channel tasks; partial failure |
| Get/put workers (`GetCommandWorker.cpp`, `PutCommandWorker.cpp`) | pending operation, timeout | processCommand, completion check that resubmits itself | timeout racing a late answer |
| Monitor worker and checker (`MonitorCommandWorker.cpp`, `monitor/MonitorChecker.cpp`) | monitor records, purge times, topics per PV | start/stop, periodic check, restart, event delivery | consumers vanish and return, restart after a crash, purge timeout |
| Node configuration and repository (`controller/node/configuration/NodeConfiguration.cpp`, `service/data/repository/ChannelRepository.cpp`, Consul) | stored monitors, SQLite table | add/remove, iterate, reset | crash between the two stores |
| Scheduler (`service/scheduler/`) | task list, running tasks, `task_name_to_remove`, `stop_wait_var` | addTask, removeTaskByName, scheduleTask, stop | removal of a task while it runs, lost wake-ups, tasks that add tasks |
| Command and node controller (`controller/command/CMDController.cpp`, `controller/node/NodeController.cpp`) | Kafka offset, worker table, command pool | consume, dispatch, commit, stop | dispatch before commit: a crash repeats commands; a destructor that waits for a pool whose tasks requeue themselves |
| Command parsing (`controller/command/CMDCommand.*`, `cmd/*.h`) | none | MapToCommand | optional fields, defaults, wrong kinds, who can be told of an error |
| Kafka publisher/subscriber (`service/pubsub/impl/kafka/`) | producer queue, message buffers, delivery callbacks, poll thread | pushMessage, delivery report, poll, shutdown, getMsg, commit | full queue, delivery reports from another thread, who frees a buffer |
| PV merging and serialisation (`service/epics/PVStructureMerger.cpp`, `MsgpackEpicsConverter.cpp`, `JsonSerialization.cpp`) | none | merge, serialize | two requests of a ca channel joined field by field; number types |
| Logging, metrics, options, bootstrap | none that matters | | not modelled |

Interactions: `CMDController` hands commands to `NodeController`, which runs the
worker's `processCommand` in a pool, so two commands may run at the same time.
Snapshot and monitor workers request channels from `EpicsServiceManager`; its
channel tasks broadcast events to the handlers of both. The snapshot engine puts
events into the windows of its operations; its expiration thread turns a window
into a *submission* and hands it to the pool of submitting threads, which publish
to Kafka. A stop command waits for a promise that the last submission fulfils.

What makes each part correct: readers of a snapshot topic see well-formed
iterations and nothing after the stop reply; every command is answered; every
requested PV is monitored and no other; every value of a monitored PV reaches the
handlers; pools and destructors do not block each other.

## 2. Modules

| Module | Content |
|---|---|
| `SnapshotTopic` | abstract specification: what the readers of a snapshot topic may see |
| `SnapshotEngine` | the engine: commands, expiration thread, both synchronisers, submission tasks, removal |
| `SnapshotEngineInv` | the inductive invariants, in layers: for the order of the parts, and for the turns of the iterations |
| `SnapshotEngine_proofs` | TLAPS proofs about `SnapshotEngine` |
| `MCSnapshotEngine` | instances for TLC |
| `EpicsChannels` | the channel map, the reference counts, the channel tasks and forced updates |
| `EventPath_proofs` | TLAPS proofs about the path of an event: `EpicsChannels`, `SnapshotWindow` and its ring |
| `MCEpicsChannels` | instances for TLC |
| `MonitorLifecycle` | monitor worker, monitor checker, node configuration and repository, composed, with crash and restart |
| `MonitorLifecycle_proofs` | TLAPS proofs about `MonitorLifecycle` |
| `SnapshotRegistry` | start, stop and trigger commands on concurrent threads, `pv_snapshot_map_`, the requests of shared PVs, replies, shutdown |
| `SnapshotRegistry_proofs` | TLAPS proofs about `SnapshotRegistry` |
| `SnapshotWindow` | the data path of one snapshot of either kind: DAQ pool, windows, swap, partial submissions |
| `TimeWindowBuffer` | `TimeWindowEventBuffer` as operators on ring records |
| `EventStream` | abstract specification: what a time-buffered snapshot promises of its events |
| `OneShotSnapshot` | the one-shot snapshot worker beside the channel task that shares its operations |
| `OneShotSnapshot_proofs` | TLAPS proofs about `OneShotSnapshot` and the modules it extends |
| `MonitorOp` | single and combined monitor operations (operators) |
| `PvMerge`, `PvSerialization` | joining the structures of two requests; what a client reads in MessagePack and JSON (operators) |
| `CommandPipeline` | command topic, `CMDController`, `NodeController`, get and put workers and their EPICS operations, crash and restart |
| `CommandParsing`, `CommandReplies` | JSON object to command; layout of replies on the wire (operators) |
| `CommandPipeline_proofs` | TLAPS proofs about `CommandPipeline` |
| `Scheduler` | the scheduler's threads and the main thread that adds, removes and stops |
| `Scheduler_proofs` | TLAPS proofs about `Scheduler` |
| `KafkaPublisher` | pushMessage, delivery reports, poll thread, shutdown |
| `MonitorPublishing` | `epicsMonitorEvent` composed with `KafkaPublisher` and with a thread that publishes a reply |
| `MonitorPublishing_proofs` | TLAPS proofs about `MonitorPublishing` and `KafkaPublisher` |
| `MCMonitorLifecycle`, `MCSnapshotRegistry`, `MCSnapshotWindow`, `MCOneShotSnapshot`, `MCCommandPipeline`, `MCScheduler`, `MCMonitorPublishing` | instances for TLC |

How they fit together: `CommandPipeline` ends where a monitor or snapshot worker
takes its command; `MonitorLifecycle`, `OneShotSnapshot` and `SnapshotRegistry`
go on there. A channel is an entry with a count of requests in `SnapshotRegistry`, a
task with a monitor operation in `EpicsChannels`, and the operation itself is
`MonitorOp`.
`SnapshotWindow` is what happens inside one operation of `SnapshotEngine` between
two submissions. `MonitorPublishing` extends `KafkaPublisher`, `OneShotSnapshot`
extends `MonitorOp`, `PvMerge` and `PvSerialization`, `CommandPipeline` extends
`CommandParsing` and `CommandReplies`.

Some definitions are wrong variants of the one that follows them (named after the
error, as in `Requeued_Dropped`, or marked *Mutation* in a comment); they stand for
plausible bugs and show that the properties notice them. No specification uses
them.

### SnapshotEngine

An element of `Op` is one `SnapshotOpInfo` object, from the start command to the
end of its last task. `NameOf` gives the name it was started with; two operations
with one name are a snapshot that is stopped and started again.

* *Commands* (`StartSnapshot`, `TriggerSnapshot`, `StopSnapshot`) take
  `snapshot_running_mutex_`. The expiration thread holds that mutex during a scan,
  also while it waits in `acquireIteration`; hence the guard `RunningMutexFree`.
* *Expiration thread*: `Expire` is `isTimeout`, `getData` and, for a stopped
  operation, the removal from `snapshot_running_`. Timers are nondeterministic: a
  periodic operation may be due at any scan. `WaitIteration`, `SpuriousWakeup` and
  `AcquireIteration` are `acquireIteration`; `Submit` sets the gate and the
  counter and hands the task to the pool.
* *Submission tasks*: one control point per section of
  `SnapshotSubmissionTask::operator()`, between which other threads can run.
  `removeSnapshot` is three steps: its two critical sections, and the destruction
  of the condition variable inside the second one (a glibc condition variable
  blocks its destroyer while a thread waits on it).
* The publisher is an append to the topic in the order of the calls (external).

Data abstraction: a submission only says whether it carries events; its events
are published as one batch; serialisation succeeds. Iteration numbers start at 1,
as in the code (`src/doc/message-format.md` says 0).

### EpicsChannels

An element of `Entry` is one `ChannelTask`; it is reused when its task is over
and its last reference is gone. `holders` is a ghost variable: which clients have
requested a PV and not given it back. `AddToChannel` and `AddChannel` are the two
branches of `addChannel`, `Detach` its last statement outside the lock.
The channel task is split where it reads an atomic or takes a lock: the test of
`keep_alive` (`CheckKeepAlive`) and the erase (`CleanupAndErase`) are two steps.
`Poll` and `PollByGet` are the two halves of `MonitorOperationImpl::poll`. Values
are version numbers (`ioc`, `unread`, `received`, `seen`). IOC and client library
(`Connect`, `IocUpdate`, `GetDone`) are external. The destructor is `Shutdown`
and `ShutdownClear`.

### MonitorLifecycle

An element of `Monitor` is a pair of PV and destination topic.

* *Stores*: `consul` is the configuration on the server and the only thing that
  survives a `Crash`; `config` is the copy in the process; `live`, `ser`,
  `processed` and `purge` are the rows of the local database, which `Restart`
  (`loadNodeConfiguration`) builds again. `setNodeConfiguration` may succeed, fail
  without notice (its result is not looked at) or throw (`StoreFails`).
* *Commands*: `Receive` is `processCommand`; `StoreMonitorData` stores all
  monitors of the command under `op_mux`, then the Start handler runs for each of
  them. It is split where it takes and releases `channel_map_mtx`: `Lookup`,
  `FindActive`/`FindNone` (the search without a lock), `Push`, `Activate`.
  `CreateQueueFails` is the exception of `createQueue`: the rest of the command is
  dropped, or the startup scan breaks off and the scheduler runs it again.
  `NotSanitized` is the early return for a name that `sanitizePVName` refuses
  (`Refused`): a single monitor command stores such a name unchecked, and its row is
  scanned and tagged like the others but never becomes active.
  `ref_valid` tells whether the map entry behind the reference `pv_monitor_info`
  still exists; through a dangling reference a search finds anything and a
  `push_back` is lost.
* *Scans*: `ScanBegin`, `Pick`, `NextPv`, `Tag` and `ScanEnd` are
  `iterateAllChannelMonitorForAction`, with the Start handler during startup and
  with `Check` and the Stop handler (`StopErase`, `StopRelease`, `StopEraseKey`,
  `Remove`) in the maintenance. The scan works on copies (`found`, `found_ser`,
  `found_purge`) of a row that was read earlier. Variables of the handler are
  reset when they go out of scope.
* *Environment*: `readers` says that some consumer group that is not filtered out
  has a consumer; it is one flag for all topics because `getQueueMetadata` lists
  the groups of the broker. Times are ages from 0 to `Old` (older than the
  timeout), advanced by `Tick`.

`quiet` is a ghost variable: how long ago the row was inserted or a scan last saw
a consumer. A PV is always written with one protocol. The forwarding of events is
`MonitorPublishing`, the scheduler's side of the shutdown is `Scheduler`.

### SnapshotRegistry

A command (`Start`, `Stop`, `Trigger`) is executed by one of `PoolThreads` threads
of the node controller. `startSnapshot` is split where it takes
`snapshot_running_mutex_` or calls a service: `StartCheck` (validation and the
already-running test), `StartTopicFails` (an exception of the publisher),
`StartInsert`, `StartRequest` (one `monitorChannel`), `StartDone`. `StopSnapshot`
takes the promise's future and `StopDone` is its answer. `Decommission` is the part
of the expiration loop that erases a stopped operation from both maps and gives its
PVs back; `LastTask` is `removeSnapshot` and fulfils the promise (`SnapshotEngine` has
the steps between). When an operation of the name comes up while the last task of an
earlier one is not through, `acquireIteration` makes the expiration thread wait with
`snapshot_running_mutex_` locked (`held`, set by `Decommission` or `Expiration`).
`removeSnapshot` notifies that waiter before it ends the iteration and then erases the
condition variable: either the waiter gets through, or it waits again and the
destructor of the condition variable waits for it (`LastTaskHangs`, `stuck`), until a
wakeup that nothing promises (`SpuriousWakeup`). A channel is its entry in
`channel_map` and the count of its requests: its task finds no request left
(`ChannelUnused`) and erases the entry later (`ChannelErased`), with the requests that
were counted on it in between; `lost` is a ghost variable, the PVs to which that
happened.
`ShutdownBegins`/`ShutdownEnds` are the destructor of the node controller, which
waits for its pool. A PV list may name a PV twice; its requests are counted by
`Positions`. `raced` is a ghost variable: the snapshots that had two
commands, or two starts, in progress at the same time.

### SnapshotWindow, TimeWindowBuffer, EventStream

Events are numbered as they arrive; `Arrive` is `epicsMonitorEvent`, `TakeEvent`
and `AddData` the thread of the DAQ pool. `AddData` is one call of `addData`; there is
one for every entry of `pv_snapshot_map_`, that is for every place of the PV in the
snapshot's list (`Listed`, `places`), all under the shared lock that the expiration
thread needs exclusively (`NoReader`). The expiration thread reads the clock
(`ReadClock`), finds the operation not due (`NotDue`) or takes its data
(`SubmitLatest` for NORMAL, `SubmitWindow` for TIMED_BUFFERED, with the swap,
partial submissions, the statistics and the forced updates) and holds the mutex
until `Submitted`. Time is in ticks and passes only by `Tick`. `EventStream` is
the abstract specification: events come out in order, once for every place of the PV
in the list and the copies of one event together, and only an event that a later one
found too old is left out; the refinement maps its pending events to
the entries of the acquiring ring.

### OneShotSnapshot, MonitorOp, PvMerge, PvSerialization

`Submit` is `submitSingleSnapshot`, `StartLook` to `Complete` are
`checkGetCompletion`, split between the calls on a monitor operation, because the
channel task (`TaskPoll`, `TaskTake`) shares it. `Connect` replaces the subscription of
a request by an empty one, with which the values that `poll` had not taken over are
gone; its first value comes later (`FirstValue`). Undefined behaviour ends a behaviour
with the reason in `ub`: `back()` of an empty vector, a null structure, and a data race
(`DataRace`: `poll` uses `get_op`, `force_update` and `received_event` in part outside
`ce_mtx`, and `connectEvent` assigns `mon` without it). The first and the last are
reachable, so that the properties speak of the states before them. An event is
the version of the PV it carries; `PvMerge` builds the structure of a reply from the
two versions of a ca channel, `PvSerialization` says what the client reads of it,
with the conversions of arrays of shorts, which lose information in both forms
(`JsonSerialization.cpp:169` writes bytes, `MsgpackEpicsConverter.cpp:76` unsigned
shorts); `Sample` gives the number in the array of each version.

### CommandPipeline, CommandParsing, CommandReplies

A command is its offset in the topic. `Fetch`, `Parse`, `Dispatch`,
`DispatchFails`, `Commit`, `CommitThrows` and `ConsumeEnds` are
`CMDController::consume`; `CommitTaken` is the asynchronous commit at the broker.
`ProcessGet`, `ProcessPut`, `ProcessOther` run in the node's pool; `CheckTimeout`,
`CheckPending`, `NotDone`, `OperationFailed`, `PutSucceeded`, `GetSucceeded` and
`SendData` are the branches of `checkGetCompletion` and `checkPutCompletion`. The
IOC connects, disconnects, writes and answers when it likes; a put is issued again
when its channel reconnects. `CrashAndRestart` loses everything but the broker's
offset. JSON objects are functions from keys to kinds and values, replies are the
announced number of pairs and the keys that follow. A reply arrives: the workers ignore
the result of `pushMessage`, whose failures are in `KafkaPublisher`. Monitor, snapshot
and stop commands end at once here, so `ShutdownEnds` says nothing of a stop that waits
for its removal; `CommandsAnswered` of `SnapshotRegistry` does.

### Scheduler

`Script` is what the main thread asks over the life of the gateway (`k2eg.cpp`,
`NodeController`, `MonitorCommandWorker`, `EpicsServiceManager`). `GatewayAssumption`
states what these classes keep to: a task is added once, before it is removed, and a
task that a handler adds is added by that handler only. A step is a
critical section of `tasks_queue_mtx` or `thread_wait_mtx`. `Outcomes` and `Follow`
give the ways a handler may end and the task it adds when it completes. Cron times
are nondeterministic (`Tick`).

### KafkaPublisher, MonitorPublishing

`produce()` accepts a message, refuses it or finds the queue full; then
`pushMessage` polls and tries again `MaxRetries` times. `owner` says who has to free
a buffer, `outcome` what the pushing side was told. The poll thread and the
destructor's bounded drain are actions of their own. `MonitorPublishing` adds the
loop over the events of a batch and the consumers of a PV, the cache of serialized
messages, and the shared lock that is taken once per event.

## 3. Runs

| Run | Checks | Shows |
|---|---|---|
| `SnapshotSingleThread` | `NoSubmissionWithoutIteration`, `ImplementsTopic`, `QuietAfterRemoval` | with the default of one submitting thread (`common/ProgramOptions.cpp`), a buffered snapshot and a triggered one that is started under its name, possibly while the first is being removed, keep the whole promise. The run reaches the hang of a name that is started again too early (`SnapshotRestart` below); it is no deadlock in the model only because of `SpuriousWakeup` |
| `SnapshotManyThreads` | `HeaderBeforeData`, `DataBeforeTail`, `IInv`, `PoolProgress` | with two threads gate and counter keep Data between Header and Tail; the invariant used in the proof holds; every stop is answered, every submission is worked off |
| `SnapshotNormalThreads` | `ImplementsTopic`, `TriggerServed` | NORMAL snapshots keep the whole promise with two threads; an acknowledged trigger is served |
| `SnapshotRegistry` | `RegistryInv`, `StoppedIsGone`, `SharedPvsHeld`, `CommandsAnswered` | six commands on two threads for two snapshots that share a PV, with failing brokers, a faulty command, channel entries that are erased and the shutdown: no operation is orphaned, a stop is final, shared PVs stay monitored unless a request was lost and are given back, commands are answered, unless a last task hangs for good, with messages that can be read |
| `SnapshotWindow` | `WindowInv`, `ImplementsStream` | every kind of window: a NORMAL snapshot has the last event of every PV, an iteration of a buffered one covers every PV, and the rings with their growth and swap publish a stream, also for a list that names a PV twice |
| `ChannelsOnePv` | `ChannelsServed`, `KeepAliveBounded`, `ChannelsProgress`, `ShutdownEnds` | two clients, one changing PV, two threads: the channel has exactly one task, its reference count never exceeds the holders, new values and forced updates get through, an unheld channel goes away, the destructor ends |
| `MonitorLifecycle` | `RowsConfigured`, `IdleLongEnough`, `ReadyMeansRestored`, `StartupEnds` | a monitor beside one whose name does not sanitize: rows and configuration stay together through failures and crashes; no monitor is stopped before it was unused for the timeout; after a restart the worker gets ready, and then every stored monitor with a good name is back |
| `MonitorPublishing` | `PublisherInv`, `ConsumersServed`, `AcceptedIsSettled`, `PushReturns` | a channel task and a reply through a full producer queue: buffers live exactly as long as the producer holds them, every message has one fate, the consumers of an event get it, accepted messages are settled, pushes and the destructor return without a broker |
| `OneShotSnapshot` | `ArrivedIsReported`, `WholeReply`, `OneShotInv`, `EveryCommandCompletes` | the race of the last event with the time window and with reconnections, replies joined of two requests, private or shared with the channel task, in both serializations, with numbers that fit and numbers that do not, the protocol of the replies, completion |
| `CommandPipeline` | `CommitCovered`, `SuccessMeansWritten`, `PipelineInv`, `ClientsAnswered`, `ShutdownEnds` | 33 topics that hold every kind and form of command: no command after the start of the group is passed over by a commit before it was handed over, a put that is reported was carried out, at most one reply, readable, whoever asked is answered, the shutdown ends |
| `Scheduler` | `QuietAfterRemove`, `SchedulerInv`, `RequestsReturn`, `DueIsExecuted` | no task is doubled or forgotten, no wake-up lost, a removal waits for the execution in progress and always returns, no due task starves |
| `MonitorStaleValue` | `UpdateHasItsValue` (violated) | see below |

The invariants `RegistryInv`, `WindowInv`, `PublisherInv`, `OneShotInv`,
`PipelineInv` and `SchedulerInv` are conjunctions of the type invariant of their
module and of named parts, each with a comment of its own; `SharedPvsHeld`,
`ChannelsProgress` and `PoolProgress` join properties in the same way.

### Known disagreements

`MonitorStaleValue` shows a disagreement between the code and what it says of
itself, and is listed under "findings": `epicsMonitorEvent` creates the cache of
serialized messages once per batch and keys it by the serialization only, so the
second update of a batch is published with the value of the first.

The modules state more such sentences that the code does not keep. They are no
part of the regular runs; each is violated under the configuration named here
(`tlc -config <cfg> <module>`).

| Configuration (module) | Violates | Scenario |
|---|---|---|
| `SnapshotTailRace` (`MCSnapshotEngine`) | `TailEndsIteration` | two threads; a window expires without data after its Header was queued; the Tail-only task does not pass the header gate and overtakes the Header (`SnapshotOpInfo.h:29`: "Tail: marks the end of an iteration") |
| `SnapshotRestart` (`MCSnapshotEngine`) | `NobodyWaitsOnErasedCv` | stop, restart of the same name before the last task ran; the expiration thread waits on the condition variable that `removeSnapshot` erases (`ContinuousSnapshotManager.cpp:770`: "now nobody can be waiting on it") |
| `SnapshotWindowLoss` (`MCSnapshotWindow`) | `Lossless` | `push` prunes events that were not fetched yet when the expiration thread is late (`BackTimedBufferedSnapshotOpInfo.h:52`: "No data loss during snapshot processing") |
| `ChannelsLostRequest` (`MCEpicsChannels`) | `HeldIsMonitored` | the channel task has read `keep_alive == 0`; a client requests the PV and is counted on the entry that the task erases next (`ContinuousSnapshotManager.cpp:317`: "start monitor for all needed pv") |
| `ChannelsStaleForce` (`MCEpicsChannels`) | `ForcedDataIsLast` | the answer of a forced update's get is kept while newer monitor events are broadcast, and is broadcast afterwards (`ContinuousSnapshotManager.cpp:462`: "Forward the last data for each non-updated PV") |
| `MonitorPurgePending` with this invariant (`MCMonitorLifecycle`) | `ActiveRequested` | `createQueue` throws after the monitor was entered in `cmd_vec`; the PV is not requested, and a repeated command finds the entry and is answered with success |
| `MonitorPurgePending` (`MCMonitorLifecycle`) | `CommandResetsPurge` | a purge is pending; a client repeats its command; `isPresent` skips the `insert` that would reset the purge (`ChannelRepository.cpp:32`) |
| `CommandMonitorTopic` (`MCCommandPipeline`) | `MonitorDestinationHonoured` | the parser reads `monitor_dest_topic`, the documentation says `monitor_destination_topic` (`src/doc/message-format.md:158`) |
| `OneShotFallback` (`MCOneShotSnapshot`) | `FallbackDelivers` | the get that replaces a missing event at the end of the window is started and its result never sent (`src/doc/message-format.md`) |
| `Scheduler` with this invariant (`MCScheduler`) | `HandlersHaveOwner` | the startup handler adds the maintenance task after the destructor of its worker has removed the tasks |

Where a property would be false only because of a known race, it excludes exactly
that race, and its comment says so: `NoOrphan` overlapping starts of one name,
`SharedPvsHeld` and `CommandsAnswered` overlapping commands of one snapshot,
`SharedPvsHeld` PVs of which a request was lost, `CommandsAnswered` a last task that
hangs for good, `ReadyMeansRestored` names that do not sanitize, `ArrivedIsReported`
values that a reconnection threw away, `WholeReply` numbers that do not fit,
`ClientsAnswered` gets that are combined of two, `CommitCovered` batches whose
handler threw. `ChannelsTwoPvs` (`MCEpicsChannels`) and `MonitorSamePv`
(`MCMonitorLifecycle`: `RowsConfigured`, `IdleLongEnough`) are second passing
instances: two channels on one thread, two monitors of one PV.

### Bounds

`MaxTurns`, `MaxTasks` and `MaxIter` bound the expirations while an operation
runs, the submissions and the iteration numbers. Two to four turns are enough for
an iteration that is in the pool while the next one opens; the stop adds one more
expiration, and `MaxTasks` is large enough that it never blocks a submission.
Two threads let any two sections of two tasks interleave; a third thread would
add a third task in its sections, and the proofs of section 4 cover any number.
`MaxVersion` is 2 where old and new values matter and 1 elsewhere. Two entries
are enough for two PVs because an entry not in the map is free or about to be.
PVs interact only through the pool: two clients of one PV (`ChannelsOnePv`) show the
reference counts, two PVs on one thread (`ChannelsTwoPvs`) the competition for it.

`MonitorLifecycle` has monitors of two PVs, one with a name that is refused,
`MonitorSamePv` two of one PV, so that one is stopped while the other stays; in both
the scan limit is 1, so that no scan starts both. With `Timeout = 0` a
pending purge expires after one `Tick`; larger timeouts only add ticks.
`MaxRequests` is the bound on commands: a second command can overlap the first
stop. One command thread against the scan shows their interleavings; two command
threads inside the Start handler at the same time are in the plan.

`SnapshotRegistry`: two threads and up to three commands of one snapshot show every
overlap of two commands and a restart after it; the second snapshot shares one PV
and is the one whose command may be faulty. `SnapshotWindow`: a first ring of one
slot that doubles, three events of two PVs, one of them listed twice, and four ticks of
a window of two make the ring grow, wrap, prune and swap with events in it.
`OneShotSnapshot`: two versions and one lost connection, PV lists with a ca PV, an
enumeration, an array, a monitored PV, a monitored ca PV and a refused name. The array
holds -1, which JSON keeps and MessagePack does not, then 200, where it is the other
way round. `CommandPipeline`: at most two commands per topic, which is
enough for a commit that covers one and not the other, and `MaxTrouble = 2` lost
channels, failing handlers and crashes together. `Scheduler`: two threads, and of
the two statistic tasks, which are alike, one. `MonitorPublishing`: two consumers of
one serialization, two events in one or two batches, a queue of two messages for
five, one retry and one poll of the shutdown (3 and 100 in the code: more of the
same step).

### Fairness

`SnapshotEngine!Fairness`: the expiration thread scans every registered
operation each millisecond, so an operation that is due is taken; threads of the
pool run. `EpicsChannels!Fairness`: threads of the pool run, a command thread
finishes `addChannel`, the destructor finishes. `MonitorLifecycle!Fairness`: the
scheduler runs its task whenever it is due and a command thread goes on; either may
meet a failing call, except that the scan is not assumed to fail.
`SnapshotRegistry`: threads that have a command and the expiration thread run, and a
last task comes to its end or to where it hangs; that it does not hang for ever is the
premise of `CommandsAnswered`, not an assumption of fairness. `OneShotSnapshot` and `CommandPipeline`: the pool runs and the timeout of
an operation comes; the IOCs owe nothing. `Scheduler`: every thread runs and a
handler ends; that the user quits is not assumed, nor that a wait without a time
limit ends unnotified. `MonitorPublishing`: the threads run; only
`AcceptedIsSettled` assumes, in its own premise, that librdkafka reports every
message. Nothing is assumed of clients, consumers, time elsewhere, crashes, restarts
or spurious wakeups. Blocking waits are guards, so weak fairness assumes nothing
about them.

## 4. Proofs

Every theorem holds for all values of the constants that satisfy the assumptions
named in the module of the component; TLC evaluates these assumptions in the runs.
An assumption a theorem makes beyond them is given below. Theorems called
*...Inductive* state the inductive invariant; the others follow from it.

### SnapshotEngine_proofs, the order of the parts

For any number of threads:

* `TypeCorrect`: `Spec => []TypeOK`;
* `InductiveInvariant`: `Spec => []IInv` if no two operations share a name
  (`OneOpPerName`);
* `HeaderFirst`, `TailLast`: `Spec => []HeaderBeforeData` and
  `Spec => []DataBeforeTail`, under the same assumption;
* `IterationSetByName`: `Spec => []NoSubmissionWithoutIteration`, likewise: a
  submission that carries no Header belongs to an open iteration.

Neither order property is inductive: they talk about the topic, while the order
is enforced by gates, counters and numbers that were set when a task was handed
to the pool. `IInv` adds, layer by layer:

1. `PoolInv`: which tasks wait, in which sections a task can be, and that the
   last submission is made by a removed operation;
2. `ScheduleInv`: an operation only uses numbers up to the current one, and an
   iteration whose Header was scheduled but not its Tail is the active one and
   has a gate; so a gate is never created again after the Tail deleted it;
3. `CountInv`: `data_pending` is the number of batches not yet published, which
   is what makes `waitDataDrained` sufficient;
4. `OrderInv`: an open gate means that the Header is on the topic, a Tail on the
   topic means that no batch of that iteration is left.

The assumption `OneOpPerName` excludes restarts of a name: `removeSnapshot`
resets the numbers, so two operations of one name use the same ones. It is needed for
`DataBeforeTail`: TLC has a behaviour of 79 states with two threads and seven
submissions in which two tasks of one iteration, whose Tail overtook its Header, both
release the name, so that the last iteration of the first operation and iteration 3 of
the second one overlap; the removal of the first resets the number, and the second
operation later uses 3 again, with Data after the Tail of the first 3.

### SnapshotEngine_proofs, the turns of the iterations

`snapshot_processing_thread_count` is 1 by default (`common/ProgramOptions.cpp`).
Under `Threads = 1`, and with no assumption on the names, so that operations of one
name may follow each other at any distance:

* `TurnsInductive`: `Spec => []TurnsInv`;
* `TopicImplemented`: `Spec => ImplementsTopic`, the refinement of `SnapshotTopic`:
  whole iterations, one after the other, numbered from 1 without a gap;
* `IterationAlwaysSet`: `Spec => []NoSubmissionWithoutIteration`;
* `RemovedIsSilent`: `Spec => QuietAfterRemoval`.

With any number of threads the same holds if all snapshots are NORMAL
(`Buffered = {}`) and no two operations share a name (`OneOpPerName`):

* `NormalInductive`: `Spec => []NormalInv`;
* `NormalTopicImplemented`: `Spec => ImplementsTopic`;
* `NormalRemovedIsSilent`: `Spec => QuietAfterRemoval`.

The two invariants, in `SnapshotEngineInv`, differ in their first layer only:

1. `TurnsInv` says that the tasks before the last one that a thread has taken are
   over (`Fifo`), `NormalInv` that every submission is a whole iteration (`Whole`).
   Either way at most one task per name is at work (`NameFifo`): with one thread
   because there is no other, with NORMAL snapshots because the expiration thread
   does not get past `acquireIteration` before the iteration is over. `LastInv` adds
   that nothing is submitted after the submission marked last, and that a promise was
   set by such a task;
2. `ProtocolInv`: the submissions of a name, taken in order, form whole iterations
   (`SequenceInv`). To extend the sequence by one more submission, one has to know
   that the operation that submits is the only live one on the name (`OneLive`), that
   it is the one whose iteration is open (`OpenIsNewest`, which ties `header_sent` and
   `active_iteration_id_` to the newest submission), and that the batch in the hands
   of the expiration thread continues from there (`HandInv`);
3. `TurnInv`: what `acquireIteration` waits for. `in_progress` is set from the Header
   to the end of the iteration (`InProgressInv`), so whoever passes finds the
   iteration before it over or, if it was the last one, its name erased
   (`SettledInv`). `current_iteration` is the number of the newest submission or,
   after `removeSnapshot`, 0 (`CurrentInv`), which makes the numbers go on without a
   gap and begin at 1 again. `finishTask` releases the name for any task that finds
   the Tail marked; by `TailMarkInv` that can only be the task that marked it;
4. `TopicInv`: the newest message of a topic is what the newest task of that name has
   reached. From it every publishing step maps to a step of `SnapshotTopic`, and all
   others to a stutter.

Both assumptions of the second group are needed. A buffered iteration consists of
several submissions, which two threads may reorder: `SnapshotTailRace` is the
counterexample. And with three NORMAL operations of one name and two threads TLC finds
one as well: `removeSnapshot` forgets the name while the last task of the first
operation is still on its way to `finishTask`; the second operation begins at
iteration 1 again and marks its Tail, the old task finds the mark, and it releases
the name while the iteration of the third operation is in progress.

### EventPath_proofs, channels

`ChannelTypeCorrect`, `OneTaskPerChannel` (`ChannelsServed`) and `CountsBounded`
(`KeepAliveBounded`) for all PVs, clients, entries and threads. The invariant adds
that no channel is being added once the destructor runs.

### EventPath_proofs, windows

For any PVs, events, commands, time window, reserve and growth factor of the rings
(`WindowConstants`):

* `WindowCorrect`: `WindowSpec => []WindowInv`;
* `WindowsImplementStream`: `WindowSpec => ImplementsStream`, the refinement of
  `EventStream`, for lists that name their PVs any number of times.

The lemmas about `TimeWindowBuffer` come first (`PushRing`, `PruneRing`, `ExpandRing`,
`InsertRing`): a ring is its tail, head and count with `tail = (head + count) % n`, and
each operator is shown to keep that and to say which entries are left, in which order.
They rest on three facts about `%` (`Modulo`, `ModuloShift`, `ModuloDiffers`) and on
`TooOldIsPrefix`: what pruning from the head removes are the first entries of the ring,
up to the first one that is young enough.
The invariant `WInv` has these parts:

1. `WTypes`: the acquiring ring is well formed, the other one is empty again after
   every step (swap, fetch and clear happen under one lock), times and flags are in
   their range;
2. `OrderInv`: the DAQ queue is increasing, at most one event is being added, and what
   was added arrived before that one and before what is queued;
3. `PlaceInv`: the event in work was added for some of its places and not yet for all,
   and while it is, the snapshot stays registered;
4. `LatestWins`: a NORMAL snapshot holds the last event of every PV that was added;
5. `CoverInv`: every PV is still listed as one without events, has been covered, or has
   an event in the window; while a Tail is being submitted, all of them are covered and
   the statistics are reset. Coverage has to be followed through `push`, which may prune
   the only event of a PV, and through `swap`.

For the refinement, `StreamInv` says that the events in the ring and on the topic were
added, that the time stamps along the ring do not decrease, and that the newest entry
is the last copy of its event, or the latest one of the event in work (`NewestOK`):
this is why the copies come out together.

### MonitorLifecycle_proofs

For all monitors, commands, threads, limits and timeouts:

* `MonitorTypeCorrect`: `Spec => []TypeOK`, with `Busy`: a worker inside a command
  or a handler has a monitor to handle;
* `RowsAlwaysConfigured`: `Spec => []RowsConfigured`, which is inductive together
  with `TypeOK` and `Busy`;
* `StoppedOnlyWhenIdle`: `Spec => IdleLongEnough`. The invariant `IdleInv` says
  that a purge timestamp is no older than the last sign of use of its monitor
  (`PurgeYounger`), except between the check that sees consumers and the reset of
  the timestamp. The scan decides on a copy; `CopyYounger` says the same of it, and
  it holds because a row in the scan's hands stays in the database (`FoundLive`)
  and only one scan runs (`Control`);
* `ReadyOnlyWhenRestored`: `Spec => ReadyMeansRestored`, for the names that sanitize. The worker gets ready after
  a scan that found nothing to restart, which says something about the configuration
  only through the rows and their tags. `StartInv` therefore says that no command
  runs while the node starts (`Alone`), that every configured monitor has a row
  (`Stored`), that a tagged row is active unless its name is refused (`TaggedActive`), that the handler works on
  the row in hand (`HandlerInv`), and, in a scan that has counted nothing so far,
  that the PV of every untagged row is still ahead (`SweepInv`). At the end nothing
  is ahead, so every row is tagged. That a scan comes by every PV is a pigeonhole
  argument about the order in which it reads the names (`OrdersCover`).

### SnapshotRegistry_proofs

For any finite, disjoint sets of start, stop and trigger commands, any names, PV
lists and number of threads:

* `RegistryCorrect`: `Spec => []RegistryInv`;
* `StopMeansGone`: `Spec => []StoppedIsGone`;
* `PvsHeld`: `Spec => []SharedPvsHeld`.

`RegistryIInv` (theorem `RegistryInductive`) adds the life of an operation
(`LifeInv`: what is in a map was entered, what is closing or makes the expiration thread
wait is in none unless it still runs, a promise is taken before it is set), what a stop waits for (`StopInv`), that overlapping commands
have been noted (`RaceInv`), and how far a start has come in its list (`TodoInv`,
`OrderInv`). The requests of a PV are then a cardinality (`CountInv`): the number of
pairs of a running operation and a position of its list that it has already asked
for. Pairs are needed because a list may name a PV twice and snapshots share PVs. A
request is missing from that number only if it was lost, and `ChannelInv` says that an
entry about to be erased has no request but a lost one; so the entry of a PV with
requests of which none was lost is served.

### CommandPipeline_proofs

For any topics, batch size, threads and amount of trouble:

* `CommitsCover`: `Spec => []CommitCovered`;
* `PutsAreWritten`: `Spec => []SuccessMeansWritten`;
* `PipelineCorrect`: `Spec => []PipelineInv`.

`PipelineIInv` (`PipelineInductive`) has two parts. `CoverInv` carries the coverage of
the committed offset back to the commit that is under way and to the batch that is
being worked on. `CommandInv` follows each command: nobody has answered it while it is
ahead, in the pool or with an operation that is open (`RepliesInv`, `OpenInv`); an
operation that reports success was applied (`AppliedInv`); the reply on the topic is
truthful and readable (`GoodReplies`).

### MonitorPublishing_proofs

For any consumers, events, batches, queue capacity and retries:

* `PublisherCorrect`: `Spec => []PublisherInv`;
* `ConsumersAreServed`: `Spec => ConsumersServed`.

`PublishingIInv` (`PublishingInductive`) says for the publisher that callers push
different messages (`PushInv`), that the producer holds a message once and in one of
its two queues (`QueueInv`), and that exactly the freed messages have an outcome
(`FreedInv`). For the monitor it gives the place in the batch and in `cmd_vec`
(`BatchInv`, `ServedInv`) and the range of the cached events (`CacheInv`). The two
halves share only `owner`, and a step of one keeps the other's invariant.

### Scheduler_proofs

For any number of threads, any tasks and any script that keeps to
`GatewayAssumption`:

* `SchedulerCorrect`: `Spec => []SchedulerInv`;
* `RemovedIsQuiet`: `Spec => []QuietAfterRemove`.

`SchedulerIInv` (`SchedulerInductive`) says where a task can be (`PlaceInv`,
`HandsInv`), who listed it (`OriginInv`, `KeptInv`), that what is out is completed or
removed (`LeftInv`, `GoneInv`), and that a completed task is not run again
(`OnceInv`, without which a handler could list its follow-up twice). `NoLostWakeup`
is inductive with these.

### OneShotSnapshot_proofs

For any PVs (monitored or not, ca or not), any lists without repetition, any
commands, threads and numbers of lost connections:

* `OneShotCorrect`: `Spec => []OneShotInv`;
* `ArrivedAlwaysReported`: `Spec => []ArrivedIsReported`;
* `RepliesWhole`: `Spec => []WholeReply`. The numbers in the arrays are any shorts; the
  property promises only those that fit the type a serialization writes (`Fitting`).

`OneShotIInv` (`OneShotInductive`) follows the task of a command through its list and
the queue (`ListInv`, `QueueInv`) and says that every value sent belongs to a
processed PV (`ReplyInv`). `KnownInv` is why nothing is merged from a null event: who
has seen data in an operation may find that another one has taken it, but an
operation that could be joined once can always be joined, since a take that consumes
the additional event remembers it. `ArrivedInv` follows a value that had arrived
before the last look: unless a reconnection throws it away, it stays in its operation,
which is private to the command, until the task comes to it, and then `poll` does find
it. For `WholeReply`,
`PrivateInv` says that a private operation is forced only in the last look, after
which nobody polls it, so that its additional request never takes over the empty
answer of a failed get, and `ValuesInv` carries that to the replies. What
`mergeStructureAndValue` computes for the two requests of a ca channel is proved from
its definition (`MergeTwo`), and so is what both serializations make of it
(`DataRead`).

The proof showed that `WholeReply`, as it was first stated, fails for a monitored ca
PV: its operation is polled by others too, so that the empty answer of a failed get of
the additional request can be taken over before the worker calls `getEventData`, and
the reply then has a value and no meta data. The property now leaves out exactly these
replies.

### Only model-checked

Liveness (`PoolProgress`, `TriggerServed`, `CommandsAnswered`, `ChannelsProgress`,
`ShutdownEnds`, `StartupEnds`, `AcceptedIsSettled`, `PushReturns`,
`EveryCommandCompletes`, `ClientsAnswered`, `RequestsReturn`, `DueIsExecuted`):
fairness is outside of the prover. Every other property of the passing runs is stated
by a theorem.

What the theorems leave out: buffered snapshots with more than one submitting thread
keep the order of their parts (`HeaderFirst`, `TailLast`) but not the whole promise of
`SnapshotTopic` (section 3, known disagreements), and restarts of a name with more than
one thread keep neither. Unions in `PvMerge` and `PvSerialization` are
in no structure of a run or a theorem.

## 5. Plan

The components were modelled in the order of section 2, the engine and its topic first,
and the safety properties of every run have been proved. What is left:

* `MonitorLifecycle` with two command threads (one destination entered twice) and with
  two serializations of one monitor;
* two commands at a time in `OneShotSnapshot`;
* the decoding of put values.

The modules with proofs declare no RECURSIVE operator and name the assumptions on
their constants.

## 6. Not modelled

* The compact MessagePack serialisation (`MsgpackCompactSerialization.cpp`): no
  command can select it. Nested structures deeper than one level, and the decoding of
  put values beyond which fields are sent (`msgpackToEpics`).
* Throttling (`ThrottlingManager.h`) and the adaptive polling delays: they change
  when a step happens, never which one; the models take any time.
* `pushMessages`, `addQueue` and `removeQueue` of the Kafka classes: nothing calls
  them. Kafka, pvAccess, Consul and SQLite themselves are external.
* Statistics, metrics, logging, program options, base64, bootstrap: formatting, I/O
  and wiring without protocol state. The vendored thread pool appears as a FIFO with a
  bounded number of running tasks.
* Data races on containers that have no outcome a model can enumerate (the handler
  list of `common/broadcaster.h`, the callback map in `dr_cb`).
