-------------------------- MODULE MonitorLifecycle --------------------------
(***************************************************************************)
(* The life of a monitor: a command stores it in the node configuration    *)
(* (local database and Consul) and activates it; a periodic scan stops the *)
(* monitors that nobody reads; after a restart the stored monitors are     *)
(* activated again before commands are accepted.                           *)
(*                                                                         *)
(* Composes MonitorCommandWorker, MonitorChecker, NodeConfiguration and    *)
(* ChannelRepository.  A monitor is a pair of PV name and destination      *)
(* topic.  Commands run in the threads of the node controller's pool, the  *)
(* scans in one scheduler task.  Times are ages: 0 is now, and everything  *)
(* older than the expiration timeout is Old.                               *)
(***************************************************************************)
EXTENDS Integers, Sequences, FiniteSets

CONSTANTS
  Monitor,     \* pairs of PV name and destination topic
  Pv,          \* PV names, each always written with the same protocol
  PvOf,        \* [Monitor -> Pv]
  Refused,     \* the names that sanitizePVName refuses
  Ser,         \* serializations
  Command,     \* monitor lists of the commands that clients send
  Thread,      \* threads of the command pool
  Scanner,     \* the thread that runs the scheduler's task
  Limit,       \* element_to_process of a scan
  Timeout,     \* monitor_expiration_timeout
  PurgeQueue,  \* purge_queue_on_monitor_timeout
  MaxRequests  \* bound: commands are sent while keep_alive is below it

ASSUME MonitorConstants ==
  /\ PvOf \in [Monitor -> Pv]
  /\ Refused \subseteq Pv
  /\ Command \subseteq Seq(Monitor) \ {<<>>}
  /\ \A c \in Command : Len(c) > 1 => \A i \in 1 .. Len(c) : PvOf[c[i]] \notin Refused
  /\ IsFiniteSet(Pv) /\ Monitor # {} /\ Ser # {}
  /\ Scanner \notin Thread
  /\ Limit \in Nat \ {0}
  /\ Timeout \in Nat
  /\ PurgeQueue \in BOOLEAN
  /\ MaxRequests \in Nat

Worker == Thread \cup {Scanner}
Old == Timeout + 1
Age == 0 .. Old
Unset == -1              \* start_purge_ts when no purge is pending

VARIABLES
  mode,         \* the process is down, starting up or ready
  consul,       \* the configuration on the server
  config,       \* NodeConfiguration::node_configuration
  live,         \* the local database has a row for the monitor
  ser,          \* ... with this event_serialization,
  processed,    \* ... this processed flag
  purge,        \* ... and start_purge_ts
  active,       \* entries of the monitor in the cmd_vec of its PV
  requests,     \* keep_alive of the PV in EpicsServiceManager
  pc,           \* where a worker is in storeMonitorData or the Start handler
  job,          \* the monitors it still has to handle
  job_ser,      \* serialization of its command
  ref_valid,    \* the map entry that pv_monitor_info refers to exists
  phase,        \* where the scan is
  todo,         \* PV names the scan still has to go through
  count,        \* the scan's count of elements
  found,        \* the row the scan works on, as it was when it was read
  found_ser, found_purge,
  flag,         \* purge_ts_set_flag
  readers,      \* some consumer group that is not filtered out has a consumer
  quiet         \* age of the last sign of use: insertion, or consumers seen

store    == <<consul, config, live, ser>>
rowFlags == <<processed, purge>>
topics   == <<active, requests>>
workers  == <<pc, job, job_ser, ref_valid>>
scanVars == <<phase, todo, count, found, found_ser, found_purge, flag>>
vars == <<mode, store, rowFlags, topics, workers, scanVars, readers, quiet>>

Point == {"idle", "store", "lookup", "find", "push", "activate"}
Phase == {"idle", "pick", "start", "check", "stop", "release", "erase", "remove", "tag"}

TypeOK ==
  /\ mode \in {"down", "starting", "ready"}
  /\ consul \subseteq Monitor \X Ser
  /\ config \subseteq Monitor \X Ser
  /\ live \in [Monitor -> BOOLEAN]
  /\ ser \in [Monitor -> Ser]
  /\ processed \in [Monitor -> BOOLEAN]
  /\ purge \in [Monitor -> Age \cup {Unset}]
  /\ active \in [Monitor -> Nat]
  /\ requests \in [Pv -> Nat]
  /\ pc \in [Worker -> Point]
  /\ job \in [Worker -> Seq(Monitor)]
  /\ job_ser \in [Worker -> Ser]
  /\ ref_valid \in [Worker -> BOOLEAN]
  /\ phase \in Phase
  /\ todo \in Seq(Pv)
  /\ count \in Nat
  /\ found \in Monitor
  /\ found_ser \in Ser
  /\ found_purge \in Age \cup {Unset}
  /\ flag \in {-1, 0, 1}
  /\ readers \in BOOLEAN
  /\ quiet \in [Monitor -> Age]

AnyMonitor == CHOOSE m \in Monitor : TRUE
AnySer == CHOOSE s \in Ser : TRUE

Init ==
  /\ mode = "down"
  /\ consul = {}
  /\ readers = FALSE
  /\ config = {}
  /\ live = [m \in Monitor |-> FALSE]
  /\ ser = [m \in Monitor |-> AnySer]
  /\ processed = [m \in Monitor |-> FALSE]
  /\ purge = [m \in Monitor |-> Unset]
  /\ active = [m \in Monitor |-> 0]
  /\ requests = [p \in Pv |-> 0]
  /\ pc = [w \in Worker |-> "idle"]
  /\ job = [w \in Worker |-> <<>>]
  /\ job_ser = [w \in Worker |-> AnySer]
  /\ ref_valid = [w \in Worker |-> FALSE]
  /\ phase = "idle"
  /\ todo = <<>>
  /\ count = 0
  /\ found = AnyMonitor
  /\ found_ser = AnySer
  /\ found_purge = Unset
  /\ flag = 0
  /\ quiet = [m \in Monitor |-> Old]

-----------------------------------------------------------------------------
(***************************************************************************)
(* The process, its clients and time.                                      *)
(***************************************************************************)

\* loadNodeConfiguration, then the constructor of MonitorCommandWorker.  Of
\* several serializations of a monitor the first one makes the row.
Restart ==
  /\ mode = "down"
  /\ mode' = "starting"
  /\ config' = consul
  /\ live' = [m \in Monitor |-> \E s \in Ser : <<m, s>> \in consul]
  /\ ser' \in [Monitor -> Ser]
  /\ \A m \in Monitor : IF live'[m] THEN <<m, ser'[m]>> \in consul ELSE ser'[m] = ser[m]
  /\ quiet' = [m \in Monitor |-> IF live'[m] THEN 0 ELSE quiet[m]]
  /\ UNCHANGED <<consul, rowFlags, topics, workers, scanVars, readers>>

\* Everything but the configuration on the server goes away with the process.
Crash ==
  /\ mode # "down"
  /\ mode' = "down"
  /\ config' = {}
  /\ live' = [m \in Monitor |-> FALSE]
  /\ ser' = [m \in Monitor |-> AnySer]
  /\ processed' = [m \in Monitor |-> FALSE]
  /\ purge' = [m \in Monitor |-> Unset]
  /\ active' = [m \in Monitor |-> 0]
  /\ requests' = [p \in Pv |-> 0]
  /\ pc' = [w \in Worker |-> "idle"]
  /\ job' = [w \in Worker |-> <<>>]
  /\ job_ser' = [w \in Worker |-> AnySer]
  /\ ref_valid' = [w \in Worker |-> FALSE]
  /\ phase' = "idle"
  /\ todo' = <<>>
  /\ count' = 0
  /\ found' = AnyMonitor
  /\ found_ser' = AnySer
  /\ found_purge' = Unset
  /\ flag' = 0
  /\ quiet' = [m \in Monitor |-> Old]
  /\ UNCHANGED <<consul, readers>>

\* Consumers come and go; getQueueMetadata lists the groups of the broker, of
\* all topics.
Consumers ==
  /\ readers' = ~readers
  /\ UNCHANGED <<mode, store, rowFlags, topics, workers, scanVars, quiet>>

Older(a) == IF a \in {Unset, Old} THEN a ELSE a + 1

Tick ==
  /\ purge' = [m \in Monitor |-> Older(purge[m])]
  /\ found_purge' = Older(found_purge)
  /\ quiet' = [m \in Monitor |-> Older(quiet[m])]
  /\ UNCHANGED <<mode, store, processed, topics, workers, phase, todo, count, found,
                 found_ser, flag, readers>>

-----------------------------------------------------------------------------
(***************************************************************************)
(* Commands: manage_single_monitor and manage_multiple_monitor.            *)
(***************************************************************************)
Goto(w, p) == pc' = [pc EXCEPT ![w] = p]

\* processCommand; before the worker is ready a command is answered with an
\* error and changes nothing.
Receive(t, c, s) ==
  /\ mode = "ready"
  /\ pc[t] = "idle"
  /\ \A i \in 1 .. Len(c) : requests[PvOf[c[i]]] < MaxRequests
  /\ job' = [job EXCEPT ![t] = c]
  /\ job_ser' = [job_ser EXCEPT ![t] = s]
  /\ Goto(t, "store")
  /\ UNCHANGED <<mode, store, rowFlags, topics, ref_valid, scanVars, readers, quiet>>

\* The scan's handler holds op_mux from the test of the consumers to the
\* removal of the row.
OpMuxFree == phase \notin {"stop", "release", "erase", "remove"}

Mentioned(t) == {job[t][i] : i \in 1 .. Len(job[t])}

\* addChannelMonitor: what a command adds to the configuration.
\* Mutation: the row is inserted and the configuration is left as it is.
NotConfigured(t) == config
Configured(t) == config \cup {<<m, job_ser[t]>> : m \in Mentioned(t)}

\* The monitors of a command that isPresent does not find.
Fresh(t) == {m \in Mentioned(t) : <<m, job_ser[t]>> \notin config}

\* addChannelMonitor: insert adds a row, or resets start_purge_ts of the row
\* that has the same PV name and destination.
AddChannelMonitor(t) ==
  /\ config' = Configured(t)
  /\ live' = [m \in Monitor |-> live[m] \/ m \in Fresh(t)]
  /\ ser' = [m \in Monitor |-> IF m \in Fresh(t) /\ ~live[m] THEN job_ser[t] ELSE ser[m]]
  /\ purge' = [m \in Monitor |-> IF m \in Fresh(t) THEN Unset ELSE purge[m]]
  /\ quiet' = [m \in Monitor |-> IF m \in Fresh(t) /\ ~live[m] THEN 0 ELSE quiet[m]]

\* storeMonitorData up to the broadcasts.  The result of setNodeConfiguration
\* is not looked at.
StoreMonitorData(t) ==
  /\ pc[t] = "store"
  /\ OpMuxFree
  /\ AddChannelMonitor(t)
  /\ consul' \in {config', consul}
  /\ Goto(t, "lookup")
  /\ UNCHANGED <<mode, processed, topics, job, job_ser, ref_valid, scanVars, readers>>

\* setNodeConfiguration throws: the pool drops the command.
StoreFails(t) ==
  /\ pc[t] = "store"
  /\ OpMuxFree
  /\ AddChannelMonitor(t)
  /\ job' = [job EXCEPT ![t] = <<>>]
  /\ Goto(t, "idle")
  /\ UNCHANGED <<mode, consul, processed, topics, job_ser, ref_valid, scanVars, readers>>

-----------------------------------------------------------------------------
(***************************************************************************)
(* handleMonitorCheckEvents, case Start: in a command's thread, or in the  *)
(* scan that restarts the monitors.                                        *)
(***************************************************************************)
Current(w) == Head(job[w])
PvAt(w) == PvOf[Current(w)]

\* The name sanitizes: pv_monitor_info is looked up, and created, under the
\* lock and used after it.
Lookup(w) ==
  /\ pc[w] = "lookup"
  /\ PvAt(w) \notin Refused
  /\ ref_valid' = [ref_valid EXCEPT ![w] = TRUE]
  /\ Goto(w, "find")
  /\ UNCHANGED <<mode, store, rowFlags, active, requests, job, job_ser, scanVars,
                 readers, quiet>>

\* The worker is done with one monitor: the next one of the command, or the
\* end of the handler in the scan.
Handled(w) ==
  /\ job' = [job EXCEPT ![w] = Tail(@)]
  /\ ref_valid' = [ref_valid EXCEPT ![w] = FALSE]
  /\ Goto(w, IF Len(job[w]) = 1 THEN "idle" ELSE "lookup")
  /\ phase' = IF w = Scanner THEN "tag" ELSE phase

\* A name that does not sanitize is logged and no more: a single monitor
\* command stores it unchecked, a multiple one leaves such names out.
NotSanitized(w) ==
  /\ pc[w] = "lookup"
  /\ PvAt(w) \in Refused
  /\ Handled(w)
  /\ UNCHANGED <<mode, store, rowFlags, topics, job_ser, todo, count, found, found_ser,
                 found_purge, flag, readers, quiet>>

\* The search in cmd_vec takes no lock; in an entry that was erased it may
\* find anything.
Finds(w) == IF ref_valid[w] THEN {active[Current(w)] > 0} ELSE BOOLEAN

\* Already there: only forceMonitorChannelUpdate.
FindActive(w) ==
  /\ pc[w] = "find"
  /\ TRUE \in Finds(w)
  /\ Handled(w)
  /\ UNCHANGED <<mode, store, rowFlags, topics, job_ser, todo, count, found, found_ser,
                 found_purge, flag, readers, quiet>>

FindNone(w) ==
  /\ pc[w] = "find"
  /\ FALSE \in Finds(w)
  /\ Goto(w, "push")
  /\ UNCHANGED <<mode, store, rowFlags, topics, job, job_ser, ref_valid, scanVars,
                 readers, quiet>>

\* push_back; into an entry that was erased it is lost.
Push(w) ==
  /\ pc[w] = "push"
  /\ active' = [active EXCEPT ![Current(w)] = IF ref_valid[w] THEN @ + 1 ELSE @]
  /\ Goto(w, "activate")
  /\ UNCHANGED <<mode, store, rowFlags, requests, job, job_ser, ref_valid,
                 scanVars, readers, quiet>>

\* createQueue and monitorChannel(true).
Activate(w) ==
  /\ pc[w] = "activate"
  /\ requests' = [requests EXCEPT ![PvAt(w)] = @ + 1]
  /\ Handled(w)
  /\ UNCHANGED <<mode, store, rowFlags, active, job_ser, todo, count, found,
                 found_ser, found_purge, flag, readers, quiet>>

\* The row that was read goes out of scope.
NoRow ==
  /\ found' = AnyMonitor
  /\ found_ser' = AnySer
  /\ found_purge' = Unset
  /\ flag' = 0

\* createQueue throws: the pool drops the rest of a command, the scheduler
\* runs the startup task again later.
CreateQueueFails(w) ==
  /\ pc[w] = "activate"
  /\ job' = [job EXCEPT ![w] = <<>>]
  /\ ref_valid' = [ref_valid EXCEPT ![w] = FALSE]
  /\ Goto(w, "idle")
  /\ IF w = Scanner
     THEN phase' = "idle" /\ todo' = <<>> /\ count' = 0 /\ NoRow
     ELSE UNCHANGED scanVars
  /\ UNCHANGED <<mode, store, rowFlags, topics, job_ser, readers, quiet>>

StartStep(w) ==
  Lookup(w) \/ NotSanitized(w) \/ FindActive(w) \/ FindNone(w) \/ Push(w) \/ Activate(w)

-----------------------------------------------------------------------------
(***************************************************************************)
(* The scans: iterateAllChannelMonitorForAction with the handlers of       *)
(* scanForRestart and scanForMonitorToStop.                                *)
(***************************************************************************)
Orders(S) == {q \in [1 .. Cardinality(S) -> S] :
                \A i, j \in 1 .. Cardinality(S) : q[i] = q[j] => i = j}

\* The scheduler runs the startup task, and the maintenance task once the
\* startup is over: getDistinctByNameProtocol.
ScanBegin ==
  /\ mode # "down"
  /\ phase = "idle"
  /\ todo' \in Orders({PvOf[m] : m \in {n \in Monitor : live[n]}})
  /\ phase' = "pick"
  /\ UNCHANGED <<mode, store, rowFlags, topics, workers, count, found, found_ser, found_purge,
                 flag, readers, quiet>>

\* getNextChannelMonitorToProcess.
Unprocessed(p) == {m \in Monitor : PvOf[m] = p /\ live[m] /\ ~processed[m]}

\* The PV has no row left, or the scan's limit is reached: the next PV.  The
\* element beyond the limit is counted too.
NextPv ==
  /\ phase = "pick"
  /\ todo # <<>>
  /\ Unprocessed(Head(todo)) = {} \/ count >= Limit
  /\ count' = IF Unprocessed(Head(todo)) = {} THEN count ELSE count + 1
  /\ todo' = Tail(todo)
  /\ UNCHANGED <<mode, store, rowFlags, topics, workers, phase, found, found_ser,
                 found_purge, flag, readers, quiet>>

\* A row is read and given to the handler: Start while starting up.
Pick(m) ==
  /\ phase = "pick"
  /\ todo # <<>>
  /\ m \in Unprocessed(Head(todo))
  /\ count < Limit
  /\ count' = count + 1
  /\ found' = m
  /\ found_ser' = ser[m]
  /\ found_purge' = purge[m]
  /\ flag' = 0
  /\ IF mode = "starting"
     THEN /\ phase' = "start"
          /\ job' = [job EXCEPT ![Scanner] = <<m>>]
          /\ Goto(Scanner, "lookup")
     ELSE /\ phase' = "check"
          /\ UNCHANGED <<job, pc>>
  /\ UNCHANGED <<mode, store, rowFlags, topics, job_ser, ref_valid, todo, readers, quiet>>

\* The number of subscriber groups that are not filtered out is not 0.
HasConsumers == readers

\* isTimeoutExperid.
Expired == found_purge # Unset /\ found_purge > Timeout

\* scanForMonitorToStop's handler up to its decision.
Check ==
  /\ phase = "check"
  /\ flag' = CASE HasConsumers -> -1
               [] ~HasConsumers /\ found_purge = Unset -> 1
               [] OTHER -> 0
  /\ phase' = IF ~HasConsumers /\ Expired THEN "stop" ELSE "tag"
  /\ quiet' = IF readers THEN [quiet EXCEPT ![found] = 0] ELSE quiet
  /\ UNCHANGED <<mode, store, rowFlags, topics, workers, todo, count, found, found_ser,
                 found_purge, readers>>

\* getQueueMetadata throws: the row is left as it is.
CheckFails ==
  /\ phase = "check"
  /\ phase' = "tag"
  /\ UNCHANGED <<mode, store, rowFlags, topics, workers, todo, count, found, found_ser,
                 found_purge, flag, readers, quiet>>

\* Case Stop: the first entry with the destination is erased.  A name that
\* does not sanitize has none, and the early return leaves the rest alone.
StopErase ==
  /\ phase = "stop"
  /\ active' = [active EXCEPT ![found] = IF @ > 0 THEN @ - 1 ELSE 0]
  /\ phase' = IF active[found] > 0 THEN "release" ELSE "remove"
  /\ UNCHANGED <<mode, store, rowFlags, requests, workers, todo, count, found, found_ser,
                 found_purge, flag, readers, quiet>>

NoEntries(p) == \A m \in Monitor : PvOf[m] = p => active[m] = 0

\* removeChannel of EpicsServiceManager.
\* Mutation: it does not stop at 0.
Minus1(k) == k - 1
CountDown(k) == IF k <= 1 THEN 0 ELSE k - 1

\* monitorChannel(false), and the test of the size of cmd_vec.
StopRelease ==
  /\ phase = "release"
  /\ requests' = [requests EXCEPT ![PvOf[found]] = CountDown(@)]
  /\ phase' = IF NoEntries(PvOf[found]) THEN "erase" ELSE "remove"
  /\ UNCHANGED <<mode, store, rowFlags, active, workers, todo, count, found,
                 found_ser, found_purge, flag, readers, quiet>>

\* The key goes away, with whatever was pushed since; references to it dangle.
StopEraseKey ==
  /\ phase = "erase"
  /\ active' = [m \in Monitor |-> IF PvOf[m] = PvOf[found] THEN 0 ELSE active[m]]
  /\ ref_valid' = [w \in Worker |-> ref_valid[w] /\ PvAt(w) # PvOf[found]]
  /\ phase' = "remove"
  /\ UNCHANGED <<mode, store, rowFlags, requests, pc, job, job_ser, todo, count, found,
                 found_ser, found_purge, flag, readers, quiet>>

\* deleteQueue and removeChannelMonitor, with whatever setNodeConfiguration
\* comes to; to tag the row that is gone changes nothing.
Remove ==
  /\ phase = "remove"
  /\ live' = [live EXCEPT ![found] = FALSE]
  /\ ser' = [ser EXCEPT ![found] = AnySer]
  /\ processed' = [processed EXCEPT ![found] = FALSE]
  /\ purge' = [purge EXCEPT ![found] = Unset]
  /\ quiet' = [quiet EXCEPT ![found] = Old]
  /\ config' = config \ {<<found, found_ser>>}
  /\ consul' \in {config', consul}
  /\ phase' = "pick"
  /\ NoRow
  /\ UNCHANGED <<mode, topics, workers, todo, count, readers>>

\* deleteQueue throws: the row stays.
DeleteQueueFails ==
  /\ phase = "remove"
  /\ PurgeQueue
  /\ phase' = "tag"
  /\ UNCHANGED <<mode, store, rowFlags, topics, workers, todo, count, found, found_ser,
                 found_purge, flag, readers, quiet>>

\* setStartPurgeTimeStamp or resetStartPurgeTimeStamp, and
\* setProcessStateChannel.  Mutation: a row that was restarted is not tagged.
TaggedWhenReady == mode = "ready"
Tagged == TRUE

\* Mutation: consumers were seen, but the purge stays pending.
PurgeKept(f, ts) == IF f = 1 THEN 0 ELSE ts
PurgeTs(f, ts) == CASE f = -1 -> Unset [] f = 1 -> 0 [] OTHER -> ts

Tag ==
  /\ phase = "tag"
  /\ purge' = [purge EXCEPT ![found] = PurgeTs(flag, @)]
  /\ processed' = [processed EXCEPT ![found] = Tagged]
  /\ phase' = "pick"
  /\ NoRow
  /\ UNCHANGED <<mode, store, topics, workers, todo, count, readers, quiet>>

\* handleRestartMonitorTask: what the count of a scan says about the startup.
\* Mutation: one scan is taken to be all.
OneScan(n) == TRUE
StartupDone(n) == n = 0

\* The end of handleRestartMonitorTask and of handlePeriodicTask, which makes
\* all rows unprocessed again when there was none left.
ScanEnd ==
  /\ phase = "pick"
  /\ todo = <<>>
  /\ phase' = "idle"
  /\ count' = 0
  /\ mode' = IF mode = "starting" /\ StartupDone(count) THEN "ready" ELSE mode
  /\ processed' = IF mode = "ready" /\ count = 0 THEN [m \in Monitor |-> FALSE] ELSE processed
  /\ UNCHANGED <<store, purge, topics, workers, todo, found, found_ser, found_purge,
                 flag, readers, quiet>>

ScanStep ==
  \/ ScanBegin \/ NextPv \/ (\E m \in Monitor : Pick(m)) \/ ScanEnd
  \/ Check \/ StopErase \/ StopRelease \/ StopEraseKey \/ Remove \/ Tag

Next ==
  \/ Restart \/ Crash \/ Tick
  \/ Consumers
  \/ \E t \in Thread :
       \/ \E c \in Command, s \in Ser : Receive(t, c, s)
       \/ StoreMonitorData(t) \/ StoreFails(t)
  \/ \E w \in Worker : StartStep(w) \/ CreateQueueFails(w)
  \/ ScanStep
  \/ CheckFails \/ DeleteQueueFails

Spec == Init /\ [][Next]_vars

\* The scheduler and the threads run.  Clients, consumers and time owe nothing.
Fairness ==
  /\ WF_vars(ScanStep)
  /\ \A t \in Thread : WF_vars(StoreMonitorData(t) \/ StoreFails(t))
  /\ \A w \in Worker : WF_vars(StartStep(w) \/ CreateQueueFails(w))

FairSpec == Spec /\ Fairness

-----------------------------------------------------------------------------
(***************************************************************************)
(* Properties.                                                             *)
(***************************************************************************)

OneSerialization == \A r, s \in Ser : r = s

\* addChannelMonitor and removeChannelMonitor: every row of the database is
\* in the configuration with its serialization, and with one serialization
\* nothing else is, whatever calls to the server failed: no monitor is scanned
\* that the configuration does not know, none is configured but never scanned.
RowsConfigured ==
  \A m \in Monitor :
    /\ live[m] => <<m, ser[m]>> \in config
    /\ OneSerialization /\ ~live[m] => \A s \in Ser : <<m, s>> \notin config

\* scanForMonitorToStop: a monitor is only stopped when for more than the
\* expiration timeout no scan has seen a consumer, counted from the time its
\* row was inserted, whatever happened between the reading of the row and the
\* decision.
IdleLongEnough ==
  [][phase = "check" /\ phase' = "stop" => quiet'[found] > Timeout]_vars

\* handleRestartMonitorTask: when the worker reports ready after a restart,
\* every stored monitor whose name sanitizes is in channel_topics_map again,
\* although a scan stops at its limit and may break off, and although stored
\* names that do not sanitize, which never become active, take their share of
\* the limit.
ReadyMeansRestored ==
  [][mode = "starting" /\ mode' = "ready" =>
       \A m \in Monitor : \A s \in Ser :
         <<m, s>> \in config /\ PvOf[m] \notin Refused => active[m] > 0]_vars

\* The startup ends: commands are not refused forever.
StartupEnds == mode = "starting" ~> mode # "starting"

\* The monitor command "enables streaming updates" of a PV: a PV whose events
\* are forwarded to a topic is requested from EpicsServiceManager, or a worker
\* is just about to request it.
ActiveRequested ==
  \A m \in Monitor : active[m] > 0 =>
    requests[PvOf[m]] > 0 \/ \E w \in Worker : pc[w] = "activate" /\ PvAt(w) = PvOf[m]

\* ChannelRepository::insert, "reset the purge timestamp because a new monitor
\* has been request": no purge is pending for a monitor when a command for it
\* was stored.
CommandResetsPurge ==
  [][\A t \in Thread :
       pc[t] = "store" /\ pc'[t] = "lookup" => \A m \in Mentioned(t) : purge'[m] = Unset]_vars
=============================================================================
