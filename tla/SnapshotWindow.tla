--------------------------- MODULE SnapshotWindow ---------------------------
(***************************************************************************)
(* The data path of one repeating snapshot.  Events of its PVs arrive at   *)
(* epicsMonitorEvent, which queues them for the thread pool that adds them *)
(* to the snapshot; the expiration thread finds out whether the snapshot   *)
(* is due, takes its data, asks for an update of the PVs that were silent  *)
(* and hands the submission over.  A NORMAL snapshot keeps the latest      *)
(* event of each PV, a TIMED_BUFFERED one all events of a time window, in  *)
(* two buffers that are swapped.                                           *)
(*                                                                         *)
(* Events are numbered as they arrive.  The expiration thread holds        *)
(* snapshot_running_mutex_ from the check to the end of the submission, in *)
(* which it may wait for the previous iteration; adding events, triggering *)
(* and stopping wait for that mutex.                                       *)
(***************************************************************************)
EXTENDS Integers, Sequences, FiniteSets, SequencesExt, TimeWindowBuffer

CONSTANTS
  PV,          \* the PVs of the snapshot
  Listed,      \* how often the command's list names a PV (pva://x, ca://x)
  Kinds,       \* commands that may start it: [type, triggered, sub_push_delay]
  TimeWindow,  \* time_window_msec
  FastDefault, \* FAST_EXPIRE_TIME_MSEC
  Reserve,     \* first size of the buffers
  Grow,        \* factor by which they grow
  MaxEvents,   \* bound: events that arrive
  MaxTime      \* bound: the clock

ASSUME WindowConstants ==
  /\ TimeWindow \in Nat /\ FastDefault \in Nat /\ Reserve \in Nat \ {0}
  /\ Grow \in Nat \ {0, 1} /\ MaxEvents \in Nat /\ MaxTime \in Nat
  /\ Listed \in [PV -> Nat \ {0}]
  /\ \A k \in Kinds : k.type \in {"normal", "timed"} /\ k.sub_push_delay \in Nat

VARIABLES
  kind,        \* the command
  now,         \* the clock
  log,         \* the PVs of the events, in arrival order
  daq,         \* events queued for thread_pool_daq_processing
  busy,        \* events its threads are working on
  places,      \* entries of pv_snapshot_map_ an event was added for
  registered,  \* the snapshot is in pv_snapshot_map_
  running,     \* is_running
  request,     \* request_to_trigger
  begin,       \* WorkerAsyncOperation::begin
  forced,      \* last_forced_expire
  header_sent,
  acquiring,   \* acquiring_buffer
  processing,  \* processing_buffer
  no_events,   \* pvs_no_events_
  latest,      \* element_data: number of an event, 0 is none
  epc,         \* the expiration thread: read, check, submit, done
  read_time,   \* the time it works with
  submission,  \* the last submission
  out,         \* events of the timed submissions so far
  covered      \* PVs published, pruned or asked for in this iteration

dataVars == <<places, acquiring, processing, no_events, latest, covered>>
timeVars == <<begin, forced>>
loopVars == <<epc, read_time, submission, out, header_sent>>
windowVars == <<kind, now, log, daq, busy, registered, running, request, timeVars, dataVars, loopVars>>

MutexFree == epc # "submit"
(* an event is added under the shared lock, held over all its entries *)
NoReader == \A n \in busy : places[n] = 0
PvsOf(S) == {log[n] : n \in S}
NoSubmission == [header |-> FALSE, data |-> FALSE, tail |-> FALSE, events |-> <<>>]

WindowInit ==
  /\ kind \in Kinds
  /\ now = 0 /\ log = <<>> /\ daq = <<>> /\ busy = {}
  /\ places = [n \in 1 .. MaxEvents |-> 0]
  /\ registered = TRUE /\ running = TRUE /\ request = FALSE
  /\ begin = 0 /\ forced = 0 /\ header_sent = FALSE
  /\ acquiring = EmptyBuffer(Reserve) /\ processing = EmptyBuffer(Reserve)
  /\ no_events = PV /\ latest = [p \in PV |-> 0] /\ covered = {}
  /\ epc = "read" /\ read_time = 0 /\ submission = NoSubmission /\ out = <<>>

-----------------------------------------------------------------------------
(* Events *)

(* epicsMonitorEvent queues a task *)
Arrive(p) ==
  /\ Len(log) < MaxEvents /\ epc # "done"
  /\ log' = Append(log, p)
  /\ daq' = Append(daq, Len(log) + 1)
  /\ UNCHANGED <<kind, now, busy, registered, running, request, timeVars, dataVars, loopVars>>

(* threads of thread_pool_daq_processing *)
TwoDaqThreads == 2
DaqThreads == 1

TakeEvent ==
  /\ daq # <<>> /\ Cardinality(busy) < DaqThreads
  /\ busy' = busy \cup {Head(daq)}
  /\ daq' = Tail(daq)
  /\ UNCHANGED <<kind, now, log, registered, running, request, timeVars, dataVars, loopVars>>

(* addData of the NORMAL snapshot; getData does not run at the same time *)
AddLatest(n) ==
  /\ kind.type = "normal"
  /\ latest' = [latest EXCEPT ![log[n]] = n]
  /\ UNCHANGED <<acquiring, processing, no_events, covered>>

(* addData of the TIMED_BUFFERED snapshot, stamped when it is pushed; the  *)
(* place says which of the copies it is, and steers nothing                *)
AddToWindow(n) ==
  /\ kind.type = "timed"
  /\ acquiring' = push(acquiring, [ev |-> n, ts |-> now, place |-> places[n] + 1], TimeWindow, Grow)
  /\ no_events' = no_events \ {log[n]}
  /\ covered' = covered \cup PvsOf({fetchWindow(acquiring)[i] : i \in TooOld(acquiring, now, TimeWindow)})
  /\ UNCHANGED <<processing, latest>>

(* one call of addData for every entry that equal_range finds: startSnapshot *)
(* made one for each place of the PV in the list                             *)
LastPlace(n) == places[n] + 1 = Listed[log[n]]

AddData(n) ==
  /\ n \in busy /\ MutexFree
  /\ IF registered
       THEN /\ AddLatest(n) \/ AddToWindow(n)
            /\ places' = [places EXCEPT ![n] = @ + 1]
            /\ busy' = IF LastPlace(n) THEN busy \ {n} ELSE busy
       ELSE busy' = busy \ {n} /\ UNCHANGED dataVars
  /\ UNCHANGED <<kind, now, log, daq, registered, running, request, timeVars, loopVars>>

-----------------------------------------------------------------------------
(* Commands and the clock *)

TriggerSnapshot ==
  /\ registered /\ MutexFree /\ NoReader /\ ~request
  /\ request' = TRUE
  /\ UNCHANGED <<kind, now, log, daq, busy, registered, running, timeVars, dataVars, loopVars>>

StopSnapshot ==
  /\ registered /\ MutexFree /\ running
  /\ running' = FALSE
  /\ UNCHANGED <<kind, now, log, daq, busy, registered, request, timeVars, dataVars, loopVars>>

Tick ==
  /\ now < MaxTime
  /\ now' = now + 1
  /\ UNCHANGED <<kind, log, daq, busy, registered, running, request, timeVars, dataVars, loopVars>>

-----------------------------------------------------------------------------
(* expirationCheckerLoop *)

(* the period of the partial submissions, set by the constructor *)
FastExpireTime ==
  CASE kind.sub_push_delay > 0 /\ kind.sub_push_delay < TimeWindow -> kind.sub_push_delay
    [] kind.sub_push_delay >= TimeWindow /\ TimeWindow > 0 -> TimeWindow
    [] kind.sub_push_delay > 0 /\ TimeWindow = 0 -> kind.sub_push_delay
    [] kind.sub_push_delay = 0 /\ TimeWindow > FastDefault -> FastDefault
    [] OTHER -> TimeWindow

(* WorkerAsyncOperation::isTimeout, SnapshotOpInfo::isTimeout *)
WindowOver == read_time - begin > TimeWindow
Expired == ~running \/ (IF kind.triggered THEN request ELSE WindowOver)

(* BackTimedBufferedSnapshotOpInfo::isTimeout *)
FastExpire ==
  /\ kind.type = "timed" /\ ~kind.triggered /\ ~Expired
  /\ read_time - forced >= FastExpireTime

(* the clock is read before the mutex is taken *)
ReadClock ==
  /\ epc = "read"
  /\ read_time' = now
  /\ epc' = "check"
  /\ UNCHANGED <<kind, now, log, daq, busy, registered, running, request, timeVars, dataVars,
                 submission, out, header_sent>>

NotDue ==
  /\ epc = "check" /\ NoReader /\ ~Expired /\ ~FastExpire
  /\ epc' = "read"
  /\ UNCHANGED <<kind, now, log, daq, busy, registered, running, request, timeVars, dataVars,
                 read_time, submission, out, header_sent>>

(* what both kinds of isTimeout reset *)
Renew ==
  /\ request' = (request /\ running /\ ~kind.triggered)
  /\ begin' = IF running /\ ~kind.triggered /\ Expired THEN read_time ELSE begin
  /\ forced' = IF kind.type = "timed" /\ ~kind.triggered THEN read_time ELSE forced

(* a stopped snapshot leaves snapshot_running_ and pv_snapshot_map_ *)
Removed == registered' = running

(* the NORMAL snapshot sends what it has of each PV; it asks for nothing *)
SubmitLatest ==
  /\ epc = "check" /\ NoReader /\ kind.type = "normal" /\ Expired
  /\ Renew /\ Removed
  /\ submission' = [header |-> TRUE, data |-> TRUE, tail |-> TRUE,
                    events |-> SetToSortSeq({latest[p] : p \in PV} \ {0}, <)]
  /\ epc' = "submit"
  /\ UNCHANGED <<kind, now, log, daq, busy, running, dataVars, read_time, out, header_sent>>

(* onWindowTimeout *)
KeepStatistics == no_events
AfterWindow == PV

KeepProcessed(b) == b
AfterFetch(b) == EmptyBuffer(Reserve)

(* isTimeout swaps the buffers, getData empties the one it read, and the   *)
(* PVs without events in this window so far are asked for an update        *)
SubmitWindow ==
  /\ epc = "check" /\ NoReader /\ kind.type = "timed" /\ (Expired \/ FastExpire)
  /\ Renew /\ Removed
  /\ LET result == fetchWindow(acquiring)
     IN /\ submission' = [header |-> ~header_sent, data |-> result # <<>>,
                          tail |-> Expired, events |-> result]
        /\ out' = out \o result
        /\ covered' = covered \cup PvsOf(ToSet(result)) \cup no_events
  /\ acquiring' = processing
  /\ processing' = AfterFetch(acquiring)
  /\ header_sent' = ~Expired
  /\ no_events' = IF Expired /\ ~kind.triggered THEN AfterWindow ELSE no_events
  /\ epc' = "submit"
  /\ UNCHANGED <<kind, now, log, daq, busy, running, places, latest, read_time>>

(* the iteration is acquired and the task queued: see SnapshotEngine *)
Submitted ==
  /\ epc = "submit"
  /\ covered' = IF submission.tail THEN {} ELSE covered
  /\ epc' = IF registered THEN "read" ELSE "done"
  /\ UNCHANGED <<kind, now, log, daq, busy, registered, running, request, timeVars,
                 places, acquiring, processing, no_events, latest, read_time, submission, out, header_sent>>

Done == epc = "done" /\ daq = <<>> /\ busy = {} /\ UNCHANGED windowVars

WindowNext ==
  \/ \E p \in PV : Arrive(p)
  \/ TakeEvent \/ (\E n \in busy : AddData(n))
  \/ TriggerSnapshot \/ StopSnapshot \/ Tick
  \/ ReadClock \/ NotDue \/ SubmitLatest \/ SubmitWindow \/ Submitted
  \/ Done

WindowSpec == WindowInit /\ [][WindowNext]_windowVars

-----------------------------------------------------------------------------
BufferOK(b) ==
  /\ b.head \in DOMAIN b.slots /\ b.tail \in DOMAIN b.slots
  /\ b.count \in 0 .. Size(b)
  /\ \A i \in DOMAIN b.slots : b.slots[i].ev \in 0 .. Len(log) /\ b.slots[i].ts \in 0 .. now

WindowTypeOK ==
  /\ kind \in Kinds /\ now \in 0 .. MaxTime
  /\ log \in Seq(PV) /\ daq \in Seq(DOMAIN log) /\ busy \subseteq DOMAIN log
  /\ places \in [1 .. MaxEvents -> Nat]
  /\ registered \in BOOLEAN /\ running \in BOOLEAN /\ request \in BOOLEAN
  /\ begin \in 0 .. now /\ forced \in 0 .. now /\ read_time \in 0 .. now
  /\ BufferOK(acquiring) /\ BufferOK(processing)
  /\ no_events \subseteq PV /\ covered \subseteq PV
  /\ latest \in [PV -> 0 .. Len(log)]
  /\ epc \in {"read", "check", "submit", "done"} /\ header_sent \in BOOLEAN
  /\ out \in Seq(DOMAIN log)

Added == DOMAIN log \ (busy \cup ToSet(daq))

(* A NORMAL snapshot publishes of every PV the last event that was taken     *)
(* over: an event never replaces a later one, because one thread takes the   *)
(* events of a PV one after the other.                                       *)
LatestWins ==
  kind.type = "normal" /\ registered =>
    \A n \in Added : latest[log[n]] >= n

(* When the window of a periodic TIMED_BUFFERED snapshot ends, every PV of it *)
(* has an event in the iteration, or had one that grew too old, or was asked  *)
(* for an update in the course of it: the partial submissions and the reset   *)
(* of the statistics leave nobody out.                                        *)
WindowCovered ==
  kind.type = "timed" /\ ~kind.triggered /\ epc = "submit" /\ submission.tail => covered = PV

(* The windows of both kinds: rings whose indices stay in their slots through *)
(* growth and swap, a NORMAL snapshot that holds the last event of every PV,  *)
(* and a TIMED_BUFFERED one whose iterations cover every PV.                  *)
WindowInv == WindowTypeOK /\ LatestWins /\ WindowCovered

(* The rings, the swap and the partial submissions together publish a stream: *)
(* in order, an event once for every place of its PV in the list and its      *)
(* copies together, and nothing left out but what was too old.                *)
Stream == INSTANCE EventStream WITH
            Window <- TimeWindow,
            Listed <- Listed,
            source <- log,
            pending <- Entries(acquiring),
            out <- out
ImplementsStream == Stream!Spec

(* BackTimedBufferedSnapshotOpInfo.h: "No data loss during snapshot          *)
(* processing", "lossless collection": of a periodic snapshot every event    *)
(* that was added is in a submission or waits for one.                       *)
Lossless ==
  kind.type = "timed" /\ ~kind.triggered /\ registered =>
    \A n \in Added : n \in ToSet(out) \cup ToSet(fetchWindow(acquiring))
=============================================================================
