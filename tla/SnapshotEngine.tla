--------------------------- MODULE SnapshotEngine ---------------------------
(***************************************************************************)
(* The engine of repeating snapshots (ContinuousSnapshotManager): the      *)
(* expiration thread that turns expired windows into submissions, the pool *)
(* of submitting threads that publish them, and the two synchronisers that *)
(* order what they publish:                                                *)
(*   - SnapshotIterationSynchronizer: at most one iteration of a snapshot  *)
(*     name in progress, tasks counted in and out;                         *)
(*   - SnapshotOpInfo's per-iteration state: the header gate (Data waits   *)
(*     for Header) and the data counter (Tail waits for Data).             *)
(*                                                                         *)
(* An operation is one SnapshotOpInfo object.  PV values are abstracted:   *)
(* a submission only records whether it carries events.  The calls into    *)
(* EpicsServiceManager (monitorChannel, forceMonitorChannelUpdate) do not  *)
(* feed back into the engine and belong to another component.              *)
(***************************************************************************)
EXTENDS Integers, Sequences, FiniteSets

CONSTANTS
  Op,         \* operations that clients may start
  Name,       \* snapshot names
  NameOf,     \* [Op -> Name]: the name in the start command of an operation
  Buffered,   \* operations of type TIMED_BUFFERED; the others are NORMAL
  Triggered,  \* operations started with triggered = true
  Threads,    \* snapshot_processing_thread_count
  MaxTurns,   \* bound: expirations of one operation while it is running
  MaxTasks,   \* bound: submissions handed to the pool
  MaxIter     \* bound: iteration numbers

ASSUME ConstantsAssumption ==
  /\ NameOf \in [Op -> Name]
  /\ Op # {}
  /\ Buffered \subseteq Op
  /\ Triggered \subseteq Op
  /\ Threads \in Nat \ {0}
  /\ MaxTurns \in Nat
  /\ MaxTasks \in Nat
  /\ MaxIter \in Nat

Iter == 1 .. MaxIter
Task == 1 .. MaxTasks     \* submissions, in the order the pool got them

\* SnapshotSubmission plus what the task closure captures.  data stands for
\* "Data flag set and snapshot_events not empty"; iter 0 is the unset id.
Batch == [op : Op, header : BOOLEAN, data : BOOLEAN, tail : BOOLEAN,
          last : BOOLEAN, iter : 0 .. MaxIter]

NoBatch == [op |-> CHOOSE o \in Op : TRUE, header |-> FALSE, data |-> FALSE,
            tail |-> FALSE, last |-> FALSE, iter |-> 0]

\* Control points of SnapshotSubmissionTask::operator().
Point == {"none", "queued", "start", "header", "gate", "await", "data", "counted",
          "drain", "tail", "mark", "notify", "erase", "destroy", "promise",
          "finish", "release", "done"}

\* Entries of iteration_states_ and of iteration_sync_states; live tells
\* whether the map has the entry.
IterState == [live : BOOLEAN, active : Int, tail : BOOLEAN]
Gate == [live : BOOLEAN, header : {"none", "closed", "open"}, pending : Int]

NoIterState == [live |-> FALSE, active |-> 0, tail |-> FALSE]
NoGate == [live |-> FALSE, header |-> "none", pending |-> 0]

Message == [op : Op, iter : Iter, part : {"header", "data", "tail"}]

VARIABLES
  lifecycle,           \* snapshot_running_ and is_running of each operation
  request_to_trigger,  \* SnapshotOpInfo::request_to_trigger
  header_sent,         \* BackTimedBufferedSnapshotOpInfo::header_sent
  turn,                \* expirations so far (for the bound MaxTurns)
  phase,               \* where the expiration thread is
  batch,               \* the submission it is preparing
  active_iteration_id, \* per name; 0 is "not in the map"
  current_iteration,   \* current_iteration_ per name
  in_progress,         \* iteration_in_progress_ per name
  has_cv,              \* whether iteration_cv_ has an entry
  iteration_states,    \* iteration_states_ per name
  gates,               \* iteration_sync_states per operation
  sub,                 \* the submission of each task
  pc,                  \* control point of each task
  submitted, popped,   \* FIFO of the pool: tasks popped+1 .. submitted wait
  promise,             \* removal_promise fulfilled
  topic                \* what was handed to the publisher, per topic

opVars   == <<lifecycle, request_to_trigger, header_sent, turn, promise>>
scanVars == <<phase, batch, active_iteration_id>>
syncVars == <<current_iteration, in_progress, has_cv, iteration_states>>
poolVars == <<sub, pc, submitted, popped>>
vars == <<opVars, scanVars, syncVars, gates, poolVars, topic>>

TypeOK ==
  /\ lifecycle \in [Op -> {"new", "running", "stopping", "removed"}]
  /\ request_to_trigger \in [Op -> BOOLEAN]
  /\ header_sent \in [Op -> BOOLEAN]
  /\ turn \in [Op -> Nat]
  /\ promise \in [Op -> BOOLEAN]
  /\ phase \in {"idle", "acquire", "waiting", "woken", "schedule"}
  /\ batch \in Batch
  /\ active_iteration_id \in [Name -> 0 .. MaxIter]
  /\ current_iteration \in [Name -> 0 .. MaxIter]
  /\ in_progress \in [Name -> BOOLEAN]
  /\ has_cv \in [Name -> BOOLEAN]
  /\ iteration_states \in [Name -> [Iter -> IterState]]
  /\ gates \in [Op -> [Iter -> Gate]]
  /\ sub \in [Task -> Batch]
  /\ pc \in [Task -> Point]
  /\ submitted \in 0 .. MaxTasks
  /\ popped \in 0 .. submitted
  /\ topic \in [Name -> Seq(Message)]

Init ==
  /\ lifecycle = [o \in Op |-> "new"]
  /\ request_to_trigger = [o \in Op |-> FALSE]
  /\ header_sent = [o \in Op |-> FALSE]
  /\ turn = [o \in Op |-> 0]
  /\ promise = [o \in Op |-> FALSE]
  /\ phase = "idle"
  /\ batch = NoBatch
  /\ active_iteration_id = [n \in Name |-> 0]
  /\ current_iteration = [n \in Name |-> 0]
  /\ in_progress = [n \in Name |-> FALSE]
  /\ has_cv = [n \in Name |-> FALSE]
  /\ iteration_states = [n \in Name |-> [i \in Iter |-> NoIterState]]
  /\ gates = [o \in Op |-> [i \in Iter |-> NoGate]]
  /\ sub = [k \in Task |-> NoBatch]
  /\ pc = [k \in Task |-> "none"]
  /\ submitted = 0
  /\ popped = 0
  /\ topic = [n \in Name |-> <<>>]

-----------------------------------------------------------------------------
(***************************************************************************)
(* Commands.  They take snapshot_running_mutex_, which the expiration      *)
(* thread holds from the test of a window until the task is in the pool.   *)
(***************************************************************************)
RunningMutexFree == phase = "idle"

Registered(o) == lifecycle[o] \in {"running", "stopping"}

\* startSnapshot with valid parameters, on a name that is not running.
StartSnapshot(o) ==
  /\ RunningMutexFree
  /\ lifecycle[o] = "new"
  /\ \A p \in Op : NameOf[p] = NameOf[o] => ~Registered(p)
  /\ lifecycle' = [lifecycle EXCEPT ![o] = "running"]
  /\ UNCHANGED <<request_to_trigger, header_sent, turn, promise,
                 scanVars, syncVars, gates, poolVars, topic>>

\* triggerSnapshot does not look at is_triggered, nor at is_running.
TriggerSnapshot(o) ==
  /\ RunningMutexFree
  /\ Registered(o)
  /\ turn[o] < MaxTurns
  /\ ~request_to_trigger[o]
  /\ request_to_trigger' = [request_to_trigger EXCEPT ![o] = TRUE]
  /\ UNCHANGED <<lifecycle, header_sent, turn, promise,
                 scanVars, syncVars, gates, poolVars, topic>>

\* stopSnapshot up to its wait on the removal future.
StopSnapshot(o) ==
  /\ RunningMutexFree
  /\ lifecycle[o] = "running"
  /\ lifecycle' = [lifecycle EXCEPT ![o] = "stopping"]
  /\ UNCHANGED <<request_to_trigger, header_sent, turn, promise,
                 scanVars, syncVars, gates, poolVars, topic>>

-----------------------------------------------------------------------------
(***************************************************************************)
(* The expiration thread.                                                  *)
(***************************************************************************)
Stopping(o) == lifecycle[o] = "stopping"

\* isTimeout: the ways an operation can be due.  A timer may expire at any
\* scan: "full" is the window or repeat delay, "fast" the sub push delay of
\* a periodic buffered operation.  A triggered one needs its request.
\* Mutation: a NORMAL operation does not look at its request.
DueUnlessNormal(o) ==
  IF Stopping(o) THEN {"full"}
  ELSE IF turn[o] >= MaxTurns \/ (o \in Triggered /\ o \notin Buffered) THEN {}
  ELSE {"full", "fast"}
Due(o) ==
  IF Stopping(o) THEN {"full"}
  ELSE IF turn[o] >= MaxTurns THEN {}
  ELSE IF o \in Triggered THEN (IF request_to_trigger[o] THEN {"full"} ELSE {})
  ELSE IF o \in Buffered THEN {"full", "fast"} ELSE {"full"}

\* getData of SnapshotRepeatingOpInfo: one submission is the whole iteration.
\* getData of BackTimedBufferedSnapshotOpInfo: Header once per window, Tail
\* when the window expired or the operation is stopped.
\* Mutation: an operation that is stopped sends no Header any more.
NoHeaderOnStop(o) == o \in Buffered => ~header_sent[o] /\ ~Stopping(o)
HasHeader(o) == o \in Buffered => ~header_sent[o]
HasTail(o, due) == o \in Buffered => due = "full"

\* The submission, with the iteration that it belongs to if it has no Header:
\* the one in active_iteration_id_.
GetData(o, due, d) ==
  [op |-> o, header |-> HasHeader(o), data |-> d, tail |-> HasTail(o, due),
   last |-> Stopping(o),
   iter |-> IF HasHeader(o) THEN 0 ELSE active_iteration_id[NameOf[o]]]

\* One operation is due: isTimeout, getData, and, if it is stopped, its
\* removal from snapshot_running_.
Expire(o) ==
  /\ phase = "idle"
  /\ Registered(o)
  /\ \E due \in Due(o), d \in BOOLEAN :
       /\ batch' = GetData(o, due, d)
       /\ header_sent' = [header_sent EXCEPT ![o] = o \in Buffered /\ ~HasTail(o, due)]
  /\ phase' = IF HasHeader(o) THEN "acquire" ELSE "schedule"
  /\ request_to_trigger' =
       [request_to_trigger EXCEPT ![o] = @ /\ ~Stopping(o) /\ o \notin Triggered]
  /\ turn' = [turn EXCEPT ![o] = @ + 1]
  /\ lifecycle' = [lifecycle EXCEPT ![o] = IF Stopping(o) THEN "removed" ELSE @]
  /\ UNCHANGED <<promise, active_iteration_id, syncVars, gates, poolVars, topic>>

\* iteration_mutex_ is held through the destruction of a condition variable;
\* every other critical section on it is one step.
\* Mutation: the wait of acquireIteration does not let go of the mutex.
MutexKeptInWait == phase # "waiting" /\ \A k \in Task : pc[k] # "destroy"
IterationMutexFree == \A k \in Task : pc[k] # "destroy"

\* The predicate of acquireIteration's wait.
\* Mutation: the iteration in progress is not looked at.
PreviousIgnored(n) == TRUE
PreviousDone(n) == ~in_progress[n]

\* acquireIteration creates the condition variable of the name if needed, when
\* it is entered and not when it is woken.
CvAfterEntry(n) == has_cv[n] \/ phase = "acquire"

\* acquireIteration finds the previous iteration in progress and waits on
\* the condition variable of the name.
WaitIteration ==
  LET n == NameOf[batch.op] IN
  /\ phase \in {"acquire", "woken"}
  /\ IterationMutexFree
  /\ ~PreviousDone(n)
  /\ phase' = "waiting"
  /\ has_cv' = [has_cv EXCEPT ![n] = CvAfterEntry(n)]
  /\ UNCHANGED <<opVars, batch, active_iteration_id, current_iteration, in_progress,
                 iteration_states, gates, poolVars, topic>>

\* A condition variable may wake up without a notification.
SpuriousWakeup ==
  /\ phase = "waiting"
  /\ phase' = "woken"
  /\ UNCHANGED <<opVars, batch, active_iteration_id, syncVars, gates, poolVars, topic>>

\* The batch with the iteration id that was reserved for it.
Numbered(b, i) == [op |-> b.op, header |-> b.header, data |-> b.data, tail |-> b.tail,
                   last |-> b.last, iter |-> i]

\* acquireIteration reserves the next number; active_iteration_id_ keeps it.
AcquireIteration ==
  LET n == NameOf[batch.op]
      i == current_iteration[n] + 1 IN
  /\ phase \in {"acquire", "woken"}
  /\ IterationMutexFree
  /\ PreviousDone(n)
  /\ i <= MaxIter
  /\ current_iteration' = [current_iteration EXCEPT ![n] = i]
  /\ in_progress' = [in_progress EXCEPT ![n] = TRUE]
  /\ has_cv' = [has_cv EXCEPT ![n] = CvAfterEntry(n)]
  /\ iteration_states' =
       [iteration_states EXCEPT ![n][i] = [live |-> TRUE, active |-> 0, tail |-> FALSE]]
  /\ active_iteration_id' = [active_iteration_id EXCEPT ![n] = i]
  /\ batch' = Numbered(batch, i)
  /\ phase' = "schedule"
  /\ UNCHANGED <<opVars, gates, poolVars, topic>>

\* beginHeaderGate creates the entry if needed and installs a new promise.
BeginHeaderGate(g, b) ==
  IF b.header THEN [live |-> TRUE, header |-> "closed", pending |-> g.pending] ELSE g

\* dataScheduled counts the batch before the pool gets it.
\* Mutation: Data that comes with the Header is not counted.
CountLaterData(g, b) ==
  IF b.data /\ ~b.header
  THEN [live |-> TRUE, header |-> g.header, pending |-> g.pending + 1] ELSE g
DataScheduled(g, b) ==
  IF b.data THEN [live |-> TRUE, header |-> g.header, pending |-> g.pending + 1] ELSE g

\* beginHeaderGate, dataScheduled and detach_task.  Nobody looks at this
\* iteration's gate for this batch before detach_task, so they are one step.
Submit ==
  /\ phase = "schedule"
  /\ submitted < MaxTasks
  /\ gates' = IF batch.iter = 0 THEN gates
              ELSE [gates EXCEPT ![batch.op][batch.iter] =
                                   DataScheduled(BeginHeaderGate(@, batch), batch)]
  /\ submitted' = submitted + 1
  /\ sub' = [sub EXCEPT ![submitted + 1] = batch]
  /\ pc' = [pc EXCEPT ![submitted + 1] = "queued"]
  /\ active_iteration_id' =
       IF batch.last THEN [active_iteration_id EXCEPT ![NameOf[batch.op]] = 0]
                     ELSE active_iteration_id
  /\ phase' = "idle"
  /\ batch' = NoBatch
  /\ UNCHANGED <<opVars, syncVars, popped, topic>>

-----------------------------------------------------------------------------
(***************************************************************************)
(* Tasks in the pool of submitting threads.                                *)
(***************************************************************************)
Goto(k, p) == pc' = [pc EXCEPT ![k] = p]

NameOfTask(k) == NameOf[sub[k].op]
StateOf(k) == iteration_states[NameOfTask(k)][sub[k].iter]
GateOf(k) == gates[sub[k].op][sub[k].iter]

\* The control point that follows each section of operator().
\* Mutations: every Tail is taken for the last one; a Header without Data is
\* not published.
AlwaysRemove(b) == "notify"
AfterTail(b)   == IF b.last THEN "notify" ELSE "finish"
AfterData(b)   == IF b.tail THEN "drain" ELSE "finish"
AfterHeader(b) == IF b.data THEN "await" ELSE AfterData(b)
HeaderOnlyWithData(b) == IF b.header /\ b.data THEN "header" ELSE AfterHeader(b)
AfterStart(b)  == IF b.header THEN "header" ELSE AfterHeader(b)

Busy == {k \in Task : pc[k] \notin {"none", "queued", "done"}}

\* Mutation: a worker takes a task from the empty queue.
MaybeWaiting == popped <= submitted /\ popped < MaxTasks
TaskWaiting == popped < submitted

\* A worker of the pool takes the oldest task; without an iteration id the
\* task returns at once.
Pop ==
  /\ TaskWaiting
  /\ Cardinality(Busy) < Threads
  /\ popped' = popped + 1
  /\ Goto(popped + 1, IF sub[popped + 1].iter = 0 THEN "done" ELSE "start")
  /\ UNCHANGED <<opVars, scanVars, syncVars, gates, sub, submitted, topic>>

\* An entry of iteration_states_ after startTask or finishTask, and after
\* markTailProcessed; nothing happens to an entry that is not there.
Count(s, d) == IF s.live THEN [live |-> TRUE, active |-> s.active + d, tail |-> s.tail] ELSE s
MarkTail(s) == IF s.live THEN [live |-> TRUE, active |-> s.active, tail |-> TRUE] ELSE s

SetState(k, s) ==
  iteration_states' = [iteration_states EXCEPT ![NameOfTask(k)][sub[k].iter] = s]
SetGate(k, g) ==
  gates' = [gates EXCEPT ![sub[k].op][sub[k].iter] = g]

\* TaskGuard's constructor: startTask counts the task if its iteration is known.
StartTask(k) ==
  /\ pc[k] = "start"
  /\ IterationMutexFree
  /\ SetState(k, Count(StateOf(k), 1))
  /\ Goto(k, AfterStart(sub[k]))
  /\ UNCHANGED <<opVars, scanVars, current_iteration, in_progress, has_cv, gates,
                 sub, submitted, popped, topic>>

Publish(k, p) ==
  topic' = [topic EXCEPT ![NameOfTask(k)] =
              Append(@, [op |-> sub[k].op, iter |-> sub[k].iter, part |-> p])]

PublishHeader(k) ==
  /\ pc[k] = "header"
  /\ Publish(k, "header")
  /\ Goto(k, "gate")
  /\ UNCHANGED <<opVars, scanVars, syncVars, gates, sub, submitted, popped>>

OpenGate(g) ==
  IF g.live /\ g.header = "closed"
  THEN [live |-> TRUE, header |-> "open", pending |-> g.pending] ELSE g

\* completeHeaderGate opens the gate if the entry is still there.
CompleteHeaderGate(k) ==
  /\ pc[k] = "gate"
  /\ SetGate(k, OpenGate(GateOf(k)))
  /\ Goto(k, AfterHeader(sub[k]))
  /\ UNCHANGED <<opVars, scanVars, syncVars, sub, submitted, popped, topic>>

\* Mutation: Data does not wait.
SkipHeaderGate(k) ==
  /\ pc[k] = "await"
  /\ Goto(k, "data")
  /\ UNCHANGED <<opVars, scanVars, syncVars, gates, sub, submitted, popped, topic>>

\* waitForHeaderGate returns when there is no valid future or it is ready.
WaitForHeaderGate(k) ==
  /\ pc[k] = "await"
  /\ GateOf(k).live => GateOf(k).header # "closed"
  /\ Goto(k, "data")
  /\ UNCHANGED <<opVars, scanVars, syncVars, gates, sub, submitted, popped, topic>>

PublishData(k) ==
  /\ pc[k] = "data"
  /\ Publish(k, "data")
  /\ Goto(k, "counted")
  /\ UNCHANGED <<opVars, scanVars, syncVars, gates, sub, submitted, popped>>

\* dataCompleted.  Mutation: the last batch is not counted out.
KeepLast(g) ==
  IF g.live /\ g.pending > 1
  THEN [live |-> TRUE, header |-> g.header, pending |-> g.pending - 1] ELSE g
CountOut(g) ==
  IF g.live THEN [live |-> TRUE, header |-> g.header, pending |-> g.pending - 1] ELSE g

DataCompleted(k) ==
  /\ pc[k] = "counted"
  /\ SetGate(k, CountOut(GateOf(k)))
  /\ Goto(k, AfterData(sub[k]))
  /\ UNCHANGED <<opVars, scanVars, syncVars, sub, submitted, popped, topic>>

\* waitDataDrained also forgets the iteration's gate and counter.
WaitDataDrained(k) ==
  /\ pc[k] = "drain"
  /\ GateOf(k).live => GateOf(k).pending = 0
  /\ SetGate(k, NoGate)
  /\ Goto(k, "tail")
  /\ UNCHANGED <<opVars, scanVars, syncVars, sub, submitted, popped, topic>>

PublishTail(k) ==
  /\ pc[k] = "tail"
  /\ Publish(k, "tail")
  /\ Goto(k, "mark")
  /\ UNCHANGED <<opVars, scanVars, syncVars, gates, sub, submitted, popped>>

MarkTailProcessed(k) ==
  /\ pc[k] = "mark"
  /\ IterationMutexFree
  /\ SetState(k, MarkTail(StateOf(k)))
  /\ Goto(k, AfterTail(sub[k]))
  /\ UNCHANGED <<opVars, scanVars, current_iteration, in_progress, has_cv, gates,
                 sub, submitted, popped, topic>>

WaitsOn(n) == phase = "waiting" /\ NameOf[batch.op] = n

\* What a notification on the condition variable of a name does to the
\* expiration thread.  Mutation: it is lost.
LostNotify(n) == phase
Notified(n) == IF WaitsOn(n) THEN "woken" ELSE phase

\* removeSnapshot, first critical section: notify_all.
RemoveSnapshotNotify(k) ==
  /\ pc[k] = "notify"
  /\ IterationMutexFree
  /\ phase' = IF has_cv[NameOfTask(k)] THEN Notified(NameOfTask(k)) ELSE phase
  /\ Goto(k, "erase")
  /\ UNCHANGED <<opVars, batch, active_iteration_id, syncVars, gates,
                 sub, submitted, popped, topic>>

\* removeSnapshot, second critical section: the entries of the name go away.
RemoveSnapshotErase(k) ==
  LET n == NameOfTask(k) IN
  /\ pc[k] = "erase"
  /\ IterationMutexFree
  /\ current_iteration' = [current_iteration EXCEPT ![n] = 0]
  /\ in_progress' = [in_progress EXCEPT ![n] = FALSE]
  /\ has_cv' = [has_cv EXCEPT ![n] = FALSE]
  /\ iteration_states' = [iteration_states EXCEPT ![n] = [i \in Iter |-> NoIterState]]
  /\ Goto(k, "destroy")
  /\ UNCHANGED <<opVars, scanVars, gates, sub, submitted, popped, topic>>

\* ... and the condition variable is destroyed.  With a thread still waiting
\* on it that is undefined; the C library the project builds with blocks the
\* destroying thread, which holds iteration_mutex_, until the waiter has left.
RemoveSnapshotDestroy(k) ==
  /\ pc[k] = "destroy"
  /\ ~WaitsOn(NameOfTask(k))
  /\ Goto(k, "promise")
  /\ UNCHANGED <<opVars, scanVars, syncVars, gates, sub, submitted, popped, topic>>

\* removal_promise.set_value: stopSnapshot sends its reply.
FulfilRemoval(k) ==
  /\ pc[k] = "promise"
  /\ promise' = [promise EXCEPT ![sub[k].op] = TRUE]
  /\ Goto(k, "finish")
  /\ UNCHANGED <<lifecycle, request_to_trigger, header_sent, turn, scanVars, syncVars,
                 gates, sub, submitted, popped, topic>>

\* TaskGuard's destructor: finishTask counts the task out and decides, under
\* the shared lock, whether this task releases the iteration.  The counter and
\* the Tail mark are two atomics, read here in one step; in between, another
\* thread could only count in a task of the same iteration and mark its Tail,
\* and both tasks would then release it.
FinishTask(k) ==
  LET s == StateOf(k) IN
  /\ pc[k] = "finish"
  /\ IterationMutexFree
  /\ SetState(k, Count(s, -1))
  /\ Goto(k, IF s.live /\ s.active = 1 /\ s.tail THEN "release" ELSE "done")
  /\ UNCHANGED <<opVars, scanVars, current_iteration, in_progress, has_cv, gates,
                 sub, submitted, popped, topic>>

\* releaseLock: nothing if the name is gone, else the next iteration may begin.
ReleaseLock(k) ==
  LET n == NameOfTask(k) IN
  /\ pc[k] = "release"
  /\ IterationMutexFree
  /\ IF has_cv[n]
     THEN /\ in_progress' = [in_progress EXCEPT ![n] = FALSE]
          /\ iteration_states' = [iteration_states EXCEPT ![n][sub[k].iter] = NoIterState]
          /\ phase' = Notified(n)
     ELSE UNCHANGED <<in_progress, iteration_states, phase>>
  /\ Goto(k, "done")
  /\ UNCHANGED <<opVars, batch, active_iteration_id, current_iteration, has_cv, gates,
                 sub, submitted, popped, topic>>

TaskStep(k) ==
  \/ StartTask(k)
  \/ PublishHeader(k)
  \/ CompleteHeaderGate(k)
  \/ WaitForHeaderGate(k)
  \/ PublishData(k)
  \/ DataCompleted(k)
  \/ WaitDataDrained(k)
  \/ PublishTail(k)
  \/ MarkTailProcessed(k)
  \/ RemoveSnapshotNotify(k)
  \/ RemoveSnapshotErase(k)
  \/ RemoveSnapshotDestroy(k)
  \/ FulfilRemoval(k)
  \/ FinishTask(k)
  \/ ReleaseLock(k)

-----------------------------------------------------------------------------
\* Every operation was started, stopped and removed, and the pool is idle.
AllStopped ==
  /\ \A o \in Op : lifecycle[o] = "removed"
  /\ phase = "idle"
  /\ \A k \in Task : pc[k] \in {"none", "done"}
  /\ UNCHANGED vars

Next ==
  \/ \E o \in Op : StartSnapshot(o) \/ TriggerSnapshot(o) \/ StopSnapshot(o) \/ Expire(o)
  \/ WaitIteration \/ SpuriousWakeup \/ AcquireIteration \/ Submit
  \/ Pop
  \/ \E k \in Task : TaskStep(k)
  \/ AllStopped

Spec == Init /\ [][Next]_vars

\* The expiration thread scans every registered operation each millisecond,
\* and the threads of the pool run.  Clients owe nothing, and a condition
\* variable need not wake up spuriously.
Fairness ==
  /\ \A o \in Op : WF_vars(Expire(o))
  /\ WF_vars(WaitIteration) /\ WF_vars(AcquireIteration) /\ WF_vars(Submit)
  /\ WF_vars(Pop)
  /\ \A k \in Task : WF_vars(TaskStep(k))

FairSpec == Spec /\ Fairness

-----------------------------------------------------------------------------
(***************************************************************************)
(* Properties.                                                             *)
(***************************************************************************)
Is(m, o, i, p) == m = [op |-> o, iter |-> i, part |-> p]

\* Header-before-Data (waitForHeaderGate): on a topic, every Data batch comes
\* after the Header of the iteration it is numbered with, however many
\* threads publish and in whatever order the pool's threads run.
HeaderBeforeData ==
  \A n \in Name : \A a \in DOMAIN topic[n] :
    topic[n][a].part = "data" =>
      \E b \in 1 .. a - 1 : Is(topic[n][b], topic[n][a].op, topic[n][a].iter, "header")

\* Data-before-Tail (waitDataDrained): once the Tail of an iteration is on the
\* topic, no Data batch of that iteration follows it.
DataBeforeTail ==
  \A n \in Name : \A a \in DOMAIN topic[n] :
    topic[n][a].part = "tail" =>
      \A b \in a + 1 .. Len(topic[n]) :
        ~Is(topic[n][b], topic[n][a].op, topic[n][a].iter, "data")

\* "Tail: marks the end of an iteration" (SnapshotSubmissionType): nothing of
\* an iteration, its Header included, follows its Tail.
TailEndsIteration ==
  \A n \in Name : \A a \in DOMAIN topic[n] :
    topic[n][a].part = "tail" =>
      \A b \in a + 1 .. Len(topic[n]) :
        ~(topic[n][b].op = topic[n][a].op /\ topic[n][b].iter = topic[n][a].iter)

\* expirationCheckerLoop: a submission without an iteration id "should not
\* happen if scheduling order is correct"; the task would drop it unpublished.
NoSubmissionWithoutIteration == \A k \in 1 .. submitted : sub[k].iter # 0

\* removeSnapshot: when the condition variable of a name is erased, "now
\* nobody can be waiting on it".
NobodyWaitsOnErasedCv ==
  \A k \in Task : pc[k] = "destroy" => ~WaitsOn(NameOfTask(k))

\* The whole promise to the readers of a topic: iterations in sequence, each
\* Header, Data*, Tail, numbered from 1 without a gap (acquireIteration and
\* finishTask/releaseLock keep two iterations of a name apart).
Readers ==
  INSTANCE SnapshotTopic WITH Op <- Op, Name <- Name, NameOf <- NameOf, published <- topic
ImplementsTopic == Readers!Spec

\* stopSnapshot answers when removal_promise is fulfilled: after that answer
\* the operation publishes nothing any more.
QuietAfterRemoval ==
  [][\A n \in Name : topic'[n] # topic[n] =>
        ~promise[topic'[n][Len(topic'[n])].op]]_vars

\* A stop command is always answered: the last submission gets through the
\* pool whatever the other tasks are waiting for.
StopAnswered == \A o \in Op : lifecycle[o] = "stopping" ~> promise[o]

\* A trigger that triggerSnapshot acknowledged as armed is never lost: a
\* triggered operation goes on to open an iteration, the last one of the
\* operation if a stop comes in between.
TriggerServed ==
  \A o \in Triggered :
    request_to_trigger[o] ~> (phase = "schedule" /\ batch.op = o /\ batch.header)

\* Tasks block inside the pool (on the header gate, on the data counter): still
\* every submission that was queued is worked off.
SubmissionsComplete == \A k \in Task : pc[k] = "queued" ~> pc[k] = "done"

\* Tasks, the expiration thread and the stopping client wait for each other
\* and still none waits forever: stops are answered and the pool runs empty.
PoolProgress == StopAnswered /\ SubmissionsComplete
=============================================================================
