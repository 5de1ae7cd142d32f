------------------------------ MODULE Scheduler ------------------------------
(***************************************************************************)
(* The scheduler of periodic tasks (service/scheduler/Scheduler.cpp,       *)
(* Task.cpp) and the way the gateway uses it (k2eg.cpp, NodeController,    *)
(* MonitorCommandWorker, EpicsServiceManager): the main thread adds the    *)
(* tasks when it builds the services, removes them when it destroys the    *)
(* services and stops the scheduler last, while the scheduler's threads    *)
(* pick the due tasks, execute them outside the lock and requeue them.     *)
(*                                                                         *)
(* In the gateway a name is given to one task only and the task is added   *)
(* once, so a task stands for its name.  A step is a critical section of   *)
(* tasks_queue_mtx or of thread_wait_mtx; the time of a thread is read     *)
(* together with the search it is used in.                                 *)
(***************************************************************************)
EXTENDS Sequences, SequencesExt, Naturals, FiniteSets

CONSTANTS
    Thread,     \* the threads of the scheduler
    Task,       \* the tasks
    NoTask,     \* a null pointer
    Outcomes,   \* the ways in which the handler of a task may end
    Follow,     \* the task that a handler adds when it completes, or NoTask
    Boot,       \* the tasks constructed with starting_ts = -1
    OwnerOf,    \* the object whose method is the handler of a task
    Script      \* what the main thread asks of the scheduler, in order

Outcome == {"cron", "asap", "throws", "completed"}
Request == [op : {"add", "quit", "remove", "stop"}, task : Task \cup {NoTask}]

ASSUME SchedulerAssumption ==
    /\ NoTask \notin Task
    /\ Outcomes \in [Task -> SUBSET Outcome]
    /\ Follow \in [Task -> Task \cup {NoTask}]
    /\ Boot \subseteq Task
    /\ Script \in Seq(Request)

Adds(i, t)    == Script[i].op = "add" /\ Script[i].task = t
Removes(i, t) == Script[i].op = "remove" /\ Script[i].task = t

\* The constructors of the services add their tasks and the destructors remove
\* them: the main thread adds a task once, before it removes it, and a task
\* that a handler adds is added by that handler only.
ASSUME GatewayAssumption ==
    /\ \A i \in DOMAIN Script : Script[i].op \in {"add", "remove"} => Script[i].task \in Task
    /\ \A i, j \in DOMAIN Script : \A t \in Task : Adds(i, t) /\ Adds(j, t) => i = j
    /\ \A i, j \in DOMAIN Script : \A t \in Task : Adds(i, t) /\ Removes(j, t) => i < j
    /\ \A t, u \in Task : Follow[t] # NoTask /\ Follow[u] = Follow[t] => u = t
    /\ \A i \in DOMAIN Script : \A t, u \in Task : Adds(i, u) => Follow[t] # u

VARIABLES
    queue,      \* tasks_queue
    running,    \* running_task_vector, which task_to_run repeats
    asap,       \* the tasks listed with a past next_schedule, or with 0
    ticked,     \* the tasks whose next_schedule has come since
    completed,  \* the tasks whose task_properties.completed is set
    toRemove,   \* task_name_to_remove
    deleted,    \* the tasks with to_be_deleted
    processing,
    stopWait,   \* stop_wait_var
    tpc,        \* where each thread of the scheduler is
    step,       \* the request of Script the main thread is at
    mpc,        \* where the main thread is inside that request
    unlisted    \* added tasks that an erasure or a completion took out

queueVars == <<queue, running, asap, ticked, completed, toRemove, deleted, unlisted>>
waitVars  == <<processing, stopWait>>
mainVars  == <<step, mpc>>
vars      == <<queueVars, waitVars, tpc, mainVars>>

TypeOK ==
    /\ queue \in Seq(Task)
    /\ running \in [Thread -> Task \cup {NoTask}]
    /\ asap \in SUBSET Task /\ ticked \in SUBSET Task /\ completed \in SUBSET Task
    /\ toRemove \in SUBSET Task /\ deleted \in SUBSET Task
    /\ unlisted \in SUBSET Task
    /\ processing \in BOOLEAN /\ stopWait \in BOOLEAN
    /\ tpc \in [Thread -> {"check", "pick", "run", "wake", "finish", "notify", "wait", "off"}]
    /\ step \in 1 .. Len(Script) + 1
    /\ mpc \in {"next", "wake", "asleep", "join"}

Init ==
    /\ queue = <<>>
    /\ running = [th \in Thread |-> NoTask]
    /\ asap = {} /\ ticked = {} /\ completed = {} /\ toRemove = {} /\ deleted = {} /\ unlisted = {}
    /\ processing = TRUE /\ stopWait = FALSE
    /\ tpc = [th \in Thread |-> "check"]
    /\ step = 1 /\ mpc = "next"

-----------------------------------------------------------------------------
(* Tasks. *)

\* canBeExecuted
Due == asap \cup ticked
CanBeExecuted(t) == t \in Due /\ t \notin deleted

\* The search of a thread: the first task of the queue that may be executed.
FirstDue(i) ==
    /\ CanBeExecuted(queue[i])
    /\ \A j \in 1 .. i - 1 : ~CanBeExecuted(queue[j])

\* The clock: the next_schedule of a task, computed from its crontab or from
\* RESCHEDULE_TIMEOUT, comes.
Tick(t) ==
    /\ processing
    /\ t \in ToSet(queue) \ Due
    /\ ticked' = ticked \cup {t}
    /\ UNCHANGED <<queue, running, asap, completed, toRemove, deleted, unlisted, waitVars, tpc, mainVars>>

\* The first critical section of addTask, with the construction of the task:
\* with starting_ts = -1 its next_schedule may already have come.
Listed(t) ==
    /\ queue' = <<t>> \o queue
    /\ asap' \in {asap} \cup {asap \cup {u} : u \in Boot \cap {t}}
    /\ UNCHANGED ticked

-----------------------------------------------------------------------------
(* The main thread. *)

Now == Script[step]
Asked(op) == step <= Len(Script) /\ Now.op = op

NextRequest == step' = step + 1 /\ mpc' = "next"

\* The two critical sections of addTask, then cv.notify_all.
AddSteps_FlagFirst ==
    \/ /\ mpc = "next"
       /\ stopWait' = TRUE
       /\ mpc' = "wake"
       /\ UNCHANGED <<queue, asap, ticked, step>>
    \/ /\ mpc = "wake"
       /\ Listed(Now.task)
       /\ NextRequest
       /\ UNCHANGED stopWait

AddSteps ==
    \/ /\ mpc = "next"
       /\ Listed(Now.task)
       /\ mpc' = "wake"
       /\ UNCHANGED <<stopWait, step>>
    \/ /\ mpc = "wake"
       /\ stopWait' = TRUE
       /\ NextRequest
       /\ UNCHANGED <<queue, asap, ticked>>

AddTask ==
    /\ Asked("add")
    /\ AddSteps
    /\ UNCHANGED <<running, completed, toRemove, deleted, unlisted, processing, tpc>>

\* The gateway runs until it is asked to terminate.
Quit ==
    /\ Asked("quit")
    /\ NextRequest
    /\ UNCHANGED <<queueVars, waitVars, tpc>>

\* std::erase_if keeps the other tasks, in their order.
Others(t) == {i \in DOMAIN queue : queue[i] # t}

EraseFromQueue(t) ==
    \E n \in 0 .. Len(queue) : \E kept \in [1 .. n -> Others(t)] :
        /\ \A i \in Others(t) : \E k \in 1 .. n : kept[k] = i
        /\ \A k, l \in 1 .. n : k < l => kept[k] < kept[l]
        /\ queue' = [k \in 1 .. n |-> queue[kept[k]]]

\* An iteration of removeTaskByName, which holds tasks_queue_mtx until it
\* returns or sleeps on cv_remove_item.
Erased(t) ==
    /\ t \in ToSet(queue)
    /\ EraseFromQueue(t)
    /\ toRemove' = toRemove \ {t}
    /\ unlisted' = unlisted \cup {t}
    /\ NextRequest

FoundRunning_NotLookedUp(t) == FALSE
FoundRunning(t) == \E th \in Thread : running[th] = t

NotThere(t) ==
    /\ t \notin ToSet(queue) /\ ~FoundRunning(t)
    /\ UNCHANGED <<queue, toRemove, unlisted>>
    /\ NextRequest

SleepUntilFinished(t) ==
    /\ t \notin ToSet(queue) /\ FoundRunning(t)
    /\ toRemove' = toRemove \cup {t}
    /\ mpc' = "asleep"
    /\ UNCHANGED <<queue, unlisted, step>>

RemoveTaskByName ==
    /\ Asked("remove") /\ mpc = "next"
    /\ Erased(Now.task) \/ NotThere(Now.task) \/ SleepUntilFinished(Now.task)
    /\ UNCHANGED <<running, asap, ticked, completed, deleted, waitVars, tpc>>

\* A wait on a condition variable may end without a notification.
SpuriousWake ==
    /\ mpc = "asleep"
    /\ mpc' = "next"
    /\ UNCHANGED <<queueVars, waitVars, tpc, step>>

Stop ==
    /\ Asked("stop") /\ mpc = "next"
    /\ processing' = FALSE
    /\ stopWait' = TRUE
    /\ mpc' = "join"
    /\ UNCHANGED <<queueVars, tpc, step>>

Joined ==
    /\ mpc = "join"
    /\ \A th \in Thread : tpc[th] = "off"
    /\ NextRequest
    /\ UNCHANGED <<queueVars, waitVars, tpc>>

-----------------------------------------------------------------------------
(* A thread of the scheduler (scheduleTask). *)

Goto(th, place) == tpc' = [tpc EXCEPT ![th] = place]

CheckProcessing(th) ==
    /\ tpc[th] = "check"
    /\ Goto(th, IF processing THEN "pick" ELSE "off")
    /\ UNCHANGED <<queueVars, waitVars, mainVars>>

TakenOut_Kept(i) == queue
TakenOut(i) == RemoveAt(queue, i)

Pick(th) ==
    /\ tpc[th] = "pick"
    /\ \E i \in DOMAIN queue :
          /\ FirstDue(i)
          /\ running' = [running EXCEPT ![th] = queue[i]]
          /\ queue' = TakenOut(i)
    /\ Goto(th, "run")
    /\ UNCHANGED <<asap, ticked, completed, toRemove, deleted, unlisted, waitVars, mainVars>>

NothingDue(th) ==
    /\ tpc[th] = "pick"
    /\ \A i \in DOMAIN queue : ~CanBeExecuted(queue[i])
    /\ Goto(th, "wait")
    /\ UNCHANGED <<queueVars, waitVars, mainVars>>

\* Task::execute: the handler and the computation of next_schedule.  The
\* handler that completes may add a task itself (handleRestartMonitorTask).
Execute(th) ==
    LET t == running[th] IN
    /\ tpc[th] = "run"
    /\ \E how \in Outcomes[t] :
          IF how = "completed"
          THEN /\ completed' = completed \cup {t}
               /\ IF Follow[t] # NoTask
                  THEN Listed(Follow[t]) /\ Goto(th, "wake")
                  ELSE UNCHANGED <<queue, asap, ticked>> /\ Goto(th, "finish")
          ELSE /\ asap' = IF how = "asap" THEN asap \cup {t} ELSE asap \ {t}
               /\ ticked' = ticked \ {t}
               /\ Goto(th, "finish")
               /\ UNCHANGED <<queue, completed>>
    /\ UNCHANGED <<running, toRemove, deleted, unlisted, waitVars, mainVars>>

\* The second part of the addTask called by the handler.
HandlerWakes(th) ==
    /\ tpc[th] = "wake"
    /\ stopWait' = TRUE
    /\ Goto(th, "finish")
    /\ UNCHANGED <<queueVars, processing, mainVars>>

ToBeDeleted_Forgotten(t) == {}
ToBeDeleted(t) == {t} \cap toRemove

Requeued_Dropped(t) == queue
Requeued_MovedFrom(t) == Append(queue, NoTask)
Requeued(t) == Append(queue, t)

Requeue(t) ==
    /\ deleted' = deleted \cup ToBeDeleted(t)
    /\ queue' = Requeued(t)
    /\ UNCHANGED unlisted

Finish(th) ==
    LET t == running[th] IN
    /\ tpc[th] = "finish"
    /\ running' = [running EXCEPT ![th] = NoTask]
    /\ IF t \in completed
       THEN unlisted' = unlisted \cup {t} /\ UNCHANGED <<queue, deleted>>
       ELSE Requeue(t)
    /\ Goto(th, "notify")
    /\ UNCHANGED <<asap, ticked, completed, toRemove, waitVars, mainVars>>

\* cv_remove_item.notify_all: the main thread looks again.
NotifyRemover(th) ==
    /\ tpc[th] = "notify"
    /\ mpc' = IF mpc = "asleep" THEN "next" ELSE mpc
    /\ Goto(th, "check")
    /\ UNCHANGED <<queueVars, waitVars, step>>

\* cv.wait_for returns when the predicate holds, or at its time limit.
WaitOver_NoLimit == ~processing \/ stopWait
WaitOver == TRUE

WakeUp(th) ==
    /\ tpc[th] = "wait" /\ WaitOver
    /\ stopWait' = FALSE
    /\ Goto(th, IF processing THEN "check" ELSE "off")
    /\ UNCHANGED <<queueVars, processing, mainVars>>

-----------------------------------------------------------------------------
Done ==
    /\ step > Len(Script)
    /\ UNCHANGED vars

MainStep == AddTask \/ RemoveTaskByName \/ Stop \/ Joined

ThreadStep(th) ==
    \/ CheckProcessing(th) \/ Pick(th) \/ NothingDue(th) \/ Execute(th)
    \/ HandlerWakes(th) \/ Finish(th) \/ NotifyRemover(th) \/ WakeUp(th)

Next ==
    \/ MainStep \/ Quit \/ SpuriousWake \/ Done
    \/ \E th \in Thread : ThreadStep(th)
    \/ \E t \in Task : Tick(t)

\* The operating system runs every thread and a handler ends; the request to
\* terminate may never come.  The main thread's wait on cv_remove_item has no
\* fairness of its own: only a notification ends it for sure.
Fairness ==
    /\ WF_vars(MainStep)
    /\ \A th \in Thread : WF_vars(ThreadStep(th))

Spec == Init /\ [][Next]_vars /\ Fairness

-----------------------------------------------------------------------------
(* Properties. *)

IsRunning(t) == \E th \in Thread : running[th] = t
Added(t) == t \in ToSet(queue) \/ IsRunning(t) \/ t \in unlisted

\* A task is in one place only: once in the queue, or with one thread, or
\* taken out for good by removeTaskByName or by its own completion.  A thread
\* that takes a task and requeues it later neither doubles nor forgets it, so
\* no two threads ever run the handler of one task.
OnePlace ==
    \A t \in Task :
        LET inQueue == Cardinality({i \in DOMAIN queue : queue[i] = t})
            inHands == Cardinality({th \in Thread : running[th] = t})
            out     == IF t \in unlisted THEN 1 ELSE 0
        IN  inQueue + inHands + out <= 1

RemoveReturned(t) == \E i \in 1 .. step - 1 : Removes(i, t)
AddReturned(t)    == \E i \in 1 .. step - 1 : Adds(i, t)

\* Whatever the main thread has added is somewhere: a task leaves only by
\* completing or by the removal that was asked for.
NeverForgotten ==
    \A t \in Task :
        /\ AddReturned(t) => Added(t)
        /\ t \in unlisted => t \in completed \/ RemoveReturned(t)

\* Once removeTaskByName has returned, the task the main thread had added is
\* not executing and never will: the destructor that called it may free the
\* object whose method is the handler.
QuietAfterRemove ==
    \A t \in Task :
        RemoveReturned(t) /\ AddReturned(t) => ~IsRunning(t) /\ t \notin ToSet(queue)

\* A task that is due when it is listed, by addTask or by a handler that asks
\* to be run at once, is never left in the queue with every thread asleep
\* until its time limit: whatever the threads were doing between the listing
\* and the notification, the wake-up is not lost.  (A task that becomes due
\* while the threads sleep waits for the time limit.)
WakePending == mpc = "wake" \/ \E th \in Thread : tpc[th] = "wake"

NoLostWakeup ==
    (/\ processing /\ ~stopWait /\ ~WakePending
     /\ \A th \in Thread : tpc[th] = "wait")
    => \A t \in ToSet(queue) : CanBeExecuted(t) => t \in ticked

\* Between two steps of any thread: no task is doubled or forgotten, and no
\* wake-up is lost.
SchedulerInv == TypeOK /\ OnePlace /\ NeverForgotten /\ NoLostWakeup

\* addTask, removeTaskByName and stop return.  A removal does even when the
\* task asks to be run again at once (after the execution it waits for, no
\* thread takes the task before the removal has taken it out), and stop ends
\* every thread.
RequestsReturn ==
    \A i \in DOMAIN Script : (Script[i].op # "quit" /\ step = i) ~> (step > i)

\* A due task of the queue is executed, or removed, unless the scheduler is
\* stopped: no task starves behind the ones that ask to be run again at once,
\* and a sleeping thread notices the task.
DueIsExecuted ==
    \A t \in Task : (t \in ToSet(queue) /\ t \in Due) ~> (t \notin ToSet(queue) \/ ~processing)

\* No handler executes after the destructor of its object has removed the
\* tasks of that object.
OwnerGone(o) == \A t \in Task : OwnerOf[t] = o => RemoveReturned(t)
HandlersHaveOwner ==
    \A th \in Thread : running[th] # NoTask => ~OwnerGone(OwnerOf[running[th]])
=============================================================================
