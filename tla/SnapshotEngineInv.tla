-------------------------- MODULE SnapshotEngineInv -------------------------
(***************************************************************************)
(* Inductive invariants of the engine.  The first, IInv, is behind         *)
(* HeaderBeforeData and DataBeforeTail, in the layers in which it is       *)
(* proved; it holds for any number of threads when no two operations share *)
(* a name (OneOpPerName).  The others are behind the refinement of         *)
(* SnapshotTopic.  TurnsInv holds for one submitting thread, whatever      *)
(* operations share a name and however often a name is started again;      *)
(* NormalInv for any number of threads when all snapshots are NORMAL and   *)
(* each has its own name.  They have all layers but one in common.         *)
(***************************************************************************)
EXTENDS SnapshotEngine

OneOpPerName == \A o, p \in Op : NameOf[o] = NameOf[p] => o = p

-----------------------------------------------------------------------------
\* Layer 1: the pool.  The tasks that wait are popped+1 .. submitted, a task is
\* only in sections of operator() that its flags call for, and the last
\* submission of an operation is made when the operation is removed.
Queue ==
  \A k \in Task : /\ k > submitted <=> pc[k] = "none"
                  /\ k > popped /\ k <= submitted <=> pc[k] = "queued"

Sections ==
  \A k \in Task :
    /\ pc[k] \in {"header", "gate"} => sub[k].header
    /\ pc[k] \in {"await", "data", "counted"} => sub[k].data
    /\ pc[k] \in {"drain", "tail", "mark"} => sub[k].tail
    /\ pc[k] \in {"notify", "erase", "destroy", "promise"} => sub[k].tail /\ sub[k].last
    /\ pc[k] \notin {"none", "queued", "done"} => sub[k].iter # 0

InHand(o) == phase # "idle" /\ batch.op = o

Removal ==
  /\ phase # "idle" => /\ batch.last => lifecycle[batch.op] = "removed" /\ batch.tail
                       /\ ~batch.last => lifecycle[batch.op] = "running"
  /\ \A k \in Task : k <= submitted /\ sub[k].last =>
        lifecycle[sub[k].op] = "removed" /\ ~InHand(sub[k].op)
  /\ \A o \in Op : lifecycle[o] = "removed" => ~header_sent[o]

PoolInv == Queue /\ Sections /\ Removal

-----------------------------------------------------------------------------
\* Layer 2: scheduling.  An operation that may still submit has only used
\* numbers up to the current one; an open iteration (Header scheduled, Tail
\* not) is the active one and its gate exists.
Gone(o) == lifecycle[o] = "removed" /\ ~InHand(o)

IterOf(k, o, i) == k <= submitted /\ sub[k].op = o /\ sub[k].iter = i

OpenIteration(o, i) ==
  /\ i \in Iter
  /\ i <= current_iteration[NameOf[o]]
  /\ gates[o][i].live
  /\ \A k \in Task : IterOf(k, o, i) => ~sub[k].tail

FreshIteration(o, i) ==
  /\ i \in Iter
  /\ i = current_iteration[NameOf[o]]
  /\ ~gates[o][i].live
  /\ \A k \in Task : ~IterOf(k, o, i)

Numbers ==
  /\ \A k \in Task : k <= submitted /\ ~Gone(sub[k].op) =>
        sub[k].iter <= current_iteration[NameOf[sub[k].op]]
  /\ \A o \in Op : \A i \in Iter : gates[o][i].live /\ ~Gone(o) =>
        i <= current_iteration[NameOf[o]]

InHandInv ==
  phase # "idle" =>
    /\ header_sent[batch.op] => ~batch.tail
    /\ phase \in {"acquire", "waiting", "woken"} => batch.header
    /\ phase = "schedule" =>
         /\ batch.iter = active_iteration_id[NameOf[batch.op]]
         /\ batch.header => FreshIteration(batch.op, batch.iter)
         /\ ~batch.header => OpenIteration(batch.op, batch.iter)

OpenInv ==
  \A o \in Op : header_sent[o] /\ ~InHand(o) =>
    OpenIteration(o, active_iteration_id[NameOf[o]])

GateHeader == \A o \in Op : \A i \in Iter : gates[o][i].live => gates[o][i].header # "none"

ScheduleInv == Numbers /\ InHandInv /\ OpenInv /\ GateHeader

-----------------------------------------------------------------------------
\* Layer 3: data_pending counts the batches that are not published yet, and an
\* iteration without a gate has none.
Uncounted == {"queued", "start", "header", "gate", "await", "data", "counted"}

PendingTasks(o, i) ==
  {k \in Task : sub[k].op = o /\ sub[k].iter = i /\ sub[k].data /\ pc[k] \in Uncounted}

CountInv ==
  \A o \in Op : \A i \in Iter :
    /\ gates[o][i].pending = Cardinality(PendingTasks(o, i))
    /\ ~gates[o][i].live => PendingTasks(o, i) = {}

-----------------------------------------------------------------------------
\* Layer 4: what the gate and the drain say about the topic.
Published(o, i, p) ==
  \E a \in DOMAIN topic[NameOf[o]] : Is(topic[NameOf[o]][a], o, i, p)

OrderInv ==
  /\ \A o \in Op : \A i \in Iter :
       /\ gates[o][i].live /\ gates[o][i].header = "open" => Published(o, i, "header")
       /\ Published(o, i, "tail") =>
            /\ PendingTasks(o, i) = {}
            /\ \E k \in Task : IterOf(k, o, i) /\ sub[k].tail
  /\ \A k \in Task :
       /\ pc[k] \in {"gate", "data"} => Published(sub[k].op, sub[k].iter, "header")
       /\ pc[k] = "tail" => PendingTasks(sub[k].op, sub[k].iter) = {}
  /\ \A n \in Name : \A a \in DOMAIN topic[n] : NameOf[topic[n][a].op] = n

\* The inductive invariant: every layer together, with the two properties.
IInv == /\ TypeOK
        /\ PoolInv
        /\ ScheduleInv
        /\ CountInv
        /\ OrderInv
        /\ HeaderBeforeData
        /\ DataBeforeTail

-----------------------------------------------------------------------------
(***************************************************************************)
(* The turns of the iterations.                                            *)
(***************************************************************************)
OnName(k, n) == k <= submitted /\ NameOf[sub[k].op] = n
NewestOn(k, n) == OnName(k, n) /\ \A j \in Task : OnName(j, n) => j <= k
NoneOn(n) == \A k \in Task : ~OnName(k, n)
Scheduling(n) == phase = "schedule" /\ NameOf[batch.op] = n

\* With one thread the tasks run one after the other.
Fifo == \A k \in Task : k < popped => pc[k] = "done"

\* With NORMAL snapshots only, every submission is a whole iteration.
Whole ==
  /\ \A k \in Task : k <= submitted => sub[k].tail
  /\ phase # "idle" => batch.tail

\* What the layers below need of either: of the tasks on a name only the newest
\* one that a thread has taken is at work.
NameFifo ==
  \A j, k \in Task :
    j < k /\ k <= popped /\ NameOfTask(j) = NameOfTask(k) => pc[j] = "done"

\* The last submission of an operation is really its last one; the removal
\* promise is its work.
LastIsLast ==
  \A k \in Task : k <= submitted /\ sub[k].last =>
    /\ sub[k].tail
    /\ \A j \in Task : j <= submitted /\ sub[j].op = sub[k].op => j <= k

PromiseInv ==
  \A o \in Op : promise[o] =>
    \E k \in Task : /\ k <= popped /\ sub[k].op = o /\ sub[k].last
                    /\ pc[k] \in {"finish", "release", "done"}

LastInv == LastIsLast /\ PromiseInv

\* The submissions on a name form iterations: after submission j comes one with
\* a Header if j had the Tail, numbered on for the same operation and from 1
\* for another; otherwise one of the same iteration.
Follows(b, j) ==
  /\ b.header <=> sub[j].tail
  /\ b.header => b.iter = IF b.op = sub[j].op THEN sub[j].iter + 1 ELSE 1
  /\ ~b.header => b.op = sub[j].op /\ b.iter = sub[j].iter

Before(j, k) ==
  /\ j < k
  /\ NameOfTask(j) = NameOfTask(k)
  /\ \A i \in Task : j < i /\ i < k => NameOfTask(i) # NameOfTask(k)

FirstOn(k) == \A j \in Task : j < k => NameOfTask(j) # NameOfTask(k)

SequenceInv ==
  \A k \in Task : k <= submitted =>
    /\ sub[k].iter \in Iter
    /\ \A j \in Task : Before(j, k) => Follows(sub[k], j)
    /\ FirstOn(k) => sub[k].header /\ sub[k].iter = 1

\* One operation at a time may submit on a name, and it is the one whose
\* iteration is open; the submission in hand goes on from the newest one.
Live(o) == Registered(o) \/ InHand(o)

OneLive == \A o, p \in Op : Live(o) /\ Live(p) /\ NameOf[o] = NameOf[p] => o = p

NewestIsLive ==
  \A n \in Name : \A k \in Task : NewestOn(k, n) /\ ~sub[k].last => Live(sub[k].op)

OpenIsNewest ==
  /\ \A o \in Op : header_sent[o] => o \in Buffered
  /\ \A o \in Op : header_sent[o] /\ ~InHand(o) =>
       \E k \in Task : /\ NewestOn(k, NameOf[o]) /\ sub[k].op = o /\ ~sub[k].tail
                       /\ sub[k].iter = active_iteration_id[NameOf[o]]
  /\ \A n \in Name : \A k \in Task : NewestOn(k, n) /\ ~sub[k].tail =>
       header_sent[sub[k].op] \/ InHand(sub[k].op)

HandInv ==
  phase # "idle" =>
    /\ header_sent[batch.op] <=> ~batch.tail
    /\ phase # "schedule" => batch.header
    /\ \A k \in Task : NewestOn(k, NameOf[batch.op]) => batch.header <=> sub[k].tail
    /\ phase = "schedule" =>
         /\ batch.iter \in Iter
         /\ batch.iter = active_iteration_id[NameOf[batch.op]]
         /\ \A k \in Task : NewestOn(k, NameOf[batch.op]) => Follows(batch, k)
         /\ NoneOn(NameOf[batch.op]) => batch.header /\ batch.iter = 1

ProtocolInv == SequenceInv /\ OneLive /\ NewestIsLive /\ OpenIsNewest /\ HandInv

\* acquireIteration is passed only when the iteration before has released the
\* name or, if it was the last one, removeSnapshot has forgotten the name.
Erased == {"destroy", "promise", "finish", "done"}
Settled(k) == pc[k] = "done" \/ (sub[k].last /\ pc[k] \in Erased)

InProgressInv ==
  \A n \in Name :
    /\ Scheduling(n) => in_progress[n]
    /\ \A k \in Task : NewestOn(k, n) /\ (sub[k].tail => ~Settled(k)) => in_progress[n]

SettledInv ==
  \A j \in Task : j <= submitted /\ sub[j].tail =>
    /\ (\E k \in Task : j < k /\ OnName(k, NameOfTask(j))) => Settled(j)
    /\ Scheduling(NameOfTask(j)) => Settled(j)

\* A Tail is marked on an iteration state by the task that is the newest one on
\* the name; the mark goes away with the iteration or with the name.
TailMarked(n, i) == iteration_states[n][i].live /\ iteration_states[n][i].tail

MarkedBy(k, n, i) ==
  /\ NewestOn(k, n) /\ k <= popped
  /\ sub[k].iter = i /\ sub[k].tail
  /\ sub[k].last => pc[k] \in {"notify", "erase"}

TailMarkInv ==
  /\ \A n \in Name : \A i \in Iter : TailMarked(n, i) =>
       in_progress[n] /\ ~Scheduling(n) /\ \E k \in Task : MarkedBy(k, n, i)
  /\ \A k \in Task : pc[k] = "release" => sub[k].tail /\ ~sub[k].last

CurrentInv ==
  \A n \in Name :
    /\ Scheduling(n) => current_iteration[n] = batch.iter
    /\ ~Scheduling(n) /\ NoneOn(n) => current_iteration[n] = 0
    /\ ~Scheduling(n) => \A k \in Task : NewestOn(k, n) =>
         current_iteration[n] = IF sub[k].last /\ pc[k] \in Erased THEN 0 ELSE sub[k].iter

TurnInv == InProgressInv /\ SettledInv /\ TailMarkInv /\ CurrentInv

\* What is on the topic of a name is what the newest task on it has published.
BeforeHeader(k) == sub[k].header /\ pc[k] \in {"start", "header"}
AfterTailOut == {"mark", "notify", "erase", "destroy", "promise", "finish", "release", "done"}

Reached(k, n) ==
  IF BeforeHeader(k)
  THEN ~Readers!IsOpen(n) /\ sub[k].iter = Readers!NextIter(n, sub[k].op)
  ELSE /\ topic[n] # <<>>
       /\ Readers!Newest(n).op = sub[k].op
       /\ Readers!Newest(n).iter = sub[k].iter
       /\ Readers!Newest(n).part = "tail" <=> sub[k].tail /\ pc[k] \in AfterTailOut

NewestPopped(k, n) ==
  /\ OnName(k, n) /\ k <= popped
  /\ \A j \in Task : OnName(j, n) /\ j <= popped => j <= k

TopicInv ==
  \A n \in Name :
    \/ topic[n] = <<>> /\ \A k \in Task : OnName(k, n) => k > popped
    \/ \E k \in Task : NewestPopped(k, n) /\ Reached(k, n)

TurnsInv  == TypeOK /\ PoolInv /\ Fifo /\ LastInv /\ ProtocolInv /\ TurnInv /\ TopicInv
NormalInv == TypeOK /\ PoolInv /\ Whole /\ LastInv /\ ProtocolInv /\ TurnInv /\ TopicInv

=============================================================================
