----------------------- MODULE SnapshotEngine_proofs ------------------------
(***************************************************************************)
(* Proofs about SnapshotEngine for every set of operations and every       *)
(* bound.  For every number of threads: type correctness and the two       *)
(* orders that SnapshotOpInfo documents, Header before Data and Data       *)
(* before Tail.  With one submitting thread: the engine implements         *)
(* SnapshotTopic, every submission finds its iteration, and nothing of an  *)
(* operation is published once its removal has been reported.              *)
(***************************************************************************)
EXTENDS SnapshotEngineInv, FiniteSetTheorems, TLAPS

LEMMA NoBatchType == NoBatch \in Batch
  BY ConstantsAssumption DEF NoBatch, Batch

\* Type correctness: every step of the engine keeps its state in range.
LEMMA InitType == Init => TypeOK
  <1> USE ConstantsAssumption DEF Init, TypeOK
  <1>1. NoIterState \in IterState /\ NoGate \in Gate
    BY DEF NoIterState, IterState, NoGate, Gate
  <1>2. "none" \in Point
    BY DEF Point
  <1> QED BY <1>1, <1>2, NoBatchType DEF Iter, Task

LEMMA CommandType ==
  ASSUME TypeOK, NEW o \in Op,
         StartSnapshot(o) \/ TriggerSnapshot(o) \/ StopSnapshot(o)
  PROVE  TypeOK'
  BY DEF TypeOK, StartSnapshot, TriggerSnapshot, StopSnapshot, scanVars, syncVars, poolVars

LEMMA DueType == ASSUME NEW o \in Op PROVE Due(o) \subseteq {"full", "fast"}
  BY DEF Due

LEMMA BatchType ==
  ASSUME TypeOK, NEW o \in Op, NEW due \in Due(o), NEW d \in BOOLEAN
  PROVE  GetData(o, due, d) \in Batch
  BY DueType, ConstantsAssumption
     DEF TypeOK, GetData, HasHeader, HasTail, Batch, Stopping

LEMMA ExpireType == ASSUME TypeOK, NEW o \in Op, Expire(o) PROVE TypeOK'
  <1> USE DEF TypeOK
  <1>1. PICK due \in Due(o), d \in BOOLEAN :
          /\ batch' = GetData(o, due, d)
          /\ header_sent' = [header_sent EXCEPT ![o] = o \in Buffered /\ ~HasTail(o, due)]
    BY DEF Expire
  <1>2. batch' \in Batch
    BY <1>1, BatchType
  <1>3. turn' \in [Op -> Nat]
    BY DEF Expire
  <1>4. /\ request_to_trigger' \in [Op -> BOOLEAN]
        /\ header_sent' \in [Op -> BOOLEAN]
    BY <1>1 DEF Expire
  <1> QED BY <1>2, <1>3, <1>4 DEF Expire, syncVars, poolVars

LEMMA ScanType ==
  ASSUME TypeOK, WaitIteration \/ SpuriousWakeup \/ AcquireIteration
  PROVE  TypeOK'
  <1> USE ConstantsAssumption DEF TypeOK
  <1>0. \A n \in Name : [has_cv EXCEPT ![n] = CvAfterEntry(n)] \in [Name -> BOOLEAN]
    BY DEF CvAfterEntry
  <1>1. CASE WaitIteration
    <2>1. batch.op \in Op /\ NameOf[batch.op] \in Name BY DEF Batch
    <2>2. has_cv' \in [Name -> BOOLEAN] BY <1>0, <1>1, <2>1 DEF WaitIteration
    <2> QED BY <1>1, <2>2 DEF WaitIteration, opVars, poolVars
  <1>2. CASE SpuriousWakeup BY <1>2 DEF SpuriousWakeup, opVars, syncVars, poolVars
  <1>3. CASE AcquireIteration
    <2> DEFINE n == NameOf[batch.op]
               i == current_iteration[n] + 1
    <2>1. batch.op \in Op /\ n \in Name /\ i \in Iter
      BY <1>3 DEF AcquireIteration, Batch, Iter
    <2>2. batch' \in Batch
      BY <1>3, <2>1 DEF AcquireIteration, Numbered, Batch, Iter
    <2>3. iteration_states' \in [Name -> [Iter -> IterState]]
      BY <1>3, <2>1 DEF AcquireIteration, IterState
    <2>4. has_cv' \in [Name -> BOOLEAN] BY <1>0, <1>3, <2>1 DEF AcquireIteration
    <2>5. /\ current_iteration' \in [Name -> 0 .. MaxIter]
          /\ active_iteration_id' \in [Name -> 0 .. MaxIter]
      BY <1>3, <2>1 DEF AcquireIteration, Iter
    <2>6. in_progress' \in [Name -> BOOLEAN] BY <1>3, <2>1 DEF AcquireIteration
    <2>7. phase' \in {"idle", "acquire", "waiting", "woken", "schedule"}
      BY <1>3 DEF AcquireIteration
    <2>8. UNCHANGED <<opVars, gates, poolVars, topic>> BY <1>3 DEF AcquireIteration
    <2> QED BY <2>2, <2>3, <2>4, <2>5, <2>6, <2>7, <2>8 DEF opVars, poolVars
  <1> QED BY <1>1, <1>2, <1>3

LEMMA SubmitType == ASSUME TypeOK, Submit PROVE TypeOK'
  <1> USE ConstantsAssumption DEF TypeOK
  <1>1. batch.op \in Op /\ NameOf[batch.op] \in Name /\ batch.iter \in 0 .. MaxIter
    BY DEF Batch
  <1>2. gates' \in [Op -> [Iter -> Gate]]
    <2>1. CASE batch.iter = 0 BY <2>1 DEF Submit
    <2>2. CASE batch.iter # 0
      <3>1. batch.iter \in Iter BY <1>1, <2>2 DEF Iter
      <3>2. DataScheduled(BeginHeaderGate(gates[batch.op][batch.iter], batch), batch) \in Gate
        BY <1>1, <3>1, SMTT(30) DEF DataScheduled, BeginHeaderGate, Gate
      <3> QED BY <1>1, <2>2, <3>1, <3>2 DEF Submit
    <2> QED BY <2>1, <2>2
  <1>3. /\ sub' \in [Task -> Batch]
        /\ pc' \in [Task -> Point]
    BY DEF Submit, Task, Point
  <1>4. active_iteration_id' \in [Name -> 0 .. MaxIter]
    BY <1>1 DEF Submit
  <1>5. submitted' \in 0 .. MaxTasks /\ popped' \in 0 .. submitted'
    BY DEF Submit
  <1>6. /\ UNCHANGED <<lifecycle, request_to_trigger, header_sent, turn, promise,
                       current_iteration, in_progress, has_cv, iteration_states, topic>>
        /\ phase' = "idle"
        /\ batch' = NoBatch
    BY DEF Submit, opVars, syncVars
  <1> QED BY <1>2, <1>3, <1>4, <1>5, <1>6, NoBatchType

\* A task that runs is in the range of the arrays it uses.
LEMMA TaskType ==
  ASSUME TypeOK, NEW k \in Task
  PROVE  /\ sub[k] \in Batch
         /\ sub[k].op \in Op
         /\ NameOfTask(k) \in Name
         /\ sub[k].iter \in 0 .. MaxIter
         /\ sub[k].iter # 0 => sub[k].iter \in Iter
         /\ sub[k].iter \in Iter => StateOf(k) \in IterState /\ GateOf(k) \in Gate
  BY ConstantsAssumption DEF TypeOK, Batch, NameOfTask, Iter, StateOf, GateOf

LEMMA PopType == ASSUME TypeOK, Pop PROVE TypeOK'
  BY ConstantsAssumption
     DEF TypeOK, Pop, TaskWaiting, Goto, Point, Task, opVars, scanVars, syncVars

\* The steps of a task that only move it, publish, or use its gate.
LEMMA PublishType ==
  ASSUME TypeOK, PoolInv, NEW k \in Task,
         PublishHeader(k) \/ PublishData(k) \/ PublishTail(k)
  PROVE  TypeOK'
  <1>1. pc[k] \in {"header", "data", "tail"}
    BY DEF PublishHeader, PublishData, PublishTail
  <1>2. sub[k].op \in Op /\ sub[k].iter \in Iter /\ NameOfTask(k) \in Name
    BY <1>1, TaskType DEF PoolInv, Sections
  <1>3. PICK p \in {"header", "data", "tail"} : Publish(k, p)
    BY DEF PublishHeader, PublishData, PublishTail
  <1>4. topic' \in [Name -> Seq(Message)]
    <2>1. [op |-> sub[k].op, iter |-> sub[k].iter, part |-> p] \in Message
      BY <1>2 DEF Message
    <2>2. topic[NameOfTask(k)] \in Seq(Message)
      BY <1>2 DEF TypeOK
    <2>3. Append(topic[NameOfTask(k)], [op |-> sub[k].op, iter |-> sub[k].iter, part |-> p])
            \in Seq(Message)
      BY <2>1, <2>2
    <2> QED BY <1>2, <1>3, <2>3 DEF Publish, TypeOK
  <1>5. pc' \in [Task -> Point]
    BY DEF PublishHeader, PublishData, PublishTail, Goto, Point, TypeOK
  <1> QED BY <1>4, <1>5
          DEF PublishHeader, PublishData, PublishTail, TypeOK, opVars, scanVars, syncVars

LEMMA GateStepType ==
  ASSUME TypeOK, PoolInv, NEW k \in Task,
         \/ CompleteHeaderGate(k) \/ WaitForHeaderGate(k)
         \/ DataCompleted(k) \/ WaitDataDrained(k)
  PROVE  TypeOK'
  <1>1. pc[k] \in {"gate", "await", "counted", "drain"}
    BY DEF CompleteHeaderGate, WaitForHeaderGate, DataCompleted, WaitDataDrained
  <1>2. sub[k].op \in Op /\ sub[k].iter \in Iter /\ GateOf(k) \in Gate
    BY <1>1, TaskType DEF PoolInv, Sections
  <1>3. /\ OpenGate(GateOf(k)) \in Gate
        /\ CountOut(GateOf(k)) \in Gate
        /\ NoGate \in Gate
    BY <1>2 DEF OpenGate, CountOut, NoGate, Gate
  <1>4. UNCHANGED gates \/ \E g \in Gate : SetGate(k, g)
    <2>1. CASE CompleteHeaderGate(k) BY <1>3, <2>1 DEF CompleteHeaderGate
    <2>2. CASE WaitForHeaderGate(k) BY <2>2 DEF WaitForHeaderGate
    <2>3. CASE DataCompleted(k) BY <1>3, <2>3 DEF DataCompleted
    <2>4. CASE WaitDataDrained(k) BY <1>3, <2>4 DEF WaitDataDrained
    <2> QED BY <2>1, <2>2, <2>3, <2>4
  <1>5. gates' \in [Op -> [Iter -> Gate]]
    <2>1. CASE UNCHANGED gates BY <2>1 DEF TypeOK
    <2>2. CASE \E g \in Gate : SetGate(k, g)
      <3>1. PICK g \in Gate : SetGate(k, g) BY <2>2
      <3> QED BY <1>2, <3>1 DEF SetGate, TypeOK
    <2> QED BY <1>4, <2>1, <2>2
  <1>6. pc' \in [Task -> Point]
    BY DEF CompleteHeaderGate, WaitForHeaderGate, DataCompleted, WaitDataDrained,
           AfterHeader, AfterData, Goto, Point, TypeOK
  <1> QED BY <1>5, <1>6
          DEF CompleteHeaderGate, WaitForHeaderGate, DataCompleted, WaitDataDrained,
              TypeOK, opVars, scanVars, syncVars

LEMMA StateStepType ==
  ASSUME TypeOK, PoolInv, NEW k \in Task,
         StartTask(k) \/ MarkTailProcessed(k) \/ FinishTask(k)
  PROVE  TypeOK'
  <1>1. pc[k] \in {"start", "mark", "finish"}
    BY DEF StartTask, MarkTailProcessed, FinishTask
  <1>2. NameOfTask(k) \in Name /\ sub[k].iter \in Iter /\ StateOf(k) \in IterState
    BY <1>1, TaskType DEF PoolInv, Sections
  <1>3. /\ Count(StateOf(k), 1) \in IterState
        /\ Count(StateOf(k), -1) \in IterState
        /\ MarkTail(StateOf(k)) \in IterState
    BY <1>2 DEF Count, MarkTail, IterState
  <1>4. \E s \in IterState : SetState(k, s)
    BY <1>3 DEF StartTask, MarkTailProcessed, FinishTask
  <1>5. iteration_states' \in [Name -> [Iter -> IterState]]
    BY <1>2, <1>4 DEF SetState, TypeOK
  <1>6. pc' \in [Task -> Point]
    BY DEF StartTask, MarkTailProcessed, FinishTask, AfterStart, AfterHeader, AfterData,
           AfterTail, Goto, Point, TypeOK
  <1> QED BY <1>5, <1>6
          DEF StartTask, MarkTailProcessed, FinishTask, TypeOK, opVars, scanVars

LEMMA RemovalStepType ==
  ASSUME TypeOK, PoolInv, NEW k \in Task,
         \/ RemoveSnapshotNotify(k) \/ RemoveSnapshotErase(k)
         \/ RemoveSnapshotDestroy(k) \/ FulfilRemoval(k) \/ ReleaseLock(k)
  PROVE  TypeOK'
  <1>1. /\ NameOfTask(k) \in Name /\ sub[k].op \in Op
        /\ pc[k] = "release" => sub[k].iter \in Iter
    BY TaskType DEF PoolInv, Sections
  <1>2. NoIterState \in IterState
    BY DEF NoIterState, IterState
  <1>3. pc' \in [Task -> Point]
    BY DEF RemoveSnapshotNotify, RemoveSnapshotErase, RemoveSnapshotDestroy, FulfilRemoval,
           ReleaseLock, Goto, Point, TypeOK
  <1>4. CASE RemoveSnapshotNotify(k) \/ RemoveSnapshotDestroy(k) \/ FulfilRemoval(k)
    BY <1>3, <1>4
       DEF RemoveSnapshotNotify, Notified, RemoveSnapshotDestroy, FulfilRemoval, TypeOK,
           opVars, scanVars, syncVars
  <1>5. CASE RemoveSnapshotErase(k)
    <2> DEFINE empty == [i \in Iter |-> NoIterState]
    <2>a. empty \in [Iter -> IterState]
      BY <1>2
    <2>b. iteration_states' = [iteration_states EXCEPT ![NameOfTask(k)] = empty]
      BY <1>5 DEF RemoveSnapshotErase
    <2> HIDE DEF empty
    <2>1. iteration_states' \in [Name -> [Iter -> IterState]]
      BY <1>1, <2>a, <2>b DEF TypeOK
    <2> QED BY <1>1, <1>3, <1>5, <2>1, ConstantsAssumption
            DEF RemoveSnapshotErase, TypeOK, opVars, scanVars
  <1>6. CASE ReleaseLock(k)
    <2>1. iteration_states' \in [Name -> [Iter -> IterState]]
      <3>1. CASE has_cv[NameOfTask(k)]
        <4>1. SetState(k, NoIterState) BY <1>6, <3>1 DEF ReleaseLock, SetState
        <4>2. sub[k].iter \in Iter BY <1>1, <1>6 DEF ReleaseLock
        <4> QED BY <1>1, <1>2, <4>1, <4>2 DEF SetState, TypeOK
      <3>2. CASE ~has_cv[NameOfTask(k)] BY <1>6, <3>2 DEF ReleaseLock, TypeOK
      <3> QED BY <3>1, <3>2
    <2>2. in_progress' \in [Name -> BOOLEAN]
      BY <1>1, <1>6 DEF ReleaseLock, TypeOK
    <2>3. phase' \in {"idle", "acquire", "waiting", "woken", "schedule"}
      BY <1>6 DEF ReleaseLock, Notified, TypeOK
    <2> QED BY <1>3, <1>6, <2>1, <2>2, <2>3 DEF ReleaseLock, TypeOK, opVars
  <1> QED BY <1>4, <1>5, <1>6

-----------------------------------------------------------------------------
(***************************************************************************)
(* Layer 1: the pool.                                                      *)
(***************************************************************************)
LEMMA InitPool == Init => PoolInv
  BY ConstantsAssumption
     DEF Init, PoolInv, Queue, Sections, Removal, InHand, Task, NoBatch

\* A step of a task leaves the queue and the operations alone and moves the
\* task along the sections of operator().
Quiet == UNCHANGED <<lifecycle, header_sent, batch, sub, submitted, popped>>

LEMMA TaskStepPool ==
  ASSUME TypeOK, PoolInv, NEW k \in Task, TaskStep(k)
  PROVE  PoolInv'
  <1>1. /\ Quiet
        /\ phase' # "idle" <=> phase # "idle"
    BY DEF TaskStep, StartTask, PublishHeader, CompleteHeaderGate, WaitForHeaderGate,
           PublishData, DataCompleted, WaitDataDrained, PublishTail, MarkTailProcessed,
           RemoveSnapshotNotify, RemoveSnapshotErase, RemoveSnapshotDestroy, FulfilRemoval,
           FinishTask, ReleaseLock, Quiet, opVars, scanVars, syncVars, Notified, WaitsOn
  <1>2. PICK p \in Point :
          /\ pc' = [pc EXCEPT ![k] = p]
          /\ pc[k] \notin {"none", "queued", "done"}
          /\ p \notin {"none", "queued"}
          /\ p \in {"header", "gate"} => sub[k].header
          /\ p \in {"await", "data", "counted"} => sub[k].data
          /\ p \in {"drain", "tail", "mark"} => sub[k].tail
          /\ p \in {"notify", "erase", "destroy", "promise"} => sub[k].tail /\ sub[k].last
    BY DEF TaskStep, StartTask, PublishHeader, CompleteHeaderGate, WaitForHeaderGate,
           PublishData, DataCompleted, WaitDataDrained, PublishTail, MarkTailProcessed,
           RemoveSnapshotNotify, RemoveSnapshotErase, RemoveSnapshotDestroy, FulfilRemoval,
           FinishTask, ReleaseLock, Goto, AfterStart, AfterHeader, AfterData,
           AfterTail, Point,
           PoolInv, Sections
  <1>3. Queue'
    BY <1>1, <1>2 DEF Quiet, Queue, PoolInv, TypeOK
  <1>4. Sections'
    BY <1>1, <1>2 DEF Quiet, Sections, PoolInv, TypeOK
  <1>5. Removal'
    BY <1>1 DEF Quiet, Removal, PoolInv, InHand
  <1> QED BY <1>3, <1>4, <1>5 DEF PoolInv

LEMMA PopPool == ASSUME TypeOK, PoolInv, Pop PROVE PoolInv'
  <1> DEFINE t == popped + 1
  <1>1. /\ t \in Task /\ pc[t] = "queued"
        /\ popped' = t
        /\ UNCHANGED <<lifecycle, header_sent, phase, batch, sub, submitted>>
    BY ConstantsAssumption DEF Pop, TaskWaiting, PoolInv, Queue, Task, TypeOK, opVars, scanVars
  <1>2. PICK p \in {"done", "start"} : /\ pc' = [pc EXCEPT ![t] = p]
                                       /\ p = "start" => sub[t].iter # 0
    BY DEF Pop, Goto
  <1>3. Queue'
    BY <1>1, <1>2 DEF PoolInv, Queue, Task, TypeOK
  <1>4. Sections'
    BY <1>1, <1>2 DEF PoolInv, Sections, TypeOK
  <1>5. Removal'
    BY <1>1 DEF PoolInv, Removal, InHand
  <1> QED BY <1>3, <1>4, <1>5 DEF PoolInv

LEMMA SubmitPool == ASSUME TypeOK, PoolInv, Submit PROVE PoolInv'
  <1> DEFINE t == submitted + 1
  <1>1. /\ t \in Task
        /\ submitted' = t
        /\ sub' = [sub EXCEPT ![t] = batch]
        /\ pc' = [pc EXCEPT ![t] = "queued"]
        /\ phase = "schedule" /\ phase' = "idle"
        /\ UNCHANGED <<lifecycle, header_sent, popped>>
    <2>1. t \in Task
      BY ConstantsAssumption DEF Submit, Task, TypeOK
    <2> QED BY <2>1 DEF Submit, opVars
  <1>2. Queue'
    BY <1>1 DEF PoolInv, Queue, Task, TypeOK
  <1>3. Sections'
    <2>1. ASSUME NEW k \in Task, k # t PROVE pc'[k] = pc[k] /\ sub'[k] = sub[k]
      BY <1>1, <2>1 DEF TypeOK
    <2>2. pc'[t] = "queued"
      BY <1>1 DEF TypeOK
    <2> QED BY <2>1, <2>2 DEF PoolInv, Sections
  <1>4. Removal'
    <2>1. ASSUME NEW k \in Task, k <= submitted', sub'[k].last
          PROVE  lifecycle[sub'[k].op] = "removed"
      <3>1. CASE k = t BY <1>1, <2>1, <3>1 DEF PoolInv, Removal, TypeOK
      <3>2. CASE k # t BY <1>1, <2>1, <3>2 DEF PoolInv, Removal, TypeOK, Task
      <3> QED BY <3>1, <3>2
    <2> QED BY <1>1, <2>1 DEF PoolInv, Removal, InHand
  <1> QED BY <1>2, <1>3, <1>4 DEF PoolInv

LEMMA ScanPool ==
  ASSUME TypeOK, PoolInv, WaitIteration \/ SpuriousWakeup \/ AcquireIteration
  PROVE  PoolInv'
  <1>1. /\ UNCHANGED <<lifecycle, header_sent, sub, pc, submitted, popped>>
        /\ phase # "idle" /\ phase' # "idle"
        /\ batch'.op = batch.op /\ batch'.last = batch.last /\ batch'.tail = batch.tail
    BY DEF WaitIteration, SpuriousWakeup, AcquireIteration, Numbered, opVars, poolVars
  <1> QED BY <1>1 DEF PoolInv, Queue, Sections, Removal, InHand

LEMMA CommandPool ==
  ASSUME TypeOK, PoolInv, NEW o \in Op,
         StartSnapshot(o) \/ TriggerSnapshot(o) \/ StopSnapshot(o)
  PROVE  PoolInv'
  <1>1. /\ UNCHANGED <<header_sent, phase, batch, sub, pc, submitted, popped>>
        /\ phase = "idle"
    BY DEF StartSnapshot, TriggerSnapshot, StopSnapshot, RunningMutexFree, scanVars, poolVars
  <1>2. \A p \in Op : lifecycle'[p] = "removed" <=> lifecycle[p] = "removed"
    BY DEF StartSnapshot, TriggerSnapshot, StopSnapshot, TypeOK
  <1>3. \A k \in Task : sub[k].op \in Op
    BY TaskType
  <1> QED BY <1>1, <1>2, <1>3 DEF PoolInv, Queue, Sections, Removal, InHand

LEMMA ExpirePool == ASSUME TypeOK, PoolInv, NEW o \in Op, Expire(o) PROVE PoolInv'
  <1>1. PICK due \in Due(o), d \in BOOLEAN :
          /\ batch' = GetData(o, due, d)
          /\ header_sent' = [header_sent EXCEPT ![o] = o \in Buffered /\ ~HasTail(o, due)]
    BY DEF Expire
  <1>2. /\ UNCHANGED <<sub, pc, submitted, popped>>
        /\ lifecycle[o] # "removed"
        /\ lifecycle' = [lifecycle EXCEPT ![o] = IF Stopping(o) THEN "removed" ELSE @]
        /\ phase = "idle"
    BY DEF Expire, Registered, poolVars
  <1>3. /\ batch'.op = o
        /\ batch'.last = Stopping(o)
        /\ batch'.tail = HasTail(o, due)
    BY <1>1 DEF GetData
  <1>4. Stopping(o) => HasTail(o, due)
    BY DEF Due, HasTail
  <1>5. Removal'
    <2>1. \A k \in Task : k <= submitted /\ sub[k].last =>
             lifecycle[sub[k].op] = "removed" /\ sub[k].op # o /\ sub[k].op \in Op
      BY <1>2, TaskType DEF PoolInv, Removal
    <2>2. \A p \in Op : lifecycle'[p] = "removed" => ~header_sent'[p]
      BY <1>1, <1>2, <1>4 DEF PoolInv, Removal, TypeOK
    <2>3. /\ batch'.last => lifecycle'[o] = "removed" /\ batch'.tail
          /\ ~batch'.last => lifecycle'[o] = "running"
      BY <1>2, <1>3, <1>4 DEF Expire, Registered, Stopping, TypeOK
    <2> QED BY <1>2, <1>3, <2>1, <2>2, <2>3 DEF Removal, InHand, TypeOK
  <1> QED BY <1>2, <1>5 DEF PoolInv, Queue, Sections

\* Which kinds of steps there are; used in every layer.
LEMMA NextCases ==
  ASSUME [Next]_vars
  PROVE  \/ \E o \in Op : StartSnapshot(o) \/ TriggerSnapshot(o) \/ StopSnapshot(o)
         \/ \E o \in Op : Expire(o)
         \/ WaitIteration \/ SpuriousWakeup \/ AcquireIteration
         \/ Submit
         \/ Pop
         \/ \E k \in Task : TaskStep(k)
         \/ UNCHANGED vars
  BY DEF Next, AllStopped

LEMMA TaskStepType == ASSUME TypeOK, PoolInv, NEW k \in Task, TaskStep(k) PROVE TypeOK'
  BY PublishType, GateStepType, StateStepType, RemovalStepType DEF TaskStep

LEMMA NextPool == TypeOK /\ PoolInv /\ [Next]_vars => TypeOK' /\ PoolInv'
  <1> SUFFICES ASSUME TypeOK, PoolInv, [Next]_vars PROVE TypeOK' /\ PoolInv'
    OBVIOUS
  <1>1. CASE \E o \in Op : StartSnapshot(o) \/ TriggerSnapshot(o) \/ StopSnapshot(o)
    BY <1>1, CommandType, CommandPool
  <1>2. CASE \E o \in Op : Expire(o)
    BY <1>2, ExpireType, ExpirePool
  <1>3. CASE WaitIteration \/ SpuriousWakeup \/ AcquireIteration
    BY <1>3, ScanType, ScanPool
  <1>4. CASE Submit
    BY <1>4, SubmitType, SubmitPool
  <1>5. CASE Pop
    BY <1>5, PopType, PopPool
  <1>6. CASE \E k \in Task : TaskStep(k)
    BY <1>6, TaskStepType, TaskStepPool
  <1>7. CASE UNCHANGED vars
    BY <1>7 DEF vars, opVars, scanVars, syncVars, poolVars, TypeOK, PoolInv, Queue, Sections,
                Removal, InHand
  <1> QED BY NextCases, <1>1, <1>2, <1>3, <1>4, <1>5, <1>6, <1>7

\* Type correctness: the engine's state stays in range, for every set of
\* operations and names, number of threads and bound.
THEOREM TypeCorrect == Spec => []TypeOK
  <1>1. Init => TypeOK /\ PoolInv
    BY InitType, InitPool
  <1> QED BY <1>1, NextPool, PTL DEF Spec

-----------------------------------------------------------------------------
(***************************************************************************)
(* Layer 2: scheduling.                                                    *)
(***************************************************************************)
LEMMA InitSchedule == Init => ScheduleInv
  BY ConstantsAssumption
     DEF Init, ScheduleInv, Numbers, InHandInv, OpenInv, GateHeader, Gone, InHand, NoGate,
         Task, Iter

\* What a step of task k does to the gates: it creates none, it only drops the
\* gate of its own iteration and only if it carries the Tail.
LEMMA TaskStepGates ==
  ASSUME TypeOK, PoolInv, NEW k \in Task, TaskStep(k), NEW o \in Op, NEW i \in Iter
  PROVE  /\ gates'[o][i].live => gates[o][i].live
         /\ gates[o][i].live /\ ~gates'[o][i].live => IterOf(k, o, i) /\ sub[k].tail
         /\ gates'[o][i].live /\ gates[o][i].header # "none" => gates'[o][i].header # "none"
  <1>1. CASE \/ StartTask(k) \/ PublishHeader(k) \/ WaitForHeaderGate(k) \/ PublishData(k)
             \/ PublishTail(k) \/ MarkTailProcessed(k) \/ RemoveSnapshotNotify(k)
             \/ RemoveSnapshotErase(k) \/ RemoveSnapshotDestroy(k) \/ FulfilRemoval(k)
             \/ FinishTask(k) \/ ReleaseLock(k)
    <2>1. UNCHANGED gates
      BY <1>1 DEF StartTask, PublishHeader, WaitForHeaderGate, PublishData, PublishTail,
                  MarkTailProcessed, RemoveSnapshotNotify, RemoveSnapshotErase,
                  RemoveSnapshotDestroy, FulfilRemoval, FinishTask, ReleaseLock
    <2> QED BY <2>1
  <1>2. CASE CompleteHeaderGate(k) \/ DataCompleted(k) \/ WaitDataDrained(k)
    <2>1. /\ pc[k] \in {"gate", "counted", "drain"}
          /\ pc[k] = "drain" <=> WaitDataDrained(k)
      BY <1>2 DEF CompleteHeaderGate, DataCompleted, WaitDataDrained
    <2>2. sub[k].op \in Op /\ sub[k].iter \in Iter /\ GateOf(k) \in Gate
      BY <2>1, TaskType DEF PoolInv, Sections
    <2>3. k <= submitted /\ (pc[k] = "drain" => sub[k].tail)
      BY <2>1 DEF PoolInv, Queue, Sections, TypeOK, Task
    <2>4. PICK g \in Gate : /\ SetGate(k, g)
                            /\ g.live => GateOf(k).live
                            /\ GateOf(k).live /\ ~g.live => pc[k] = "drain"
                            /\ g.live /\ GateOf(k).header # "none" => g.header # "none"
      <3> DEFINE Fine(g) == /\ g.live => GateOf(k).live
                            /\ GateOf(k).live /\ ~g.live => pc[k] = "drain"
                            /\ g.live /\ GateOf(k).header # "none" => g.header # "none"
      <3>0. /\ OpenGate(GateOf(k)) \in Gate /\ Fine(OpenGate(GateOf(k)))
            /\ CountOut(GateOf(k)) \in Gate /\ Fine(CountOut(GateOf(k)))
            /\ NoGate \in Gate /\ (pc[k] = "drain" => Fine(NoGate))
        BY <2>2 DEF OpenGate, CountOut, NoGate, Gate
      <3> SUFFICES \E g \in Gate : SetGate(k, g) /\ Fine(g)
        OBVIOUS
      <3> HIDE DEF Fine
      <3>1. CASE CompleteHeaderGate(k)
        BY <3>0, <3>1 DEF CompleteHeaderGate
      <3>2. CASE DataCompleted(k)
        BY <3>0, <3>2 DEF DataCompleted
      <3>3. CASE WaitDataDrained(k)
        BY <2>1, <3>0, <3>3 DEF WaitDataDrained
      <3> QED BY <1>2, <3>1, <3>2, <3>3
    <2>5. CASE sub[k].op = o /\ sub[k].iter = i
      <3>1. gates'[o][i] = g /\ GateOf(k) = gates[o][i]
        BY <2>2, <2>4, <2>5 DEF SetGate, GateOf, TypeOK
      <3> QED BY <2>3, <2>4, <2>5, <3>1 DEF IterOf
    <2>6. CASE ~(sub[k].op = o /\ sub[k].iter = i)
      <3>1. gates'[o][i] = gates[o][i]
        BY <2>2, <2>4, <2>6 DEF SetGate, TypeOK
      <3> QED BY <3>1
    <2> QED BY <2>5, <2>6
  <1> QED BY <1>1, <1>2 DEF TaskStep

\* What a step of task k does to the rest of the state that layer 2 is about.
LEMMA TaskStepFrame ==
  ASSUME TypeOK, PoolInv, OneOpPerName, NEW k \in Task, TaskStep(k)
  PROVE  /\ Quiet
         /\ UNCHANGED active_iteration_id
         /\ phase' = "idle" <=> phase = "idle"
         /\ phase' = "schedule" <=> phase = "schedule"
         /\ \A o \in Op : current_iteration'[NameOf[o]] = current_iteration[NameOf[o]] \/ Gone(o)
  <1>1. /\ Quiet
        /\ UNCHANGED active_iteration_id
        /\ phase' = "idle" <=> phase = "idle"
        /\ phase' = "schedule" <=> phase = "schedule"
    BY DEF TaskStep, StartTask, PublishHeader, CompleteHeaderGate, WaitForHeaderGate,
           PublishData, DataCompleted, WaitDataDrained, PublishTail, MarkTailProcessed,
           RemoveSnapshotNotify, RemoveSnapshotErase, RemoveSnapshotDestroy, FulfilRemoval,
           FinishTask, ReleaseLock, Quiet, opVars, scanVars, syncVars, Notified, WaitsOn
  <1>2. CASE RemoveSnapshotErase(k)
    <2>1. Gone(sub[k].op) /\ sub[k].op \in Op /\ NameOfTask(k) = NameOf[sub[k].op]
      <3>1. pc[k] = "erase"
        BY <1>2 DEF RemoveSnapshotErase
      <3>2. k <= submitted
        BY <3>1 DEF PoolInv, Queue, TypeOK, Task
      <3>3. sub[k].last
        BY <3>1 DEF PoolInv, Sections
      <3>4. lifecycle[sub[k].op] = "removed" /\ ~InHand(sub[k].op)
        BY <3>2, <3>3 DEF PoolInv, Removal
      <3> QED BY <3>4, TaskType DEF Gone, NameOfTask
    <2>2. current_iteration' = [current_iteration EXCEPT ![NameOfTask(k)] = 0]
      BY <1>2 DEF RemoveSnapshotErase
    <2>3. ASSUME NEW o \in Op, ~Gone(o)
          PROVE  current_iteration'[NameOf[o]] = current_iteration[NameOf[o]]
      <3>1. NameOf[o] # NameOfTask(k) /\ NameOf[o] \in Name
        BY <2>1, <2>3, ConstantsAssumption DEF OneOpPerName
      <3> QED BY <2>2, <3>1 DEF TypeOK
    <2> QED BY <1>1, <2>3
  <1>3. CASE ~RemoveSnapshotErase(k)
    <2>1. UNCHANGED current_iteration
      BY <1>3 DEF TaskStep, StartTask, PublishHeader, CompleteHeaderGate, WaitForHeaderGate,
           PublishData, DataCompleted, WaitDataDrained, PublishTail, MarkTailProcessed,
           RemoveSnapshotNotify, RemoveSnapshotDestroy, FulfilRemoval,
           FinishTask, ReleaseLock, syncVars
    <2> QED BY <1>1, <2>1
  <1> QED BY <1>2, <1>3

LEMMA TaskStepSchedule ==
  ASSUME TypeOK, PoolInv, ScheduleInv, OneOpPerName, NEW k \in Task, TaskStep(k)
  PROVE  ScheduleInv'
  <1> USE DEF ScheduleInv
  <1>1. /\ UNCHANGED <<lifecycle, header_sent, batch, sub, submitted, active_iteration_id>>
        /\ phase' = "idle" <=> phase = "idle"
        /\ phase' = "schedule" <=> phase = "schedule"
    BY TaskStepFrame DEF Quiet
  <1>2. /\ \A o : InHand(o)' <=> InHand(o)
        /\ \A o : Gone(o)' <=> Gone(o)
        /\ \A j, o, i : IterOf(j, o, i)' <=> IterOf(j, o, i)
    BY <1>1 DEF InHand, Gone, IterOf
  <1>3. \A o \in Op : ~Gone(o) => current_iteration'[NameOf[o]] = current_iteration[NameOf[o]]
    BY TaskStepFrame
  <1>4. ASSUME NEW o \in Op, ~Gone(o), NEW i, OpenIteration(o, i) PROVE OpenIteration(o, i)'
    <2>1. i \in Iter BY <1>4 DEF OpenIteration
    <2>2. ~(IterOf(k, o, i) /\ sub[k].tail) BY <1>4 DEF OpenIteration
    <2>3. gates'[o][i].live BY <1>4, <2>1, <2>2, TaskStepGates DEF OpenIteration
    <2> QED BY <1>1, <1>2, <1>3, <1>4, <2>3 DEF OpenIteration
  <1>5. ASSUME NEW o \in Op, ~Gone(o), NEW i, FreshIteration(o, i) PROVE FreshIteration(o, i)'
    <2>1. i \in Iter BY <1>5 DEF FreshIteration
    <2>2. ~gates'[o][i].live BY <1>5, <2>1, TaskStepGates DEF FreshIteration
    <2> QED BY <1>1, <1>2, <1>3, <1>5, <2>2 DEF FreshIteration
  <1>6. Numbers'
    <2>1. \A j \in Task : sub[j].op \in Op BY TaskType
    <2>2. \A o \in Op : \A i \in Iter : gates'[o][i].live => gates[o][i].live
      BY TaskStepGates
    <2> QED BY <1>1, <1>2, <1>3, <2>1, <2>2 DEF Numbers
  <1>7. InHandInv'
    <2>1. phase # "idle" => batch.op \in Op /\ ~Gone(batch.op)
      BY DEF TypeOK, Batch, Gone, InHand
    <2>2. phase' \in {"acquire", "waiting", "woken"} => phase \in {"acquire", "waiting", "woken"}
      BY <1>1 DEF TypeOK
    <2> QED BY <1>1, <1>4, <1>5, <2>1, <2>2 DEF InHandInv
  <1>8. OpenInv'
    BY <1>1, <1>2, <1>4 DEF OpenInv, PoolInv, Removal, Gone
  <1>9. GateHeader'
    BY TaskStepGates DEF GateHeader
  <1> QED BY <1>6, <1>7, <1>8, <1>9

LEMMA PopSchedule == ASSUME ScheduleInv, Pop PROVE ScheduleInv'
  <1>1. UNCHANGED <<lifecycle, header_sent, phase, batch, active_iteration_id,
                    current_iteration, gates, sub, submitted>>
    BY DEF Pop, opVars, scanVars, syncVars
  <1> QED BY <1>1 DEF ScheduleInv, Numbers, InHandInv, OpenInv, GateHeader, Gone, InHand,
                      OpenIteration, FreshIteration, IterOf

LEMMA CommandSchedule ==
  ASSUME TypeOK, ScheduleInv, NEW o \in Op,
         StartSnapshot(o) \/ TriggerSnapshot(o) \/ StopSnapshot(o)
  PROVE  ScheduleInv'
  <1>1. /\ UNCHANGED <<header_sent, phase, batch, active_iteration_id, current_iteration,
                       gates, sub, submitted>>
        /\ phase = "idle"
    BY DEF StartSnapshot, TriggerSnapshot, StopSnapshot, RunningMutexFree, scanVars,
           syncVars, poolVars
  <1>2. \A p \in Op : lifecycle'[p] = "removed" <=> lifecycle[p] = "removed"
    BY DEF StartSnapshot, TriggerSnapshot, StopSnapshot, TypeOK
  <1>3. \A k \in Task : sub[k].op \in Op
    BY TaskType
  <1>4. \A p, i : OpenIteration(p, i)' <=> OpenIteration(p, i)
    BY <1>1 DEF OpenIteration, IterOf
  <1> QED BY <1>1, <1>2, <1>3, <1>4
          DEF ScheduleInv, Numbers, InHandInv, OpenInv, GateHeader, Gone, InHand

LEMMA ExpireSchedule ==
  ASSUME TypeOK, PoolInv, ScheduleInv, NEW o \in Op, Expire(o)
  PROVE  ScheduleInv'
  <1>1. PICK due \in Due(o), d \in BOOLEAN :
          /\ batch' = GetData(o, due, d)
          /\ header_sent' = [header_sent EXCEPT ![o] = o \in Buffered /\ ~HasTail(o, due)]
    BY DEF Expire
  <1>2. /\ UNCHANGED <<active_iteration_id, current_iteration, gates, sub, submitted>>
        /\ lifecycle[o] # "removed"
        /\ lifecycle' = [lifecycle EXCEPT ![o] = IF Stopping(o) THEN "removed" ELSE @]
        /\ phase = "idle"
        /\ phase' = IF HasHeader(o) THEN "acquire" ELSE "schedule"
    BY DEF Expire, Registered, syncVars, poolVars
  <1>3. /\ batch'.op = o
        /\ batch'.header = HasHeader(o)
        /\ batch'.tail = HasTail(o, due)
        /\ ~HasHeader(o) => batch'.iter = active_iteration_id[NameOf[o]]
    BY <1>1 DEF GetData
  <1>4. \A p \in Op : Gone(p)' <=> Gone(p)
    BY <1>2, <1>3 DEF Gone, InHand, TypeOK
  <1>5. \A p, i : OpenIteration(p, i)' <=> OpenIteration(p, i)
    BY <1>2 DEF OpenIteration, IterOf
  <1>6. Numbers'
    <2>1. \A k \in Task : sub[k].op \in Op BY TaskType
    <2> QED BY <1>2, <1>4, <2>1 DEF ScheduleInv, Numbers
  <1>7. InHandInv'
    <2>1. header_sent'[o] => ~HasTail(o, due)
      BY <1>1 DEF TypeOK
    <2>2. ~HasHeader(o) => OpenIteration(o, active_iteration_id[NameOf[o]])
      BY <1>2 DEF HasHeader, ScheduleInv, OpenInv, InHand
    <2> QED BY <1>2, <1>3, <1>5, <2>1, <2>2 DEF InHandInv
  <1>8. OpenInv'
    <2>1. ASSUME NEW p \in Op, header_sent'[p], ~InHand(p)'
          PROVE  OpenIteration(p, active_iteration_id[NameOf[p]])
      <3>1. p # o BY <1>2, <1>3, <2>1 DEF InHand
      <3>2. header_sent[p] BY <1>1, <2>1, <3>1 DEF TypeOK
      <3> QED BY <1>2, <3>2 DEF ScheduleInv, OpenInv, InHand
    <2> QED BY <1>2, <1>5, <2>1 DEF OpenInv
  <1>9. GateHeader'
    BY <1>2 DEF ScheduleInv, GateHeader
  <1> QED BY <1>6, <1>7, <1>8, <1>9 DEF ScheduleInv

LEMMA ScanSchedule ==
  ASSUME TypeOK, ScheduleInv, OneOpPerName, WaitIteration \/ SpuriousWakeup \/ AcquireIteration
  PROVE  ScheduleInv'
  <1>1. CASE WaitIteration \/ SpuriousWakeup
    <2>1. /\ UNCHANGED <<lifecycle, header_sent, batch, active_iteration_id, current_iteration,
                         gates, sub, submitted>>
          /\ phase \in {"acquire", "waiting", "woken"}
          /\ phase' \in {"waiting", "woken"}
      BY <1>1 DEF WaitIteration, SpuriousWakeup, opVars, syncVars, poolVars
    <2>2. \A p, i : OpenIteration(p, i)' <=> OpenIteration(p, i)
      BY <2>1 DEF OpenIteration, IterOf
    <2> QED BY <2>1, <2>2 DEF ScheduleInv, Numbers, InHandInv, OpenInv, GateHeader, Gone, InHand
  <1>2. CASE AcquireIteration
    <2> DEFINE b == batch.op
               n == NameOf[batch.op]
               i == current_iteration[n] + 1
    <2>1. b \in Op /\ n \in Name
      BY ConstantsAssumption DEF TypeOK, Batch
    <2>2. /\ UNCHANGED <<lifecycle, header_sent, gates, sub, submitted>>
          /\ current_iteration' = [current_iteration EXCEPT ![n] = i]
          /\ active_iteration_id' = [active_iteration_id EXCEPT ![n] = i]
          /\ batch' = Numbered(batch, i)
          /\ phase \in {"acquire", "woken"} /\ phase' = "schedule"
          /\ i <= MaxIter
      BY <1>2 DEF AcquireIteration, opVars, poolVars
    <2>3. /\ batch'.op = b /\ batch'.header = batch.header /\ batch'.tail = batch.tail
          /\ batch'.iter = i
      BY <2>2 DEF Numbered
    <2>4. /\ i \in Iter /\ current_iteration[n] \in Nat
          /\ current_iteration'[n] = i /\ active_iteration_id'[n] = i
          /\ \A m \in Name : m # n => /\ current_iteration'[m] = current_iteration[m]
                                      /\ active_iteration_id'[m] = active_iteration_id[m]
      BY <2>1, <2>2 DEF TypeOK, Iter
    <2>5. \A m \in Name : current_iteration'[m] \in Nat /\ current_iteration[m] \in Nat
                          /\ current_iteration[m] <= current_iteration'[m]
      BY <2>4 DEF TypeOK, Iter
    <2>6. \A o : (InHand(o)' <=> InHand(o)) /\ (Gone(o)' <=> Gone(o))
      BY <2>2, <2>3 DEF InHand, Gone
    <2>7. Numbers'
      <3>1. \A o \in Op : NameOf[o] \in Name BY ConstantsAssumption
      <3>2. \A k \in Task : sub[k].op \in Op /\ sub[k].iter \in Nat
        BY TaskType
      <3>3. \A j \in Iter : j \in Nat BY DEF Iter
      <3>4. ASSUME NEW k \in Task, k <= submitted, ~Gone(sub[k].op)
            PROVE  sub[k].iter <= current_iteration'[NameOf[sub[k].op]]
        <4>1. sub[k].iter <= current_iteration[NameOf[sub[k].op]]
          BY <3>4 DEF ScheduleInv, Numbers
        <4> QED BY <2>5, <3>1, <3>2, <4>1
      <3>5. ASSUME NEW o \in Op, NEW j \in Iter, gates[o][j].live, ~Gone(o)
            PROVE  j <= current_iteration'[NameOf[o]]
        <4>1. j <= current_iteration[NameOf[o]]
          BY <3>5 DEF ScheduleInv, Numbers
        <4> QED BY <2>5, <3>1, <3>3, <4>1
      <3> QED BY <2>2, <2>6, <3>4, <3>5 DEF Numbers
    <2>8. FreshIteration(batch.op, batch.iter)'
      <3>1. ~Gone(b) BY <2>2 DEF Gone, InHand
      <3>2. ~gates[b][i].live
        BY <2>1, <2>4, <3>1 DEF ScheduleInv, Numbers
      <3>3. \A k \in Task : ~IterOf(k, b, i)
        BY <2>1, <2>4, <3>1 DEF ScheduleInv, Numbers, IterOf
      <3> QED BY <2>2, <2>3, <2>4, <3>2, <3>3 DEF FreshIteration, IterOf
    <2>9. InHandInv'
      <3>1. header_sent[b] => ~batch.tail
        BY <2>2 DEF ScheduleInv, InHandInv
      <3>2. batch.header
        BY <2>2 DEF ScheduleInv, InHandInv
      <3> QED BY <2>2, <2>3, <2>4, <2>8, <3>1, <3>2 DEF InHandInv
    <2>10. OpenInv'
      <3>1. ASSUME NEW o \in Op, header_sent[o], ~InHand(o)
            PROVE  OpenIteration(o, active_iteration_id[NameOf[o]])'
        <4>1. NameOf[o] # n /\ NameOf[o] \in Name
          BY <2>1, <2>2, <3>1, ConstantsAssumption DEF InHand, OneOpPerName
        <4>2. OpenIteration(o, active_iteration_id[NameOf[o]])
          BY <3>1 DEF ScheduleInv, OpenInv
        <4> QED BY <2>2, <2>4, <4>1, <4>2 DEF OpenIteration, IterOf
      <3> QED BY <2>2, <2>6, <3>1 DEF OpenInv
    <2>11. GateHeader'
      BY <2>2 DEF ScheduleInv, GateHeader
    <2> QED BY <2>7, <2>9, <2>10, <2>11 DEF ScheduleInv
  <1> QED BY <1>1, <1>2

\* What Submit does: one more task, the gate of its iteration is brought up to
\* date, everything else stays.
LEMMA SubmitFrame ==
  ASSUME TypeOK, PoolInv, ScheduleInv, Submit
  PROVE  /\ batch.op \in Op /\ batch.iter \in Iter
         /\ NameOf[batch.op] \in Name
         /\ batch.iter <= current_iteration[NameOf[batch.op]]
         /\ submitted + 1 \in Task /\ submitted' = submitted + 1
         /\ pc[submitted + 1] = "none" /\ pc'[submitted + 1] = "queued"
         /\ sub'[submitted + 1] = batch
         /\ \A k \in Task : k # submitted + 1 => sub'[k] = sub[k] /\ pc'[k] = pc[k]
         /\ gates'[batch.op][batch.iter] =
              DataScheduled(BeginHeaderGate(gates[batch.op][batch.iter], batch), batch)
         /\ \A o \in Op : \A i \in Iter : ~(o = batch.op /\ i = batch.iter) =>
              gates'[o][i] = gates[o][i]
         /\ phase = "schedule" /\ phase' = "idle"
         /\ UNCHANGED <<lifecycle, header_sent, current_iteration, topic>>
  <1>1. phase = "schedule" /\ phase' = "idle"
    BY DEF Submit
  <1>2. batch.op \in Op /\ NameOf[batch.op] \in Name
    BY ConstantsAssumption DEF TypeOK, Batch
  <1>3. batch.iter \in Iter /\ batch.iter <= current_iteration[NameOf[batch.op]]
    <2>1. CASE batch.header
      <3>1. FreshIteration(batch.op, batch.iter)
        BY <1>1, <2>1 DEF ScheduleInv, InHandInv
      <3> QED BY <1>2, <3>1 DEF FreshIteration, TypeOK, Iter
    <2>2. CASE ~batch.header
      BY <1>1, <2>2 DEF ScheduleInv, InHandInv, OpenIteration
    <2> QED BY <2>1, <2>2
  <1>4. submitted + 1 \in Task /\ submitted' = submitted + 1
    BY ConstantsAssumption DEF Submit, Task, TypeOK
  <1>5. pc[submitted + 1] = "none"
    BY <1>4 DEF PoolInv, Queue, TypeOK
  <1>6. /\ pc'[submitted + 1] = "queued"
        /\ sub'[submitted + 1] = batch
        /\ \A k \in Task : k # submitted + 1 => sub'[k] = sub[k] /\ pc'[k] = pc[k]
    BY <1>4 DEF Submit, TypeOK
  <1>7. gates' = [gates EXCEPT ![batch.op][batch.iter] =
              DataScheduled(BeginHeaderGate(gates[batch.op][batch.iter], batch), batch)]
    BY <1>3 DEF Submit, Iter
  <1>8. PICK g : g = DataScheduled(BeginHeaderGate(gates[batch.op][batch.iter], batch), batch)
    OBVIOUS
  <1>9. /\ gates'[batch.op][batch.iter] = g
        /\ \A o \in Op : \A i \in Iter : ~(o = batch.op /\ i = batch.iter) =>
             gates'[o][i] = gates[o][i]
    BY <1>2, <1>3, <1>7, <1>8 DEF TypeOK
  <1>10. UNCHANGED <<lifecycle, header_sent, current_iteration, topic>>
    BY DEF Submit, opVars, syncVars
  <1> QED BY <1>1, <1>2, <1>3, <1>4, <1>5, <1>6, <1>8, <1>9, <1>10

LEMMA SubmitSchedule ==
  ASSUME TypeOK, PoolInv, ScheduleInv, OneOpPerName, Submit
  PROVE  ScheduleInv'
  <1> DEFINE t == submitted + 1
             b == batch.op
             j == batch.iter
  <1>1. \A o \in Op : Gone(o)' => lifecycle[o] = "removed"
    BY SubmitFrame DEF Gone, InHand
  <1>2. \A o \in Op : Gone(o) => Gone(o)'
    BY SubmitFrame DEF Gone, InHand
  <1>3. \A k \in Task : sub[k].op \in Op
    BY TaskType
  <1>4. Numbers'
    <2>1. ASSUME NEW k \in Task, k <= submitted', ~Gone(sub[k].op)'
          PROVE  sub'[k].iter <= current_iteration[NameOf[sub'[k].op]]
      <3>1. CASE k = t BY <3>1, SubmitFrame
      <3>2. CASE k # t
        <4>1. k <= submitted /\ sub'[k] = sub[k]
          BY <2>1, <3>2, SubmitFrame DEF Task, TypeOK
        <4>2. ~Gone(sub[k].op) BY <1>2, <1>3, <2>1, <4>1 DEF Gone, InHand
        <4> QED BY <4>1, <4>2 DEF ScheduleInv, Numbers
      <3> QED BY <3>1, <3>2
    <2>2. ASSUME NEW o \in Op, NEW i \in Iter, gates'[o][i].live, ~Gone(o)'
          PROVE  i <= current_iteration[NameOf[o]]
      <3>1. CASE o = b /\ i = j BY <3>1, SubmitFrame
      <3>2. CASE ~(o = b /\ i = j)
        <4>1. gates[o][i].live BY <2>2, <3>2, SubmitFrame
        <4> QED BY <1>2, <2>2, <4>1 DEF ScheduleInv, Numbers
      <3> QED BY <3>1, <3>2
    <2> QED BY <2>1, <2>2, SubmitFrame DEF Numbers
  <1>5. InHandInv'
    BY SubmitFrame DEF InHandInv
  <1>6. OpenInv'
    <2>1. ASSUME NEW o \in Op, header_sent[o]
          PROVE  OpenIteration(o, active_iteration_id[NameOf[o]])'
      <3>1. CASE o = b
        <4>1. lifecycle[b] # "removed" BY <2>1, <3>1, SubmitFrame DEF PoolInv, Removal
        <4>2. ~batch.last BY <4>1, SubmitFrame DEF PoolInv, Removal
        <4>3. active_iteration_id' = active_iteration_id BY <4>2 DEF Submit
        <4>4. active_iteration_id[NameOf[o]] = j /\ ~batch.tail
          BY <2>1, <3>1, SubmitFrame DEF ScheduleInv, InHandInv
        <4>5. gates'[b][j].live
          <5>1. CASE batch.header BY <5>1, SubmitFrame DEF DataScheduled, BeginHeaderGate
          <5>2. CASE ~batch.header
            <6>1. gates[b][j].live
              BY <5>2, SubmitFrame DEF ScheduleInv, InHandInv, OpenIteration
            <6> QED BY <5>2, <6>1, SubmitFrame DEF DataScheduled, BeginHeaderGate
          <5> QED BY <5>1, <5>2
        <4>6. ASSUME NEW k \in Task, IterOf(k, b, j) PROVE ~sub[k].tail
          <5>1. ~batch.header BY <4>6, SubmitFrame DEF ScheduleInv, InHandInv, FreshIteration
          <5> QED BY <4>6, <5>1, SubmitFrame DEF ScheduleInv, InHandInv, OpenIteration
        <4>7. ASSUME NEW k \in Task, k <= submitted', sub'[k].op = b, sub'[k].iter = j
              PROVE  ~sub'[k].tail
          <5>1. CASE k = t BY <4>4, <5>1, SubmitFrame
          <5>2. CASE k # t
            <6>1. k <= submitted /\ sub'[k] = sub[k]
              BY <4>7, <5>2, SubmitFrame DEF Task, TypeOK
            <6> QED BY <4>6, <4>7, <6>1 DEF IterOf
          <5> QED BY <5>1, <5>2
        <4> QED BY <3>1, <4>3, <4>4, <4>5, <4>7, SubmitFrame DEF OpenIteration, IterOf
      <3>2. CASE o # b
        <4>1. NameOf[o] # NameOf[b] /\ NameOf[o] \in Name
          BY <3>2, SubmitFrame, ConstantsAssumption DEF OneOpPerName
        <4>2. active_iteration_id'[NameOf[o]] = active_iteration_id[NameOf[o]]
          BY <4>1 DEF Submit, TypeOK
        <4>3. OpenIteration(o, active_iteration_id[NameOf[o]])
          BY <2>1, <3>2 DEF ScheduleInv, OpenInv, InHand
        <4>4. gates'[o][active_iteration_id[NameOf[o]]] = gates[o][active_iteration_id[NameOf[o]]]
          BY <3>2, <4>3, SubmitFrame DEF OpenIteration
        <4>5. ASSUME NEW k \in Task, k <= submitted', sub'[k].op = o
              PROVE  k <= submitted /\ sub'[k] = sub[k]
          <5>1. k # t BY <3>2, <4>5, SubmitFrame
          <5> QED BY <4>5, <5>1, SubmitFrame DEF Task, TypeOK
        <4> QED BY <4>2, <4>3, <4>4, <4>5, SubmitFrame DEF OpenIteration, IterOf
      <3> QED BY <3>1, <3>2
    <2> QED BY <2>1, SubmitFrame DEF OpenInv
  <1>7. GateHeader'
    <2>1. ASSUME NEW o \in Op, NEW i \in Iter, gates'[o][i].live
          PROVE  gates'[o][i].header # "none"
      <3>1. CASE o = b /\ i = j
        <4>1. CASE batch.header
          BY <3>1, <4>1, SubmitFrame DEF DataScheduled, BeginHeaderGate
        <4>2. CASE ~batch.header
          <5>1. gates[b][j].live /\ gates[b][j].header # "none"
            BY <4>2, SubmitFrame DEF ScheduleInv, InHandInv, OpenIteration, GateHeader
          <5> QED BY <3>1, <4>2, <5>1, SubmitFrame DEF DataScheduled, BeginHeaderGate
        <4> QED BY <4>1, <4>2
      <3>2. CASE ~(o = b /\ i = j)
        BY <2>1, <3>2, SubmitFrame DEF ScheduleInv, GateHeader
      <3> QED BY <3>1, <3>2
    <2> QED BY <2>1 DEF GateHeader
  <1> QED BY <1>4, <1>5, <1>6, <1>7 DEF ScheduleInv

LEMMA NextSchedule ==
  ASSUME OneOpPerName, TypeOK, PoolInv, ScheduleInv, [Next]_vars
  PROVE  ScheduleInv'
  <1>1. CASE \E o \in Op : StartSnapshot(o) \/ TriggerSnapshot(o) \/ StopSnapshot(o)
    BY <1>1, CommandSchedule
  <1>2. CASE \E o \in Op : Expire(o)
    BY <1>2, ExpireSchedule
  <1>3. CASE WaitIteration \/ SpuriousWakeup \/ AcquireIteration
    BY <1>3, ScanSchedule
  <1>4. CASE Submit
    BY <1>4, SubmitSchedule
  <1>5. CASE Pop
    BY <1>5, PopSchedule
  <1>6. CASE \E k \in Task : TaskStep(k)
    BY <1>6, TaskStepSchedule
  <1>7. CASE UNCHANGED vars
    BY <1>7 DEF vars, opVars, scanVars, syncVars, poolVars, ScheduleInv, Numbers, InHandInv,
                OpenInv, GateHeader, Gone, InHand, OpenIteration, FreshIteration, IterOf
  <1> QED BY NextCases, <1>1, <1>2, <1>3, <1>4, <1>5, <1>6, <1>7

-----------------------------------------------------------------------------
(***************************************************************************)
(* Layer 3: the data counter.                                              *)
(***************************************************************************)
LEMMA PendingFinite ==
  ASSUME NEW o, NEW i
  PROVE  /\ IsFiniteSet(PendingTasks(o, i))
         /\ Cardinality(PendingTasks(o, i)) \in Nat
         /\ Cardinality(PendingTasks(o, i)) = 0 <=> PendingTasks(o, i) = {}
  <1>1. IsFiniteSet(Task)
    BY FS_Interval, ConstantsAssumption DEF Task
  <1>2. PendingTasks(o, i) \subseteq Task
    BY DEF PendingTasks
  <1> QED BY <1>1, <1>2, FS_Subset, FS_CardinalityType, FS_EmptySet

LEMMA InitCount == Init => CountInv
  <1> SUFFICES ASSUME Init, NEW o \in Op, NEW i \in Iter
               PROVE  gates[o][i].pending = 0 /\ PendingTasks(o, i) = {}
    BY PendingFinite DEF CountInv
  <1>1. gates[o][i].pending = 0
    BY DEF Init, NoGate
  <1>2. PendingTasks(o, i) = {}
    BY DEF Init, PendingTasks, Uncounted
  <1> QED BY <1>1, <1>2

\* A step that leaves the gates alone and moves no task past the counter.
LEMMA CountUnchanged ==
  ASSUME CountInv, UNCHANGED gates,
         \A o \in Op : \A i \in Iter : PendingTasks(o, i)' = PendingTasks(o, i)
  PROVE  CountInv'
  BY DEF CountInv

\* Only DataCompleted takes a task off the list of pending ones.
LEMMA TaskStepPending ==
  ASSUME TypeOK, PoolInv, NEW k \in Task, TaskStep(k)
  PROVE  /\ ~DataCompleted(k) => \A o, i : PendingTasks(o, i)' = PendingTasks(o, i)
         /\ DataCompleted(k) => \A o, i : PendingTasks(o, i)' = PendingTasks(o, i) \ {k}
  <1>1. UNCHANGED sub
    BY DEF TaskStep, StartTask, PublishHeader, CompleteHeaderGate, WaitForHeaderGate,
           PublishData, DataCompleted, WaitDataDrained, PublishTail, MarkTailProcessed,
           RemoveSnapshotNotify, RemoveSnapshotErase, RemoveSnapshotDestroy, FulfilRemoval,
           FinishTask, ReleaseLock
  <1>2. CASE DataCompleted(k)
    <2>1. /\ \A j \in Task : j # k => pc'[j] = pc[j]
          /\ pc'[k] \notin Uncounted
      BY <1>2 DEF DataCompleted, Goto, AfterData, TypeOK, Uncounted
    <2>2. ~RemoveSnapshotErase(k)
      BY <1>2 DEF DataCompleted, RemoveSnapshotErase
    <2> QED BY <1>1, <1>2, <2>1 DEF PendingTasks
  <1>3. CASE ~DataCompleted(k)
    <2>1. \A j \in Task : j # k => pc'[j] = pc[j]
      BY DEF TaskStep, StartTask, PublishHeader, CompleteHeaderGate, WaitForHeaderGate,
             PublishData, DataCompleted, WaitDataDrained, PublishTail, MarkTailProcessed,
             RemoveSnapshotNotify, RemoveSnapshotErase, RemoveSnapshotDestroy, FulfilRemoval,
             FinishTask, ReleaseLock, Goto, TypeOK
    <2>2. sub[k].data => (pc'[k] \in Uncounted <=> pc[k] \in Uncounted)
      BY <1>3 DEF TaskStep, StartTask, PublishHeader, CompleteHeaderGate, WaitForHeaderGate,
             PublishData, WaitDataDrained, PublishTail, MarkTailProcessed,
             RemoveSnapshotNotify, RemoveSnapshotErase, RemoveSnapshotDestroy, FulfilRemoval,
             FinishTask, ReleaseLock, Goto, TypeOK, Uncounted, AfterStart, AfterHeader,
             AfterTail
    <2> QED BY <1>1, <1>3, <2>1, <2>2 DEF PendingTasks
  <1> QED BY <1>2, <1>3

LEMMA TaskStepCount ==
  ASSUME TypeOK, PoolInv, CountInv, NEW k \in Task, TaskStep(k)
  PROVE  CountInv'
  <1>1. CASE \/ StartTask(k) \/ PublishHeader(k) \/ WaitForHeaderGate(k) \/ PublishData(k)
             \/ PublishTail(k) \/ MarkTailProcessed(k) \/ RemoveSnapshotNotify(k)
             \/ RemoveSnapshotErase(k) \/ RemoveSnapshotDestroy(k) \/ FulfilRemoval(k)
             \/ FinishTask(k) \/ ReleaseLock(k)
    <2>1. UNCHANGED gates /\ ~DataCompleted(k)
      BY <1>1 DEF StartTask, PublishHeader, WaitForHeaderGate, PublishData, PublishTail,
                  MarkTailProcessed, RemoveSnapshotNotify, RemoveSnapshotErase,
                  RemoveSnapshotDestroy, FulfilRemoval, FinishTask, ReleaseLock,
                  DataCompleted
    <2> QED BY <2>1, TaskStepPending, CountUnchanged
  <1>2. CASE CompleteHeaderGate(k) \/ DataCompleted(k) \/ WaitDataDrained(k)
    <2>1. pc[k] \in {"gate", "counted", "drain"}
      BY <1>2 DEF CompleteHeaderGate, DataCompleted, WaitDataDrained
    <2>2. sub[k].op \in Op /\ sub[k].iter \in Iter /\ GateOf(k) \in Gate
      BY <2>1, TaskType DEF PoolInv, Sections
    <2>3. ASSUME NEW g, SetGate(k, g)
          PROVE  /\ gates'[sub[k].op][sub[k].iter] = g
                 /\ \A o \in Op : \A i \in Iter :
                      ~(o = sub[k].op /\ i = sub[k].iter) => gates'[o][i] = gates[o][i]
      BY <2>2, <2>3 DEF SetGate, TypeOK
    <2>4. SUFFICES ASSUME NEW o \in Op, NEW i \in Iter
                   PROVE  /\ gates'[o][i].pending = Cardinality(PendingTasks(o, i)')
                          /\ ~gates'[o][i].live => PendingTasks(o, i)' = {}
      BY DEF CountInv
    <2>5. /\ gates[o][i].pending = Cardinality(PendingTasks(o, i))
          /\ ~gates[o][i].live => PendingTasks(o, i) = {}
      BY DEF CountInv
    <2>6. CASE CompleteHeaderGate(k)
      <3>1. ~DataCompleted(k) /\ SetGate(k, OpenGate(GateOf(k)))
        BY <2>6 DEF CompleteHeaderGate, DataCompleted
      <3>2. PendingTasks(o, i)' = PendingTasks(o, i)
        BY <3>1, TaskStepPending
      <3>3. CASE o = sub[k].op /\ i = sub[k].iter
        <4>1. gates'[o][i] = OpenGate(gates[o][i])
          BY <2>3, <3>1, <3>3 DEF GateOf
        <4> QED BY <2>5, <3>2, <4>1 DEF OpenGate
      <3>4. CASE ~(o = sub[k].op /\ i = sub[k].iter)
        BY <2>3, <2>5, <3>1, <3>2, <3>4
      <3> QED BY <3>3, <3>4
    <2>7. CASE DataCompleted(k)
      <3>1. SetGate(k, CountOut(GateOf(k))) /\ pc[k] = "counted" /\ sub[k].data
        BY <2>7 DEF DataCompleted, PoolInv, Sections
      <3>2. PendingTasks(o, i)' = PendingTasks(o, i) \ {k}
        BY <2>7, TaskStepPending
      <3>3. CASE o = sub[k].op /\ i = sub[k].iter
        <4>1. k \in PendingTasks(o, i)
          BY <3>1, <3>3 DEF PendingTasks, Uncounted
        <4>2. gates[o][i].live
          BY <2>5, <4>1
        <4>3. Cardinality(PendingTasks(o, i)') = Cardinality(PendingTasks(o, i)) - 1
          BY <3>2, <4>1, PendingFinite, FS_RemoveElement
        <4>4. gates'[o][i] = CountOut(gates[o][i])
          BY <2>3, <3>1, <3>3 DEF GateOf
        <4> QED BY <2>5, <4>2, <4>3, <4>4 DEF CountOut
      <3>4. CASE ~(o = sub[k].op /\ i = sub[k].iter)
        <4>1. k \notin PendingTasks(o, i)
          BY <3>4 DEF PendingTasks
        <4>2. PendingTasks(o, i)' = PendingTasks(o, i)
          BY <3>2, <4>1
        <4> QED BY <2>3, <2>5, <3>1, <3>4, <4>2
      <3> QED BY <3>3, <3>4
    <2>8. CASE WaitDataDrained(k)
      <3>1. /\ SetGate(k, NoGate) /\ ~DataCompleted(k)
            /\ GateOf(k).live => GateOf(k).pending = 0
        BY <2>8 DEF WaitDataDrained, DataCompleted
      <3>2. PendingTasks(o, i)' = PendingTasks(o, i)
        BY <3>1, TaskStepPending
      <3>3. CASE o = sub[k].op /\ i = sub[k].iter
        <4>1. PendingTasks(o, i) = {}
          BY <2>5, <3>1, <3>3, PendingFinite DEF GateOf
        <4>2. gates'[o][i] = NoGate
          BY <2>3, <3>1, <3>3
        <4> QED BY <3>2, <4>1, <4>2, PendingFinite DEF NoGate
      <3>4. CASE ~(o = sub[k].op /\ i = sub[k].iter)
        BY <2>3, <2>5, <3>1, <3>2, <3>4
      <3> QED BY <3>3, <3>4
    <2> QED BY <1>2, <2>6, <2>7, <2>8
  <1> QED BY <1>1, <1>2 DEF TaskStep

LEMMA SubmitCount ==
  ASSUME TypeOK, PoolInv, ScheduleInv, CountInv, Submit
  PROVE  CountInv'
  <1> DEFINE t == submitted + 1
  <1>1. SUFFICES ASSUME NEW o \in Op, NEW i \in Iter
                 PROVE  /\ gates'[o][i].pending = Cardinality(PendingTasks(o, i)')
                        /\ ~gates'[o][i].live => PendingTasks(o, i)' = {}
    BY DEF CountInv
  <1>2. /\ gates[o][i].pending = Cardinality(PendingTasks(o, i))
        /\ ~gates[o][i].live => PendingTasks(o, i) = {}
    BY DEF CountInv
  <1>3. t \notin PendingTasks(o, i)
    BY SubmitFrame DEF PendingTasks, Uncounted
  <1>4. CASE ~(o = batch.op /\ i = batch.iter)
    <2>1. PendingTasks(o, i)' = PendingTasks(o, i)
      BY <1>3, <1>4, SubmitFrame DEF PendingTasks
    <2> QED BY <1>2, <1>4, <2>1, SubmitFrame
  <1>5. CASE o = batch.op /\ i = batch.iter
    <2>1. gates'[o][i] = DataScheduled(BeginHeaderGate(gates[o][i], batch), batch)
      BY <1>5, SubmitFrame
    <2>2. ~gates[o][i].live => batch.header
      BY <1>5, SubmitFrame DEF ScheduleInv, InHandInv, OpenIteration
    <2>3. CASE batch.data
      <3>1. PendingTasks(o, i)' = PendingTasks(o, i) \cup {t}
        BY <1>5, <2>3, SubmitFrame DEF PendingTasks, Uncounted
      <3>2. Cardinality(PendingTasks(o, i)') = Cardinality(PendingTasks(o, i)) + 1
        BY <1>3, <3>1, PendingFinite, FS_AddElement
      <3>3. gates'[o][i].live /\ gates'[o][i].pending = gates[o][i].pending + 1
        BY <2>1, <2>3 DEF DataScheduled, BeginHeaderGate
      <3> QED BY <1>2, <3>2, <3>3
    <2>4. CASE ~batch.data
      <3>1. PendingTasks(o, i)' = PendingTasks(o, i)
        BY <1>3, <2>4, SubmitFrame DEF PendingTasks
      <3>2. gates'[o][i].live /\ gates'[o][i].pending = gates[o][i].pending
        BY <2>1, <2>2, <2>4 DEF DataScheduled, BeginHeaderGate
      <3> QED BY <1>2, <3>1, <3>2
    <2> QED BY <2>3, <2>4
  <1> QED BY <1>4, <1>5

LEMMA PopPending ==
  ASSUME TypeOK, PoolInv, Pop
  PROVE  \A o : \A i \in Iter : PendingTasks(o, i)' = PendingTasks(o, i)
  <1> DEFINE t == popped + 1
  <1>1. t \in Task /\ pc[t] = "queued" /\ UNCHANGED sub
    BY ConstantsAssumption DEF Pop, TaskWaiting, PoolInv, Queue, Task, TypeOK
  <1>2. \A k \in Task : k # t => pc'[k] = pc[k]
    BY <1>1 DEF Pop, Goto, TypeOK
  <1>3. sub[t].iter \in Iter => pc'[t] = "start"
    BY <1>1 DEF Pop, Goto, TypeOK, Iter
  <1> QED BY <1>1, <1>2, <1>3 DEF PendingTasks, Uncounted

\* The steps that neither submit nor run a task: the gates, the submissions
\* and the topics stay, and so do the pending tasks.
Idle == UNCHANGED <<gates, sub, submitted, topic>>

LEMMA IdleStep ==
  ASSUME TypeOK, PoolInv, [Next]_vars
  PROVE  \/ Submit
         \/ \E k \in Task : TaskStep(k)
         \/ /\ Idle
            /\ \A o \in Op : \A i \in Iter : PendingTasks(o, i)' = PendingTasks(o, i)
            /\ \A k \in Task : pc'[k] = pc[k] \/ pc'[k] \in {"start", "done"}
  <1>1. CASE Pop
    <2>1. Idle
      BY <1>1 DEF Pop, Idle
    <2>2. \A k \in Task : pc'[k] = pc[k] \/ pc'[k] \in {"start", "done"}
      BY <1>1 DEF Pop, Goto, TypeOK
    <2> QED BY <1>1, <2>1, <2>2, PopPending
  <1>2. CASE \/ \E o \in Op : StartSnapshot(o) \/ TriggerSnapshot(o) \/ StopSnapshot(o)
             \/ \E o \in Op : Expire(o)
             \/ WaitIteration \/ SpuriousWakeup \/ AcquireIteration
             \/ UNCHANGED vars
    <2>1. Idle /\ UNCHANGED pc
      BY <1>2 DEF StartSnapshot, TriggerSnapshot, StopSnapshot, Expire, WaitIteration,
                  SpuriousWakeup, AcquireIteration, vars, poolVars, Idle
    <2> QED BY <2>1 DEF PendingTasks, Idle
  <1> QED BY NextCases, <1>1, <1>2

LEMMA NextCount ==
  ASSUME TypeOK, PoolInv, ScheduleInv, CountInv, [Next]_vars
  PROVE  CountInv'
  <1>1. CASE Submit
    BY <1>1, SubmitCount
  <1>2. CASE \E k \in Task : TaskStep(k)
    BY <1>2, TaskStepCount
  <1>3. CASE /\ Idle
             /\ \A o \in Op : \A i \in Iter : PendingTasks(o, i)' = PendingTasks(o, i)
    BY <1>3, CountUnchanged DEF Idle
  <1> QED BY IdleStep, <1>1, <1>2, <1>3

-----------------------------------------------------------------------------
(***************************************************************************)
(* Layer 4: the order on the topics.                                       *)
(***************************************************************************)
Order == OrderInv /\ HeaderBeforeData /\ DataBeforeTail

LEMMA InitOrder == Init => Order
  <1> SUFFICES ASSUME Init PROVE Order
    OBVIOUS
  <1>1. \A n \in Name : topic[n] = <<>>
    BY DEF Init
  <1>2. \A o \in Op : \A i, p : ~Published(o, i, p)
    BY <1>1, ConstantsAssumption DEF Published
  <1>3. HeaderBeforeData /\ DataBeforeTail
    BY <1>1 DEF HeaderBeforeData, DataBeforeTail
  <1>4. OrderInv
    <2>1. \A o \in Op : \A i \in Iter : ~gates[o][i].live
      BY DEF Init, NoGate
    <2>2. \A k \in Task : pc[k] = "none"
      BY DEF Init
    <2> QED BY <1>1, <1>2, <2>1, <2>2 DEF OrderInv
  <1> QED BY <1>3, <1>4 DEF Order

\* The index set of a topic, for steps that need it as an interval.
LEMMA TopicDomain ==
  ASSUME TypeOK, NEW n \in Name
  PROVE  /\ topic[n] \in Seq(Message)
         /\ DOMAIN topic[n] = 1 .. Len(topic[n])
         /\ Len(topic[n]) \in Nat
  BY DEF TypeOK

\* A message is added at the end of one topic.
LEMMA PublishFrame ==
  ASSUME TypeOK, NEW k \in Task, sub[k].iter \in Iter,
         NEW p \in {"header", "data", "tail"}, Publish(k, p)
  PROVE  /\ \A n \in Name : n # NameOfTask(k) => topic'[n] = topic[n]
         /\ DOMAIN topic'[NameOfTask(k)] = 1 .. Len(topic[NameOfTask(k)]) + 1
         /\ Len(topic'[NameOfTask(k)]) = Len(topic[NameOfTask(k)]) + 1
         /\ Is(topic'[NameOfTask(k)][Len(topic[NameOfTask(k)]) + 1], sub[k].op, sub[k].iter, p)
         /\ \A a \in 1 .. Len(topic[NameOfTask(k)]) :
              topic'[NameOfTask(k)][a] = topic[NameOfTask(k)][a]
  <1> DEFINE n == NameOfTask(k)
             m == [op |-> sub[k].op, iter |-> sub[k].iter, part |-> p]
  <1>1. n \in Name /\ sub[k].op \in Op
    BY TaskType
  <1>2. m \in Message
    BY <1>1 DEF Message
  <1>3. topic[n] \in Seq(Message)
    BY <1>1, TopicDomain
  <1>4. topic' = [topic EXCEPT ![n] = Append(topic[n], m)]
    BY DEF Publish
  <1>5. Is(m, sub[k].op, sub[k].iter, p)
    BY DEF Is
  <1> HIDE DEF m, n
  <1>6. topic'[n] = Append(topic[n], m)
    BY <1>1, <1>4 DEF TypeOK
  <1>7. \A q \in Name : q # n => topic'[q] = topic[q]
    BY <1>1, <1>4 DEF TypeOK
  <1>8. /\ DOMAIN topic'[n] = 1 .. Len(topic[n]) + 1
        /\ Len(topic'[n]) = Len(topic[n]) + 1
        /\ topic'[n][Len(topic[n]) + 1] = m
        /\ \A a \in 1 .. Len(topic[n]) : topic'[n][a] = topic[n][a]
    BY <1>2, <1>3, <1>6
  <1> QED BY <1>5, <1>7, <1>8 DEF n

LEMMA PublishedAfter ==
  ASSUME TypeOK, NEW k \in Task, sub[k].iter \in Iter,
         NEW p \in {"header", "data", "tail"}, Publish(k, p), NEW o \in Op, NEW i, NEW q
  PROVE  Published(o, i, q)' <=>
           Published(o, i, q) \/ (o = sub[k].op /\ i = sub[k].iter /\ q = p)
  <1> DEFINE n == NameOfTask(k)
  <1>1. n \in Name /\ NameOf[o] \in Name /\ n = NameOf[sub[k].op]
    BY TaskType, ConstantsAssumption DEF NameOfTask
  <1>2. CASE NameOf[o] # n
    <2>1. topic'[NameOf[o]] = topic[NameOf[o]]
      BY <1>1, <1>2, PublishFrame
    <2> QED BY <1>1, <1>2, <2>1 DEF Published
  <1>3. CASE NameOf[o] = n
    <2> DEFINE L == Len(topic[n])
    <2>1. DOMAIN topic[n] = 1 .. L /\ L \in Nat
      BY <1>1, TopicDomain
    <2>2. /\ DOMAIN topic'[n] = 1 .. L + 1
          /\ Is(topic'[n][L + 1], sub[k].op, sub[k].iter, p)
          /\ \A a \in 1 .. L : topic'[n][a] = topic[n][a]
      BY PublishFrame
    <2> HIDE DEF n, L
    <2>3. Published(o, i, q)' <=> \E a \in 1 .. L + 1 : Is(topic'[n][a], o, i, q)
      BY <1>3, <2>2 DEF Published, Is
    <2>4. Published(o, i, q) <=> \E a \in 1 .. L : Is(topic[n][a], o, i, q)
      BY <1>3, <2>1 DEF Published
    <2>5. Is(topic'[n][L + 1], o, i, q) <=> o = sub[k].op /\ i = sub[k].iter /\ q = p
      BY <2>2 DEF Is
    <2>6. (\E a \in 1 .. L + 1 : Is(topic'[n][a], o, i, q)) <=>
             (\E a \in 1 .. L : Is(topic'[n][a], o, i, q)) \/ Is(topic'[n][L + 1], o, i, q)
      BY <2>1
    <2> QED BY <2>2, <2>3, <2>4, <2>5, <2>6
  <1> QED BY <1>2, <1>3

\* A step that adds no message keeps both orders.
LEMMA TopicKept ==
  ASSUME UNCHANGED topic
  PROVE  /\ \A o, i, p : Published(o, i, p)' <=> Published(o, i, p)
         /\ HeaderBeforeData => HeaderBeforeData'
         /\ DataBeforeTail => DataBeforeTail'
  BY DEF Published, HeaderBeforeData, DataBeforeTail

LEMMA IdleOrder ==
  ASSUME Order, Idle,
         \A o \in Op : \A i \in Iter : PendingTasks(o, i)' = PendingTasks(o, i),
         \A k \in Task : pc'[k] = pc[k] \/ pc'[k] \in {"start", "done"},
         TypeOK, PoolInv
  PROVE  Order'
  <1>1. /\ UNCHANGED <<gates, sub, submitted, topic>>
        /\ \A k \in Task : pc'[k] \in {"gate", "data", "tail"} => pc'[k] = pc[k]
    BY DEF Idle
  <1>2. \A k \in Task : pc[k] = "tail" => sub[k].op \in Op /\ sub[k].iter \in Iter
    BY TaskType DEF PoolInv, Sections
  <1>3. OrderInv'
    BY <1>1, <1>2, TopicKept DEF Order, OrderInv, IterOf
  <1> QED BY <1>1, <1>3, TopicKept DEF Order

\* Once a submission carries the Tail of an iteration, no other submission
\* goes to that iteration.
LEMMA SubmitOrder ==
  ASSUME TypeOK, PoolInv, ScheduleInv, CountInv, Order, Submit
  PROVE  Order'
  <1> DEFINE t == submitted + 1
  <1>1. \A k \in Task : IterOf(k, batch.op, batch.iter) => ~sub[k].tail
    <2>1. CASE batch.header
      BY <2>1, SubmitFrame DEF ScheduleInv, InHandInv, FreshIteration
    <2>2. CASE ~batch.header
      BY <2>2, SubmitFrame DEF ScheduleInv, InHandInv, OpenIteration
    <2> QED BY <2>1, <2>2
  <1>2. UNCHANGED topic
    BY SubmitFrame
  <1>3. \A k \in Task : k <= submitted => sub'[k] = sub[k]
    BY SubmitFrame DEF Task, TypeOK
  <1>4. \A k \in Task : \A o, i : IterOf(k, o, i) => IterOf(k, o, i)' /\ sub'[k] = sub[k]
    BY <1>3, SubmitFrame DEF IterOf, Task, TypeOK
  <1>5. ASSUME NEW o \in Op, NEW i \in Iter, \E k \in Task : IterOf(k, o, i) /\ sub[k].tail
        PROVE  PendingTasks(o, i)' = PendingTasks(o, i)
    <2>1. ~(o = batch.op /\ i = batch.iter)
      BY <1>1, <1>5
    <2>2. t \notin PendingTasks(o, i)
      BY SubmitFrame DEF PendingTasks, Uncounted
    <2> QED BY <2>1, <2>2, SubmitFrame DEF PendingTasks
  <1>6. ASSUME NEW o \in Op, NEW i \in Iter, gates'[o][i].live, gates'[o][i].header = "open"
        PROVE  Published(o, i, "header")
    <2>1. CASE o = batch.op /\ i = batch.iter
      <3>1. gates'[o][i] = DataScheduled(BeginHeaderGate(gates[o][i], batch), batch)
        BY <2>1, SubmitFrame
      <3>2. ~batch.header
        BY <1>6, <3>1 DEF DataScheduled, BeginHeaderGate
      <3>3. gates[o][i].live
        BY <2>1, <3>2, SubmitFrame DEF ScheduleInv, InHandInv, OpenIteration
      <3>4. gates[o][i].header = "open"
        BY <1>6, <3>1, <3>2 DEF DataScheduled, BeginHeaderGate
      <3> QED BY <3>3, <3>4 DEF Order, OrderInv
    <2>2. CASE ~(o = batch.op /\ i = batch.iter)
      BY <1>6, <2>2, SubmitFrame DEF Order, OrderInv
    <2> QED BY <2>1, <2>2
  <1>7. ASSUME NEW k \in Task, pc'[k] \in {"gate", "data", "tail"}
        PROVE  /\ pc[k] = pc'[k] /\ sub'[k] = sub[k] /\ IterOf(k, sub[k].op, sub[k].iter)
               /\ sub[k].op \in Op /\ sub[k].iter \in Iter
    <2>1. k # t /\ pc[k] = pc'[k] /\ sub'[k] = sub[k]
      BY <1>7, SubmitFrame
    <2>2. k <= submitted
      BY <1>7, <2>1 DEF PoolInv, Queue, Task, TypeOK
    <2>3. sub[k].iter # 0
      BY <1>7, <2>1 DEF PoolInv, Sections
    <2> QED BY <2>1, <2>2, <2>3, TaskType DEF IterOf
  <1>8. OrderInv'
    <2>1. ASSUME NEW o \in Op, NEW i \in Iter, Published(o, i, "tail")
          PROVE  /\ PendingTasks(o, i)' = {}
                 /\ \E k \in Task : IterOf(k, o, i)' /\ sub'[k].tail
      <3>1. PendingTasks(o, i) = {} /\ \E k \in Task : IterOf(k, o, i) /\ sub[k].tail
        BY <2>1 DEF Order, OrderInv
      <3> QED BY <1>4, <1>5, <3>1
    <2>2. ASSUME NEW k \in Task, pc'[k] \in {"gate", "data"}
          PROVE  Published(sub'[k].op, sub'[k].iter, "header")
      BY <1>7, <2>2 DEF Order, OrderInv
    <2>3. ASSUME NEW k \in Task, pc'[k] = "tail"
          PROVE  PendingTasks(sub[k].op, sub[k].iter)' = {}
      <3>1. sub[k].tail /\ PendingTasks(sub[k].op, sub[k].iter) = {}
        BY <1>7, <2>3 DEF PoolInv, Sections, Order, OrderInv
      <3>2. ~(sub[k].op = batch.op /\ sub[k].iter = batch.iter)
        BY <1>1, <1>7, <2>3, <3>1
      <3>3. sub'[k] = sub[k]
        BY <1>7, <2>3
      <3>4. ASSUME NEW j \in Task, sub'[j].op = sub[k].op, sub'[j].iter = sub[k].iter,
                   sub'[j].data, pc'[j] \in Uncounted
            PROVE  j \in PendingTasks(sub[k].op, sub[k].iter)
        <4>1. j # t BY <3>2, <3>4, SubmitFrame
        <4> QED BY <3>4, <4>1, SubmitFrame DEF PendingTasks
      <3> QED BY <3>1, <3>3, <3>4 DEF PendingTasks
    <2> QED BY <1>2, <1>6, <2>1, <2>2, <2>3, TopicKept DEF Order, OrderInv
  <1> QED BY <1>2, <1>8, TopicKept DEF Order

\* The steps of a task that publish nothing.
LEMMA SilentOrder ==
  ASSUME TypeOK, PoolInv, ScheduleInv, CountInv, Order, NEW k \in Task, TaskStep(k),
         UNCHANGED topic
  PROVE  Order'
  <1>1. UNCHANGED <<sub, submitted>> /\ \A j \in Task : j # k => pc'[j] = pc[j]
    BY DEF TaskStep, StartTask, PublishHeader, CompleteHeaderGate, WaitForHeaderGate,
           PublishData, DataCompleted, WaitDataDrained, PublishTail, MarkTailProcessed,
           RemoveSnapshotNotify, RemoveSnapshotErase, RemoveSnapshotDestroy, FulfilRemoval,
           FinishTask, ReleaseLock, Goto, TypeOK
  <1>2. \A o, i : PendingTasks(o, i)' \subseteq PendingTasks(o, i)
    BY TaskStepPending
  <1>3. sub[k].op \in Op /\ (pc[k] \notin {"none", "queued", "done"} => sub[k].iter \in Iter)
    BY TaskType DEF PoolInv, Sections
  <1>4. ASSUME NEW o \in Op, NEW i \in Iter, gates'[o][i].live, gates'[o][i].header = "open"
        PROVE  Published(o, i, "header")
    <2>1. CASE UNCHANGED gates
      BY <1>4, <2>1 DEF Order, OrderInv
    <2>2. CASE CompleteHeaderGate(k)
      <3>1. CASE o = sub[k].op /\ i = sub[k].iter
        BY <2>2, <3>1 DEF CompleteHeaderGate, Order, OrderInv
      <3>2. CASE ~(o = sub[k].op /\ i = sub[k].iter)
        <4>1. PICK g : SetGate(k, g)
          BY <2>2 DEF CompleteHeaderGate
        <4>2. gates'[o][i] = gates[o][i]
          BY <1>3, <3>2, <4>1 DEF SetGate, TypeOK
        <4> QED BY <1>4, <4>2 DEF Order, OrderInv
      <3> QED BY <3>1, <3>2
    <2>3. CASE DataCompleted(k) \/ WaitDataDrained(k)
      <3>1. PICK g : SetGate(k, g) /\ (g = CountOut(GateOf(k)) \/ g = NoGate)
        BY <2>3 DEF DataCompleted, WaitDataDrained
      <3>2. sub[k].iter \in Iter
        BY <1>3, <2>3 DEF DataCompleted, WaitDataDrained
      <3>3. CASE o = sub[k].op /\ i = sub[k].iter
        <4>1. gates'[o][i] = g /\ GateOf(k) = gates[o][i]
          BY <1>3, <3>1, <3>2, <3>3 DEF SetGate, GateOf, TypeOK
        <4>2. gates[o][i].live /\ gates[o][i].header = "open"
          BY <1>4, <3>1, <4>1 DEF CountOut, NoGate
        <4> QED BY <4>2 DEF Order, OrderInv
      <3>4. CASE ~(o = sub[k].op /\ i = sub[k].iter)
        <4>1. gates'[o][i] = gates[o][i]
          BY <1>3, <3>1, <3>4 DEF SetGate, TypeOK
        <4> QED BY <1>4, <4>1 DEF Order, OrderInv
      <3> QED BY <3>3, <3>4
    <2>4. UNCHANGED gates \/ CompleteHeaderGate(k) \/ DataCompleted(k) \/ WaitDataDrained(k)
      BY DEF TaskStep, StartTask, PublishHeader, WaitForHeaderGate,
           PublishData, PublishTail, MarkTailProcessed,
           RemoveSnapshotNotify, RemoveSnapshotErase, RemoveSnapshotDestroy, FulfilRemoval,
           FinishTask, ReleaseLock
    <2> QED BY <2>1, <2>2, <2>3, <2>4
  <1>5. ~PublishHeader(k)
    <2>1. ASSUME PublishHeader(k) PROVE FALSE
      <3>1. Publish(k, "header") /\ sub[k].iter \in Iter
        BY <1>3, <2>1 DEF PublishHeader
      <3>2. Len(topic'[NameOfTask(k)]) = Len(topic[NameOfTask(k)]) + 1
        BY <3>1, PublishFrame
      <3> QED BY <3>2, TopicDomain, TaskType
    <2> QED BY <2>1
  <1>6. pc'[k] \in {"gate", "data"} => WaitForHeaderGate(k) /\ pc'[k] = "data"
    BY <1>5 DEF TaskStep, StartTask, CompleteHeaderGate, WaitForHeaderGate,
           PublishData, DataCompleted, WaitDataDrained, PublishTail, MarkTailProcessed,
           RemoveSnapshotNotify, RemoveSnapshotErase, RemoveSnapshotDestroy, FulfilRemoval,
           FinishTask, ReleaseLock, Goto, TypeOK, AfterStart, AfterHeader, AfterData,
           AfterTail
  <1>7. pc'[k] = "tail" => WaitDataDrained(k)
    BY <1>5 DEF TaskStep, StartTask, CompleteHeaderGate, WaitForHeaderGate,
           PublishData, DataCompleted, WaitDataDrained, PublishTail, MarkTailProcessed,
           RemoveSnapshotNotify, RemoveSnapshotErase, RemoveSnapshotDestroy, FulfilRemoval,
           FinishTask, ReleaseLock, Goto, TypeOK, AfterStart, AfterHeader, AfterData,
           AfterTail
  <1>8. WaitForHeaderGate(k) => Published(sub[k].op, sub[k].iter, "header")
    <2> SUFFICES ASSUME WaitForHeaderGate(k) PROVE Published(sub[k].op, sub[k].iter, "header")
      OBVIOUS
    <2>1. /\ pc[k] = "await" /\ (GateOf(k).live => GateOf(k).header # "closed")
          /\ sub[k].data /\ sub[k].iter \in Iter
      BY <1>3 DEF WaitForHeaderGate, PoolInv, Sections
    <2>2. k \in PendingTasks(sub[k].op, sub[k].iter)
      BY <2>1 DEF PendingTasks, Uncounted
    <2>3. GateOf(k).live
      BY <1>3, <2>1, <2>2 DEF CountInv, GateOf
    <2>4. GateOf(k) \in Gate /\ GateOf(k).header # "none"
      BY <1>3, <2>1, <2>3, TaskType DEF ScheduleInv, GateHeader, GateOf
    <2>5. GateOf(k).header = "open"
      BY <2>1, <2>3, <2>4 DEF Gate
    <2> QED BY <1>3, <2>1, <2>3, <2>5 DEF GateOf, Order, OrderInv
  <1>9. WaitDataDrained(k) => PendingTasks(sub[k].op, sub[k].iter) = {}
    <2> SUFFICES ASSUME WaitDataDrained(k) PROVE PendingTasks(sub[k].op, sub[k].iter) = {}
      OBVIOUS
    <2>1. sub[k].iter \in Iter /\ (GateOf(k).live => GateOf(k).pending = 0)
      BY <1>3 DEF WaitDataDrained
    <2> QED BY <1>3, <2>1, PendingFinite DEF GateOf, CountInv
  <1>10. OrderInv'
    <2>1. ASSUME NEW j \in Task, pc'[j] \in {"gate", "data"}
          PROVE  Published(sub[j].op, sub[j].iter, "header")
      <3>1. CASE j = k BY <1>6, <1>8, <2>1, <3>1
      <3>2. CASE j # k BY <1>1, <2>1, <3>2 DEF Order, OrderInv
      <3> QED BY <3>1, <3>2
    <2>2. ASSUME NEW j \in Task, pc'[j] = "tail"
          PROVE  PendingTasks(sub[j].op, sub[j].iter) = {}
      <3>1. CASE j = k BY <1>7, <1>9, <2>2, <3>1
      <3>2. CASE j # k BY <1>1, <2>2, <3>2 DEF Order, OrderInv
      <3> QED BY <3>1, <3>2
    <2>3. ASSUME NEW j \in Task, pc'[j] = "tail"
          PROVE  PendingTasks(sub[j].op, sub[j].iter)' = {}
      <3>1. PendingTasks(sub[j].op, sub[j].iter)' \subseteq PendingTasks(sub[j].op, sub[j].iter)
        BY <1>1, TaskStepPending DEF PendingTasks
      <3> QED BY <2>2, <2>3, <3>1
    <2> QED BY <1>1, <1>2, <1>4, <2>1, <2>3, TopicKept DEF Order, OrderInv, IterOf
  <1> QED BY <1>10, TopicKept DEF Order

\* The steps that publish: Header opens the iteration, Data finds its Header
\* on the topic and no Tail, Tail finds no Data pending.
LEMMA PublishOrder ==
  ASSUME TypeOK, PoolInv, ScheduleInv, CountInv, Order, NEW k \in Task,
         PublishHeader(k) \/ PublishData(k) \/ PublishTail(k)
  PROVE  Order'
  <1> DEFINE n == NameOfTask(k)
             L == Len(topic[n])
             o == sub[k].op
             i == sub[k].iter
  <1>1. PICK p \in {"header", "data", "tail"} :
          /\ pc[k] = p
          /\ Publish(k, p)
          /\ pc' = [pc EXCEPT ![k] = IF p = "header" THEN "gate"
                                     ELSE IF p = "data" THEN "counted" ELSE "mark"]
    BY DEF PublishHeader, PublishData, PublishTail, Goto
  <1>2. UNCHANGED <<gates, sub, submitted>>
    BY DEF PublishHeader, PublishData, PublishTail
  <1>3. /\ o \in Op /\ i \in Iter /\ n \in Name /\ n = NameOf[o]
        /\ k <= submitted
    BY <1>1, TaskType DEF PoolInv, Sections, Queue, Task, TypeOK, NameOfTask
  <1>4. /\ \A j \in Task : j # k => pc'[j] = pc[j]
        /\ pc'[k] = IF p = "header" THEN "gate" ELSE IF p = "data" THEN "counted" ELSE "mark"
    BY <1>1 DEF TypeOK
  <1>5. \A q, j : PendingTasks(q, j)' = PendingTasks(q, j)
    <2>1. TaskStep(k) /\ ~DataCompleted(k)
      BY <1>1 DEF TaskStep, DataCompleted
    <2> QED BY <2>1, TaskStepPending
  <1>6. \A q \in Op : \A j, r : Published(q, j, r)' <=>
                              Published(q, j, r) \/ (q = o /\ j = i /\ r = p)
    BY <1>1, <1>3, PublishedAfter
  <1>7. p = "data" => Published(o, i, "header") /\ ~Published(o, i, "tail")
    <2> SUFFICES ASSUME p = "data" PROVE Published(o, i, "header") /\ ~Published(o, i, "tail")
      OBVIOUS
    <2>1. k \in PendingTasks(o, i)
      BY <1>1 DEF PoolInv, Sections, PendingTasks, Uncounted
    <2> QED BY <1>1, <1>3, <2>1 DEF Order, OrderInv
  <1>8. /\ L \in Nat /\ DOMAIN topic[n] = 1 .. L
        /\ DOMAIN topic'[n] = 1 .. L + 1 /\ Len(topic'[n]) = L + 1
        /\ Is(topic'[n][L + 1], o, i, p)
        /\ \A a \in 1 .. L : topic'[n][a] = topic[n][a]
        /\ \A m \in Name : m # n => topic'[m] = topic[m]
    BY <1>1, <1>3, PublishFrame, TopicDomain
  <1>9. OrderInv'
    <2>1. ASSUME NEW q \in Op, NEW j \in Iter, Published(q, j, "tail")'
          PROVE  /\ PendingTasks(q, j) = {}
                 /\ \E t \in Task : IterOf(t, q, j) /\ sub[t].tail
      <3>1. CASE Published(q, j, "tail")
        BY <3>1 DEF Order, OrderInv
      <3>2. CASE q = o /\ j = i /\ p = "tail"
        <4>1. PendingTasks(o, i) = {} /\ sub[k].tail
          BY <1>1, <3>2 DEF Order, OrderInv, PoolInv, Sections
        <4> QED BY <1>3, <3>2, <4>1 DEF IterOf
      <3> QED BY <1>6, <2>1, <3>1, <3>2
    <2>2. ASSUME NEW t \in Task, pc'[t] \in {"gate", "data"}
          PROVE  Published(sub[t].op, sub[t].iter, "header")'
      <3>1. sub[t].op \in Op BY TaskType
      <3>2. CASE t = k BY <1>2, <1>3, <1>4, <1>6, <2>2, <3>2
      <3>3. CASE t # k
        <4>1. Published(sub[t].op, sub[t].iter, "header")
          BY <1>4, <2>2, <3>3 DEF Order, OrderInv
        <4>2. \A q \in Op : \A j, r : Published(q, j, r) => Published(q, j, r)'
          BY <1>6
        <4> HIDE DEF o, i, n, L
        <4> QED BY <1>2, <3>1, <4>1, <4>2
      <3> QED BY <3>2, <3>3
    <2>3. ASSUME NEW t \in Task, pc'[t] = "tail"
          PROVE  PendingTasks(sub[t].op, sub[t].iter)' = {}
      <3>1. t # k /\ pc[t] = "tail"
        BY <1>4, <2>3
      <3>2. PendingTasks(sub[t].op, sub[t].iter) = {}
        BY <3>1 DEF Order, OrderInv
      <3>3. PendingTasks(sub[t].op, sub[t].iter)' = PendingTasks(sub[t].op, sub[t].iter)
        BY <1>2, <1>5 DEF PendingTasks
      <3> QED BY <3>2, <3>3
    <2>4. ASSUME NEW m \in Name, NEW a \in DOMAIN topic'[m]
          PROVE  NameOf[topic'[m][a].op] = m
      <3>1. CASE m = n
        <4>1. CASE a = L + 1
          <5>1. topic'[n][L + 1].op = o BY <1>8 DEF Is
          <5> HIDE DEF o, i, n, L
          <5> QED BY <1>3, <3>1, <4>1, <5>1
        <4>2. CASE a \in 1 .. L
          <5>1. a \in DOMAIN topic[n] BY <1>8, <4>2
          <5>2. NameOf[topic[n][a].op] = n BY <1>3, <5>1 DEF Order, OrderInv
          <5>3. topic'[n][a] = topic[n][a] BY <1>8, <4>2
          <5> HIDE DEF o, i, n, L
          <5> QED BY <3>1, <5>2, <5>3
        <4> QED BY <1>8, <2>4, <3>1, <4>1, <4>2
      <3>2. CASE m # n BY <1>8, <2>4, <3>2 DEF Order, OrderInv
      <3> QED BY <3>1, <3>2
    <2>5. ASSUME NEW q \in Op, NEW j \in Iter, gates[q][j].live, gates[q][j].header = "open"
          PROVE  Published(q, j, "header")'
      BY <1>6, <2>5 DEF Order, OrderInv
    <2> HIDE DEF o, i, n, L
    <2> QED BY <1>2, <1>5, <2>1, <2>2, <2>3, <2>4, <2>5 DEF OrderInv, IterOf
  <1>10. HeaderBeforeData'
    <2>1. ASSUME NEW a \in 1 .. L + 1, topic'[n][a].part = "data"
          PROVE  \E b \in 1 .. a - 1 : Is(topic'[n][b], topic'[n][a].op, topic'[n][a].iter, "header")
      <3>1. CASE a = L + 1
        <4>1. p = "data" /\ topic'[n][a].op = o /\ topic'[n][a].iter = i
          BY <1>8, <2>1, <3>1 DEF Is
        <4>2. PICK b \in 1 .. L : Is(topic[n][b], o, i, "header")
          BY <1>3, <1>7, <1>8, <4>1 DEF Published
        <4>3. Is(topic'[n][b], o, i, "header") /\ b \in 1 .. a - 1
          BY <1>8, <3>1, <4>2
        <4> QED BY <4>1, <4>3
      <3>2. CASE a \in 1 .. L
        <4>1. topic'[n][a] = topic[n][a] BY <1>8, <3>2
        <4>2. PICK b \in 1 .. a - 1 : Is(topic[n][b], topic[n][a].op, topic[n][a].iter, "header")
          BY <1>3, <1>8, <2>1, <3>2, <4>1 DEF Order, HeaderBeforeData
        <4>3. topic'[n][b] = topic[n][b] BY <1>8, <3>2
        <4> QED BY <4>1, <4>2, <4>3
      <3> QED BY <1>8, <2>1, <3>1, <3>2
    <2>2. ASSUME NEW m \in Name, m # n, NEW a \in DOMAIN topic'[m], topic'[m][a].part = "data"
          PROVE  \E b \in 1 .. a - 1 : Is(topic'[m][b], topic'[m][a].op, topic'[m][a].iter, "header")
      BY <1>8, <2>2 DEF Order, HeaderBeforeData
    <2> HIDE DEF o, i, n, L
    <2> QED BY <1>8, <2>1, <2>2 DEF HeaderBeforeData
  <1>11. DataBeforeTail'
    <2>1. ASSUME NEW a \in 1 .. L + 1, topic'[n][a].part = "tail", NEW b \in a + 1 .. L + 1,
                 Is(topic'[n][b], topic'[n][a].op, topic'[n][a].iter, "data")
          PROVE  FALSE
      <3>1. a \in 1 .. L /\ topic'[n][a] = topic[n][a]
        BY <1>8, <2>1
      <3>2. CASE b = L + 1
        <4>1. p = "data" /\ topic[n][a].op = o /\ topic[n][a].iter = i
          BY <1>8, <2>1, <3>1, <3>2 DEF Is
        <4>2. topic[n][a] \in Message
          <5>1. topic[n] \in Seq(Message) /\ a \in 1 .. Len(topic[n])
            BY <1>3, <3>1, TopicDomain
          <5> HIDE DEF n, L
          <5> QED BY <5>1
        <4>3. Is(topic[n][a], o, i, "tail")
          BY <2>1, <3>1, <4>1, <4>2 DEF Is, Message
        <4> QED BY <1>3, <1>7, <1>8, <3>1, <4>1, <4>3 DEF Published
      <3>3. CASE b \in a + 1 .. L
        <4>1. topic'[n][b] = topic[n][b] /\ Len(topic[n]) = L
          BY <1>8, <2>1, <3>1, <3>3
        <4>2. topic[n][a].part = "tail" /\ a \in DOMAIN topic[n]
          BY <1>8, <2>1, <3>1
        <4>3. ~Is(topic[n][b], topic[n][a].op, topic[n][a].iter, "data")
          BY <1>3, <3>3, <4>1, <4>2 DEF Order, DataBeforeTail
        <4> QED BY <2>1, <3>1, <4>1, <4>3
      <3> QED BY <1>8, <2>1, <3>1, <3>2, <3>3
    <2>2. ASSUME NEW m \in Name, m # n, NEW a \in DOMAIN topic'[m], topic'[m][a].part = "tail",
                 NEW b \in a + 1 .. Len(topic'[m])
          PROVE  ~Is(topic'[m][b], topic'[m][a].op, topic'[m][a].iter, "data")
      BY <1>8, <2>2 DEF Order, DataBeforeTail
    <2>3. ASSUME NEW m \in Name, NEW a \in DOMAIN topic'[m], topic'[m][a].part = "tail",
                 NEW b \in a + 1 .. Len(topic'[m])
          PROVE  ~Is(topic'[m][b], topic'[m][a].op, topic'[m][a].iter, "data")
      <3>1. CASE m = n BY <1>8, <2>1, <2>3, <3>1
      <3>2. CASE m # n BY <2>2, <2>3, <3>2
      <3> QED BY <3>1, <3>2
    <2> HIDE DEF o, i, n, L
    <2> QED BY <2>3 DEF DataBeforeTail
  <1> QED BY <1>9, <1>10, <1>11 DEF Order

LEMMA NextOrder ==
  ASSUME TypeOK, PoolInv, ScheduleInv, CountInv, Order, [Next]_vars
  PROVE  Order'
  <1>1. CASE Submit
    BY <1>1, SubmitOrder
  <1>2. ASSUME NEW k \in Task, TaskStep(k) PROVE Order'
    <2>1. CASE PublishHeader(k) \/ PublishData(k) \/ PublishTail(k)
      BY <2>1, PublishOrder
    <2>2. CASE ~(PublishHeader(k) \/ PublishData(k) \/ PublishTail(k))
      <3>1. UNCHANGED topic
        BY <1>2, <2>2
           DEF TaskStep, StartTask, CompleteHeaderGate, WaitForHeaderGate, DataCompleted,
               WaitDataDrained, MarkTailProcessed, RemoveSnapshotNotify, RemoveSnapshotErase,
               RemoveSnapshotDestroy, FulfilRemoval, FinishTask, ReleaseLock
      <3> QED BY <1>2, <3>1, SilentOrder
    <2> QED BY <2>1, <2>2
  <1>3. CASE /\ Idle
             /\ \A o \in Op : \A i \in Iter : PendingTasks(o, i)' = PendingTasks(o, i)
             /\ \A k \in Task : pc'[k] = pc[k] \/ pc'[k] \in {"start", "done"}
    BY <1>3, IdleOrder
  <1> QED BY IdleStep, <1>1, <1>2, <1>3

\* The strengthened invariant is inductive: with one operation per name, for
\* any number of threads.
THEOREM InductiveInvariant == ASSUME OneOpPerName PROVE Spec => []IInv
  <1>1. Init => IInv
    BY InitType, InitPool, InitSchedule, InitCount, InitOrder DEF IInv, Order
  <1>2. IInv /\ [Next]_vars => IInv'
    BY NextPool, NextSchedule, NextCount, NextOrder DEF IInv, Order
  <1> QED BY <1>1, <1>2, PTL DEF Spec

\* Header before Data (waitForHeaderGate), for every number of submitting
\* threads, operations and iterations.
THEOREM HeaderFirst == ASSUME OneOpPerName PROVE Spec => []HeaderBeforeData
  <1>1. IInv => HeaderBeforeData
    BY DEF IInv
  <1> QED BY <1>1, InductiveInvariant, PTL

\* Data before Tail (dataScheduled, dataCompleted, waitDataDrained), for every
\* number of submitting threads, operations and iterations.
THEOREM TailLast == ASSUME OneOpPerName PROVE Spec => []DataBeforeTail
  <1>1. IInv => DataBeforeTail
    BY DEF IInv
  <1> QED BY <1>1, InductiveInvariant, PTL

-----------------------------------------------------------------------------
(***************************************************************************)
(* The refinement of SnapshotTopic.  The layers below, in the order of     *)
(* TurnsInv and NormalInv: which tasks are at work, the last submission of *)
(* an operation, one live operation per name, the iteration a task works   *)
(* on, and the messages already on the topic.  Only the first one depends  *)
(* on the number of threads (snapshot_processing_thread_count) or on the   *)
(* type of the snapshots.                                                  *)
(***************************************************************************)

LEMMA SubsKept ==
  ASSUME UNCHANGED <<sub, submitted>>
  PROVE  /\ \A k, n : OnName(k, n)' <=> OnName(k, n)
         /\ \A k, n : NewestOn(k, n)' <=> NewestOn(k, n)
         /\ \A n : NoneOn(n)' <=> NoneOn(n)
         /\ SequenceInv => SequenceInv'
         /\ LastIsLast => LastIsLast'
  <1>1. \A k, n : OnName(k, n)' <=> OnName(k, n) BY DEF OnName
  <1>2. \A k, n : NewestOn(k, n)' <=> NewestOn(k, n) BY <1>1 DEF NewestOn
  <1>3. \A n : NoneOn(n)' <=> NoneOn(n) BY <1>1 DEF NoneOn
  <1>4. SequenceInv => SequenceInv'
    BY DEF SequenceInv, Before, FirstOn, Follows, NameOfTask
  <1>5. LastIsLast => LastIsLast' BY DEF LastIsLast
  <1> QED BY <1>1, <1>2, <1>3, <1>4, <1>5

\* The step of a task moves this task only, and neither the operations nor the
\* submissions change.
LEMMA TaskMoves ==
  ASSUME TypeOK, PoolInv, NEW k \in Task, TaskStep(k)
  PROVE  /\ UNCHANGED <<lifecycle, header_sent, batch, sub, submitted, popped, active_iteration_id>>
         /\ phase' = "idle" <=> phase = "idle"
         /\ phase' = "schedule" <=> phase = "schedule"
         /\ pc[k] \notin {"none", "queued", "done"} /\ k <= popped /\ k <= submitted
         /\ \A j \in Task : j # k => pc'[j] = pc[j]
  <1>1. /\ UNCHANGED <<lifecycle, header_sent, batch, sub, submitted, popped, active_iteration_id>>
        /\ phase' = "idle" <=> phase = "idle"
        /\ phase' = "schedule" <=> phase = "schedule"
    BY DEF TaskStep, StartTask, PublishHeader, CompleteHeaderGate, WaitForHeaderGate,
           PublishData, DataCompleted, WaitDataDrained, PublishTail, MarkTailProcessed,
           RemoveSnapshotNotify, RemoveSnapshotErase, RemoveSnapshotDestroy, FulfilRemoval,
           FinishTask, ReleaseLock, opVars, scanVars, syncVars, Notified, WaitsOn
  <1>2. /\ pc[k] \notin {"none", "queued", "done"}
        /\ \A j \in Task : j # k => pc'[j] = pc[j]
    BY DEF TaskStep, StartTask, PublishHeader, CompleteHeaderGate, WaitForHeaderGate,
           PublishData, DataCompleted, WaitDataDrained, PublishTail, MarkTailProcessed,
           RemoveSnapshotNotify, RemoveSnapshotErase, RemoveSnapshotDestroy, FulfilRemoval,
           FinishTask, ReleaseLock, Goto, TypeOK
  <1>3. k <= popped /\ k <= submitted
    <2>1. submitted \in Int /\ popped \in Int /\ k \in Int BY ConstantsAssumption DEF TypeOK, Task
    <2> QED BY <1>2, <2>1 DEF PoolInv, Queue
  <1> QED BY <1>1, <1>2, <1>3

\* A worker takes the oldest task that waits.
LEMMA PopEffect ==
  ASSUME TypeOK, PoolInv, Pop, NEW t, t = popped + 1
  PROVE  /\ t \in Task /\ t <= submitted /\ popped' = t
         /\ pc[t] = "queued" /\ pc'[t] \in {"start", "done"}
         /\ sub[t].iter # 0 => pc'[t] = "start"
         /\ \A j \in Task : j # t => pc'[j] = pc[j]
         /\ UNCHANGED <<opVars, scanVars, syncVars, gates, sub, submitted, topic>>
  <1>0. popped \in Int /\ submitted \in Int /\ popped < submitted /\ submitted <= MaxTasks
        /\ MaxTasks \in Int /\ popped >= 0
    BY ConstantsAssumption DEF TypeOK, Pop, TaskWaiting
  <1>1. t \in Task /\ t <= submitted /\ t > popped BY <1>0 DEF Task
  <1>2. pc[t] = "queued" BY <1>1 DEF PoolInv, Queue
  <1>3. pc' = [pc EXCEPT ![t] = IF sub[t].iter = 0 THEN "done" ELSE "start"]
    BY DEF Pop, Goto
  <1>4. UNCHANGED <<opVars, scanVars, syncVars, gates, sub, submitted, topic>> /\ popped' = t
    BY DEF Pop
  <1> QED BY <1>1, <1>2, <1>3, <1>4 DEF TypeOK

\* With one thread it does so when no other task is being worked on.
LEMMA PopAlone ==
  ASSUME Threads = 1, TypeOK, PoolInv, Pop
  PROVE  \A j \in Task : j <= popped => pc[j] = "done"
  <1>0. popped \in Int /\ submitted \in Int /\ popped < submitted
    BY ConstantsAssumption DEF TypeOK, Pop, TaskWaiting
  <1>1. Busy = {}
    <2>1. IsFiniteSet(Task) BY FS_Interval, ConstantsAssumption DEF Task
    <2>2. IsFiniteSet(Busy) BY <2>1, FS_Subset DEF Busy
    <2>3. Cardinality(Busy) \in Nat BY <2>2, FS_CardinalityType
    <2>4. Cardinality(Busy) < 1 BY DEF Pop
    <2>5. Cardinality(Busy) = 0 BY <2>3, <2>4
    <2> QED BY <2>2, <2>5, FS_EmptySet
  <1> SUFFICES ASSUME NEW j \in Task, j <= popped PROVE pc[j] = "done"
    OBVIOUS
  <1>2. pc[j] \in {"none", "queued", "done"} BY <1>1 DEF Busy
  <1>3. j \in Int BY DEF Task
  <1>4. ~(j > popped) /\ ~(j > submitted) BY <1>0, <1>3
  <1> QED BY <1>2, <1>4 DEF PoolInv, Queue

\* A submission becomes the newest one on its name.
LEMMA SubmitAdds ==
  ASSUME TypeOK, PoolInv, Submit, NEW t, t = submitted + 1
  PROVE  /\ t \in Task /\ submitted' = t /\ t > popped /\ submitted \in Int /\ popped \in Int
         /\ sub'[t] = batch /\ pc'[t] = "queued" /\ pc[t] = "none"
         /\ \A k \in Task : k # t => sub'[k] = sub[k] /\ pc'[k] = pc[k]
         /\ \A k \in Task : k <= submitted => k # t
         /\ batch.op \in Op /\ NameOf[batch.op] \in Name
         /\ phase = "schedule" /\ phase' = "idle"
         /\ UNCHANGED <<opVars, syncVars, popped, topic>>
         /\ \A k \in Task : k <= submitted' <=> k <= submitted \/ k = t
         /\ \A k \in Task : \A n :
              OnName(k, n)' <=> OnName(k, n) \/ (k = t /\ n = NameOf[batch.op])
         /\ \A k \in Task : \A n :
              NewestOn(k, n)' <=> IF n = NameOf[batch.op] THEN k = t ELSE NewestOn(k, n)
  <1>0. popped \in Int /\ submitted \in Int /\ popped <= submitted /\ submitted < MaxTasks
        /\ MaxTasks \in Int /\ popped >= 0
    BY ConstantsAssumption DEF TypeOK, Submit
  <1>1. t \in Task /\ t > submitted /\ t > popped BY <1>0 DEF Task
  <1>2. pc[t] = "none" BY <1>1 DEF PoolInv, Queue
  <1>3. batch.op \in Op /\ NameOf[batch.op] \in Name
    BY ConstantsAssumption DEF TypeOK, Batch
  <1>4. sub' = [sub EXCEPT ![t] = batch] /\ pc' = [pc EXCEPT ![t] = "queued"] /\ submitted' = t
    BY DEF Submit
  <1>5. /\ sub'[t] = batch /\ pc'[t] = "queued"
        /\ \A k \in Task : k # t => sub'[k] = sub[k] /\ pc'[k] = pc[k]
    BY <1>1, <1>4 DEF TypeOK
  <1>6. \A k \in Task : k <= submitted' <=> k <= submitted \/ k = t
    BY <1>0, <1>4 DEF Task
  <1>7. \A k \in Task : k <= submitted => k # t
    BY <1>0 DEF Task
  <1>8. \A k \in Task : \A n :
              OnName(k, n)' <=> OnName(k, n) \/ (k = t /\ n = NameOf[batch.op])
    BY <1>5, <1>6, <1>7 DEF OnName
  <1>9. ASSUME NEW k \in Task, NEW n
        PROVE  NewestOn(k, n)' <=> IF n = NameOf[batch.op] THEN k = t ELSE NewestOn(k, n)
    <2>1. \A j \in Task : j <= submitted => j <= t BY <1>0 DEF Task
    <2>2. \A j \in Task : OnName(j, n) => j <= t /\ j # t BY <1>7, <2>1 DEF OnName
    <2>3. \A j \in Task : t <= j /\ j <= t => j = t BY <1>0 DEF Task
    <2>5. t <= t BY <1>0
    <2>4. CASE n = NameOf[batch.op]
      BY <1>1, <1>8, <2>2, <2>3, <2>4, <2>5 DEF NewestOn
    <2>6. CASE n # NameOf[batch.op]
      BY <1>8, <2>6 DEF NewestOn
    <2> QED BY <2>4, <2>6
  <1>10. phase = "schedule" /\ phase' = "idle" /\ UNCHANGED <<opVars, syncVars, popped, topic>>
    BY DEF Submit
  <1> QED BY <1>0, <1>1, <1>2, <1>3, <1>4, <1>5, <1>6, <1>7, <1>8, <1>9, <1>10

\* The submission that getData prepares.
LEMMA ExpireEffect ==
  ASSUME TypeOK, NEW o \in Op, Expire(o)
  PROVE  /\ phase = "idle" /\ Registered(o)
         /\ batch'.op = o /\ batch'.header = HasHeader(o) /\ batch'.last = Stopping(o)
         /\ batch'.iter = IF HasHeader(o) THEN 0 ELSE active_iteration_id[NameOf[o]]
         /\ batch'.tail \in BOOLEAN
         /\ o \notin Buffered => batch'.tail
         /\ batch'.last => batch'.tail
         /\ header_sent'[o] = (o \in Buffered /\ ~batch'.tail)
         /\ \A p \in Op : p # o => header_sent'[p] = header_sent[p] /\ lifecycle'[p] = lifecycle[p]
         /\ lifecycle'[o] = IF Stopping(o) THEN "removed" ELSE lifecycle[o]
         /\ phase' = IF HasHeader(o) THEN "acquire" ELSE "schedule"
         /\ UNCHANGED <<promise, active_iteration_id, syncVars, gates, poolVars, topic>>
  <1>1. PICK due \in Due(o), d \in BOOLEAN :
          /\ batch' = GetData(o, due, d)
          /\ header_sent' = [header_sent EXCEPT ![o] = o \in Buffered /\ ~HasTail(o, due)]
    BY DEF Expire
  <1>2. /\ batch'.op = o /\ batch'.header = HasHeader(o) /\ batch'.last = Stopping(o)
        /\ batch'.iter = IF HasHeader(o) THEN 0 ELSE active_iteration_id[NameOf[o]]
        /\ batch'.tail = HasTail(o, due)
    BY <1>1 DEF GetData
  <1>3. Stopping(o) => HasTail(o, due)
    BY DEF Due, HasTail
  <1>4. HasTail(o, due) \in BOOLEAN /\ (o \notin Buffered => HasTail(o, due)) BY DEF HasTail
  <1>5. \A p \in Op : p # o => header_sent'[p] = header_sent[p] /\ lifecycle'[p] = lifecycle[p]
    BY <1>1 DEF Expire, TypeOK
  <1>6. lifecycle'[o] = IF Stopping(o) THEN "removed" ELSE lifecycle[o]
    BY DEF Expire, TypeOK
  <1>7. header_sent'[o] = (o \in Buffered /\ ~batch'.tail)
    BY <1>1, <1>2 DEF TypeOK
  <1>8. /\ phase = "idle" /\ Registered(o)
        /\ phase' = IF HasHeader(o) THEN "acquire" ELSE "schedule"
        /\ UNCHANGED <<promise, active_iteration_id, syncVars, gates, poolVars, topic>>
    BY DEF Expire
  <1> QED BY <1>2, <1>3, <1>4, <1>5, <1>6, <1>7, <1>8

LEMMA AcquireEffect ==
  ASSUME TypeOK, AcquireIteration, NEW n, n = NameOf[batch.op]
  PROVE  /\ n \in Name /\ batch.op \in Op
         /\ phase \in {"acquire", "woken"} /\ phase' = "schedule"
         /\ ~in_progress[n] /\ in_progress'[n]
         /\ \A m \in Name : m # n => /\ in_progress'[m] = in_progress[m]
                                     /\ current_iteration'[m] = current_iteration[m]
                                     /\ active_iteration_id'[m] = active_iteration_id[m]
                                     /\ iteration_states'[m] = iteration_states[m]
         /\ current_iteration'[n] = current_iteration[n] + 1
         /\ current_iteration[n] + 1 \in Iter
         /\ active_iteration_id'[n] = current_iteration[n] + 1
         /\ \A i \in Iter : /\ iteration_states'[n][i] = iteration_states[n][i]
                            \/ ~iteration_states'[n][i].tail
         /\ batch'.op = batch.op /\ batch'.header = batch.header /\ batch'.tail = batch.tail
         /\ batch'.last = batch.last /\ batch'.iter = current_iteration[n] + 1
         /\ UNCHANGED <<opVars, gates, poolVars, topic>>
  <1>1. n \in Name /\ batch.op \in Op BY ConstantsAssumption DEF TypeOK, Batch
  <1>2. current_iteration[n] \in Nat /\ current_iteration[n] + 1 <= MaxIter /\ MaxIter \in Nat
    BY <1>1, ConstantsAssumption DEF TypeOK, AcquireIteration
  <1>3. current_iteration[n] + 1 \in Iter BY <1>2 DEF Iter
  <1>4. /\ in_progress' = [in_progress EXCEPT ![n] = TRUE]
        /\ current_iteration' = [current_iteration EXCEPT ![n] = current_iteration[n] + 1]
        /\ active_iteration_id' = [active_iteration_id EXCEPT ![n] = current_iteration[n] + 1]
        /\ iteration_states' =
             [iteration_states EXCEPT ![n][current_iteration[n] + 1] =
                [live |-> TRUE, active |-> 0, tail |-> FALSE]]
        /\ batch' = Numbered(batch, current_iteration[n] + 1)
        /\ phase \in {"acquire", "woken"} /\ phase' = "schedule"
        /\ ~in_progress[n]
        /\ UNCHANGED <<opVars, gates, poolVars, topic>>
    BY DEF AcquireIteration, PreviousDone
  <1>5. /\ \A m \in Name : m # n => iteration_states'[m] = iteration_states[m]
        /\ \A i \in Iter : /\ iteration_states'[n][i] = iteration_states[n][i]
                           \/ ~iteration_states'[n][i].tail
    BY <1>1, <1>3, <1>4 DEF TypeOK
  <1>6. /\ batch'.op = batch.op /\ batch'.header = batch.header /\ batch'.tail = batch.tail
        /\ batch'.last = batch.last /\ batch'.iter = current_iteration[n] + 1
    BY <1>4 DEF Numbered
  <1>7. /\ in_progress'[n]
        /\ current_iteration'[n] = current_iteration[n] + 1
        /\ active_iteration_id'[n] = current_iteration[n] + 1
        /\ \A m \in Name : m # n => /\ in_progress'[m] = in_progress[m]
                                    /\ current_iteration'[m] = current_iteration[m]
                                    /\ active_iteration_id'[m] = active_iteration_id[m]
    BY <1>1, <1>4 DEF TypeOK
  <1> QED BY <1>1, <1>3, <1>4, <1>5, <1>6, <1>7

LEMMA TasksAre ==
  ASSUME TypeOK
  PROVE  /\ popped \in Int /\ submitted \in Int /\ popped <= submitted
         /\ \A k \in Task : /\ k \in Int /\ sub[k].op \in Op /\ NameOfTask(k) \in Name
                            /\ sub[k].tail \in BOOLEAN /\ sub[k].last \in BOOLEAN
                            /\ sub[k].header \in BOOLEAN
  <1>1. popped \in Int /\ submitted \in Int /\ popped <= submitted BY ConstantsAssumption DEF TypeOK
  <1>2. \A k \in Task : k \in Int BY DEF Task
  <1>3. ASSUME NEW k \in Task
        PROVE  /\ sub[k].op \in Op /\ NameOfTask(k) \in Name
               /\ sub[k].tail \in BOOLEAN /\ sub[k].last \in BOOLEAN /\ sub[k].header \in BOOLEAN
    <2>1. sub[k] \in Batch BY DEF TypeOK
    <2> QED BY <2>1, ConstantsAssumption DEF Batch, NameOfTask
  <1> QED BY <1>1, <1>2, <1>3

-----------------------------------------------------------------------------
(* The tasks at work, with one thread and with NORMAL snapshots. *)

LEMMA InitFifo == Init => Fifo /\ Whole
  BY ConstantsAssumption DEF Init, Fifo, Whole, Task

LEMMA NextFifo ==
  ASSUME Threads = 1, TypeOK, PoolInv, Fifo, [Next]_vars
  PROVE  Fifo'
  <1>1. CASE UNCHANGED <<pc, popped>> BY <1>1 DEF Fifo
  <1>2. ASSUME NEW o \in Op, StartSnapshot(o) \/ TriggerSnapshot(o) \/ StopSnapshot(o) \/ Expire(o)
        PROVE  UNCHANGED <<pc, popped>>
    BY <1>2 DEF StartSnapshot, TriggerSnapshot, StopSnapshot, Expire, poolVars
  <1>3. CASE WaitIteration \/ SpuriousWakeup \/ AcquireIteration
    BY <1>1, <1>3 DEF WaitIteration, SpuriousWakeup, AcquireIteration, poolVars
  <1>4. CASE Submit
    <2>1. PICK t : t = submitted + 1 OBVIOUS
    <2>2. /\ \A k \in Task : k # t => pc'[k] = pc[k]
          /\ t > popped /\ popped' = popped /\ t \in Task
      BY <1>4, <2>1, SubmitAdds
    <2>3. \A k \in Task : k < popped => k # t BY <2>2, TasksAre
    <2> QED BY <2>2, <2>3 DEF Fifo
  <1>5. CASE Pop
    <2>1. PICK t : t = popped + 1 OBVIOUS
    <2>2. t \in Task /\ popped' = t /\ \A j \in Task : j # t => pc'[j] = pc[j] BY <1>5, <2>1, PopEffect
    <2>3. \A k \in Task : k < t => k <= popped /\ k # t BY <2>1, TasksAre
    <2> QED BY <1>5, <2>2, <2>3, PopAlone DEF Fifo
  <1>6. ASSUME NEW k \in Task, TaskStep(k) PROVE Fifo'
    <2>1. /\ popped' = popped /\ pc[k] # "done"
          /\ \A j \in Task : j # k => pc'[j] = pc[j]
      BY <1>6, TaskMoves
    <2>2. ~(k < popped) BY <2>1 DEF Fifo
    <2> QED BY <2>1, <2>2 DEF Fifo
  <1>7. CASE UNCHANGED vars BY <1>1, <1>7 DEF vars, poolVars
  <1> QED BY <1>1, <1>2, <1>3, <1>4, <1>5, <1>6, <1>7, NextCases

LEMMA NextWhole ==
  ASSUME Buffered = {}, TypeOK, PoolInv, Whole, [Next]_vars
  PROVE  Whole'
  <1>1. CASE UNCHANGED <<sub, submitted, batch>> /\ (phase' # "idle" => phase # "idle")
    BY <1>1 DEF Whole
  <1>2. ASSUME NEW o \in Op, StartSnapshot(o) \/ TriggerSnapshot(o) \/ StopSnapshot(o) PROVE Whole'
    BY <1>1, <1>2 DEF StartSnapshot, TriggerSnapshot, StopSnapshot, scanVars, poolVars
  <1>3. ASSUME NEW o \in Op, Expire(o) PROVE Whole'
    <2>1. batch'.tail /\ UNCHANGED <<sub, submitted>> BY <1>3, ExpireEffect DEF poolVars
    <2> QED BY <2>1 DEF Whole
  <1>4. CASE AcquireIteration
    <2>1. /\ phase \in {"acquire", "woken"} /\ batch'.tail = batch.tail
          /\ UNCHANGED <<sub, submitted>>
      BY <1>4, AcquireEffect DEF poolVars
    <2> QED BY <2>1 DEF Whole
  <1>5. CASE WaitIteration \/ SpuriousWakeup
    BY <1>1, <1>5 DEF WaitIteration, SpuriousWakeup, poolVars
  <1>6. CASE Submit
    <2>1. PICK t : t = submitted + 1 OBVIOUS
    <2>2. /\ sub'[t] = batch /\ \A k \in Task : k # t => sub'[k] = sub[k]
          /\ \A k \in Task : k <= submitted' <=> k <= submitted \/ k = t
          /\ phase = "schedule" /\ phase' = "idle"
      BY <1>6, <2>1, SubmitAdds
    <2> QED BY <2>2 DEF Whole
  <1>7. CASE Pop BY <1>1, <1>7 DEF Pop, scanVars
  <1>8. ASSUME NEW k \in Task, TaskStep(k) PROVE Whole' BY <1>1, <1>8, TaskMoves
  <1>9. CASE UNCHANGED vars BY <1>1, <1>9 DEF vars, scanVars, poolVars
  <1> QED BY <1>2, <1>3, <1>4, <1>5, <1>6, <1>7, <1>8, <1>9, NextCases

LEMMA FifoByName == ASSUME TypeOK, Fifo PROVE NameFifo
  <1> SUFFICES ASSUME NEW j \in Task, NEW k \in Task, j < k, k <= popped PROVE pc[j] = "done"
    BY DEF NameFifo
  <1>1. j < popped BY TasksAre
  <1> QED BY <1>1 DEF Fifo

\* A NORMAL iteration begins when the one before has released the name, and none
\* begins after the one that removeSnapshot ends.
LEMMA WholeSettled ==
  ASSUME OneOpPerName, TypeOK, Whole, LastIsLast, SettledInv, NEW j \in Task, NEW k \in Task,
         j < k, k <= submitted, NameOfTask(j) = NameOfTask(k)
  PROVE  pc[j] = "done"
  <1>1. j <= submitted /\ ~(k <= j) /\ sub[j].op \in Op /\ sub[k].op \in Op BY TasksAre
  <1>2. OnName(k, NameOfTask(j)) BY DEF OnName, NameOfTask
  <1>3. Settled(j) BY <1>1, <1>2 DEF Whole, SettledInv
  <1>4. sub[j].op = sub[k].op BY <1>1 DEF OneOpPerName, NameOfTask
  <1>5. ~sub[j].last BY <1>1, <1>4 DEF LastIsLast
  <1> QED BY <1>3, <1>5 DEF Settled

LEMMA WholeByName ==
  ASSUME OneOpPerName, TypeOK, Whole, LastIsLast, SettledInv
  PROVE  NameFifo
  <1>1. \A k \in Task : k <= popped => k <= submitted BY TasksAre
  <1> QED BY <1>1, WholeSettled DEF NameFifo

-----------------------------------------------------------------------------
(* The last submission of an operation. *)

LEMMA InitLast == Init => LastInv
  BY ConstantsAssumption DEF Init, LastInv, LastIsLast, PromiseInv, Task

LEMMA SubmitLast ==
  ASSUME TypeOK, PoolInv, LastInv, Submit
  PROVE  LastInv'
  <1>1. PICK t : t = submitted + 1 OBVIOUS
  <1>2. /\ t \in Task /\ submitted' = t /\ sub'[t] = batch
        /\ \A k \in Task : k # t => sub'[k] = sub[k] /\ pc'[k] = pc[k]
        /\ \A k \in Task : k <= submitted => k # t
        /\ \A k \in Task : k <= submitted' <=> k <= submitted \/ k = t
        /\ UNCHANGED <<popped, promise>>
        /\ t > popped /\ phase = "schedule"
        /\ pc'[t] = "queued" /\ submitted \in Int /\ popped \in Int
    BY <1>1, SubmitAdds DEF opVars
  <1>4. LastIsLast'
    <2> SUFFICES ASSUME NEW k \in Task, k <= submitted', sub'[k].last
                 PROVE  /\ sub'[k].tail
                        /\ \A j \in Task : j <= submitted' /\ sub'[j].op = sub'[k].op => j <= k
      BY DEF LastIsLast
    <2>1. CASE k = t
      <3>1. batch.tail BY <1>2, <2>1 DEF PoolInv, Removal
      <3>2. \A j \in Task : j <= t \/ j > t BY <1>1, <1>2, TasksAre
      <3> QED BY <1>2, <2>1, <3>1
    <2>2. CASE k # t
      <3>1. k <= submitted /\ sub'[k] = sub[k] /\ sub[k].last BY <1>2, <2>2
      <3>2. ~InHand(sub[k].op) BY <3>1 DEF PoolInv, Removal
      <3>3. sub[k].op # batch.op BY <1>2, <3>2 DEF InHand
      <3> QED BY <1>2, <3>1, <3>3 DEF LastInv, LastIsLast
    <2> QED BY <2>1, <2>2
  <1>5. PromiseInv'
    <2> SUFFICES ASSUME NEW o \in Op, promise[o]
                 PROVE  \E k \in Task : /\ k <= popped' /\ sub'[k].op = o /\ sub'[k].last
                                        /\ pc'[k] \in {"finish", "release", "done"}
      BY <1>2 DEF PromiseInv
    <2>1. PICK k \in Task : /\ k <= popped /\ sub[k].op = o /\ sub[k].last
                            /\ pc[k] \in {"finish", "release", "done"}
      BY DEF LastInv, PromiseInv
    <2>2. k # t BY <1>2, <2>1, TasksAre
    <2> QED BY <1>2, <2>1, <2>2
  <1> QED BY <1>4, <1>5 DEF LastInv

LEMMA PopLast ==
  ASSUME TypeOK, PoolInv, LastInv, Pop
  PROVE  LastInv'
  <1>1. PICK t : t = popped + 1 OBVIOUS
  <1>2. /\ t \in Task /\ popped' = t /\ pc[t] = "queued"
        /\ \A j \in Task : j # t => pc'[j] = pc[j]
        /\ UNCHANGED <<sub, submitted, promise>>
    BY <1>1, PopEffect DEF opVars
  <1>4. \A k \in Task : k <= popped => k <= t /\ k # t BY <1>1, TasksAre
  <1>6. LastIsLast' BY <1>2, SubsKept DEF LastInv
  <1>7. PromiseInv' BY <1>2, <1>4 DEF LastInv, PromiseInv
  <1> QED BY <1>6, <1>7 DEF LastInv

LEMMA TaskLast ==
  ASSUME TypeOK, PoolInv, LastInv, NEW k \in Task, TaskStep(k)
  PROVE  LastInv'
  <1>1. /\ UNCHANGED <<sub, submitted, popped>> /\ pc[k] \notin {"none", "queued", "done"}
        /\ \A j \in Task : j # k => pc'[j] = pc[j]
        /\ k <= popped
    BY TaskMoves
  <1>3. LastIsLast' BY <1>1, SubsKept DEF LastInv
  <1>4. PromiseInv'
    <2>1. CASE FulfilRemoval(k)
      <3>1. /\ pc'[k] = "finish" /\ pc[k] = "promise"
            /\ promise' = [promise EXCEPT ![sub[k].op] = TRUE]
        BY <2>1 DEF FulfilRemoval, Goto, TypeOK
      <3>2. sub[k].last BY <3>1 DEF PoolInv, Sections
      <3>3. \A o \in Op : promise'[o] => promise[o] \/ o = sub[k].op BY <3>1 DEF TypeOK
      <3> SUFFICES ASSUME NEW o \in Op, promise'[o]
                   PROVE  \E j \in Task : /\ j <= popped /\ sub[j].op = o /\ sub[j].last
                                          /\ pc'[j] \in {"finish", "release", "done"}
        BY <1>1 DEF PromiseInv
      <3>4. CASE o = sub[k].op BY <1>1, <3>1, <3>2, <3>4
      <3>5. CASE promise[o]
        <4>1. PICK j \in Task : /\ j <= popped /\ sub[j].op = o /\ sub[j].last
                                /\ pc[j] \in {"finish", "release", "done"}
          BY <3>5 DEF LastInv, PromiseInv
        <4>2. j # k BY <3>1, <4>1
        <4> QED BY <1>1, <4>1, <4>2
      <3> QED BY <3>3, <3>4, <3>5
    <2>2. CASE ~FulfilRemoval(k)
      <3>1. UNCHANGED promise
        BY <2>2 DEF TaskStep, StartTask, PublishHeader, CompleteHeaderGate, WaitForHeaderGate,
           PublishData, DataCompleted, WaitDataDrained, PublishTail, MarkTailProcessed,
           RemoveSnapshotNotify, RemoveSnapshotErase, RemoveSnapshotDestroy,
           FinishTask, ReleaseLock, opVars
      <3>2. pc[k] \in {"finish", "release"} => pc'[k] \in {"finish", "release", "done"}
        BY DEF TaskStep, StartTask, PublishHeader, CompleteHeaderGate, WaitForHeaderGate,
           PublishData, DataCompleted, WaitDataDrained, PublishTail, MarkTailProcessed,
           RemoveSnapshotNotify, RemoveSnapshotErase, RemoveSnapshotDestroy, FulfilRemoval,
           FinishTask, ReleaseLock, Goto, TypeOK
      <3> SUFFICES ASSUME NEW o \in Op, promise[o]
                   PROVE  \E j \in Task : /\ j <= popped /\ sub[j].op = o /\ sub[j].last
                                          /\ pc'[j] \in {"finish", "release", "done"}
        BY <1>1, <3>1 DEF PromiseInv
      <3>3. PICK j \in Task : /\ j <= popped /\ sub[j].op = o /\ sub[j].last
                              /\ pc[j] \in {"finish", "release", "done"}
        BY DEF LastInv, PromiseInv
      <3> QED BY <1>1, <3>2, <3>3
    <2> QED BY <2>1, <2>2
  <1> QED BY <1>3, <1>4 DEF LastInv

LEMMA NextLast ==
  ASSUME TypeOK, PoolInv, LastInv, [Next]_vars
  PROVE  LastInv'
  <1>1. CASE UNCHANGED <<sub, pc, submitted, popped, promise>>
    BY <1>1 DEF LastInv, LastIsLast, PromiseInv
  <1>2. ASSUME NEW o \in Op, StartSnapshot(o) \/ TriggerSnapshot(o) \/ StopSnapshot(o) \/ Expire(o)
        PROVE  UNCHANGED <<sub, pc, submitted, popped, promise>>
    BY <1>2 DEF StartSnapshot, TriggerSnapshot, StopSnapshot, Expire, poolVars
  <1>3. CASE WaitIteration \/ SpuriousWakeup \/ AcquireIteration
    BY <1>1, <1>3 DEF WaitIteration, SpuriousWakeup, AcquireIteration, poolVars, opVars
  <1>4. CASE UNCHANGED vars BY <1>1, <1>4 DEF vars, opVars, poolVars
  <1> QED BY <1>1, <1>2, <1>3, <1>4, NextCases, SubmitLast, PopLast, TaskLast


-----------------------------------------------------------------------------
(* The protocol of the submissions on a name. *)

LEMMA InitProtocol == Init => ProtocolInv
  <1> SUFFICES ASSUME Init PROVE ProtocolInv
    OBVIOUS
  <1>1. \A k \in Task : ~(k <= submitted) BY DEF Init, Task
  <1>2. phase = "idle" /\ \A o \in Op : ~header_sent[o] /\ ~Registered(o)
    BY DEF Init, Registered
  <1>3. SequenceInv BY <1>1 DEF SequenceInv
  <1>4. OneLive BY <1>2 DEF OneLive, Live, InHand
  <1>5. NewestIsLive BY <1>1 DEF NewestIsLive, NewestOn, OnName
  <1>6. OpenIsNewest BY <1>1, <1>2 DEF OpenIsNewest, NewestOn, OnName
  <1>7. HandInv BY <1>2 DEF HandInv
  <1> QED BY <1>3, <1>4, <1>5, <1>6, <1>7 DEF ProtocolInv

LEMMA ProtocolKept ==
  ASSUME ProtocolInv,
         UNCHANGED <<lifecycle, header_sent, batch, sub, submitted, active_iteration_id>>,
         phase' = "idle" <=> phase = "idle", phase' = "schedule" <=> phase = "schedule"
  PROVE  ProtocolInv'
  <1>1. \A o : InHand(o)' <=> InHand(o) BY DEF InHand
  <1>2. \A o : Live(o)' <=> Live(o) BY <1>1 DEF Live, Registered
  <1>3. SequenceInv' BY SubsKept DEF ProtocolInv
  <1>4. OneLive' BY <1>2 DEF ProtocolInv, OneLive
  <1>5. NewestIsLive' BY <1>2, SubsKept DEF ProtocolInv, NewestIsLive
  <1>6. OpenIsNewest' BY <1>1, SubsKept DEF ProtocolInv, OpenIsNewest
  <1>7. HandInv' BY SubsKept DEF ProtocolInv, HandInv, Follows
  <1> QED BY <1>3, <1>4, <1>5, <1>6, <1>7 DEF ProtocolInv

LEMMA CommandProtocol ==
  ASSUME TypeOK, ProtocolInv, NEW o \in Op,
         StartSnapshot(o) \/ TriggerSnapshot(o) \/ StopSnapshot(o)
  PROVE  ProtocolInv'
  <1>1. /\ UNCHANGED <<header_sent, phase, batch, sub, submitted, active_iteration_id>>
        /\ phase = "idle"
    BY DEF StartSnapshot, TriggerSnapshot, StopSnapshot, RunningMutexFree, scanVars, poolVars
  <1>2. \A p : InHand(p)' <=> InHand(p) BY <1>1 DEF InHand
  <1>3. \A p \in Op : Registered(p) => Registered(p)'
    BY DEF StartSnapshot, TriggerSnapshot, StopSnapshot, TypeOK, Registered
  <1>4. \A p \in Op : Registered(p)' => \/ Registered(p)
                                        \/ p = o /\ StartSnapshot(o)
    BY DEF StartSnapshot, TriggerSnapshot, StopSnapshot, TypeOK, Registered
  <1>5. SequenceInv' BY <1>1, SubsKept DEF ProtocolInv
  <1>6. OneLive'
    <2>1. \A p : ~InHand(p) BY <1>1 DEF InHand
    <2>2. StartSnapshot(o) => \A p \in Op : NameOf[p] = NameOf[o] => ~Registered(p)
      BY DEF StartSnapshot
    <2> QED BY <1>2, <1>4, <2>1, <2>2 DEF OneLive, Live, ProtocolInv
  <1>7. NewestIsLive'
    <2>1. \A k \in Task : sub[k].op \in Op BY TasksAre
    <2>2. \A p \in Op : Live(p) => Live(p)' BY <1>2, <1>3 DEF Live
    <2> QED BY <1>1, <2>1, <2>2, SubsKept DEF ProtocolInv, NewestIsLive
  <1>8. OpenIsNewest' BY <1>1, <1>2, SubsKept DEF ProtocolInv, OpenIsNewest
  <1>9. HandInv' BY <1>1 DEF HandInv
  <1> QED BY <1>5, <1>6, <1>7, <1>8, <1>9 DEF ProtocolInv

\* The newest submission on a name is one.
LEMMA NewestUnique ==
  ASSUME NEW n, NEW j \in Task, NEW k \in Task, NewestOn(j, n), NewestOn(k, n)
  PROVE  j = k
  <1>1. j \in Int /\ k \in Int BY DEF Task
  <1>2. j <= k /\ k <= j BY DEF NewestOn
  <1> QED BY <1>1, <1>2

\* A submission with a Header comes when the newest one on the name has its
\* Tail, one without when the newest one belongs to the open iteration.
LEMMA ExpireFollows ==
  ASSUME TypeOK, PoolInv, LastIsLast, ProtocolInv, NEW o \in Op, Expire(o)
  PROVE  /\ HasHeader(o) => \A k \in Task : NewestOn(k, NameOf[o]) => sub[k].tail
         /\ ~HasHeader(o) => \E k \in Task : /\ NewestOn(k, NameOf[o]) /\ sub[k].op = o
                                             /\ ~sub[k].tail /\ ~sub[k].last
                                             /\ sub[k].iter = active_iteration_id[NameOf[o]]
  <1>1. phase = "idle" /\ Registered(o) BY ExpireEffect
  <1>2. \A p : ~InHand(p) BY <1>1 DEF InHand
  <1>3. ASSUME HasHeader(o), NEW k \in Task, NewestOn(k, NameOf[o]), ~sub[k].tail PROVE FALSE
    <2>1. sub[k].op \in Op /\ NameOf[o] \in Name BY TasksAre, ConstantsAssumption
    <2>2. ~sub[k].last BY <1>3 DEF LastIsLast, NewestOn, OnName
    <2>3. Live(sub[k].op) BY <1>3, <2>1, <2>2 DEF ProtocolInv, NewestIsLive
    <2>4. NameOf[sub[k].op] = NameOf[o] BY <1>3 DEF NewestOn, OnName
    <2>5. sub[k].op = o BY <1>1, <2>1, <2>3, <2>4 DEF ProtocolInv, OneLive, Live
    <2>6. header_sent[o] BY <1>2, <1>3, <2>1, <2>5 DEF ProtocolInv, OpenIsNewest
    <2>7. o \in Buffered BY <2>6 DEF ProtocolInv, OpenIsNewest
    <2> QED BY <1>3, <2>6, <2>7 DEF HasHeader
  <1>4. ASSUME ~HasHeader(o)
        PROVE  \E k \in Task : /\ NewestOn(k, NameOf[o]) /\ sub[k].op = o /\ ~sub[k].tail
                               /\ ~sub[k].last
                               /\ sub[k].iter = active_iteration_id[NameOf[o]]
    <2>1. header_sent[o] BY <1>4 DEF HasHeader
    <2>2. PICK k \in Task : /\ NewestOn(k, NameOf[o]) /\ sub[k].op = o /\ ~sub[k].tail
                            /\ sub[k].iter = active_iteration_id[NameOf[o]]
      BY <1>2, <2>1 DEF ProtocolInv, OpenIsNewest
    <2>3. ~sub[k].last BY <2>2 DEF LastIsLast, NewestOn, OnName
    <2> QED BY <2>2, <2>3
  <1> QED BY <1>3, <1>4

LEMMA ExpireProtocol ==
  ASSUME TypeOK, PoolInv, LastIsLast, ProtocolInv, NEW o \in Op, Expire(o)
  PROVE  ProtocolInv'
  <1>1. /\ phase = "idle" /\ Registered(o) /\ phase' # "idle"
        /\ phase' = "schedule" <=> ~HasHeader(o)
        /\ batch'.op = o /\ batch'.header = HasHeader(o)
        /\ ~HasHeader(o) => batch'.iter = active_iteration_id[NameOf[o]]
        /\ batch'.tail \in BOOLEAN
        /\ o \notin Buffered => batch'.tail
        /\ header_sent'[o] = (o \in Buffered /\ ~batch'.tail)
        /\ \A p \in Op : p # o => header_sent'[p] = header_sent[p] /\ lifecycle'[p] = lifecycle[p]
        /\ UNCHANGED <<active_iteration_id, sub, submitted>>
    BY ExpireEffect DEF poolVars
  <1>2. \A p : ~InHand(p) /\ (InHand(p)' <=> p = o) BY <1>1 DEF InHand
  <1>3. \A p \in Op : Live(p)' <=> Live(p) BY <1>1, <1>2 DEF Live, Registered
  <1>4. SequenceInv' BY <1>1, SubsKept DEF ProtocolInv
  <1>5. OneLive' BY <1>3 DEF ProtocolInv, OneLive
  <1>6. NewestIsLive'
    <2>1. \A k \in Task : sub[k].op \in Op BY TasksAre
    <2> QED BY <1>1, <1>3, <2>1, SubsKept DEF ProtocolInv, NewestIsLive
  <1>7. OpenIsNewest'
    <2>1. \A p \in Op : header_sent'[p] => p \in Buffered
      BY <1>1 DEF ProtocolInv, OpenIsNewest
    <2>2. \A p \in Op : header_sent'[p] /\ p # o =>
            \E k \in Task : /\ NewestOn(k, NameOf[p]) /\ sub[k].op = p /\ ~sub[k].tail
                            /\ sub[k].iter = active_iteration_id[NameOf[p]]
      BY <1>1, <1>2 DEF ProtocolInv, OpenIsNewest
    <2>3. \A n \in Name : \A k \in Task : NewestOn(k, n) /\ ~sub[k].tail =>
            header_sent'[sub[k].op] \/ sub[k].op = o
      <3>1. \A k \in Task : sub[k].op \in Op BY TasksAre
      <3> QED BY <1>1, <1>2, <3>1 DEF ProtocolInv, OpenIsNewest
    <2> QED BY <1>1, <1>2, <2>1, <2>2, <2>3, SubsKept DEF OpenIsNewest
  <1>8. HandInv'
    <2>1. header_sent'[o] <=> ~batch'.tail BY <1>1
    <2>2. ASSUME NEW k \in Task, NewestOn(k, NameOf[o]) PROVE HasHeader(o) <=> sub[k].tail
      <3>1. CASE HasHeader(o) BY <2>2, <3>1, ExpireFollows
      <3>2. CASE ~HasHeader(o)
        <4>1. PICK j \in Task : NewestOn(j, NameOf[o]) /\ ~sub[j].tail BY <3>2, ExpireFollows
        <4>2. j = k BY <2>2, <4>1, NewestUnique
        <4> QED BY <3>2, <4>1, <4>2
      <3> QED BY <3>1, <3>2
    <2>3. ASSUME ~HasHeader(o)
          PROVE  /\ batch'.iter \in Iter
                 /\ batch'.iter = active_iteration_id[NameOf[o]]
                 /\ \A k \in Task : NewestOn(k, NameOf[o]) => Follows(batch, k)'
                 /\ ~NoneOn(NameOf[o])
      <3>1. PICK j \in Task : /\ NewestOn(j, NameOf[o]) /\ sub[j].op = o /\ ~sub[j].tail
                              /\ sub[j].iter = active_iteration_id[NameOf[o]]
        BY <2>3, ExpireFollows
      <3>2. sub[j].iter \in Iter
        BY <3>1 DEF ProtocolInv, SequenceInv, NewestOn, OnName
      <3>3. \A k \in Task : NewestOn(k, NameOf[o]) => k = j BY <3>1, NewestUnique
      <3>4. Follows(batch, j)' BY <1>1, <2>3, <3>1 DEF Follows
      <3>5. ~NoneOn(NameOf[o]) BY <3>1 DEF NoneOn, NewestOn
      <3> QED BY <1>1, <2>3, <3>1, <3>2, <3>3, <3>4, <3>5
    <2> QED BY <1>1, <2>1, <2>2, <2>3, SubsKept DEF HandInv
  <1> QED BY <1>4, <1>5, <1>6, <1>7, <1>8 DEF ProtocolInv


\* acquireIteration passes when the newest iteration of the name has ended, and
\* then numbers on from it, or from 1 for another operation.
LEMMA AcquireFollows ==
  ASSUME TypeOK, PoolInv, ProtocolInv, TurnInv, AcquireIteration, NEW n, n = NameOf[batch.op]
  PROVE  /\ \A k \in Task : NewestOn(k, n) =>
              /\ sub[k].tail /\ Settled(k)
              /\ current_iteration[n] + 1 = IF batch.op = sub[k].op THEN sub[k].iter + 1 ELSE 1
         /\ NoneOn(n) => current_iteration[n] + 1 = 1
  <1>1. /\ n \in Name /\ batch.op \in Op /\ phase \in {"acquire", "woken"} /\ ~in_progress[n]
    BY AcquireEffect
  <1>2. ~Scheduling(n) /\ InHand(batch.op) BY <1>1 DEF Scheduling, InHand
  <1>3. ASSUME NEW k \in Task, NewestOn(k, n)
        PROVE  /\ sub[k].tail /\ Settled(k)
               /\ current_iteration[n] + 1 = IF batch.op = sub[k].op THEN sub[k].iter + 1 ELSE 1
    <2>1. sub[k].tail /\ Settled(k) BY <1>1, <1>3 DEF TurnInv, InProgressInv
    <2>2. current_iteration[n] = IF sub[k].last /\ pc[k] \in Erased THEN 0 ELSE sub[k].iter
      BY <1>1, <1>2, <1>3 DEF TurnInv, CurrentInv
    <2>3. sub[k].op \in Op /\ NameOf[sub[k].op] = n /\ k <= submitted
      BY <1>3, TasksAre DEF NewestOn, OnName
    <2>4. CASE sub[k].last
      <3>1. pc[k] \in Erased BY <2>1 DEF Settled, Erased
      <3>2. ~InHand(sub[k].op) BY <2>3, <2>4 DEF PoolInv, Removal
      <3> QED BY <1>2, <2>1, <2>2, <2>4, <3>1, <3>2
    <2>5. CASE ~sub[k].last
      <3>1. Live(sub[k].op) BY <1>1, <1>3, <2>5 DEF ProtocolInv, NewestIsLive
      <3>2. sub[k].op = batch.op
        BY <1>1, <1>2, <2>3, <3>1 DEF ProtocolInv, OneLive, Live
      <3> QED BY <2>1, <2>2, <2>5, <3>2
    <2> QED BY <2>4, <2>5
  <1>4. ASSUME NoneOn(n) PROVE current_iteration[n] + 1 = 1
    BY <1>1, <1>2, <1>4 DEF TurnInv, CurrentInv
  <1> QED BY <1>3, <1>4

LEMMA AcquireProtocol ==
  ASSUME TypeOK, PoolInv, ProtocolInv, TurnInv, AcquireIteration
  PROVE  ProtocolInv'
  <1>0. PICK n : n = NameOf[batch.op] OBVIOUS
  <1>1. /\ n \in Name /\ batch.op \in Op
        /\ phase \in {"acquire", "woken"} /\ phase' = "schedule"
        /\ \A m \in Name : m # n => active_iteration_id'[m] = active_iteration_id[m]
        /\ current_iteration[n] + 1 \in Iter
        /\ active_iteration_id'[n] = current_iteration[n] + 1
        /\ batch'.op = batch.op /\ batch'.header = batch.header /\ batch'.tail = batch.tail
        /\ batch'.iter = current_iteration[n] + 1
        /\ UNCHANGED <<lifecycle, header_sent, sub, submitted>>
    BY <1>0, AcquireEffect DEF opVars, poolVars
  <1>2. \A o : InHand(o)' <=> InHand(o) BY <1>1 DEF InHand
  <1>3. \A o : Live(o)' <=> Live(o) BY <1>1, <1>2 DEF Live, Registered
  <1>4. SequenceInv' BY <1>1, SubsKept DEF ProtocolInv
  <1>5. OneLive' BY <1>3 DEF ProtocolInv, OneLive
  <1>6. NewestIsLive' BY <1>1, <1>3, SubsKept DEF ProtocolInv, NewestIsLive
  <1>7. OpenIsNewest'
    <2>1. ASSUME NEW o \in Op, header_sent[o], ~InHand(o)
          PROVE  \E k \in Task : /\ NewestOn(k, NameOf[o]) /\ sub[k].op = o /\ ~sub[k].tail
                                 /\ sub[k].iter = active_iteration_id'[NameOf[o]]
      <3>1. PICK k \in Task : /\ NewestOn(k, NameOf[o]) /\ sub[k].op = o /\ ~sub[k].tail
                              /\ sub[k].iter = active_iteration_id[NameOf[o]]
        BY <2>1 DEF ProtocolInv, OpenIsNewest
      <3>2. NameOf[o] # n BY <1>0, <3>1, AcquireFollows
      <3>3. NameOf[o] \in Name BY ConstantsAssumption
      <3> QED BY <1>1, <3>1, <3>2, <3>3
    <2> QED BY <1>1, <1>2, <2>1, SubsKept DEF ProtocolInv, OpenIsNewest
  <1>8. HandInv'
    <2>1. header_sent[batch.op] <=> ~batch.tail BY <1>1 DEF ProtocolInv, HandInv
    <2>2. batch.header BY <1>1 DEF ProtocolInv, HandInv
    <2>3. \A k \in Task : NewestOn(k, n) => sub[k].tail BY <1>0, AcquireFollows
    <2>4. \A k \in Task : NewestOn(k, n) => Follows(batch, k)'
      BY <1>0, <1>1, <2>2, AcquireFollows DEF Follows
    <2>5. NoneOn(n) => batch'.iter = 1 BY <1>0, <1>1, AcquireFollows
    <2> QED BY <1>0, <1>1, <2>1, <2>2, <2>3, <2>4, <2>5, SubsKept DEF HandInv
  <1> QED BY <1>4, <1>5, <1>6, <1>7, <1>8 DEF ProtocolInv

LEMMA SubmitSequence ==
  ASSUME TypeOK, PoolInv, ProtocolInv, Submit
  PROVE  SequenceInv'
  <1>0. PICK t, n : t = submitted + 1 /\ n = NameOf[batch.op] OBVIOUS
  <1>1. /\ t \in Task /\ submitted' = t /\ submitted \in Int
        /\ sub'[t] = batch
        /\ \A k \in Task : k # t => sub'[k] = sub[k]
        /\ \A k \in Task : k <= submitted => k # t
        /\ \A k \in Task : k <= submitted' <=> k <= submitted \/ k = t
        /\ phase = "schedule"
    BY <1>0, SubmitAdds
  <1>2. /\ \A k \in Task : k # t => NameOfTask(k)' = NameOfTask(k)
        /\ NameOfTask(t)' = n
    BY <1>0, <1>1 DEF NameOfTask
  <1>3. \A k \in Task : k < t <=> k <= submitted BY <1>0, <1>1, TasksAre
  <1>4. ASSUME NEW k \in Task, k <= submitted', k # t
        PROVE  /\ sub'[k].iter \in Iter
               /\ \A j \in Task : Before(j, k)' => Follows(sub[k], j)'
               /\ FirstOn(k)' => sub'[k].header /\ sub'[k].iter = 1
    <2>1. k <= submitted /\ sub'[k] = sub[k] BY <1>1, <1>4
    <2>2. \A j \in Task : j < k => j # t BY <1>1, <2>1, TasksAre
    <2>3. ASSUME NEW j \in Task, Before(j, k)' PROVE Follows(sub[k], j)'
      <3>1. j < k /\ j # t BY <2>2, <2>3 DEF Before
      <3>2. Before(j, k) BY <1>2, <1>4, <2>2, <2>3, <3>1 DEF Before
      <3>3. Follows(sub[k], j) BY <2>1, <3>2 DEF ProtocolInv, SequenceInv
      <3> QED BY <1>1, <2>1, <3>1, <3>3 DEF Follows
    <2>4. FirstOn(k)' => FirstOn(k) BY <1>2, <1>4, <2>2 DEF FirstOn
    <2> QED BY <2>1, <2>3, <2>4 DEF ProtocolInv, SequenceInv
  <1>5. batch.iter \in Iter BY <1>1 DEF ProtocolInv, HandInv
  <1>6. ASSUME NEW j \in Task, Before(j, t)' PROVE Follows(sub[t], j)'
    <2>1. j < t /\ j # t /\ j <= submitted BY <1>0, <1>1, <1>3, <1>6, TasksAre DEF Before
    <2>2. OnName(j, n) BY <1>2, <1>6, <2>1 DEF Before, OnName, NameOfTask
    <2>3. ASSUME NEW i \in Task, OnName(i, n) PROVE i <= j
      <3>1. i <= submitted /\ i # t /\ i < t /\ NameOfTask(i) = n
        BY <1>1, <1>3, <2>3 DEF OnName, NameOfTask
      <3>2. ~(j < i) BY <1>2, <1>6, <3>1 DEF Before
      <3> QED BY <3>2, TasksAre
    <2>4. NewestOn(j, n) BY <2>2, <2>3 DEF NewestOn
    <2>5. Follows(batch, j) BY <1>0, <1>1, <2>4 DEF ProtocolInv, HandInv
    <2> QED BY <1>1, <2>1, <2>5 DEF Follows
  <1>7. ASSUME FirstOn(t)' PROVE batch.header /\ batch.iter = 1
    <2>1. NoneOn(n)
      <3> SUFFICES ASSUME NEW k \in Task, OnName(k, n) PROVE FALSE BY DEF NoneOn
      <3>1. k < t /\ k # t /\ NameOfTask(k) = n BY <1>1, <1>3 DEF OnName, NameOfTask
      <3> QED BY <1>2, <1>7, <3>1 DEF FirstOn
    <2> QED BY <1>0, <1>1, <2>1 DEF ProtocolInv, HandInv
  <1> QED BY <1>1, <1>4, <1>5, <1>6, <1>7 DEF SequenceInv

LEMMA SubmitProtocol ==
  ASSUME TypeOK, PoolInv, ProtocolInv, Submit
  PROVE  ProtocolInv'
  <1>0. PICK t, n : t = submitted + 1 /\ n = NameOf[batch.op] OBVIOUS
  <1>1. /\ t \in Task /\ sub'[t] = batch
        /\ \A k \in Task : k # t => sub'[k] = sub[k]
        /\ \A k \in Task : k <= submitted => k # t
        /\ phase = "schedule" /\ phase' = "idle"
        /\ batch.op \in Op /\ n \in Name
        /\ UNCHANGED <<lifecycle, header_sent>>
        /\ \A k \in Task : \A m : NewestOn(k, m)' <=> IF m = n THEN k = t ELSE NewestOn(k, m)
    BY <1>0, SubmitAdds DEF opVars
  <1>2. \A o : ~InHand(o)' /\ (InHand(o) <=> o = batch.op) BY <1>1 DEF InHand
  <1>3. \A o : Live(o)' <=> Registered(o) BY <1>1, <1>2 DEF Live, Registered
  <1>4. \A k \in Task : \A m : NewestOn(k, m) => k # t /\ NameOf[sub[k].op] = m
    BY <1>1 DEF NewestOn, OnName
  <1>5. OneLive' BY <1>3 DEF ProtocolInv, OneLive, Live
  <1>6. NewestIsLive'
    <2> SUFFICES ASSUME NEW m \in Name, NEW k \in Task, NewestOn(k, m)', ~sub'[k].last
                 PROVE  Live(sub[k].op)'
      BY DEF NewestIsLive
    <2>1. CASE m = n
      <3>1. k = t /\ ~batch.last BY <1>1, <2>1
      <3>2. lifecycle[batch.op] = "running" BY <1>1, <3>1 DEF PoolInv, Removal
      <3>3. Registered(batch.op) BY <3>2 DEF Registered
      <3> QED BY <1>1, <1>3, <3>1, <3>3
    <2>2. CASE m # n
      <3>1. NewestOn(k, m) BY <1>1, <2>2
      <3>2. k # t /\ NameOf[sub[k].op] = m BY <1>4, <3>1
      <3>3. Live(sub[k].op) BY <1>1, <3>1, <3>2 DEF ProtocolInv, NewestIsLive
      <3>4. ~InHand(sub[k].op) BY <1>0, <1>2, <2>2, <3>2
      <3> QED BY <1>1, <1>3, <3>2, <3>3, <3>4 DEF Live
    <2> QED BY <2>1, <2>2
  <1>7. OpenIsNewest'
    <2>1. /\ batch.iter = active_iteration_id[n]
          /\ header_sent[batch.op] <=> ~batch.tail
      BY <1>0, <1>1 DEF ProtocolInv, HandInv
    <2>2. /\ ~batch.last => active_iteration_id' = active_iteration_id
          /\ \A m \in Name : m # n => active_iteration_id'[m] = active_iteration_id[m]
      BY <1>0, <1>1 DEF Submit, TypeOK
    <2>3. batch.last => batch.tail BY <1>1 DEF PoolInv, Removal
    <2>4. ASSUME NEW o \in Op, header_sent[o]
          PROVE  \E k \in Task : /\ NewestOn(k, NameOf[o])' /\ sub'[k].op = o /\ ~sub'[k].tail
                                 /\ sub'[k].iter = active_iteration_id'[NameOf[o]]
      <3>1. CASE o = batch.op
        <4>1. ~batch.tail /\ ~batch.last BY <2>1, <2>3, <2>4, <3>1
        <4> QED BY <1>0, <1>1, <2>1, <2>2, <3>1, <4>1
      <3>2. CASE o # batch.op
        <4>1. PICK k \in Task : /\ NewestOn(k, NameOf[o]) /\ sub[k].op = o /\ ~sub[k].tail
                                /\ sub[k].iter = active_iteration_id[NameOf[o]]
          BY <1>2, <2>4, <3>2 DEF ProtocolInv, OpenIsNewest
        <4>2. NameOf[o] \in Name BY ConstantsAssumption
        <4>3. NameOf[o] # n
          <5> SUFFICES ASSUME NameOf[o] = n PROVE FALSE OBVIOUS
          <5>1. ~batch.header BY <1>0, <1>1, <4>1 DEF ProtocolInv, HandInv
          <5>2. Follows(batch, k) BY <1>0, <1>1, <4>1 DEF ProtocolInv, HandInv
          <5> QED BY <3>2, <4>1, <5>1, <5>2 DEF Follows
        <4>4. k # t BY <1>4, <4>1
        <4> QED BY <1>1, <2>2, <4>1, <4>2, <4>3, <4>4
      <3> QED BY <3>1, <3>2
    <2>5. ASSUME NEW m \in Name, NEW k \in Task, NewestOn(k, m)', ~sub'[k].tail
          PROVE  header_sent[sub'[k].op]
      <3>1. CASE m = n BY <1>1, <2>1, <2>5, <3>1
      <3>2. CASE m # n
        <4>1. NewestOn(k, m) BY <1>1, <2>5, <3>2
        <4>2. k # t /\ NameOf[sub[k].op] = m BY <1>4, <4>1
        <4>3. header_sent[sub[k].op] \/ InHand(sub[k].op)
          BY <1>1, <2>5, <4>1, <4>2 DEF ProtocolInv, OpenIsNewest
        <4> QED BY <1>0, <1>1, <1>2, <3>2, <4>2, <4>3
      <3> QED BY <3>1, <3>2
    <2>6. \A o \in Op : header_sent[o] => o \in Buffered BY DEF ProtocolInv, OpenIsNewest
    <2> QED BY <1>1, <2>4, <2>5, <2>6 DEF OpenIsNewest
  <1>8. HandInv' BY <1>1 DEF HandInv
  <1> QED BY <1>5, <1>6, <1>7, <1>8, SubmitSequence DEF ProtocolInv

LEMMA NextProtocol ==
  ASSUME TypeOK, PoolInv, LastInv, ProtocolInv, TurnInv, [Next]_vars
  PROVE  ProtocolInv'
  <1>1. CASE \E o \in Op : StartSnapshot(o) \/ TriggerSnapshot(o) \/ StopSnapshot(o)
    BY <1>1, CommandProtocol
  <1>2. CASE \E o \in Op : Expire(o)
    BY <1>2, ExpireProtocol DEF LastInv
  <1>3. CASE AcquireIteration BY <1>3, AcquireProtocol
  <1>4. CASE Submit BY <1>4, SubmitProtocol
  <1>5. CASE \E k \in Task : TaskStep(k) BY <1>5, TaskMoves, ProtocolKept
  <1>6. CASE Pop
    <2>1. UNCHANGED <<lifecycle, header_sent, phase, batch, sub, submitted, active_iteration_id>>
      BY <1>6 DEF Pop, opVars, scanVars
    <2> QED BY <2>1, ProtocolKept
  <1>7. CASE WaitIteration \/ SpuriousWakeup
    <2>1. /\ UNCHANGED <<lifecycle, header_sent, batch, sub, submitted, active_iteration_id>>
          /\ phase \in {"acquire", "woken", "waiting"} /\ phase' \in {"woken", "waiting"}
      BY <1>7 DEF WaitIteration, SpuriousWakeup, opVars, poolVars
    <2> QED BY <2>1, ProtocolKept
  <1>8. CASE UNCHANGED vars
    <2>1. UNCHANGED <<lifecycle, header_sent, phase, batch, sub, submitted, active_iteration_id>>
      BY <1>8 DEF vars, opVars, scanVars, poolVars
    <2> QED BY <2>1, ProtocolKept
  <1> QED BY NextCases, <1>1, <1>2, <1>3, <1>4, <1>5, <1>6, <1>7, <1>8


-----------------------------------------------------------------------------
(* The turns that the iterations of a name take. *)

LEMMA InitTurn == Init => TurnInv
  <1> SUFFICES ASSUME Init PROVE TurnInv
    OBVIOUS
  <1>1. \A k \in Task : ~(k <= submitted) /\ pc[k] = "none" BY DEF Init, Task
  <1>2. \A n : ~Scheduling(n) BY DEF Init, Scheduling
  <1>3. \A k \in Task : \A n : ~NewestOn(k, n) BY <1>1 DEF NewestOn, OnName
  <1>4. InProgressInv BY <1>2, <1>3 DEF InProgressInv
  <1>5. SettledInv BY <1>1 DEF SettledInv
  <1>6. TailMarkInv BY <1>1 DEF TailMarkInv, TailMarked, Init, NoIterState
  <1>7. CurrentInv BY <1>2, <1>3 DEF CurrentInv, Init
  <1> QED BY <1>4, <1>5, <1>6, <1>7 DEF TurnInv

\* Tasks only become settled.
Ripens(k) ==
  /\ Settled(k) => Settled(k)'
  /\ sub[k].last => (pc'[k] \in Erased <=> pc[k] \in Erased)

LEMMA SettledKept ==
  ASSUME InProgressInv, SettledInv, CurrentInv,
         UNCHANGED <<sub, submitted, batch, in_progress, current_iteration>>,
         phase' = "schedule" <=> phase = "schedule",
         \A k \in Task : k <= submitted => Ripens(k)
  PROVE  InProgressInv' /\ SettledInv' /\ CurrentInv'
  <1>1. \A n : Scheduling(n)' <=> Scheduling(n) BY DEF Scheduling
  <1>2. \A k \in Task : \A n : NewestOn(k, n) => k <= submitted BY DEF NewestOn, OnName
  <1>3. InProgressInv' BY <1>1, <1>2, SubsKept DEF InProgressInv, Ripens
  <1>4. \A k : NameOfTask(k)' = NameOfTask(k) BY DEF NameOfTask
  <1>5. SettledInv' BY <1>1, <1>4, SubsKept DEF SettledInv, Ripens
  <1>6. CurrentInv' BY <1>1, <1>2, SubsKept DEF CurrentInv, Ripens
  <1> QED BY <1>3, <1>5, <1>6

LEMMA TailMarkKept ==
  ASSUME TypeOK, TailMarkInv,
         UNCHANGED <<sub, submitted, batch, in_progress>>,
         popped' \in Int, popped <= popped',
         phase' = "schedule" <=> phase = "schedule",
         \A n \in Name : \A i \in Iter : TailMarked(n, i)' => TailMarked(n, i),
         \A k \in Task : k <= popped /\ sub[k].last /\ pc[k] \in {"notify", "erase"} =>
                            pc'[k] \in {"notify", "erase"},
         \A k \in Task : pc'[k] = "release" => sub[k].tail /\ ~sub[k].last
  PROVE  TailMarkInv'
  <1>1. \A n : Scheduling(n)' <=> Scheduling(n) BY DEF Scheduling
  <1>2. \A k \in Task : k <= popped => k <= popped' BY TasksAre
  <1>3. ASSUME NEW n \in Name, NEW i \in Iter, TailMarked(n, i)'
        PROVE  /\ in_progress'[n] /\ ~Scheduling(n)'
               /\ \E k \in Task : MarkedBy(k, n, i)'
    <2>1. TailMarked(n, i) BY <1>3
    <2>2. PICK k \in Task : MarkedBy(k, n, i) BY <2>1 DEF TailMarkInv
    <2>3. in_progress'[n] /\ ~Scheduling(n)' BY <1>1, <2>1 DEF TailMarkInv
    <2>4. MarkedBy(k, n, i)' BY <1>2, <2>2, SubsKept DEF MarkedBy
    <2> QED BY <2>3, <2>4
  <1> QED BY <1>3 DEF TailMarkInv

LEMMA CommandTurn ==
  ASSUME TypeOK, TurnInv, UNCHANGED <<batch, in_progress, current_iteration, iteration_states,
                                      sub, pc, submitted, popped>>,
         phase' = "schedule" <=> phase = "schedule"
  PROVE  TurnInv'
  <1>1. \A k \in Task : Ripens(k) BY DEF Ripens, Settled
  <1>2. InProgressInv' /\ SettledInv' /\ CurrentInv' BY <1>1, SettledKept DEF TurnInv
  <1>3. \A n, i : TailMarked(n, i)' <=> TailMarked(n, i) BY DEF TailMarked
  <1>4. TailMarkInv'
    <2>1. \A k \in Task : pc[k] = "release" => sub[k].tail /\ ~sub[k].last
      BY DEF TurnInv, TailMarkInv
    <2>2. popped' \in Int /\ popped <= popped' BY TasksAre
    <2> QED BY <1>3, <2>1, <2>2, TailMarkKept DEF TurnInv
  <1> QED BY <1>2, <1>4 DEF TurnInv

LEMMA PopTurn ==
  ASSUME TypeOK, PoolInv, ProtocolInv, TurnInv, Pop
  PROVE  TurnInv'
  <1>0. PICK t : t = popped + 1 OBVIOUS
  <1>1. /\ t \in Task /\ t <= submitted /\ popped' = t
        /\ pc[t] = "queued" /\ (sub[t].iter # 0 => pc'[t] = "start")
        /\ \A j \in Task : j # t => pc'[j] = pc[j]
        /\ UNCHANGED <<batch, phase, in_progress, current_iteration, iteration_states, sub, submitted>>
    BY <1>0, PopEffect DEF scanVars, syncVars
  <1>2. pc'[t] = "start"
    <2>1. sub[t].iter \in Iter BY <1>1 DEF ProtocolInv, SequenceInv
    <2>2. sub[t].iter # 0 BY <2>1 DEF Iter
    <2> QED BY <1>1, <2>2
  <1>3. \A k \in Task : Ripens(k) BY <1>1, <1>2 DEF Ripens, Settled, Erased
  <1>4. InProgressInv' /\ SettledInv' /\ CurrentInv' BY <1>1, <1>3, SettledKept DEF TurnInv
  <1>5. \A n, i : TailMarked(n, i)' <=> TailMarked(n, i) BY <1>1 DEF TailMarked
  <1>6. TailMarkInv'
    <2>1. \A k \in Task : pc'[k] = "release" => sub[k].tail /\ ~sub[k].last
      BY <1>1, <1>2 DEF TurnInv, TailMarkInv
    <2>2. popped' \in Int /\ popped <= popped' BY <1>0, <1>1, TasksAre
    <2>3. \A k \in Task : pc[k] \in {"notify", "erase"} => pc'[k] = pc[k] BY <1>1
    <2> QED BY <1>1, <1>5, <2>1, <2>2, <2>3, TailMarkKept DEF TurnInv
  <1> QED BY <1>4, <1>6 DEF TurnInv

LEMMA ExpireTurn ==
  ASSUME TypeOK, PoolInv, LastIsLast, ProtocolInv, TurnInv, NEW o \in Op, Expire(o)
  PROVE  TurnInv'
  <1>1. /\ phase = "idle" /\ (phase' = "schedule" <=> ~HasHeader(o))
        /\ batch'.op = o
        /\ ~HasHeader(o) => batch'.iter = active_iteration_id[NameOf[o]]
        /\ UNCHANGED <<in_progress, current_iteration, iteration_states, sub, pc, submitted, popped>>
    BY ExpireEffect DEF syncVars, poolVars
  <1>2. PICK n : n = NameOf[o] OBVIOUS
  <1>3. n \in Name BY <1>2, ConstantsAssumption
  <1>4. \A m : ~Scheduling(m) BY <1>1 DEF Scheduling
  <1>5. \A m : Scheduling(m)' <=> m = n /\ ~HasHeader(o) BY <1>1, <1>2 DEF Scheduling
  <1>6. ASSUME ~HasHeader(o)
        PROVE  \E j \in Task : /\ NewestOn(j, n) /\ ~sub[j].tail /\ ~sub[j].last
                               /\ sub[j].iter = batch'.iter
    BY <1>1, <1>2, <1>6, ExpireFollows
  <1>7. \A k : (Settled(k)' <=> Settled(k)) /\ NameOfTask(k)' = NameOfTask(k)
    BY <1>1 DEF Settled, NameOfTask
  <1>8. InProgressInv'
    <2>1. ~HasHeader(o) => in_progress[n] BY <1>3, <1>6 DEF TurnInv, InProgressInv
    <2> QED BY <1>1, <1>5, <1>7, <2>1, SubsKept DEF TurnInv, InProgressInv
  <1>9. SettledInv'
    <2>1. ASSUME ~HasHeader(o), NEW i \in Task, i <= submitted, sub[i].tail, NameOfTask(i) = n
          PROVE  Settled(i)
      <3>1. PICK j \in Task : NewestOn(j, n) /\ ~sub[j].tail BY <1>6, <2>1
      <3>2. OnName(i, n) /\ i # j BY <2>1, <3>1 DEF OnName, NameOfTask
      <3>3. i < j BY <3>1, <3>2, TasksAre DEF NewestOn
      <3>4. OnName(j, NameOfTask(i)) BY <2>1, <3>1 DEF NewestOn
      <3> QED BY <2>1, <3>3, <3>4 DEF TurnInv, SettledInv
    <2> QED BY <1>1, <1>5, <1>7, <2>1, SubsKept DEF TurnInv, SettledInv
  <1>10. TailMarkInv'
    <2>1. ASSUME ~HasHeader(o), NEW i \in Iter, TailMarked(n, i) PROVE FALSE
      <3>1. PICK j \in Task : NewestOn(j, n) /\ ~sub[j].tail BY <1>6, <2>1
      <3>2. PICK k \in Task : NewestOn(k, n) /\ sub[k].tail
        BY <1>3, <2>1 DEF TurnInv, TailMarkInv, MarkedBy
      <3> QED BY <3>1, <3>2, NewestUnique
    <2>2. \A m, i : TailMarked(m, i)' <=> TailMarked(m, i) BY <1>1 DEF TailMarked
    <2>3. \A m, i, k : MarkedBy(k, m, i)' <=> MarkedBy(k, m, i) BY <1>1, SubsKept DEF MarkedBy
    <2> QED BY <1>1, <1>5, <2>1, <2>2, <2>3 DEF TurnInv, TailMarkInv
  <1>11. CurrentInv'
    <2>1. ASSUME ~HasHeader(o) PROVE current_iteration[n] = batch'.iter
      <3>1. PICK j \in Task : /\ NewestOn(j, n) /\ ~sub[j].last /\ sub[j].iter = batch'.iter
        BY <1>6, <2>1
      <3> QED BY <1>3, <1>4, <3>1 DEF TurnInv, CurrentInv
    <2> QED BY <1>1, <1>4, <1>5, <2>1, SubsKept DEF TurnInv, CurrentInv
  <1> QED BY <1>8, <1>9, <1>10, <1>11 DEF TurnInv

LEMMA AcquireTurn ==
  ASSUME TypeOK, PoolInv, ProtocolInv, TurnInv, AcquireIteration
  PROVE  TurnInv'
  <1>0. PICK n : n = NameOf[batch.op] OBVIOUS
  <1>1. /\ n \in Name
        /\ phase \in {"acquire", "woken"} /\ phase' = "schedule"
        /\ ~in_progress[n] /\ in_progress'[n]
        /\ \A m \in Name : m # n => /\ in_progress'[m] = in_progress[m]
                                    /\ current_iteration'[m] = current_iteration[m]
                                    /\ iteration_states'[m] = iteration_states[m]
        /\ current_iteration'[n] = current_iteration[n] + 1
        /\ \A i \in Iter : /\ iteration_states'[n][i] = iteration_states[n][i]
                           \/ ~iteration_states'[n][i].tail
        /\ batch'.op = batch.op
        /\ batch'.iter = current_iteration[n] + 1
        /\ UNCHANGED <<sub, pc, submitted, popped>>
    BY <1>0, AcquireEffect DEF poolVars
  <1>2. \A m : ~Scheduling(m) /\ (Scheduling(m)' <=> m = n) BY <1>0, <1>1 DEF Scheduling
  <1>3. \A k : (Settled(k)' <=> Settled(k)) /\ NameOfTask(k)' = NameOfTask(k)
    BY <1>1 DEF Settled, NameOfTask
  <1>4. InProgressInv' BY <1>1, <1>2, <1>3, SubsKept DEF TurnInv, InProgressInv
  <1>5. SettledInv'
    <2>1. ASSUME NEW j \in Task, j <= submitted, sub[j].tail, NameOfTask(j) = n PROVE Settled(j)
      <3>1. CASE \E k \in Task : j < k /\ OnName(k, n) BY <2>1, <3>1 DEF TurnInv, SettledInv
      <3>2. CASE ~\E k \in Task : j < k /\ OnName(k, n)
        <4>1. \A k \in Task : OnName(k, n) => k <= j BY <3>2, TasksAre
        <4>2. NewestOn(j, n) BY <2>1, <4>1 DEF NewestOn, OnName, NameOfTask
        <4> QED BY <1>0, <4>2, AcquireFollows
      <3> QED BY <3>1, <3>2
    <2> QED BY <1>1, <1>2, <1>3, <2>1, SubsKept DEF TurnInv, SettledInv
  <1>6. TailMarkInv'
    <2>1. \A i \in Iter : ~TailMarked(n, i) BY <1>1 DEF TurnInv, TailMarkInv
    <2>2. \A i \in Iter : ~TailMarked(n, i)' BY <1>1, <2>1 DEF TailMarked
    <2>3. \A m \in Name : \A i \in Iter : TailMarked(m, i)' => m # n /\ TailMarked(m, i)
      BY <1>1, <2>2 DEF TailMarked
    <2>4. \A m, i, k : MarkedBy(k, m, i)' <=> MarkedBy(k, m, i) BY <1>1, SubsKept DEF MarkedBy
    <2> QED BY <1>1, <1>2, <2>3, <2>4 DEF TurnInv, TailMarkInv
  <1>7. CurrentInv' BY <1>1, <1>2, SubsKept DEF TurnInv, CurrentInv
  <1> QED BY <1>4, <1>5, <1>6, <1>7 DEF TurnInv

LEMMA SubmitTurn ==
  ASSUME TypeOK, PoolInv, TurnInv, Submit
  PROVE  TurnInv'
  <1>0. PICK t, n : t = submitted + 1 /\ n = NameOf[batch.op] OBVIOUS
  <1>1. /\ t \in Task /\ sub'[t] = batch /\ pc'[t] = "queued"
        /\ \A k \in Task : k # t => sub'[k] = sub[k] /\ pc'[k] = pc[k]
        /\ \A k \in Task : k <= submitted => k # t
        /\ \A k \in Task : k <= submitted' <=> k <= submitted \/ k = t
        /\ phase = "schedule" /\ phase' = "idle"
        /\ n \in Name /\ submitted \in Int
        /\ UNCHANGED <<in_progress, current_iteration, iteration_states, popped>>
        /\ \A k \in Task : \A m : OnName(k, m)' <=> OnName(k, m) \/ (k = t /\ m = n)
        /\ \A k \in Task : \A m : NewestOn(k, m)' <=> IF m = n THEN k = t ELSE NewestOn(k, m)
    BY <1>0, SubmitAdds DEF syncVars
  <1>2. \A m : ~Scheduling(m)' /\ (Scheduling(m) <=> m = n) BY <1>0, <1>1 DEF Scheduling
  <1>3. \A k \in Task : k # t => (Settled(k)' <=> Settled(k)) /\ NameOfTask(k)' = NameOfTask(k)
    BY <1>1 DEF Settled, NameOfTask
  <1>4. \A k \in Task : \A m : NewestOn(k, m) => k # t BY <1>1 DEF NewestOn, OnName
  <1>5. InProgressInv'
    <2>1. in_progress[n] BY <1>1, <1>2 DEF TurnInv, InProgressInv
    <2> QED BY <1>1, <1>2, <1>3, <1>4, <2>1 DEF TurnInv, InProgressInv
  <1>6. SettledInv'
    <2> SUFFICES ASSUME NEW j \in Task, j <= submitted', sub'[j].tail,
                        NEW k \in Task, j < k, OnName(k, NameOfTask(j))'
                 PROVE  Settled(j)'
      BY <1>2 DEF SettledInv
    <2>1. j # t
      <3>1. k <= submitted' BY DEF OnName
      <3> QED BY <1>0, <1>1, <3>1, TasksAre
    <2>2. j <= submitted /\ sub[j].tail /\ OnName(k, NameOfTask(j))' BY <1>1, <2>1
    <2>3. NameOfTask(j)' = NameOfTask(j) BY <1>3, <2>1
    <2>4. OnName(k, NameOfTask(j)) \/ NameOfTask(j) = n BY <1>1, <2>2, <2>3
    <2>5. Settled(j) BY <1>2, <2>2, <2>4 DEF TurnInv, SettledInv
    <2> QED BY <1>3, <2>1, <2>5
  <1>7. TailMarkInv'
    <2>1. \A m \in Name : \A i \in Iter : TailMarked(m, i)' => m # n /\ TailMarked(m, i)
      BY <1>1, <1>2 DEF TurnInv, TailMarkInv, TailMarked
    <2>2. ASSUME NEW m \in Name, NEW i \in Iter, TailMarked(m, i)'
          PROVE  \E k \in Task : MarkedBy(k, m, i)'
      <3>1. PICK k \in Task : MarkedBy(k, m, i) BY <2>1, <2>2 DEF TurnInv, TailMarkInv
      <3> QED BY <1>1, <1>4, <2>1, <2>2, <3>1 DEF MarkedBy
    <2>3. \A k \in Task : pc'[k] = "release" => sub'[k].tail /\ ~sub'[k].last
      BY <1>1 DEF TurnInv, TailMarkInv
    <2>4. \A m \in Name : \A i \in Iter : TailMarked(m, i)' => in_progress'[m]
      BY <1>1, <2>1 DEF TurnInv, TailMarkInv
    <2> QED BY <1>2, <2>2, <2>3, <2>4 DEF TailMarkInv
  <1>8. CurrentInv'
    <2>1. current_iteration[n] = batch.iter BY <1>1, <1>2 DEF TurnInv, CurrentInv
    <2>2. \A m : NoneOn(m)' => NoneOn(m) /\ m # n BY <1>1 DEF NoneOn
    <2>3. "queued" \notin Erased BY DEF Erased
    <2> QED BY <1>1, <1>2, <1>4, <2>1, <2>2, <2>3 DEF TurnInv, CurrentInv
  <1> QED BY <1>5, <1>6, <1>7, <1>8 DEF TurnInv


\* A task that has not settled its iteration is the newest one on its name, and
\* holds the name.
LEMMA HoldsName ==
  ASSUME TypeOK, TurnInv, NEW k \in Task, k <= submitted, sub[k].tail, ~Settled(k),
         NEW n, n = NameOfTask(k)
  PROVE  n \in Name /\ NewestOn(k, n) /\ in_progress[n] /\ ~Scheduling(n)
  <1>1. \A j \in Task : OnName(j, n) => ~(k < j) BY DEF TurnInv, SettledInv
  <1>2. \A j \in Task : OnName(j, n) => j <= k BY <1>1, TasksAre
  <1>3. NewestOn(k, n) BY <1>2 DEF NewestOn, OnName, NameOfTask
  <1>4. n \in Name BY TasksAre
  <1> QED BY <1>3, <1>4 DEF TurnInv, SettledInv, InProgressInv

\* The steps that leave the names alone.
LEMMA PlainTurn ==
  ASSUME TypeOK, PoolInv, LastIsLast, TurnInv, NEW k \in Task,
         \/ StartTask(k) \/ PublishHeader(k) \/ CompleteHeaderGate(k) \/ WaitForHeaderGate(k)
         \/ PublishData(k) \/ DataCompleted(k) \/ WaitDataDrained(k) \/ PublishTail(k)
         \/ RemoveSnapshotNotify(k) \/ RemoveSnapshotDestroy(k) \/ FulfilRemoval(k)
  PROVE  TurnInv'
  <1>0. TaskStep(k) BY DEF TaskStep
  <1>1. /\ UNCHANGED <<batch, sub, submitted, popped>>
        /\ phase' = "schedule" <=> phase = "schedule"
        /\ \A j \in Task : j # k => pc'[j] = pc[j]
        /\ k <= submitted
    BY <1>0, TaskMoves
  <1>2. UNCHANGED <<in_progress, current_iteration>>
    BY DEF StartTask, PublishHeader, CompleteHeaderGate, WaitForHeaderGate, PublishData,
           DataCompleted, WaitDataDrained, PublishTail, RemoveSnapshotNotify,
           RemoveSnapshotDestroy, FulfilRemoval, syncVars
  <1>3. \/ /\ pc[k] \in {"start", "header", "gate", "await", "data", "counted", "drain", "tail"}
           /\ pc'[k] \in {"header", "gate", "await", "data", "counted", "drain", "tail", "mark"}
        \/ /\ pc[k] \in {"start", "header", "gate", "await", "data", "counted", "drain", "tail"}
           /\ pc'[k] = "finish" /\ ~sub[k].tail
        \/ pc[k] = "notify" /\ pc'[k] = "erase"
        \/ /\ pc[k] \in {"destroy", "promise"}
           /\ pc'[k] \in {"promise", "finish"}
    BY DEF StartTask, PublishHeader, CompleteHeaderGate, WaitForHeaderGate, PublishData,
           DataCompleted, WaitDataDrained, PublishTail, RemoveSnapshotNotify,
           RemoveSnapshotDestroy, FulfilRemoval, Goto, AfterStart, AfterHeader, AfterData, TypeOK
  <1>4. ~sub[k].tail => ~sub[k].last BY <1>1 DEF LastIsLast
  <1>5. \A j \in Task : Ripens(j) BY <1>1, <1>3, <1>4 DEF Ripens, Settled, Erased
  <1>6. InProgressInv' /\ SettledInv' /\ CurrentInv' BY <1>1, <1>2, <1>5, SettledKept DEF TurnInv
  <1>7. ASSUME NEW n \in Name, NEW i \in Iter, TailMarked(n, i)' PROVE TailMarked(n, i)
    <2>1. CASE UNCHANGED iteration_states BY <1>7, <2>1 DEF TailMarked
    <2>2. CASE StartTask(k)
      <3>1. SetState(k, Count(StateOf(k), 1)) BY <2>2 DEF StartTask
      <3>2. NameOfTask(k) \in Name /\ sub[k].iter \in Iter
        <4>1. pc[k] = "start" BY <2>2 DEF StartTask
        <4>2. sub[k].iter # 0 BY <4>1 DEF PoolInv, Sections
        <4> QED BY <4>2, TaskType
      <3>3. CASE n = NameOfTask(k) /\ i = sub[k].iter
        BY <1>7, <3>1, <3>2, <3>3 DEF SetState, StateOf, Count, TailMarked, TypeOK
      <3>4. CASE ~(n = NameOfTask(k) /\ i = sub[k].iter)
        BY <1>7, <3>1, <3>2, <3>4 DEF SetState, TailMarked, TypeOK
      <3> QED BY <3>3, <3>4
    <2> QED BY <2>1, <2>2
          DEF PublishHeader, CompleteHeaderGate, WaitForHeaderGate, PublishData, DataCompleted,
              WaitDataDrained, PublishTail, RemoveSnapshotNotify, RemoveSnapshotDestroy,
              FulfilRemoval, syncVars
  <1>8. TailMarkInv'
    <2>1. \A j \in Task : pc'[j] = "release" => sub[j].tail /\ ~sub[j].last
      BY <1>1, <1>3 DEF TurnInv, TailMarkInv
    <2>2. popped' \in Int /\ popped <= popped' BY <1>1, TasksAre
    <2>3. \A j \in Task : pc[j] \in {"notify", "erase"} /\ j # k => pc'[j] \in {"notify", "erase"}
      BY <1>1
    <2>4. pc[k] \in {"notify", "erase"} => pc'[k] \in {"notify", "erase"} BY <1>3
    <2> QED BY <1>1, <1>2, <1>7, <2>1, <2>2, <2>3, <2>4, TailMarkKept DEF TurnInv
  <1> QED BY <1>6, <1>8 DEF TurnInv

LEMMA MarkTurn ==
  ASSUME TypeOK, PoolInv, LastIsLast, TurnInv, NEW k \in Task, MarkTailProcessed(k)
  PROVE  TurnInv'
  <1>0. PICK n : n = NameOfTask(k) OBVIOUS
  <1>1. /\ UNCHANGED <<batch, sub, submitted, popped>>
        /\ phase' = "schedule" <=> phase = "schedule"
        /\ \A j \in Task : j # k => pc'[j] = pc[j]
        /\ k <= submitted /\ k <= popped
    BY TaskMoves DEF TaskStep
  <1>2. /\ pc[k] = "mark" /\ UNCHANGED <<in_progress, current_iteration>>
        /\ pc'[k] = IF sub[k].last THEN "notify" ELSE "finish"
        /\ SetState(k, MarkTail(StateOf(k)))
    BY DEF MarkTailProcessed, Goto, AfterTail, TypeOK
  <1>3. sub[k].tail /\ sub[k].iter # 0 BY <1>2 DEF PoolInv, Sections
  <1>4. n \in Name /\ sub[k].iter \in Iter BY <1>0, <1>3, TaskType
  <1>5. NewestOn(k, n) /\ in_progress[n] /\ ~Scheduling(n)
    <2>1. ~Settled(k) BY <1>2 DEF Settled, Erased
    <2> QED BY <1>0, <1>1, <1>3, <2>1, HoldsName
  <1>6. \A j \in Task : Ripens(j) BY <1>1, <1>2 DEF Ripens, Settled, Erased
  <1>7. InProgressInv' /\ SettledInv' /\ CurrentInv' BY <1>1, <1>2, <1>6, SettledKept DEF TurnInv
  <1>8. ASSUME NEW m \in Name, NEW i \in Iter, TailMarked(m, i)'
        PROVE  in_progress'[m] /\ ~Scheduling(m)' /\ \E j \in Task : MarkedBy(j, m, i)'
    <2>1. CASE m = n /\ i = sub[k].iter
      <3>1. MarkedBy(k, m, i)' BY <1>1, <1>2, <1>3, <1>5, <2>1, SubsKept DEF MarkedBy
      <3> QED BY <1>1, <1>2, <1>5, <2>1, <3>1 DEF Scheduling
    <2>2. CASE ~(m = n /\ i = sub[k].iter)
      <3>1. TailMarked(m, i)
        BY <1>0, <1>2, <1>4, <1>8, <2>2 DEF SetState, TailMarked, TypeOK
      <3>2. PICK j \in Task : MarkedBy(j, m, i) BY <3>1 DEF TurnInv, TailMarkInv
      <3>3. j # k
        <4>1. NameOf[sub[j].op] = m /\ sub[j].iter = i BY <3>2 DEF MarkedBy, NewestOn, OnName
        <4> QED BY <1>0, <2>2, <4>1 DEF NameOfTask
      <3>4. MarkedBy(j, m, i)' BY <1>1, <3>2, <3>3, SubsKept DEF MarkedBy
      <3>5. in_progress[m] /\ ~Scheduling(m) BY <3>1 DEF TurnInv, TailMarkInv
      <3> QED BY <1>1, <1>2, <3>4, <3>5 DEF Scheduling
    <2> QED BY <2>1, <2>2
  <1>9. \A j \in Task : pc'[j] = "release" => sub'[j].tail /\ ~sub'[j].last
    BY <1>1, <1>2 DEF TurnInv, TailMarkInv
  <1> QED BY <1>7, <1>8, <1>9 DEF TurnInv, TailMarkInv

LEMMA FinishTurn ==
  ASSUME TypeOK, PoolInv, NameFifo, TurnInv, NEW k \in Task, FinishTask(k)
  PROVE  TurnInv'
  <1>0. PICK n : n = NameOfTask(k) OBVIOUS
  <1>1. /\ UNCHANGED <<batch, sub, submitted, popped>>
        /\ phase' = "schedule" <=> phase = "schedule"
        /\ \A j \in Task : j # k => pc'[j] = pc[j]
        /\ k <= submitted
    BY TaskMoves DEF TaskStep
  <1>2. /\ pc[k] = "finish" /\ UNCHANGED <<in_progress, current_iteration>>
        /\ SetState(k, Count(StateOf(k), -1))
        /\ pc'[k] \in {"release", "done"}
        /\ pc'[k] = "release" => StateOf(k).live /\ StateOf(k).tail
    BY DEF FinishTask, Goto, TypeOK
  <1>3. n \in Name /\ sub[k].iter \in Iter
    <2>1. sub[k].iter # 0 BY <1>2 DEF PoolInv, Sections
    <2> QED BY <1>0, <2>1, TaskType
  <1>4. ASSUME pc'[k] = "release" PROVE sub[k].tail /\ ~sub[k].last
    <2>1. TailMarked(n, sub[k].iter) BY <1>0, <1>2, <1>4 DEF StateOf, TailMarked
    <2>2. PICK j \in Task : MarkedBy(j, n, sub[k].iter) BY <1>3, <2>1 DEF TurnInv, TailMarkInv
    <2>3. k <= j /\ j <= popped
      <3>1. OnName(k, n) BY <1>0, <1>1 DEF OnName, NameOfTask
      <3> QED BY <2>2, <3>1 DEF MarkedBy, NewestOn
    <2>4. NameOfTask(j) = NameOfTask(k) BY <1>0, <2>2 DEF MarkedBy, NewestOn, OnName, NameOfTask
    <2>5. ~(k < j) BY <1>2, <2>3, <2>4 DEF NameFifo
    <2>6. j = k BY <2>3, <2>5, TasksAre
    <2> QED BY <1>2, <2>2, <2>6 DEF MarkedBy
  <1>5. \A j \in Task : Ripens(j) BY <1>1, <1>2, <1>4 DEF Ripens, Settled, Erased
  <1>6. InProgressInv' /\ SettledInv' /\ CurrentInv' BY <1>1, <1>2, <1>5, SettledKept DEF TurnInv
  <1>7. ASSUME NEW m \in Name, NEW i \in Iter, TailMarked(m, i)' PROVE TailMarked(m, i)
    <2>1. CASE m = n /\ i = sub[k].iter
      BY <1>0, <1>2, <1>3, <1>7, <2>1 DEF SetState, StateOf, Count, TailMarked, TypeOK
    <2>2. CASE ~(m = n /\ i = sub[k].iter)
      BY <1>0, <1>2, <1>3, <1>7, <2>2 DEF SetState, TailMarked, TypeOK
    <2> QED BY <2>1, <2>2
  <1>8. TailMarkInv'
    <2>1. \A j \in Task : pc'[j] = "release" => sub[j].tail /\ ~sub[j].last
      BY <1>1, <1>4 DEF TurnInv, TailMarkInv
    <2>2. popped' \in Int /\ popped <= popped' BY <1>1, TasksAre
    <2>3. \A j \in Task : pc[j] \in {"notify", "erase"} => pc'[j] \in {"notify", "erase"}
      BY <1>1, <1>2
    <2> QED BY <1>1, <1>2, <1>7, <2>1, <2>2, <2>3, TailMarkKept DEF TurnInv
  <1> QED BY <1>6, <1>8 DEF TurnInv

LEMMA EraseTurn ==
  ASSUME TypeOK, PoolInv, TurnInv, NEW k \in Task, RemoveSnapshotErase(k)
  PROVE  TurnInv'
  <1>0. PICK n : n = NameOfTask(k) OBVIOUS
  <1>1. /\ UNCHANGED <<batch, phase, sub, submitted, popped>>
        /\ \A j \in Task : j # k => pc'[j] = pc[j]
        /\ k <= submitted
    BY TaskMoves DEF TaskStep, RemoveSnapshotErase, scanVars
  <1>2. /\ pc[k] = "erase" /\ pc'[k] = "destroy"
        /\ current_iteration' = [current_iteration EXCEPT ![n] = 0]
        /\ in_progress' = [in_progress EXCEPT ![n] = FALSE]
        /\ iteration_states' = [iteration_states EXCEPT ![n] = [i \in Iter |-> NoIterState]]
    BY <1>0 DEF RemoveSnapshotErase, Goto, TypeOK
  <1>3. sub[k].tail /\ sub[k].last BY <1>2 DEF PoolInv, Sections
  <1>4. n \in Name /\ NewestOn(k, n) /\ ~Scheduling(n)
    <2>1. ~Settled(k) BY <1>2 DEF Settled, Erased
    <2> QED BY <1>0, <1>1, <1>3, <2>1, HoldsName
  <1>5. \A m : Scheduling(m)' <=> Scheduling(m) BY <1>1 DEF Scheduling
  <1>6. \A j \in Task : NewestOn(j, n) => j = k BY <1>4, NewestUnique
  <1>7. \A m \in Name : \A j \in Task : NewestOn(j, m) /\ m # n => j # k
    BY <1>0 DEF NewestOn, OnName, NameOfTask
  <1>8. \A m \in Name : m # n => /\ current_iteration'[m] = current_iteration[m]
                                 /\ in_progress'[m] = in_progress[m]
                                 /\ iteration_states'[m] = iteration_states[m]
    BY <1>2 DEF TypeOK
  <1>9. current_iteration'[n] = 0 /\ ~in_progress'[n] BY <1>2, <1>4 DEF TypeOK
  <1>10. /\ Settled(k)'
         /\ \A j \in Task : j # k => (Settled(j)' <=> Settled(j))
         /\ \A j : NameOfTask(j)' = NameOfTask(j)
    BY <1>1, <1>2, <1>3 DEF Settled, Erased, NameOfTask
  <1>11. InProgressInv'
    BY <1>1, <1>3, <1>4, <1>5, <1>6, <1>7, <1>8, <1>10, SubsKept DEF TurnInv, InProgressInv
  <1>12. SettledInv' BY <1>1, <1>5, <1>10, SubsKept DEF TurnInv, SettledInv
  <1>13. TailMarkInv'
    <2>1. \A i \in Iter : ~TailMarked(n, i)' BY <1>2, <1>4 DEF TailMarked, NoIterState, TypeOK
    <2>2. \A m \in Name : \A i \in Iter : TailMarked(m, i)' => m # n /\ TailMarked(m, i)
      BY <1>8, <2>1 DEF TailMarked
    <2>3. \A m \in Name : \A i \in Iter : \A j \in Task :
            m # n /\ MarkedBy(j, m, i) => MarkedBy(j, m, i)'
      BY <1>1, <1>7, SubsKept DEF MarkedBy
    <2>4. \A j \in Task : pc'[j] = "release" => sub'[j].tail /\ ~sub'[j].last
      BY <1>1, <1>2 DEF TurnInv, TailMarkInv
    <2> QED BY <1>5, <1>8, <2>2, <2>3, <2>4 DEF TurnInv, TailMarkInv
  <1>14. CurrentInv'
    <2>1. "destroy" \in Erased BY DEF Erased
    <2>2. ASSUME NEW m \in Name
          PROVE  /\ Scheduling(m)' => current_iteration'[m] = batch'.iter
                 /\ ~Scheduling(m)' /\ NoneOn(m)' => current_iteration'[m] = 0
                 /\ ~Scheduling(m)' => \A j \in Task : NewestOn(j, m)' =>
                      current_iteration'[m] = IF sub'[j].last /\ pc'[j] \in Erased THEN 0
                                              ELSE sub'[j].iter
      <3>1. CASE m = n
        BY <1>1, <1>2, <1>3, <1>4, <1>5, <1>6, <1>9, <2>1, <3>1, SubsKept
      <3>2. CASE m # n
        <4>1. \A j \in Task : NewestOn(j, m)' => NewestOn(j, m) /\ pc'[j] = pc[j] /\ sub'[j] = sub[j]
          BY <1>1, <1>7, <3>2, SubsKept
        <4> QED BY <1>1, <1>5, <1>8, <3>2, <4>1, SubsKept DEF TurnInv, CurrentInv
      <3> QED BY <3>1, <3>2
    <2> QED BY <2>2 DEF CurrentInv
  <1> QED BY <1>11, <1>12, <1>13, <1>14 DEF TurnInv

LEMMA ReleaseTurn ==
  ASSUME TypeOK, PoolInv, TurnInv, NEW k \in Task, ReleaseLock(k)
  PROVE  TurnInv'
  <1>0. PICK n : n = NameOfTask(k) OBVIOUS
  <1>1. /\ UNCHANGED <<batch, sub, submitted, popped>>
        /\ phase' = "schedule" <=> phase = "schedule"
        /\ \A j \in Task : j # k => pc'[j] = pc[j]
        /\ k <= submitted
    BY TaskMoves DEF TaskStep
  <1>2. pc[k] = "release" /\ pc'[k] = "done" /\ UNCHANGED current_iteration
    BY DEF ReleaseLock, Goto, TypeOK
  <1>3. sub[k].tail /\ ~sub[k].last BY <1>2 DEF TurnInv, TailMarkInv
  <1>4. n \in Name /\ NewestOn(k, n) /\ ~Scheduling(n) /\ sub[k].iter \in Iter
    <2>1. ~Settled(k) BY <1>2, <1>3 DEF Settled
    <2>2. sub[k].iter # 0 BY <1>2 DEF PoolInv, Sections
    <2> QED BY <1>0, <1>1, <1>3, <2>1, <2>2, HoldsName, TaskType
  <1>5. \A j \in Task : Ripens(j) BY <1>1, <1>2, <1>3 DEF Ripens, Settled, Erased
  <1>6. \A j \in Task : pc'[j] = "release" => sub[j].tail /\ ~sub[j].last
    BY <1>1, <1>2 DEF TurnInv, TailMarkInv
  <1>7. \A j \in Task : pc[j] \in {"notify", "erase"} => pc'[j] = pc[j] BY <1>1, <1>2
  <1>8. CASE ~has_cv[n]
    <2>1. UNCHANGED <<in_progress, iteration_states>> BY <1>0, <1>8 DEF ReleaseLock
    <2>2. InProgressInv' /\ SettledInv' /\ CurrentInv'
      BY <1>1, <1>2, <1>5, <2>1, SettledKept DEF TurnInv
    <2>3. \A m, i : TailMarked(m, i)' <=> TailMarked(m, i) BY <2>1 DEF TailMarked
    <2>4. popped' \in Int /\ popped <= popped' BY <1>1, TasksAre
    <2>5. TailMarkInv' BY <1>1, <1>6, <1>7, <2>1, <2>3, <2>4, TailMarkKept DEF TurnInv
    <2> QED BY <2>2, <2>5 DEF TurnInv
  <1>9. CASE has_cv[n]
    <2>1. /\ in_progress' = [in_progress EXCEPT ![n] = FALSE]
          /\ iteration_states' = [iteration_states EXCEPT ![n][sub[k].iter] = NoIterState]
      BY <1>0, <1>9 DEF ReleaseLock
    <2>2. \A m : Scheduling(m)' <=> Scheduling(m) BY <1>1 DEF Scheduling
    <2>3. \A j \in Task : NewestOn(j, n) => j = k BY <1>4, NewestUnique
    <2>4. \A m \in Name : m # n => in_progress'[m] = in_progress[m] BY <2>1 DEF TypeOK
    <2>5. /\ Settled(k)'
          /\ \A j \in Task : j # k => (Settled(j)' <=> Settled(j))
          /\ \A j : NameOfTask(j)' = NameOfTask(j)
      BY <1>1, <1>2 DEF Settled, NameOfTask
    <2>6. \A m \in Name : \A j \in Task : NewestOn(j, m) /\ m # n => j # k
      BY <1>0 DEF NewestOn, OnName, NameOfTask
    <2>7. InProgressInv'
      BY <1>1, <1>3, <1>4, <2>2, <2>3, <2>4, <2>5, <2>6, SubsKept DEF TurnInv, InProgressInv
    <2>8. SettledInv' BY <1>1, <2>2, <2>5, SubsKept DEF TurnInv, SettledInv
    <2>9. CurrentInv' BY <1>1, <1>2, <1>5, <2>2, SubsKept DEF TurnInv, CurrentInv, NewestOn, OnName, Ripens
    <2>10. TailMarkInv'
      <3>1. ASSUME NEW m \in Name, NEW i \in Iter, TailMarked(m, i)'
            PROVE  in_progress'[m] /\ ~Scheduling(m)' /\ \E j \in Task : MarkedBy(j, m, i)'
        <4>1. ~(m = n /\ i = sub[k].iter)
          BY <1>4, <2>1, <3>1 DEF TailMarked, NoIterState, TypeOK
        <4>2. TailMarked(m, i) BY <1>4, <2>1, <3>1, <4>1 DEF TailMarked, TypeOK
        <4>3. PICK j \in Task : MarkedBy(j, m, i) BY <4>2 DEF TurnInv, TailMarkInv
        <4>4. m # n BY <2>3, <4>1, <4>3 DEF MarkedBy
        <4>5. j # k BY <2>6, <4>3, <4>4 DEF MarkedBy
        <4>6. MarkedBy(j, m, i)' BY <1>1, <4>3, <4>5, SubsKept DEF MarkedBy
        <4>7. in_progress[m] /\ ~Scheduling(m) BY <4>2 DEF TurnInv, TailMarkInv
        <4> QED BY <2>2, <2>4, <4>4, <4>6, <4>7
      <3> QED BY <1>1, <1>6, <3>1 DEF TailMarkInv
    <2> QED BY <2>7, <2>8, <2>9, <2>10 DEF TurnInv
  <1> QED BY <1>8, <1>9

LEMMA NextTurn ==
  ASSUME TypeOK, PoolInv, NameFifo, LastInv, ProtocolInv, TurnInv, [Next]_vars
  PROVE  TurnInv'
  <1>0. LastIsLast BY DEF LastInv
  <1>1. ASSUME NEW o \in Op, StartSnapshot(o) \/ TriggerSnapshot(o) \/ StopSnapshot(o) PROVE TurnInv'
    <2>1. UNCHANGED <<batch, phase, in_progress, current_iteration, iteration_states,
                      sub, pc, submitted, popped>>
      BY <1>1 DEF StartSnapshot, TriggerSnapshot, StopSnapshot, scanVars, syncVars, poolVars
    <2> QED BY <2>1, CommandTurn
  <1>2. CASE \E o \in Op : Expire(o) BY <1>0, <1>2, ExpireTurn
  <1>3. CASE AcquireIteration BY <1>3, AcquireTurn
  <1>4. CASE Submit BY <1>4, SubmitTurn
  <1>5. ASSUME NEW k \in Task, TaskStep(k) PROVE TurnInv'
    BY <1>0, <1>5, PlainTurn, MarkTurn, EraseTurn, FinishTurn, ReleaseTurn DEF TaskStep
  <1>6. CASE Pop BY <1>6, PopTurn
  <1>7. CASE WaitIteration \/ SpuriousWakeup
    <2>1. /\ UNCHANGED <<batch, in_progress, current_iteration, iteration_states,
                         sub, pc, submitted, popped>>
          /\ phase # "schedule" /\ phase' # "schedule"
      BY <1>7 DEF WaitIteration, SpuriousWakeup, poolVars, syncVars
    <2> QED BY <2>1, CommandTurn
  <1>8. CASE UNCHANGED vars
    <2>1. UNCHANGED <<batch, phase, in_progress, current_iteration, iteration_states,
                      sub, pc, submitted, popped>>
      BY <1>8 DEF vars, scanVars, syncVars, poolVars
    <2> QED BY <2>1, CommandTurn
  <1> QED BY NextCases, <1>1, <1>2, <1>3, <1>4, <1>5, <1>6, <1>7, <1>8


-----------------------------------------------------------------------------
(* The topic. *)

LEMMA InitTopic == Init => TopicInv
  <1> SUFFICES ASSUME Init PROVE TopicInv
    OBVIOUS
  <1>1. \A k \in Task : ~(k <= submitted) BY DEF Init, Task
  <1> QED BY <1>1 DEF TopicInv, OnName, Init

\* Reached depends on the topic, the submission and where its task is.
Past(k) == sub[k].tail /\ pc[k] \in AfterTailOut

LEMMA ReachedKept ==
  ASSUME NEW k \in Task, NEW n \in Name, topic'[n] = topic[n], sub'[k] = sub[k],
         BeforeHeader(k)' <=> BeforeHeader(k), Past(k)' <=> Past(k), Reached(k, n)
  PROVE  Reached(k, n)'
  BY DEF Reached, Past, Readers!IsOpen, Readers!Newest, Readers!NextIter

LEMMA PoppedUnique ==
  ASSUME NEW n, NEW j \in Task, NEW k \in Task, NewestPopped(j, n), NewestPopped(k, n)
  PROVE  j = k
  <1>1. j \in Int /\ k \in Int BY DEF Task
  <1>2. j <= k /\ k <= j BY DEF NewestPopped
  <1> QED BY <1>1, <1>2

LEMMA RunnerReached ==
  ASSUME TypeOK, PoolInv, NameFifo, TopicInv, NEW k \in Task, TaskStep(k), NEW n, n = NameOfTask(k)
  PROVE  n \in Name /\ NewestPopped(k, n) /\ Reached(k, n)
  <1>1. k <= popped /\ k <= submitted /\ pc[k] # "done" BY TaskMoves
  <1>2. n \in Name BY TasksAre
  <1>3. OnName(k, n) BY <1>1 DEF OnName, NameOfTask
  <1>4. NewestPopped(k, n)
    <2> SUFFICES ASSUME NEW j \in Task, OnName(j, n), j <= popped PROVE j <= k
      BY <1>1, <1>3 DEF NewestPopped
    <2>1. NameOfTask(k) = NameOfTask(j) BY DEF OnName, NameOfTask
    <2>2. ~(k < j) BY <1>1, <2>1 DEF NameFifo
    <2> QED BY <2>2, TasksAre
  <1>5. ~(k > popped) BY <1>1, TasksAre
  <1>6. PICK j \in Task : NewestPopped(j, n) /\ Reached(j, n) BY <1>2, <1>3, <1>5 DEF TopicInv
  <1>7. j = k BY <1>4, <1>6, PoppedUnique
  <1> QED BY <1>2, <1>4, <1>6, <1>7

\* A step of a task that keeps up with the topic of its name leaves the others
\* alone.
LEMMA TaskTopic ==
  ASSUME TypeOK, PoolInv, NameFifo, TopicInv, NEW k \in Task, TaskStep(k), NEW n, n = NameOfTask(k),
         \A m \in Name : m # n => topic'[m] = topic[m],
         Reached(k, n)'
  PROVE  TopicInv'
  <1>1. /\ UNCHANGED <<sub, submitted, popped>>
        /\ \A j \in Task : j # k => pc'[j] = pc[j]
    BY TaskMoves
  <1>2. \A j, m : NewestPopped(j, m)' <=> NewestPopped(j, m)
    BY <1>1, SubsKept DEF NewestPopped
  <1>3. NewestPopped(k, n) BY RunnerReached
  <1> SUFFICES ASSUME NEW m \in Name
               PROVE  \/ topic'[m] = <<>> /\ \A j \in Task : OnName(j, m)' => j > popped'
                      \/ \E j \in Task : NewestPopped(j, m)' /\ Reached(j, m)'
    BY DEF TopicInv
  <1>4. CASE m = n BY <1>2, <1>3, <1>4
  <1>5. CASE m # n
    <2>1. CASE topic[m] = <<>> /\ \A j \in Task : OnName(j, m) => j > popped
      BY <1>1, <1>5, <2>1, SubsKept
    <2>2. ASSUME NEW j \in Task, NewestPopped(j, m), Reached(j, m)
          PROVE  NewestPopped(j, m)' /\ Reached(j, m)'
      <3>1. j # k BY <1>5, <2>2 DEF NewestPopped, OnName, NameOfTask
      <3>2. /\ sub'[j] = sub[j] /\ (BeforeHeader(j)' <=> BeforeHeader(j))
            /\ (Past(j)' <=> Past(j))
        BY <1>1, <3>1 DEF BeforeHeader, Past
      <3> QED BY <1>2, <1>5, <2>2, <3>2, ReachedKept
    <2> QED BY <2>1, <2>2 DEF TopicInv
  <1> QED BY <1>4, <1>5

\* What is handed to the publisher becomes the newest message of the topic.
LEMMA PublishNewest ==
  ASSUME TypeOK, NEW k \in Task, NEW p \in {"header", "data", "tail"}, sub[k].iter \in Iter,
         Publish(k, p), NEW n, n = NameOfTask(k)
  PROVE  /\ topic'[n] # <<>>
         /\ Readers!Newest(n)' = [op |-> sub[k].op, iter |-> sub[k].iter, part |-> p]
         /\ \A m \in Name : m # n => topic'[m] = topic[m]
  <1>1. /\ \A m \in Name : m # n => topic'[m] = topic[m]
        /\ DOMAIN topic'[n] = 1 .. Len(topic[n]) + 1
        /\ Len(topic'[n]) = Len(topic[n]) + 1
        /\ Is(topic'[n][Len(topic[n]) + 1], sub[k].op, sub[k].iter, p)
    BY PublishFrame
  <1>2. n \in Name BY TasksAre
  <1>3. Len(topic[n]) \in Nat BY <1>2, TopicDomain
  <1>4. topic'[n] # <<>> BY <1>1, <1>3
  <1> QED BY <1>1, <1>4 DEF Is, Readers!Newest

\* The three publishing steps: the topic goes on as its readers expect, and the
\* task has published what it stands after.
LEMMA PublishStep ==
  ASSUME TypeOK, PoolInv, NameFifo, TopicInv, NEW k \in Task,
         PublishHeader(k) \/ PublishData(k) \/ PublishTail(k)
  PROVE  Readers!Next /\ TopicInv'
  <1>0. TaskStep(k) BY DEF TaskStep
  <1>1. PICK n : n = NameOfTask(k) OBVIOUS
  <1>2. n \in Name /\ Reached(k, n) BY <1>0, <1>1, RunnerReached
  <1>3. PICK p \in {"header", "data", "tail"} :
          /\ pc[k] = p /\ Publish(k, p) /\ UNCHANGED sub
          /\ pc'[k] = IF p = "header" THEN "gate" ELSE IF p = "data" THEN "counted" ELSE "mark"
    BY DEF PublishHeader, PublishData, PublishTail, Goto, TypeOK
  <1>4. /\ sub[k].iter # 0 /\ (p = "header" => sub[k].header) /\ (p = "tail" => sub[k].tail)
    BY <1>3 DEF PoolInv, Sections
  <1>5. sub[k].iter \in Iter /\ sub[k].op \in Op /\ NameOf[sub[k].op] = n
    BY <1>1, <1>4, TaskType DEF NameOfTask
  <1>6. /\ topic'[n] # <<>>
        /\ Readers!Newest(n)' = [op |-> sub[k].op, iter |-> sub[k].iter, part |-> p]
        /\ \A m \in Name : m # n => topic'[m] = topic[m]
    BY <1>1, <1>3, <1>5, PublishNewest
  <1>7. topic' = [topic EXCEPT ![NameOf[sub[k].op]] =
                    Append(@, [op |-> sub[k].op, iter |-> sub[k].iter, part |-> p])]
    BY <1>3 DEF Publish, NameOfTask
  <1>8. CASE p = "header"
    <2>1. BeforeHeader(k) BY <1>3, <1>4, <1>8 DEF BeforeHeader
    <2>2. ~Readers!IsOpen(n) /\ sub[k].iter = Readers!NextIter(n, sub[k].op)
      BY <1>2, <2>1 DEF Reached
    <2>3. Readers!OpenIteration(sub[k].op)
      BY <1>5, <1>7, <1>8, <2>2 DEF Readers!OpenIteration, Readers!Say
    <2> QED BY <1>0, <1>1, <1>3, <1>5, <1>6, <1>8, <2>3, TaskTopic
          DEF Readers!Next, Reached, BeforeHeader, AfterTailOut
  <1>9. CASE p # "header"
    <2>1. ~BeforeHeader(k) /\ pc[k] \notin AfterTailOut
      BY <1>3, <1>9 DEF BeforeHeader, AfterTailOut
    <2>2. /\ Readers!IsOpen(n)
          /\ Readers!Newest(n).op = sub[k].op /\ Readers!Newest(n).iter = sub[k].iter
      BY <1>2, <2>1 DEF Reached, Readers!IsOpen
    <2>3. p = "data" => Readers!Report(sub[k].op)
      BY <1>5, <1>7, <2>2 DEF Readers!Report, Readers!Say
    <2>4. p = "tail" => Readers!CloseIteration(sub[k].op)
      BY <1>5, <1>7, <2>2 DEF Readers!CloseIteration, Readers!Say
    <2>5. Readers!Next BY <1>3, <1>5, <1>9, <2>3, <2>4 DEF Readers!Next
    <2>6. Reached(k, n)'
      BY <1>3, <1>4, <1>6, <1>9 DEF Reached, BeforeHeader, AfterTailOut
    <2> QED BY <1>0, <1>1, <1>6, <2>5, <2>6, TaskTopic
  <1> QED BY <1>8, <1>9

\* The other steps of a task.
LEMMA SilentStep ==
  ASSUME TypeOK, PoolInv, NameFifo, TopicInv, NEW k \in Task, TaskStep(k),
         ~(PublishHeader(k) \/ PublishData(k) \/ PublishTail(k))
  PROVE  UNCHANGED topic /\ TopicInv'
  <1>1. UNCHANGED topic
    BY DEF TaskStep, StartTask, CompleteHeaderGate, WaitForHeaderGate, DataCompleted,
           WaitDataDrained, MarkTailProcessed, RemoveSnapshotNotify, RemoveSnapshotErase,
           RemoveSnapshotDestroy, FulfilRemoval, FinishTask, ReleaseLock
  <1>2. UNCHANGED sub BY TaskMoves
  <1>3. \/ /\ pc[k] = "start"
           /\ pc'[k] \in {"header", "await", "drain", "finish"}
           /\ pc'[k] = "header" <=> sub[k].header
           /\ pc'[k] = "finish" => ~sub[k].tail
        \/ /\ pc[k] \in {"gate", "await", "counted", "drain"}
           /\ pc'[k] \in {"await", "data", "drain", "tail", "finish"}
           /\ pc'[k] = "finish" => ~sub[k].tail
        \/ /\ pc[k] \in AfterTailOut
           /\ pc'[k] \in AfterTailOut
    BY DEF TaskStep, StartTask, CompleteHeaderGate, WaitForHeaderGate, DataCompleted,
           WaitDataDrained, MarkTailProcessed, RemoveSnapshotNotify, RemoveSnapshotErase,
           RemoveSnapshotDestroy, FulfilRemoval, FinishTask, ReleaseLock, Goto, AfterStart,
           AfterHeader, AfterData, AfterTail, AfterTailOut, TypeOK
  <1>4. (BeforeHeader(k)' <=> BeforeHeader(k)) /\ (Past(k)' <=> Past(k))
    BY <1>2, <1>3 DEF BeforeHeader, Past, AfterTailOut
  <1>5. PICK n : n = NameOfTask(k) OBVIOUS
  <1>6. n \in Name /\ Reached(k, n) BY <1>5, RunnerReached
  <1>7. Reached(k, n)' BY <1>1, <1>2, <1>4, <1>6, ReachedKept
  <1> QED BY <1>1, <1>5, <1>7, TaskTopic

LEMMA PopTopic ==
  ASSUME TypeOK, PoolInv, SequenceInv, TopicInv, Pop, NEW t, t = popped + 1,
         \A j \in Task : j <= popped /\ NameOfTask(j) = NameOfTask(t) => pc[j] = "done"
  PROVE  TopicInv'
  <1>0. PICK n : n = NameOfTask(t) OBVIOUS
  <1>1. /\ t \in Task /\ t <= submitted /\ popped' = t
        /\ sub[t].iter # 0 => pc'[t] = "start"
        /\ \A j \in Task : j # t => pc'[j] = pc[j]
        /\ UNCHANGED <<sub, submitted, topic>>
    BY PopEffect
  <1>2. n \in Name /\ \A j \in Task : j <= popped <=> j < t BY <1>0, <1>1, TasksAre
  <1>3. sub[t].iter \in Iter BY <1>1 DEF SequenceInv
  <1>4. pc'[t] = "start"
    <2>1. sub[t].iter # 0 BY <1>3 DEF Iter
    <2> QED BY <1>1, <2>1
  <1>5. \A j \in Task : j <= popped' <=> j <= popped \/ j = t BY <1>0, <1>1, TasksAre
  <1>6. \A j \in Task : OnName(j, n) /\ j <= popped <=> j < t /\ NameOfTask(j) = n
    BY <1>0, <1>1, <1>2, TasksAre DEF OnName, NameOfTask
  <1>7. NewestPopped(t, n)'
    <2>1. OnName(t, n)' BY <1>0, <1>1 DEF OnName, NameOfTask
    <2>2. \A j \in Task : j <= popped' => j <= t BY <1>1
    <2>3. t <= popped' BY <1>1, <1>5
    <2> QED BY <2>1, <2>2, <2>3 DEF NewestPopped
  <1>8. Reached(t, n)'
    <2>1. CASE topic[n] = <<>> /\ \A j \in Task : OnName(j, n) => j > popped
      <3>1. \A j \in Task : OnName(j, n) => ~(j <= popped) BY <2>1, TasksAre
      <3>2. FirstOn(t) BY <1>0, <1>6, <3>1 DEF FirstOn
      <3>3. sub[t].header /\ sub[t].iter = 1 BY <1>1, <3>2 DEF SequenceInv
      <3> QED BY <1>1, <1>4, <2>1, <3>3
            DEF Reached, BeforeHeader, Readers!IsOpen, Readers!NextIter
    <2>2. ASSUME NEW j \in Task, NewestPopped(j, n), Reached(j, n) PROVE Reached(t, n)'
      <3>1. j < t /\ NameOfTask(j) = n /\ pc[j] = "done"
        BY <1>0, <1>6, <2>2 DEF NewestPopped
      <3>2. Before(j, t)
        <4>1. \A i \in Task : i < t /\ NameOfTask(i) = n => i <= j
          BY <1>6, <2>2 DEF NewestPopped
        <4>2. \A i \in Task : i <= j => ~(j < i) BY TasksAre
        <4> QED BY <1>0, <3>1, <4>1, <4>2 DEF Before
      <3>3. Follows(sub[t], j) BY <1>1, <3>2 DEF SequenceInv
      <3>4. /\ topic[n] # <<>>
            /\ Readers!Newest(n).op = sub[j].op
            /\ Readers!Newest(n).iter = sub[j].iter
            /\ Readers!Newest(n).part = "tail" <=> sub[j].tail
        BY <2>2, <3>1 DEF Reached, BeforeHeader, AfterTailOut
      <3>5. CASE sub[t].header
        <4>1. sub[j].tail /\ sub[t].iter = IF sub[t].op = sub[j].op THEN sub[j].iter + 1 ELSE 1
          BY <3>3, <3>5 DEF Follows
        <4>2. ~Readers!IsOpen(n) BY <3>4, <4>1 DEF Readers!IsOpen
        <4>3. sub[t].iter = Readers!NextIter(n, sub[t].op) BY <3>4, <4>1 DEF Readers!NextIter
        <4>4. BeforeHeader(t)' BY <1>1, <1>4, <3>5 DEF BeforeHeader
        <4>5. ~Readers!IsOpen(n)' /\ sub'[t].iter = Readers!NextIter(n, sub[t].op)'
          BY <1>1, <4>2, <4>3 DEF Readers!IsOpen, Readers!Newest, Readers!NextIter
        <4> QED BY <4>4, <4>5 DEF Reached
      <3>6. CASE ~sub[t].header
        <4>1. sub[t].op = sub[j].op /\ sub[t].iter = sub[j].iter /\ ~sub[j].tail
          BY <3>3, <3>6 DEF Follows
        <4>2. ~BeforeHeader(t)' /\ pc'[t] \notin AfterTailOut
          BY <1>1, <1>4, <3>6 DEF BeforeHeader, AfterTailOut
        <4>3. Readers!Newest(n)' = Readers!Newest(n) BY <1>1 DEF Readers!Newest
        <4> QED BY <1>1, <3>4, <4>1, <4>2, <4>3 DEF Reached
      <3> QED BY <3>5, <3>6
    <2> QED BY <1>2, <2>1, <2>2 DEF TopicInv
  <1>9. ASSUME NEW m \in Name, m # n
        PROVE  \/ topic'[m] = <<>> /\ \A j \in Task : OnName(j, m)' => j > popped'
               \/ \E j \in Task : NewestPopped(j, m)' /\ Reached(j, m)'
    <2>1. ~OnName(t, m) BY <1>0, <1>9 DEF OnName, NameOfTask
    <2>2. CASE topic[m] = <<>> /\ \A j \in Task : OnName(j, m) => j > popped
      <3>1. \A j \in Task : OnName(j, m)' => j > popped'
        <4> SUFFICES ASSUME NEW j \in Task, OnName(j, m)' PROVE j > popped' OBVIOUS
        <4>1. OnName(j, m) BY <1>1, SubsKept
        <4>2. j # t /\ j > popped BY <2>1, <2>2, <4>1
        <4> QED BY <1>0, <1>1, <4>2, TasksAre
      <3> QED BY <1>1, <2>2, <3>1
    <2>3. ASSUME NEW j \in Task, NewestPopped(j, m), Reached(j, m)
          PROVE  NewestPopped(j, m)' /\ Reached(j, m)'
      <3>1. j # t BY <2>1, <2>3 DEF NewestPopped
      <3>2. NewestPopped(j, m)'
        BY <1>1, <1>5, <2>1, <2>3, SubsKept DEF NewestPopped
      <3>3. /\ sub'[j] = sub[j] /\ (BeforeHeader(j)' <=> BeforeHeader(j))
            /\ (Past(j)' <=> Past(j))
        BY <1>1, <3>1 DEF BeforeHeader, Past
      <3> QED BY <1>1, <2>3, <3>2, <3>3, ReachedKept
    <2> QED BY <2>2, <2>3 DEF TopicInv
  <1> QED BY <1>1, <1>7, <1>8, <1>9 DEF TopicInv

LEMMA SubmitTopic == ASSUME TypeOK, PoolInv, TopicInv, Submit PROVE TopicInv'
  <1>0. PICK t, n : t = submitted + 1 /\ n = NameOf[batch.op] OBVIOUS
  <1>1. /\ t \in Task /\ t > popped /\ popped \in Int
        /\ \A k \in Task : k # t => sub'[k] = sub[k] /\ pc'[k] = pc[k]
        /\ UNCHANGED <<popped, topic>>
        /\ \A k \in Task : \A m : OnName(k, m)' <=> OnName(k, m) \/ (k = t /\ m = n)
    BY <1>0, SubmitAdds
  <1>2. \A k \in Task : k <= popped => k # t BY <1>1, TasksAre
  <1>3. \A k \in Task : \A m : OnName(k, m)' /\ k <= popped' <=> OnName(k, m) /\ k <= popped
    BY <1>1, <1>2
  <1>4. \A k \in Task : \A m : NewestPopped(k, m)' <=> NewestPopped(k, m)
    BY <1>3 DEF NewestPopped
  <1> SUFFICES ASSUME NEW m \in Name
               PROVE  \/ topic'[m] = <<>> /\ \A j \in Task : OnName(j, m)' => j > popped'
                      \/ \E j \in Task : NewestPopped(j, m)' /\ Reached(j, m)'
    BY DEF TopicInv
  <1>5. CASE topic[m] = <<>> /\ \A j \in Task : OnName(j, m) => j > popped
    BY <1>1, <1>5
  <1>6. ASSUME NEW j \in Task, NewestPopped(j, m), Reached(j, m)
        PROVE  NewestPopped(j, m)' /\ Reached(j, m)'
    <2>1. j # t BY <1>2, <1>6 DEF NewestPopped
    <2>2. /\ sub'[j] = sub[j] /\ (BeforeHeader(j)' <=> BeforeHeader(j)) /\ (Past(j)' <=> Past(j))
      BY <1>1, <2>1 DEF BeforeHeader, Past
    <2> QED BY <1>1, <1>4, <1>6, <2>2, ReachedKept
  <1> QED BY <1>5, <1>6 DEF TopicInv

LEMMA TopicUntouched ==
  ASSUME TopicInv, UNCHANGED <<sub, pc, submitted, popped, topic>>
  PROVE  TopicInv'
  <1>1. \A k, n : NewestPopped(k, n)' <=> NewestPopped(k, n) BY SubsKept DEF NewestPopped
  <1>2. \A k : (BeforeHeader(k)' <=> BeforeHeader(k)) /\ (Past(k)' <=> Past(k))
    BY DEF BeforeHeader, Past
  <1>3. \A k \in Task : \A n \in Name : Reached(k, n) => Reached(k, n)' BY <1>2, ReachedKept
  <1> QED BY <1>1, <1>3, SubsKept DEF TopicInv

\* Every step of the engine is a step of the abstract topic or leaves the topics
\* alone.
LEMMA NextTopic ==
  ASSUME TypeOK, PoolInv, NameFifo, ProtocolInv, TopicInv, [Next]_vars,
         Pop => \A j \in Task : j <= popped /\ NameOfTask(j) = NameOfTask(popped + 1) => pc[j] = "done"
  PROVE  [Readers!Next]_topic /\ TopicInv'
  <1>0. SequenceInv BY DEF ProtocolInv
  <1>1. ASSUME NEW o \in Op, StartSnapshot(o) \/ TriggerSnapshot(o) \/ StopSnapshot(o) \/ Expire(o)
        PROVE  UNCHANGED <<sub, pc, submitted, popped, topic>>
    BY <1>1 DEF StartSnapshot, TriggerSnapshot, StopSnapshot, Expire, poolVars
  <1>2. CASE WaitIteration \/ SpuriousWakeup \/ AcquireIteration \/ UNCHANGED vars
    <2>1. UNCHANGED <<sub, pc, submitted, popped, topic>>
      BY <1>2 DEF WaitIteration, SpuriousWakeup, AcquireIteration, vars, poolVars
    <2> QED BY <2>1, TopicUntouched
  <1>3. CASE Submit
    <2>1. UNCHANGED topic BY <1>3 DEF Submit
    <2> QED BY <1>3, <2>1, SubmitTopic
  <1>4. CASE Pop
    <2>1. UNCHANGED topic BY <1>4 DEF Pop
    <2>2. PICK t : t = popped + 1 OBVIOUS
    <2>3. \A j \in Task : j <= popped /\ NameOfTask(j) = NameOfTask(t) => pc[j] = "done"
      BY <1>4, <2>2
    <2>4. TopicInv' BY <1>0, <1>4, <2>2, <2>3, PopTopic
    <2> QED BY <2>1, <2>4
  <1>5. ASSUME NEW k \in Task, TaskStep(k) PROVE [Readers!Next]_topic /\ TopicInv'
    BY <1>5, PublishStep, SilentStep
  <1> QED BY NextCases, <1>1, <1>2, <1>3, <1>4, <1>5, TopicUntouched

\* Once the removal promise of an operation is set, nothing of it is published.
LEMMA QuietStep ==
  ASSUME TypeOK, PoolInv, NameFifo, LastInv, TopicInv, [Next]_vars,
         NEW n \in Name, topic'[n] # topic[n]
  PROVE  ~promise[topic'[n][Len(topic'[n])].op]
  <1>1. PICK k \in Task : PublishHeader(k) \/ PublishData(k) \/ PublishTail(k)
    <2>1. \E k \in Task : TaskStep(k)
      BY NextCases DEF StartSnapshot, TriggerSnapshot, StopSnapshot, Expire, WaitIteration,
            SpuriousWakeup, AcquireIteration, Submit, Pop, vars
    <2> QED BY <2>1, SilentStep
  <1>2. PICK p \in {"header", "data", "tail"} : pc[k] = p /\ Publish(k, p)
    BY <1>1 DEF PublishHeader, PublishData, PublishTail
  <1>3. sub[k].iter \in Iter /\ sub[k].op \in Op
    <2>1. sub[k].iter # 0 BY <1>2 DEF PoolInv, Sections
    <2> QED BY <2>1, TaskType
  <1>4. n = NameOfTask(k) BY <1>2, <1>3, PublishNewest
  <1>5. topic'[n][Len(topic'[n])].op = sub[k].op
    <2>1. Readers!Newest(n)' = [op |-> sub[k].op, iter |-> sub[k].iter, part |-> p]
      BY <1>2, <1>3, <1>4, PublishNewest
    <2>2. Readers!Newest(n)' = topic'[n][Len(topic'[n])] BY DEF Readers!Newest
    <2> QED BY <2>1, <2>2
  <1>6. NewestPopped(k, n) /\ k <= submitted
    BY <1>1, <1>4, RunnerReached, TaskMoves DEF TaskStep
  <1>7. ASSUME promise[sub[k].op] PROVE FALSE
    <2>1. PICK j \in Task : /\ j <= popped /\ sub[j].op = sub[k].op /\ sub[j].last
                            /\ pc[j] \in {"finish", "release", "done"}
      BY <1>3, <1>7 DEF LastInv, PromiseInv
    <2>2. j <= submitted BY <2>1, TasksAre
    <2>3. k <= j BY <1>6, <2>1, <2>2 DEF LastInv, LastIsLast
    <2>4. OnName(j, n) BY <1>4, <2>1, <2>2 DEF OnName, NameOfTask
    <2>5. j <= k BY <1>6, <2>1, <2>4 DEF NewestPopped
    <2>6. j = k BY <2>3, <2>5, TasksAre
    <2> QED BY <1>2, <2>1, <2>6
  <1> QED BY <1>5, <1>7

-----------------------------------------------------------------------------
\* What the two invariants have in common.
LEMMA TurnsGround ==
  ASSUME TurnsInv, Threads = 1
  PROVE  /\ TypeOK /\ PoolInv /\ NameFifo /\ LastInv /\ ProtocolInv /\ TurnInv /\ TopicInv
         /\ Pop => \A j \in Task : j <= popped /\ NameOfTask(j) = NameOfTask(popped + 1) => pc[j] = "done"
  BY FifoByName, PopAlone DEF TurnsInv

LEMMA NormalGround ==
  ASSUME NormalInv, OneOpPerName
  PROVE  /\ TypeOK /\ PoolInv /\ NameFifo /\ LastInv /\ ProtocolInv /\ TurnInv /\ TopicInv
         /\ Pop => \A j \in Task : j <= popped /\ NameOfTask(j) = NameOfTask(popped + 1) => pc[j] = "done"
  <1>1. TypeOK /\ PoolInv /\ Whole /\ LastIsLast /\ SettledInv
    BY DEF NormalInv, LastInv, TurnInv
  <1>2. NameFifo BY <1>1, WholeByName
  <1>3. ASSUME Pop, NEW j \in Task, j <= popped, NameOfTask(j) = NameOfTask(popped + 1)
        PROVE  pc[j] = "done"
    <2>1. PICK t : t = popped + 1 OBVIOUS
    <2>2. t \in Task /\ t <= submitted BY <1>1, <1>3, <2>1, PopEffect
    <2>3. j < t BY <1>1, <1>3, <2>1, TasksAre
    <2> QED BY <1>1, <1>3, <2>1, <2>2, <2>3, WholeSettled
  <1> QED BY <1>2, <1>3 DEF NormalInv

\* With one submitting thread the invariant of the turns is inductive, whatever
\* operations share a name and whenever they are started, stopped and started
\* again.
THEOREM TurnsInductive == ASSUME Threads = 1 PROVE Spec => []TurnsInv
  <1>1. Init => TurnsInv
    BY InitType, InitPool, InitFifo, InitLast, InitProtocol, InitTurn, InitTopic DEF TurnsInv
  <1>2. TurnsInv /\ [Next]_vars => TurnsInv'
    <2> SUFFICES ASSUME TurnsInv, [Next]_vars PROVE TurnsInv'
      OBVIOUS
    <2>1. Fifo' BY NextFifo DEF TurnsInv
    <2> QED BY <2>1, TurnsGround, NextPool, NextLast, NextProtocol, NextTurn, NextTopic DEF TurnsInv
  <1> QED BY <1>1, <1>2, PTL DEF Spec

\* With NORMAL snapshots only, each with its own name, the turns are kept by any
\* number of submitting threads.
THEOREM NormalInductive ==
  ASSUME OneOpPerName, Buffered = {} PROVE Spec => []NormalInv
  <1>1. Init => NormalInv
    BY InitType, InitPool, InitFifo, InitLast, InitProtocol, InitTurn, InitTopic DEF NormalInv
  <1>2. NormalInv /\ [Next]_vars => NormalInv'
    <2> SUFFICES ASSUME NormalInv, [Next]_vars PROVE NormalInv'
      OBVIOUS
    <2>1. Whole' BY NextWhole DEF NormalInv
    <2> QED BY <2>1, NormalGround, NextPool, NextLast, NextProtocol, NextTurn, NextTopic DEF NormalInv
  <1> QED BY <1>1, <1>2, PTL DEF Spec

\* The engine implements SnapshotTopic: with one submitting thread the readers of
\* every topic see whole iterations, Header, Data*, Tail, one after the other and
\* numbered from 1 without a gap, over any number of restarts of a name.
THEOREM TopicImplemented == ASSUME Threads = 1 PROVE Spec => ImplementsTopic
  <1>1. Init => Readers!Init BY DEF Init, Readers!Init
  <1>2. TurnsInv /\ [Next]_vars => [Readers!Next]_topic BY TurnsGround, NextTopic
  <1> QED BY <1>1, <1>2, TurnsInductive, PTL DEF Spec, ImplementsTopic, Readers!Spec

\* NORMAL snapshots implement SnapshotTopic with any number of submitting threads,
\* as long as no name is started twice: a NORMAL iteration is one submission, and
\* acquireIteration does not let the next one pass before this one is over.
THEOREM NormalTopicImplemented ==
  ASSUME OneOpPerName, Buffered = {} PROVE Spec => ImplementsTopic
  <1>1. Init => Readers!Init BY DEF Init, Readers!Init
  <1>2. NormalInv /\ [Next]_vars => [Readers!Next]_topic BY NormalGround, NextTopic
  <1> QED BY <1>1, <1>2, NormalInductive, PTL DEF Spec, ImplementsTopic, Readers!Spec

\* A submission always has its iteration ("should not happen if scheduling order
\* is correct" in expirationCheckerLoop does not happen), with one thread and
\* shared names ...
THEOREM IterationAlwaysSet == ASSUME Threads = 1 PROVE Spec => []NoSubmissionWithoutIteration
  <1>1. TurnsInv => NoSubmissionWithoutIteration
    <2> SUFFICES ASSUME TurnsInv, NEW k \in 1 .. submitted PROVE sub[k].iter # 0
      BY DEF NoSubmissionWithoutIteration
    <2>1. submitted \in 0 .. MaxTasks /\ MaxTasks \in Nat
      BY ConstantsAssumption DEF TurnsInv, TypeOK
    <2>2. k \in Task /\ k <= submitted BY <2>1 DEF Task
    <2>3. sub[k].iter \in Iter BY <2>2 DEF TurnsInv, ProtocolInv, SequenceInv
    <2> QED BY <2>3 DEF Iter
  <1> QED BY <1>1, TurnsInductive, PTL

\* ... and with any number of threads when every operation has its own name.
THEOREM IterationSetByName == ASSUME OneOpPerName PROVE Spec => []NoSubmissionWithoutIteration
  <1>1. Init => NoSubmissionWithoutIteration BY DEF Init, NoSubmissionWithoutIteration
  <1>2. IInv /\ NoSubmissionWithoutIteration /\ [Next]_vars => NoSubmissionWithoutIteration'
    <2> SUFFICES ASSUME IInv, NoSubmissionWithoutIteration, [Next]_vars
                 PROVE  NoSubmissionWithoutIteration'
      OBVIOUS
    <2>0. TypeOK /\ PoolInv /\ ScheduleInv BY DEF IInv
    <2>1. CASE UNCHANGED <<sub, submitted>> BY <2>1 DEF NoSubmissionWithoutIteration
    <2>2. CASE Submit
      <3>1. PICK t : t = submitted + 1 OBVIOUS
      <3>2. /\ t \in Task /\ submitted' = t /\ submitted \in Int /\ sub'[t] = batch
            /\ \A k \in Task : k # t => sub'[k] = sub[k]
        BY <2>0, <2>2, <3>1, SubmitAdds
      <3>3. batch.iter # 0 BY <2>0, <2>2, SubmitFrame DEF Iter
      <3>4. \A k \in 1 .. t : k \in Task /\ (k = t \/ k \in 1 .. submitted)
        <4>1. t <= MaxTasks /\ MaxTasks \in Nat BY <3>2, ConstantsAssumption DEF Task
        <4> QED BY <3>1, <3>2, <4>1 DEF Task
      <3> QED BY <3>2, <3>3, <3>4 DEF NoSubmissionWithoutIteration
    <2>3. ASSUME NEW o \in Op, StartSnapshot(o) \/ TriggerSnapshot(o) \/ StopSnapshot(o) \/ Expire(o)
          PROVE  UNCHANGED <<sub, submitted>>
      BY <2>3 DEF StartSnapshot, TriggerSnapshot, StopSnapshot, Expire, poolVars
    <2>4. WaitIteration \/ SpuriousWakeup \/ AcquireIteration \/ Pop \/ UNCHANGED vars
            => UNCHANGED <<sub, submitted>>
      BY DEF WaitIteration, SpuriousWakeup, AcquireIteration, Pop, vars, poolVars
    <2>5. ASSUME NEW k \in Task, TaskStep(k) PROVE UNCHANGED <<sub, submitted>>
      BY <2>0, <2>5, TaskMoves
    <2> QED BY NextCases, <2>1, <2>2, <2>3, <2>4, <2>5
  <1> QED BY <1>1, <1>2, InductiveInvariant, PTL DEF Spec

\* Once stopSnapshot has been answered (FulfilRemoval), nothing of the operation is
\* published any more, with one submitting thread ...
THEOREM RemovedIsSilent == ASSUME Threads = 1 PROVE Spec => QuietAfterRemoval
  <1>1. TurnsInv /\ [Next]_vars =>
          [\A n \in Name : topic'[n] # topic[n] =>
             ~promise[topic'[n][Len(topic'[n])].op]]_vars
    BY TurnsGround, QuietStep
  <1> QED BY <1>1, TurnsInductive, PTL DEF Spec, QuietAfterRemoval

\* ... and with any number of them for NORMAL snapshots that have names of their own.
THEOREM NormalRemovedIsSilent ==
  ASSUME OneOpPerName, Buffered = {} PROVE Spec => QuietAfterRemoval
  <1>1. NormalInv /\ [Next]_vars =>
          [\A n \in Name : topic'[n] # topic[n] =>
             ~promise[topic'[n][Len(topic'[n])].op]]_vars
    BY NormalGround, QuietStep
  <1> QED BY <1>1, NormalInductive, PTL DEF Spec, QuietAfterRemoval

=============================================================================
