-------------------------- MODULE Scheduler_proofs --------------------------
(***************************************************************************)
(* Proofs about Scheduler, for any number of threads and any tasks that    *)
(* are added once: no task is doubled or forgotten, no wake-up is lost,    *)
(* and a task that has been removed never runs again.                      *)
(***************************************************************************)
EXTENDS Scheduler, FiniteSetTheorems, SequenceTheorems, TLAPS

-----------------------------------------------------------------------------
(* The inductive invariant. *)

Distinct(s) == \A i, j \in DOMAIN s : s[i] = s[j] => i = j

\* The main thread is inside the request that the script names.
MainInv ==
    /\ mpc = "wake" => Asked("add")
    /\ mpc = "asleep" => Asked("remove")
    /\ mpc = "join" => Asked("stop")

HandsInv == \A th \in Thread : running[th] # NoTask <=> tpc[th] \in {"run", "wake", "finish"}

\* A task is in one place.
PlaceInv ==
    /\ Distinct(queue)
    /\ \A a, b \in Thread : running[a] = running[b] /\ running[a] # NoTask => a = b
    /\ \A th \in Thread : running[th] \notin ToSet(queue) /\ running[th] \notin unlisted
    /\ ToSet(queue) \cap unlisted = {}

\* A task that has completed is not executed again.
OnceInv ==
    /\ ToSet(queue) \cap completed = {}
    /\ \A th \in Thread : tpc[th] = "run" => running[th] \notin completed
    /\ \A t \in completed : IsRunning(t) \/ t \in unlisted

\* The main thread, or the handler of another task, has listed the task.
ByMain(t)    == AddReturned(t) \/ (mpc = "wake" /\ Adds(step, t))
ByHandler(t) == \E s \in completed : Follow[s] = t
OriginInv    == \A t \in Task : Added(t) => ByMain(t) \/ ByHandler(t)
KeptInv      == \A t \in Task : ByMain(t) => Added(t)
LeftInv      == \A t \in Task : t \in unlisted => t \in completed \/ RemoveReturned(t)
GoneInv      == \A t \in Task : RemoveReturned(t) /\ AddReturned(t) => t \in unlisted

SchedulerIInv ==
    /\ TypeOK /\ MainInv /\ HandsInv /\ PlaceInv /\ OnceInv
    /\ OriginInv /\ KeptInv /\ LeftInv /\ GoneInv /\ NoLostWakeup

-----------------------------------------------------------------------------
(* Sequences. *)

LEMMA SeqFacts ==
  ASSUME NEW S, NEW s \in Seq(S)
  PROVE  Len(s) \in Nat /\ DOMAIN s = 1 .. Len(s) /\ ToSet(s) \subseteq S
  BY DEF ToSet

LEMMA AppendFacts ==
  ASSUME NEW S, NEW s \in Seq(S), NEW a \in S
  PROVE  /\ Append(s, a) \in Seq(S) /\ Len(Append(s, a)) = Len(s) + 1
         /\ ToSet(Append(s, a)) = ToSet(s) \cup {a}
         /\ Distinct(s) /\ a \notin ToSet(s) => Distinct(Append(s, a))
  <1>1. \A i \in 1 .. Len(s) : Append(s, a)[i] = s[i] OBVIOUS
  <1>2. Append(s, a)[Len(s) + 1] = a OBVIOUS
  <1>3. DOMAIN Append(s, a) = 1 .. Len(s) + 1 /\ DOMAIN s = 1 .. Len(s) OBVIOUS
  <1>4. Len(s) \in Nat OBVIOUS
  <1>5. ToSet(Append(s, a)) = ToSet(s) \cup {a} BY <1>1, <1>2, <1>3, <1>4 DEF ToSet
  <1>6. ASSUME Distinct(s), a \notin ToSet(s),
               NEW i \in 1 .. Len(s) + 1, NEW j \in 1 .. Len(s) + 1,
               Append(s, a)[i] = Append(s, a)[j]
        PROVE  i = j
    <2>1. CASE i \in 1 .. Len(s) /\ j \in 1 .. Len(s) BY <1>1, <1>3, <1>6, <2>1 DEF Distinct
    <2>2. CASE i = Len(s) + 1 /\ j \in 1 .. Len(s) BY <1>1, <1>2, <1>3, <1>6, <2>2 DEF ToSet
    <2>3. CASE j = Len(s) + 1 /\ i \in 1 .. Len(s) BY <1>1, <1>2, <1>3, <1>6, <2>3 DEF ToSet
    <2>4. CASE i = Len(s) + 1 /\ j = Len(s) + 1 BY <2>4
    <2>5. /\ i \in 1 .. Len(s) \/ i = Len(s) + 1
          /\ j \in 1 .. Len(s) \/ j = Len(s) + 1
      BY <1>4
    <2> QED BY <2>1, <2>2, <2>3, <2>4, <2>5
  <1>7. Distinct(s) /\ a \notin ToSet(s) => Distinct(Append(s, a))
    BY <1>3, <1>6 DEF Distinct
  <1>8. Append(s, a) \in Seq(S) /\ Len(Append(s, a)) = Len(s) + 1 OBVIOUS
  <1> QED BY <1>5, <1>7, <1>8

LEMMA PrependFacts ==
  ASSUME NEW S, NEW s \in Seq(S), NEW a \in S
  PROVE  /\ <<a>> \o s \in Seq(S)
         /\ ToSet(<<a>> \o s) = ToSet(s) \cup {a}
         /\ Distinct(s) /\ a \notin ToSet(s) => Distinct(<<a>> \o s)
  <1> DEFINE r == <<a>> \o s
  <1>1. Len(s) \in Nat /\ DOMAIN s = 1 .. Len(s) OBVIOUS
  <1>2. r \in Seq(S) /\ Len(r) = Len(s) + 1 OBVIOUS
  <1>3. r[1] = a /\ \A i \in 1 .. Len(s) : r[i + 1] = s[i] BY <1>1
  <1> HIDE DEF r
  <1>4. DOMAIN r = 1 .. Len(s) + 1 BY <1>2
  <1>5. ASSUME NEW i \in DOMAIN r PROVE i = 1 \/ \E k \in 1 .. Len(s) : i = k + 1
    <2>1. i \in 1 .. Len(s) + 1 BY <1>4
    <2>2. i = 1 \/ (i - 1 \in 1 .. Len(s) /\ i = (i - 1) + 1) BY <1>1, <2>1
    <2> QED BY <2>2
  <1>6. 1 \in DOMAIN r /\ \A k \in 1 .. Len(s) : k + 1 \in DOMAIN r BY <1>1, <1>4
  <1>7. ToSet(r) = ToSet(s) \cup {a}
    <2>1. \A x \in ToSet(r) : x \in ToSet(s) \cup {a} BY <1>1, <1>3, <1>5 DEF ToSet
    <2>2. \A x \in ToSet(s) \cup {a} : x \in ToSet(r) BY <1>1, <1>3, <1>6 DEF ToSet
    <2> QED BY <2>1, <2>2
  <1>8. ASSUME Distinct(s), a \notin ToSet(s), NEW i \in DOMAIN r, NEW j \in DOMAIN r, r[i] = r[j]
        PROVE  i = j
    <2>1. \A k \in 1 .. Len(s) : s[k] # a BY <1>1, <1>8 DEF ToSet
    <2>2. CASE i = 1 BY <1>3, <1>5, <1>8, <2>1, <2>2
    <2>3. CASE j = 1 BY <1>3, <1>5, <1>8, <2>1, <2>3
    <2>4. CASE i # 1 /\ j # 1
      <3>1. PICK k \in 1 .. Len(s) : i = k + 1 BY <1>5, <2>4
      <3>2. PICK l \in 1 .. Len(s) : j = l + 1 BY <1>5, <2>4
      <3>3. s[k] = s[l] BY <1>3, <1>8, <3>1, <3>2
      <3>4. k = l BY <1>1, <1>8, <3>3 DEF Distinct
      <3> QED BY <3>1, <3>2, <3>4
    <2> QED BY <2>2, <2>3, <2>4
  <1> QED BY <1>2, <1>7, <1>8 DEF r, Distinct

LEMMA RemoveFacts ==
  ASSUME NEW S, NEW s \in Seq(S), NEW k \in DOMAIN s
  PROVE  /\ RemoveAt(s, k) \in Seq(S)
         /\ Distinct(s) => /\ Distinct(RemoveAt(s, k))
                           /\ ToSet(RemoveAt(s, k)) = ToSet(s) \ {s[k]}
  <1> DEFINE r == RemoveAt(s, k)
             a == SubSeq(s, 1, k - 1)
             b == SubSeq(s, k + 1, Len(s))
  <1>1. Len(s) \in Nat /\ k \in 1 .. Len(s) /\ DOMAIN s = 1 .. Len(s) OBVIOUS
  <1>2. a \in Seq(S) /\ Len(a) = k - 1 /\ \A i \in 1 .. k - 1 : a[i] = s[i]
    <2>1. \A i \in 1 .. k - 1 : s[i] \in S BY <1>1
    <2> QED BY <1>1, <2>1, SubSeqProperties
  <1>3. b \in Seq(S) /\ Len(b) = Len(s) - k /\ \A i \in 1 .. Len(s) - k : b[i] = s[k + i]
    <2>1. \A i \in k + 1 .. Len(s) : s[i] \in S BY <1>1
    <2> QED BY <1>1, <2>1, SubSeqProperties
  <1>4. r = a \o b BY DEF RemoveAt
  <1> HIDE DEF a, b, r
  <1>5. r \in Seq(S) /\ Len(r) = Len(s) - 1
    <2>1. r \in Seq(S) /\ Len(r) = Len(a) + Len(b) BY <1>2, <1>3, <1>4, ConcatProperties
    <2> QED BY <1>1, <1>2, <1>3, <2>1
  <1>6. \A i \in 1 .. Len(s) - 1 : r[i] = IF i < k THEN s[i] ELSE s[i + 1]
    <2> TAKE i \in 1 .. Len(s) - 1
    <2>1. r[i] = IF i <= Len(a) THEN a[i] ELSE b[i - Len(a)]
      BY <1>1, <1>2, <1>3, <1>4, ConcatProperties
    <2>2. CASE i < k BY <1>1, <1>2, <2>1, <2>2
    <2>3. CASE ~(i < k)
      <3>1. i - (k - 1) \in 1 .. Len(s) - k BY <1>1, <2>3
      <3>2. b[i - (k - 1)] = s[k + (i - (k - 1))] BY <1>3, <3>1
      <3>3. k + (i - (k - 1)) = i + 1 BY <1>1
      <3> QED BY <1>1, <1>2, <2>1, <2>3, <3>2, <3>3
    <2> QED BY <2>2, <2>3
  <1>7. ASSUME Distinct(s), NEW i \in 1 .. Len(s) - 1, NEW j \in 1 .. Len(s) - 1, r[i] = r[j]
        PROVE  i = j
    <2>1. i \in 1 .. Len(s) /\ j \in 1 .. Len(s) /\ i + 1 \in 1 .. Len(s) /\ j + 1 \in 1 .. Len(s)
      BY <1>1
    <2> QED BY <1>1, <1>6, <1>7, <2>1 DEF Distinct
  <1>8. DOMAIN r = 1 .. Len(s) - 1 BY <1>5
  <1>9. Distinct(s) => Distinct(r) BY <1>7, <1>8 DEF Distinct
  <1>10. ASSUME Distinct(s) PROVE ToSet(r) = ToSet(s) \ {s[k]}
    <2>1. ASSUME NEW x \in ToSet(r) PROVE x \in ToSet(s) \ {s[k]}
      <3>1. PICK i \in 1 .. Len(s) - 1 : r[i] = x BY <1>8 DEF ToSet
      <3>2. PICK j \in 1 .. Len(s) : j # k /\ s[j] = x
        <4>1. i \in 1 .. Len(s) /\ i + 1 \in 1 .. Len(s) BY <1>1
        <4>2. CASE i < k BY <1>1, <1>6, <3>1, <4>1, <4>2
        <4>3. CASE ~(i < k) BY <1>1, <1>6, <3>1, <4>1, <4>3
        <4> QED BY <4>2, <4>3
      <3> QED BY <1>1, <1>10, <3>2 DEF ToSet, Distinct
    <2>2. ASSUME NEW x \in ToSet(s) \ {s[k]} PROVE x \in ToSet(r)
      <3>1. PICK j \in 1 .. Len(s) : s[j] = x /\ j # k BY <1>1 DEF ToSet
      <3>2. CASE j < k
        <4>1. j \in 1 .. Len(s) - 1 /\ r[j] = x BY <1>1, <1>6, <3>1, <3>2
        <4> QED BY <1>8, <4>1 DEF ToSet
      <3>3. CASE ~(j < k)
        <4>1. j - 1 \in 1 .. Len(s) - 1 /\ ~(j - 1 < k) /\ (j - 1) + 1 = j BY <1>1, <3>1, <3>3
        <4>2. r[j - 1] = x BY <1>6, <3>1, <4>1
        <4> QED BY <1>8, <4>1, <4>2 DEF ToSet
      <3> QED BY <3>2, <3>3
    <2> QED BY <2>1, <2>2
  <1> QED BY <1>5, <1>9, <1>10 DEF r

LEMMA EraseFacts ==
  ASSUME NEW t, queue \in Seq(Task), Distinct(queue), EraseFromQueue(t)
  PROVE  queue' \in Seq(Task) /\ Distinct(queue') /\ ToSet(queue') = ToSet(queue) \ {t}
  <1>0. PICK n \in 0 .. Len(queue) : \E kept \in [1 .. n -> Others(t)] :
          /\ \A i \in Others(t) : \E k \in 1 .. n : kept[k] = i
          /\ \A k, l \in 1 .. n : k < l => kept[k] < kept[l]
          /\ queue' = [k \in 1 .. n |-> queue[kept[k]]]
    BY DEF EraseFromQueue
  <1>1. PICK kept \in [1 .. n -> Others(t)] :
          /\ \A i \in Others(t) : \E k \in 1 .. n : kept[k] = i
          /\ \A k, l \in 1 .. n : k < l => kept[k] < kept[l]
          /\ queue' = [k \in 1 .. n |-> queue[kept[k]]]
    BY <1>0
  <1>2. n \in Nat /\ Len(queue) \in Nat /\ DOMAIN queue = 1 .. Len(queue) BY <1>0
  <1>3. Others(t) \subseteq DOMAIN queue /\ \A i \in DOMAIN queue : i \in Others(t) <=> queue[i] # t
    BY DEF Others
  <1>4. \A k \in 1 .. n : kept[k] \in DOMAIN queue /\ queue[kept[k]] # t /\ queue'[k] = queue[kept[k]]
    BY <1>1, <1>3
  <1>5. DOMAIN queue' = 1 .. n BY <1>1
  <1>6. queue' \in Seq(Task)
    <2>1. \A k \in 1 .. n : queue[kept[k]] \in Task BY <1>2, <1>4
    <2> QED BY <1>1, <1>2, <2>1
  <1>7. Distinct(queue')
    <2>1. SUFFICES ASSUME NEW k \in 1 .. n, NEW l \in 1 .. n, queue'[k] = queue'[l] PROVE k = l
      BY <1>5 DEF Distinct
    <2>2. kept[k] = kept[l] BY <1>4, <2>1 DEF Distinct
    <2>3. kept[k] \in Int /\ k \in Int /\ l \in Int BY <1>2, <1>4
    <2> QED BY <1>1, <2>2, <2>3
  <1>8. ToSet(queue') = ToSet(queue) \ {t}
    <2>1. \A x \in ToSet(queue') : x \in ToSet(queue) \ {t} BY <1>4, <1>5 DEF ToSet
    <2>2. ASSUME NEW x \in ToSet(queue) \ {t} PROVE x \in ToSet(queue')
      <3>1. PICK i \in DOMAIN queue : queue[i] = x BY DEF ToSet
      <3>2. PICK k \in 1 .. n : kept[k] = i BY <1>1, <1>3, <3>1
      <3> QED BY <1>4, <1>5, <3>1, <3>2 DEF ToSet
    <2> QED BY <2>1, <2>2
  <1> QED BY <1>6, <1>7, <1>8

-----------------------------------------------------------------------------
(* The requests of the main thread. *)

LEMMA Requests ==
  /\ Len(Script) \in Nat /\ DOMAIN Script = 1 .. Len(Script)
  /\ \A i \in 1 .. Len(Script) : Script[i].op \in {"add", "remove"} => Script[i].task \in Task
  /\ \A i, j \in 1 .. Len(Script) : \A t \in Task : Adds(i, t) /\ Adds(j, t) => i = j
  /\ \A i, j \in 1 .. Len(Script) : \A t \in Task : Adds(i, t) /\ Removes(j, t) => i < j
  /\ \A i \in 1 .. Len(Script) : \A t, u \in Task : Adds(i, u) => Follow[t] # u
  <1>1. Len(Script) \in Nat /\ DOMAIN Script = 1 .. Len(Script) BY SchedulerAssumption
  <1> QED BY <1>1, GatewayAssumption

LEMMA SameStep ==
  ASSUME step' = step
  PROVE  \A t : (AddReturned(t)' <=> AddReturned(t)) /\ (RemoveReturned(t)' <=> RemoveReturned(t))
  BY DEF AddReturned, RemoveReturned

LEMMA NextStep ==
  ASSUME step \in 1 .. Len(Script), step' = step + 1
  PROVE  /\ step' \in 1 .. Len(Script) + 1
         /\ \A t : AddReturned(t)' <=> (AddReturned(t) \/ Adds(step, t))
         /\ \A t : RemoveReturned(t)' <=> (RemoveReturned(t) \/ Removes(step, t))
  <1>1. Len(Script) \in Nat /\ step \in Nat BY Requests
  <1>2. 1 .. step' - 1 = 1 .. step BY <1>1
  <1>3. \A i : i \in 1 .. step <=> i \in 1 .. step - 1 \/ i = step BY <1>1
  <1>4. \A t : AddReturned(t)' <=> (AddReturned(t) \/ Adds(step, t))
    BY <1>2, <1>3 DEF AddReturned
  <1>5. \A t : RemoveReturned(t)' <=> (RemoveReturned(t) \/ Removes(step, t))
    BY <1>2, <1>3 DEF RemoveReturned
  <1> QED BY <1>1, <1>4, <1>5

\* The main thread is at a request.
LEMMA AtRequest ==
  ASSUME TypeOK, NEW op, Asked(op)
  PROVE  /\ step \in 1 .. Len(Script) /\ Script[step].op = op
         /\ op \in {"add", "remove"} => Now.task \in Task
         /\ \A t : Adds(step, t) <=> (op = "add" /\ Now.task = t)
         /\ \A t : Removes(step, t) <=> (op = "remove" /\ Now.task = t)
  <1>1. step \in 1 .. Len(Script) /\ Script[step].op = op
    BY Requests DEF TypeOK, Asked, Now
  <1> QED BY <1>1, Requests DEF Adds, Removes, Now

\* A task that the main thread is about to add is nowhere, and so is one that
\* a handler is about to add when it completes.
LEMMA NotYetAdded ==
  ASSUME SchedulerIInv, Asked("add"), mpc = "next"
  PROVE  Now.task \in Task /\ ~Added(Now.task)
  <1>1. /\ step \in 1 .. Len(Script) /\ Now.task \in Task /\ Adds(step, Now.task)
    BY AtRequest DEF SchedulerIInv
  <1>2. step \in Nat /\ Len(Script) \in Nat BY <1>1, Requests
  <1>3. ~AddReturned(Now.task)
    <2>1. SUFFICES ASSUME NEW i \in 1 .. step - 1, Adds(i, Now.task) PROVE FALSE BY DEF AddReturned
    <2>2. i \in 1 .. Len(Script) /\ i # step BY <1>1, <1>2
    <2> QED BY <1>1, <2>1, <2>2, Requests
  <1>4. completed \subseteq Task BY DEF SchedulerIInv, TypeOK
  <1>5. ~ByHandler(Now.task) BY <1>1, <1>4, Requests DEF ByHandler
  <1> QED BY <1>1, <1>3, <1>5 DEF SchedulerIInv, OriginInv, ByMain

LEMMA NotYetFollowed ==
  ASSUME SchedulerIInv, NEW t \in Task, t \notin completed, Follow[t] # NoTask
  PROVE  Follow[t] \in Task /\ ~Added(Follow[t])
  <1>1. Follow[t] \in Task BY SchedulerAssumption
  <1>2. completed \subseteq Task /\ step \in 1 .. Len(Script) + 1 BY DEF SchedulerIInv, TypeOK
  <1>3. ~ByHandler(Follow[t]) BY <1>2, GatewayAssumption DEF ByHandler
  <1>4. ~AddReturned(Follow[t])
    <2>1. SUFFICES ASSUME NEW i \in 1 .. step - 1, Adds(i, Follow[t]) PROVE FALSE BY DEF AddReturned
    <2>2. i \in 1 .. Len(Script) BY <1>2, Requests
    <2> QED BY <1>1, <2>1, <2>2, Requests
  <1>5. ~(mpc = "wake" /\ Adds(step, Follow[t]))
    <2>1. SUFFICES ASSUME mpc = "wake" PROVE ~Adds(step, Follow[t]) OBVIOUS
    <2>2. step \in 1 .. Len(Script) BY <2>1, AtRequest DEF SchedulerIInv, MainInv
    <2> QED BY <1>1, <2>2, Requests
  <1> QED BY <1>1, <1>3, <1>4, <1>5 DEF SchedulerIInv, OriginInv, ByMain

-----------------------------------------------------------------------------
(* Steps that leave every task where it is. *)

LEMMA QuietStep ==
  ASSUME SchedulerIInv, UNCHANGED <<queue, running, completed, unlisted, step>>,
         mpc' = mpc \/ (mpc # "wake" /\ mpc' # "wake")
  PROVE  PlaceInv' /\ OriginInv' /\ KeptInv' /\ LeftInv' /\ GoneInv'
  <1>1. \A t : (AddReturned(t)' <=> AddReturned(t)) /\ (RemoveReturned(t)' <=> RemoveReturned(t))
    BY SameStep
  <1>2. \A t : ByMain(t)' <=> ByMain(t) BY <1>1 DEF ByMain, Adds
  <1>3. \A t : Added(t)' <=> Added(t) BY DEF Added, IsRunning
  <1>4. \A t : ByHandler(t)' <=> ByHandler(t) BY DEF ByHandler
  <1>5. PlaceInv' BY DEF SchedulerIInv, PlaceInv
  <1>6. OriginInv' BY <1>2, <1>3, <1>4 DEF SchedulerIInv, OriginInv
  <1>7. KeptInv' BY <1>2, <1>3 DEF SchedulerIInv, KeptInv
  <1>8. LeftInv' BY <1>1 DEF SchedulerIInv, LeftInv
  <1>9. GoneInv' BY <1>1 DEF SchedulerIInv, GoneInv
  <1> QED BY <1>5, <1>6, <1>7, <1>8, <1>9

LEMMA TickInductive ==
  ASSUME SchedulerIInv, NEW t \in Task, Tick(t)
  PROVE  SchedulerIInv'
  <1>1. UNCHANGED <<queue, running, asap, completed, toRemove, deleted, unlisted, waitVars, tpc, mainVars>>
        /\ ticked' = ticked \cup {t}
    BY DEF Tick
  <1>2. PlaceInv' /\ OriginInv' /\ KeptInv' /\ LeftInv' /\ GoneInv' BY <1>1, QuietStep DEF mainVars
  <1>3. TypeOK' BY <1>1 DEF SchedulerIInv, TypeOK, waitVars, mainVars
  <1>4. MainInv' BY <1>1 DEF SchedulerIInv, MainInv, Asked, Now, mainVars
  <1>5. HandsInv' BY <1>1 DEF SchedulerIInv, HandsInv
  <1>6. OnceInv' BY <1>1 DEF SchedulerIInv, OnceInv, IsRunning
  <1>7. NoLostWakeup'
    BY <1>1 DEF SchedulerIInv, NoLostWakeup, WakePending, CanBeExecuted, Due, waitVars, mainVars
  <1> QED BY <1>2, <1>3, <1>4, <1>5, <1>6, <1>7 DEF SchedulerIInv

LEMMA StutterInductive ==
  ASSUME SchedulerIInv, UNCHANGED vars
  PROVE  SchedulerIInv'
  <1>1. UNCHANGED <<queue, running, asap, ticked, completed, toRemove, deleted, unlisted,
                    processing, stopWait, tpc, step, mpc>>
    BY DEF vars, queueVars, waitVars, mainVars
  <1>2. PlaceInv' /\ OriginInv' /\ KeptInv' /\ LeftInv' /\ GoneInv' BY <1>1, QuietStep
  <1>3. TypeOK' BY <1>1 DEF SchedulerIInv, TypeOK
  <1>4. MainInv' BY <1>1 DEF SchedulerIInv, MainInv, Asked, Now
  <1>5. HandsInv' BY <1>1 DEF SchedulerIInv, HandsInv
  <1>6. OnceInv' BY <1>1 DEF SchedulerIInv, OnceInv, IsRunning
  <1>7. NoLostWakeup' BY <1>1 DEF SchedulerIInv, NoLostWakeup, WakePending, CanBeExecuted, Due
  <1> QED BY <1>2, <1>3, <1>4, <1>5, <1>6, <1>7 DEF SchedulerIInv

\* The steps of a thread that only move it, or the main thread it wakes.
ThreadMoves(th) ==
    CheckProcessing(th) \/ NothingDue(th) \/ HandlerWakes(th) \/ NotifyRemover(th) \/ WakeUp(th)

LEMMA ThreadMovesInductive ==
  ASSUME SchedulerIInv, NEW th \in Thread, ThreadMoves(th)
  PROVE  SchedulerIInv'
  <1>1. /\ UNCHANGED <<queue, running, asap, ticked, completed, toRemove, deleted, unlisted, processing, step>>
        /\ mpc' = mpc \/ (mpc = "asleep" /\ mpc' = "next")
        /\ stopWait' \in BOOLEAN
    BY DEF ThreadMoves, CheckProcessing, NothingDue, HandlerWakes, NotifyRemover, WakeUp, queueVars,
           waitVars, mainVars, SchedulerIInv, TypeOK
  <1>2. PICK place \in {"check", "pick", "wait", "off", "finish", "notify"} :
          /\ tpc' = [tpc EXCEPT ![th] = place]
          /\ tpc[th] \in {"check", "pick", "wake", "notify", "wait"}
          /\ place = "finish" <=> tpc[th] = "wake"
    BY DEF ThreadMoves, CheckProcessing, NothingDue, HandlerWakes, NotifyRemover, WakeUp, Goto
  <1>3. PlaceInv' /\ OriginInv' /\ KeptInv' /\ LeftInv' /\ GoneInv' BY <1>1, QuietStep
  <1>4. tpc' \in [Thread -> {"check", "pick", "run", "wake", "finish", "notify", "wait", "off"}]
    BY <1>2 DEF SchedulerIInv, TypeOK
  <1>5. TypeOK' BY <1>1, <1>4 DEF SchedulerIInv, TypeOK
  <1>6. MainInv' BY <1>1 DEF SchedulerIInv, MainInv, Asked, Now
  <1>7. tpc'[th] = place /\ \A u \in Thread : u # th => tpc'[u] = tpc[u]
    BY <1>2 DEF SchedulerIInv, TypeOK
  <1>8. HandsInv' BY <1>1, <1>2, <1>7 DEF SchedulerIInv, HandsInv
  <1>9. OnceInv' BY <1>1, <1>2, <1>7 DEF SchedulerIInv, OnceInv, IsRunning
  <1>10. NoLostWakeup'
    <2>1. SUFFICES ASSUME ~stopWait', \A u \in Thread : tpc'[u] = "wait"
                   PROVE  \A t \in ToSet(queue') : CanBeExecuted(t)' => t \in ticked'
      BY DEF NoLostWakeup
    <2>2. place = "wait" BY <1>7, <2>1
    <2>3. NothingDue(th)
      BY <1>2, <2>2, <1>7 DEF ThreadMoves, CheckProcessing, HandlerWakes, NotifyRemover, WakeUp, Goto,
                              SchedulerIInv, TypeOK
    <2>4. \A t \in ToSet(queue) : ~CanBeExecuted(t) BY <2>3 DEF NothingDue, ToSet
    <2> QED BY <1>1, <2>4 DEF CanBeExecuted, Due
  <1> QED BY <1>3, <1>5, <1>6, <1>8, <1>9, <1>10 DEF SchedulerIInv

LEMMA MainMovesInductive ==
  ASSUME SchedulerIInv, SpuriousWake \/ Stop
  PROVE  SchedulerIInv'
  <1>1. /\ UNCHANGED <<queue, running, asap, ticked, completed, toRemove, deleted, unlisted, tpc, step>>
        /\ mpc # "wake" /\ mpc' \in {"next", "join"} /\ (mpc' = "join" => Asked("stop"))
        /\ processing' \in BOOLEAN /\ stopWait' \in BOOLEAN
        /\ UNCHANGED <<processing, stopWait>> \/ ~processing'
    BY DEF SpuriousWake, Stop, queueVars, waitVars, SchedulerIInv, TypeOK
  <1>2. PlaceInv' /\ OriginInv' /\ KeptInv' /\ LeftInv' /\ GoneInv' BY <1>1, QuietStep
  <1>3. TypeOK' BY <1>1 DEF SchedulerIInv, TypeOK
  <1>4. MainInv' BY <1>1 DEF MainInv, Asked, Now
  <1>5. HandsInv' BY <1>1 DEF SchedulerIInv, HandsInv
  <1>6. OnceInv' BY <1>1 DEF SchedulerIInv, OnceInv, IsRunning
  <1>7. NoLostWakeup'
    <2>1. CASE ~processing' BY <2>1 DEF NoLostWakeup
    <2>2. CASE UNCHANGED <<processing, stopWait>>
      <3>1. WakePending' <=> WakePending BY <1>1 DEF WakePending
      <3>2. \A t : CanBeExecuted(t)' <=> CanBeExecuted(t) BY <1>1 DEF CanBeExecuted, Due
      <3> QED BY <1>1, <2>2, <3>1, <3>2 DEF SchedulerIInv, NoLostWakeup
    <2> QED BY <1>1, <2>1, <2>2
  <1> QED BY <1>2, <1>3, <1>4, <1>5, <1>6, <1>7 DEF SchedulerIInv

-----------------------------------------------------------------------------
(* Steps that end a request without moving a task. *)

LEMMA RequestEnds ==
  ASSUME SchedulerIInv, NEW op \in {"quit", "stop"}, Asked(op), mpc \in {"next", "join"},
         step' = step + 1, mpc' = "next",
         UNCHANGED <<queue, running, asap, ticked, completed, toRemove, deleted, unlisted,
                     processing, stopWait, tpc>>
  PROVE  SchedulerIInv'
  <1>1. /\ step \in 1 .. Len(Script)
        /\ \A t : ~Adds(step, t) /\ ~Removes(step, t)
    BY AtRequest DEF SchedulerIInv
  <1>2. /\ step' \in 1 .. Len(Script) + 1
        /\ \A t : AddReturned(t)' <=> AddReturned(t)
        /\ \A t : RemoveReturned(t)' <=> RemoveReturned(t)
    BY <1>1, NextStep
  <1>3. \A t : ByMain(t)' <=> ByMain(t) BY <1>2 DEF ByMain
  <1>4. \A t : Added(t)' <=> Added(t) BY DEF Added, IsRunning
  <1>5. \A t : ByHandler(t)' <=> ByHandler(t) BY DEF ByHandler
  <1>6. TypeOK' BY <1>2 DEF SchedulerIInv, TypeOK
  <1>7. MainInv' BY DEF MainInv
  <1>8. HandsInv' /\ PlaceInv' /\ OnceInv' BY DEF SchedulerIInv, HandsInv, PlaceInv, OnceInv, IsRunning
  <1>9. OriginInv' BY <1>3, <1>4, <1>5 DEF SchedulerIInv, OriginInv
  <1>10. KeptInv' BY <1>3, <1>4 DEF SchedulerIInv, KeptInv
  <1>11. LeftInv' BY <1>2 DEF SchedulerIInv, LeftInv
  <1>12. GoneInv' BY <1>2 DEF SchedulerIInv, GoneInv
  <1>13. NoLostWakeup' BY DEF SchedulerIInv, NoLostWakeup, WakePending, CanBeExecuted, Due
  <1> QED BY <1>6, <1>7, <1>8, <1>9, <1>10, <1>11, <1>12, <1>13 DEF SchedulerIInv

LEMMA QuitInductive ==
  ASSUME SchedulerIInv, Quit
  PROVE  SchedulerIInv'
  <1>1. mpc = "next"
    <2>1. step \in 1 .. Len(Script) /\ Script[step].op = "quit" BY AtRequest DEF Quit, SchedulerIInv
    <2> QED BY <2>1 DEF SchedulerIInv, MainInv, Asked, Now, TypeOK
  <1> QED BY <1>1, RequestEnds DEF Quit, NextRequest, queueVars, waitVars

LEMMA JoinedInductive ==
  ASSUME SchedulerIInv, Joined
  PROVE  SchedulerIInv'
  <1>1. mpc = "join" /\ Asked("stop") BY DEF Joined, SchedulerIInv, MainInv
  <1> QED BY <1>1, RequestEnds DEF Joined, NextRequest, queueVars, waitVars

-----------------------------------------------------------------------------
(* addTask. *)

\* The first critical section of addTask lists a task that is nowhere.
LEMMA ListedFacts ==
  ASSUME SchedulerIInv, NEW t \in Task, ~Added(t), Listed(t)
  PROVE  /\ queue' \in Seq(Task) /\ Distinct(queue') /\ ToSet(queue') = ToSet(queue) \cup {t}
         /\ asap' \in SUBSET Task /\ ticked' = ticked
  <1>1. queue \in Seq(Task) /\ Distinct(queue) /\ t \notin ToSet(queue)
    BY DEF SchedulerIInv, TypeOK, PlaceInv, Added
  <1>2. queue' = <<t>> \o queue /\ ticked' = ticked BY DEF Listed
  <1>3. asap' \in SUBSET Task BY DEF Listed, SchedulerIInv, TypeOK
  <1> QED BY <1>1, <1>2, <1>3, PrependFacts

LEMMA AddTaskLists ==
  ASSUME SchedulerIInv, Asked("add"), mpc = "next", Listed(Now.task), mpc' = "wake",
         UNCHANGED <<running, completed, toRemove, deleted, unlisted, processing, stopWait, tpc, step>>
  PROVE  SchedulerIInv'
  <1> DEFINE t == Now.task
  <1>0. /\ TypeOK /\ HandsInv /\ PlaceInv /\ OnceInv /\ OriginInv /\ KeptInv /\ LeftInv /\ GoneInv
    BY DEF SchedulerIInv
  <1>1. t \in Task /\ ~Added(t) BY NotYetAdded
  <1>2. /\ queue' \in Seq(Task) /\ Distinct(queue') /\ ToSet(queue') = ToSet(queue) \cup {t}
        /\ asap' \in SUBSET Task /\ ticked' = ticked
    BY <1>1, ListedFacts
  <1>3. step \in 1 .. Len(Script) /\ \A u : Adds(step, u) <=> u = t BY <1>0, AtRequest
  <1> HIDE DEF t
  <1>4. \A u : (AddReturned(u)' <=> AddReturned(u)) /\ (RemoveReturned(u)' <=> RemoveReturned(u))
    BY SameStep
  <1>5. \A u : ByMain(u)' <=> (ByMain(u) \/ u = t) BY <1>3, <1>4 DEF ByMain
  <1>6. \A u : Added(u)' <=> (Added(u) \/ u = t) BY <1>2 DEF Added, IsRunning
  <1>7. \A u : ByHandler(u)' <=> ByHandler(u) BY DEF ByHandler
  <1>8. TypeOK' BY <1>0, <1>2 DEF TypeOK
  <1>9. MainInv' BY DEF MainInv, Asked, Now
  <1>10. HandsInv' BY <1>0 DEF HandsInv
  <1>11. \A th \in Thread : running[th] # t BY <1>1 DEF Added, IsRunning
  <1>12. PlaceInv' BY <1>0, <1>1, <1>2, <1>11 DEF PlaceInv, Added
  <1>13. t \notin completed BY <1>0, <1>1 DEF OnceInv, Added
  <1>14. OnceInv' BY <1>0, <1>2, <1>13 DEF OnceInv, IsRunning
  <1>15. OriginInv' BY <1>0, <1>5, <1>6, <1>7 DEF OriginInv
  <1>16. KeptInv' BY <1>0, <1>5, <1>6 DEF KeptInv
  <1>17. LeftInv' BY <1>0, <1>4 DEF LeftInv
  <1>18. GoneInv' BY <1>0, <1>4 DEF GoneInv
  <1>19. NoLostWakeup' BY DEF NoLostWakeup, WakePending
  <1> QED BY <1>8, <1>9, <1>10, <1>12, <1>14, <1>15, <1>16, <1>17, <1>18, <1>19 DEF SchedulerIInv

LEMMA AddTaskReturns ==
  ASSUME SchedulerIInv, Asked("add"), mpc = "wake", stopWait' = TRUE, step' = step + 1, mpc' = "next",
         UNCHANGED <<queue, running, asap, ticked, completed, toRemove, deleted, unlisted, processing, tpc>>
  PROVE  SchedulerIInv'
  <1> DEFINE t == Now.task
  <1>0. /\ TypeOK /\ HandsInv /\ PlaceInv /\ OnceInv /\ OriginInv /\ KeptInv /\ LeftInv /\ GoneInv
    BY DEF SchedulerIInv
  <1>1. /\ step \in 1 .. Len(Script) /\ t \in Task
        /\ \A u : (Adds(step, u) <=> u = t) /\ ~Removes(step, u)
    BY <1>0, AtRequest
  <1> HIDE DEF t
  <1>2. /\ step' \in 1 .. Len(Script) + 1
        /\ \A u : AddReturned(u)' <=> (AddReturned(u) \/ u = t)
        /\ \A u : RemoveReturned(u)' <=> RemoveReturned(u)
    BY <1>1, NextStep
  <1>3. \A u : ByMain(u)' <=> ByMain(u) BY <1>1, <1>2 DEF ByMain
  <1>4. \A u : Added(u)' <=> Added(u) BY DEF Added, IsRunning
  <1>5. \A u : ByHandler(u)' <=> ByHandler(u) BY DEF ByHandler
  <1>6. TypeOK' BY <1>0, <1>2 DEF TypeOK
  <1>7. MainInv' BY DEF MainInv
  <1>8. HandsInv' /\ PlaceInv' /\ OnceInv' BY <1>0 DEF HandsInv, PlaceInv, OnceInv, IsRunning
  <1>9. OriginInv' BY <1>0, <1>3, <1>4, <1>5 DEF OriginInv
  <1>10. KeptInv' BY <1>0, <1>3, <1>4 DEF KeptInv
  <1>11. LeftInv' BY <1>0, <1>2 DEF LeftInv
  <1>12. ~RemoveReturned(t)
    <2>1. SUFFICES ASSUME NEW i \in 1 .. step - 1, Removes(i, t) PROVE FALSE BY DEF RemoveReturned
    <2>2. Len(Script) \in Nat BY Requests
    <2>3. i \in 1 .. Len(Script) /\ ~(step < i) BY <1>1, <2>2
    <2> QED BY <1>1, <2>1, <2>3, Requests
  <1>13. GoneInv' BY <1>0, <1>2, <1>12 DEF GoneInv
  <1>14. NoLostWakeup' BY DEF NoLostWakeup
  <1> QED BY <1>6, <1>7, <1>8, <1>9, <1>10, <1>11, <1>13, <1>14 DEF SchedulerIInv

LEMMA AddTaskInductive ==
  ASSUME SchedulerIInv, AddTask
  PROVE  SchedulerIInv'
  <1>1. CASE mpc = "next"
    <2>1. Asked("add") /\ Listed(Now.task) /\ mpc' = "wake" BY <1>1 DEF AddTask, AddSteps
    <2>2. UNCHANGED <<running, completed, toRemove, deleted, unlisted, processing, stopWait, tpc, step>>
      BY <1>1 DEF AddTask, AddSteps
    <2> QED BY <1>1, <2>1, <2>2, AddTaskLists
  <1>2. CASE mpc = "wake"
    <2>1. Asked("add") /\ stopWait' = TRUE /\ step' = step + 1 /\ mpc' = "next"
      BY <1>2 DEF AddTask, AddSteps, NextRequest
    <2>2. UNCHANGED <<queue, running, asap, ticked, completed, toRemove, deleted, unlisted, processing, tpc>>
      BY <1>2 DEF AddTask, AddSteps
    <2> QED BY <1>2, <2>1, <2>2, AddTaskReturns
  <1> QED BY <1>1, <1>2 DEF AddTask, AddSteps

-----------------------------------------------------------------------------
(* removeTaskByName. *)

LEMMA RemoveInductive ==
  ASSUME SchedulerIInv, RemoveTaskByName
  PROVE  SchedulerIInv'
  <1> DEFINE t == Now.task
  <1>0. /\ TypeOK /\ HandsInv /\ PlaceInv /\ OnceInv /\ OriginInv /\ KeptInv /\ LeftInv /\ GoneInv
        /\ NoLostWakeup
    BY DEF SchedulerIInv
  <1>1. /\ Asked("remove") /\ mpc = "next"
        /\ Erased(t) \/ NotThere(t) \/ SleepUntilFinished(t)
        /\ UNCHANGED <<running, asap, ticked, completed, deleted, processing, stopWait, tpc>>
    BY DEF RemoveTaskByName, waitVars
  <1>2. /\ step \in 1 .. Len(Script) /\ t \in Task
        /\ \A u : ~Adds(step, u) /\ (Removes(step, u) <=> u = t)
    BY <1>0, <1>1, AtRequest
  <1> HIDE DEF t
  <1>3. \A u : ByHandler(u)' <=> ByHandler(u) BY <1>1 DEF ByHandler
  <1>4. HandsInv' BY <1>0, <1>1 DEF HandsInv
  <1>5. CASE SleepUntilFinished(t)
    <2>1. /\ UNCHANGED <<queue, unlisted, step>> /\ mpc' = "asleep" /\ toRemove' = toRemove \cup {t}
      BY <1>5 DEF SleepUntilFinished
    <2>2. PlaceInv' /\ OriginInv' /\ KeptInv' /\ LeftInv' /\ GoneInv' BY <1>1, <2>1, QuietStep
    <2>3. TypeOK' BY <1>0, <1>1, <1>2, <2>1 DEF TypeOK
    <2>4. MainInv' BY <1>1, <2>1 DEF MainInv, Asked, Now
    <2>5. OnceInv' BY <1>0, <1>1, <2>1 DEF OnceInv, IsRunning
    <2>6. WakePending' <=> WakePending BY <1>1, <2>1 DEF WakePending
    <2>7. \A u : CanBeExecuted(u)' <=> CanBeExecuted(u) BY <1>1 DEF CanBeExecuted, Due
    <2>8. NoLostWakeup' BY <1>0, <1>1, <2>1, <2>6, <2>7 DEF NoLostWakeup
    <2> QED BY <1>4, <2>2, <2>3, <2>4, <2>5, <2>8 DEF SchedulerIInv
  <1>6. CASE Erased(t) \/ NotThere(t)
    <2>1. step' = step + 1 /\ mpc' = "next" BY <1>6 DEF Erased, NotThere, NextRequest
    <2>2. /\ step' \in 1 .. Len(Script) + 1
          /\ \A u : AddReturned(u)' <=> AddReturned(u)
          /\ \A u : RemoveReturned(u)' <=> (RemoveReturned(u) \/ u = t)
      BY <1>2, <2>1, NextStep
    <2>3. \A u : ByMain(u)' <=> ByMain(u) BY <1>1, <2>1, <2>2 DEF ByMain
    <2>4. /\ queue' \in Seq(Task) /\ Distinct(queue') /\ ToSet(queue') = ToSet(queue) \ {t}
          /\ toRemove' \in SUBSET Task
          /\ unlisted' = IF t \in ToSet(queue) THEN unlisted \cup {t} ELSE unlisted
      <3>1. queue \in Seq(Task) /\ Distinct(queue) /\ toRemove \in SUBSET Task
        BY <1>0 DEF TypeOK, PlaceInv
      <3>2. CASE Erased(t)
        <4>1. EraseFromQueue(t) /\ t \in ToSet(queue) /\ toRemove' = toRemove \ {t}
              /\ unlisted' = unlisted \cup {t}
          BY <3>2 DEF Erased
        <4> QED BY <3>1, <4>1, EraseFacts
      <3>3. CASE NotThere(t) BY <3>1, <3>3 DEF NotThere
      <3> QED BY <1>6, <3>2, <3>3
    <2>5. ToSet(queue) \subseteq Task /\ unlisted \subseteq Task BY <1>0, SeqFacts DEF TypeOK
    <2>6. \A u : Added(u)' <=> Added(u) BY <1>1, <2>4 DEF Added, IsRunning
    <2>7. Added(t) => t \in unlisted'
      <3>1. CASE t \in ToSet(queue) BY <2>4, <3>1
      <3>2. CASE t \notin ToSet(queue)
        <4>1. ~FoundRunning(t) BY <1>6, <3>2 DEF Erased, NotThere
        <4> QED BY <2>4, <3>2, <4>1 DEF Added, IsRunning, FoundRunning
      <3> QED BY <3>1, <3>2
    <2>8. unlisted' \in SUBSET Task BY <1>2, <2>4, <2>5
    <2>9. TypeOK' BY <1>0, <1>1, <2>1, <2>2, <2>4, <2>8 DEF TypeOK
    <2>10. MainInv' BY <2>1 DEF MainInv
    <2>11. \A th \in Thread : t \in ToSet(queue) => running[th] # t BY <1>0 DEF PlaceInv
    <2>12. PlaceInv' BY <1>0, <1>1, <2>4, <2>11 DEF PlaceInv
    <2>13. OnceInv' BY <1>0, <1>1, <2>4 DEF OnceInv, IsRunning
    <2>14. OriginInv' BY <1>0, <1>3, <2>3, <2>6 DEF OriginInv
    <2>15. KeptInv' BY <1>0, <2>3, <2>6 DEF KeptInv
    <2>16. LeftInv' BY <1>0, <1>1, <2>2, <2>4 DEF LeftInv
    <2>17. GoneInv' 
      <3>1. SUFFICES ASSUME NEW u \in Task, RemoveReturned(u)', AddReturned(u)' PROVE u \in unlisted'
        BY DEF GoneInv
      <3>2. CASE u = t BY <1>0, <1>2, <2>2, <2>7, <3>1, <3>2 DEF KeptInv, ByMain
      <3>3. CASE u # t BY <1>0, <2>2, <2>4, <3>1, <3>3 DEF GoneInv
      <3> QED BY <3>2, <3>3
    <2>18. WakePending' <=> WakePending BY <1>1, <2>1 DEF WakePending
    <2>19. \A u : CanBeExecuted(u)' <=> CanBeExecuted(u) BY <1>1 DEF CanBeExecuted, Due
    <2>20. NoLostWakeup' BY <1>0, <1>1, <2>4, <2>18, <2>19 DEF NoLostWakeup
    <2> QED BY <1>4, <2>9, <2>10, <2>12, <2>13, <2>14, <2>15, <2>16, <2>17, <2>20 DEF SchedulerIInv
  <1> QED BY <1>1, <1>5, <1>6

-----------------------------------------------------------------------------
(* A thread takes a task, executes it and requeues it. *)

LEMMA PickInductive ==
  ASSUME SchedulerIInv, NEW th \in Thread, Pick(th)
  PROVE  SchedulerIInv'
  <1>0. /\ TypeOK /\ MainInv /\ HandsInv /\ PlaceInv /\ OnceInv /\ OriginInv /\ KeptInv /\ LeftInv /\ GoneInv
    BY DEF SchedulerIInv
  <1>1. PICK i \in DOMAIN queue :
          running' = [running EXCEPT ![th] = queue[i]] /\ queue' = RemoveAt(queue, i)
    BY DEF Pick, TakenOut
  <1>2. PICK t : t = queue[i] OBVIOUS
  <1>3. /\ tpc[th] = "pick" /\ tpc' = [tpc EXCEPT ![th] = "run"]
        /\ UNCHANGED <<asap, ticked, completed, toRemove, deleted, unlisted, processing, stopWait, step, mpc>>
    BY DEF Pick, Goto, waitVars, mainVars
  <1>4. queue \in Seq(Task) /\ Distinct(queue) /\ t \in Task /\ t \in ToSet(queue)
    BY <1>0, <1>2 DEF TypeOK, PlaceInv, ToSet
  <1>5. queue' \in Seq(Task) /\ Distinct(queue') /\ ToSet(queue') = ToSet(queue) \ {t}
    BY <1>1, <1>2, <1>4, RemoveFacts
  <1>6. /\ running' \in [Thread -> Task \cup {NoTask}] /\ running'[th] = t
        /\ \A u \in Thread : u # th => running'[u] = running[u]
    BY <1>0, <1>1, <1>2, <1>4 DEF TypeOK
  <1>7. /\ tpc' \in [Thread -> {"check", "pick", "run", "wake", "finish", "notify", "wait", "off"}]
        /\ tpc'[th] = "run" /\ \A u \in Thread : u # th => tpc'[u] = tpc[u]
    BY <1>0, <1>3 DEF TypeOK
  <1>8. running[th] = NoTask /\ t # NoTask BY <1>0, <1>3, <1>4, SchedulerAssumption DEF HandsInv
  <1>9. TypeOK' BY <1>0, <1>3, <1>5, <1>6, <1>7 DEF TypeOK
  <1>10. MainInv' BY <1>0, <1>3 DEF MainInv, Asked, Now
  <1>11. HandsInv' BY <1>0, <1>6, <1>7, <1>8 DEF HandsInv
  <1>12. \A u \in Thread : running[u] # t BY <1>0, <1>4 DEF PlaceInv
  <1>13. t \notin unlisted /\ t \notin completed BY <1>0, <1>4 DEF PlaceInv, OnceInv
  <1>14. PlaceInv' BY <1>0, <1>3, <1>5, <1>6, <1>12, <1>13 DEF PlaceInv
  <1>15. \A u \in Task : IsRunning(u)' <=> (IsRunning(u) \/ u = t)
    BY <1>6, <1>8, SchedulerAssumption DEF IsRunning
  <1>16. completed \subseteq Task BY <1>0 DEF TypeOK
  <1>17. OnceInv' BY <1>0, <1>3, <1>5, <1>6, <1>7, <1>13, <1>15, <1>16 DEF OnceInv
  <1>18. \A u \in Task : Added(u)' <=> Added(u) BY <1>3, <1>4, <1>5, <1>15 DEF Added
  <1>19. \A u : (AddReturned(u)' <=> AddReturned(u)) /\ (RemoveReturned(u)' <=> RemoveReturned(u))
    BY <1>3, SameStep
  <1>20. \A u : ByMain(u)' <=> ByMain(u) BY <1>3, <1>19 DEF ByMain
  <1>21. \A u : ByHandler(u)' <=> ByHandler(u) BY <1>3 DEF ByHandler
  <1>22. OriginInv' BY <1>0, <1>18, <1>20, <1>21 DEF OriginInv
  <1>23. KeptInv' BY <1>0, <1>18, <1>20 DEF KeptInv
  <1>24. LeftInv' BY <1>0, <1>3, <1>19 DEF LeftInv
  <1>25. GoneInv' BY <1>0, <1>3, <1>19 DEF GoneInv
  <1>26. NoLostWakeup' BY <1>7 DEF NoLostWakeup
  <1> QED BY <1>9, <1>10, <1>11, <1>14, <1>17, <1>22, <1>23, <1>24, <1>25, <1>26 DEF SchedulerIInv

\* An execution leaves the task with its thread; it may complete it and list
\* the task that follows.
LEMMA ExecuteInductive ==
  ASSUME SchedulerIInv, NEW th \in Thread, Execute(th)
  PROVE  SchedulerIInv'
  <1>0. /\ TypeOK /\ MainInv /\ HandsInv /\ PlaceInv /\ OnceInv /\ OriginInv /\ KeptInv /\ LeftInv /\ GoneInv
    BY DEF SchedulerIInv
  <1>1. PICK t : t = running[th] OBVIOUS
  <1>2. /\ tpc[th] = "run"
        /\ UNCHANGED <<running, toRemove, deleted, unlisted, processing, stopWait, step, mpc>>
    BY DEF Execute, waitVars, mainVars
  <1>3. t \in Task /\ t # NoTask /\ t \notin completed /\ t \notin ToSet(queue) /\ t \notin unlisted
    <2>1. t # NoTask BY <1>0, <1>1, <1>2 DEF HandsInv
    <2>2. t \in Task \cup {NoTask} BY <1>0, <1>1 DEF TypeOK
    <2> QED BY <1>0, <1>1, <1>2, <2>1, <2>2 DEF OnceInv, PlaceInv
  <1>4. PICK place \in {"wake", "finish"} : tpc' = [tpc EXCEPT ![th] = place]
    BY <1>1 DEF Execute, Goto
  <1>5. /\ tpc' \in [Thread -> {"check", "pick", "run", "wake", "finish", "notify", "wait", "off"}]
        /\ tpc'[th] = place /\ \A u \in Thread : u # th => tpc'[u] = tpc[u]
    BY <1>0, <1>4 DEF TypeOK
  <1>6. PICK new \in SUBSET Task :
          /\ queue' \in Seq(Task) /\ Distinct(queue') /\ ToSet(queue') = ToSet(queue) \cup new
          /\ \A u \in new : ~Added(u) /\ u = Follow[t] /\ t \in completed'
    <2>1. CASE /\ completed' = completed \cup {t} /\ Follow[t] # NoTask /\ Listed(Follow[t])
      <3>1. Follow[t] \in Task /\ ~Added(Follow[t]) BY <1>3, <2>1, NotYetFollowed
      <3>2. queue' \in Seq(Task) /\ Distinct(queue') /\ ToSet(queue') = ToSet(queue) \cup {Follow[t]}
        BY <2>1, <3>1, ListedFacts
      <3>3. t \in completed' BY <2>1
      <3>4. PICK new : new = {Follow[t]} OBVIOUS
      <3>5. /\ new \in SUBSET Task /\ ToSet(queue') = ToSet(queue) \cup new
            /\ \A u \in new : ~Added(u) /\ u = Follow[t] /\ t \in completed'
        BY <3>1, <3>2, <3>3, <3>4
      <3> QED BY <3>2, <3>5
    <2>2. CASE queue' = queue
      <3>1. queue' \in Seq(Task) /\ Distinct(queue') /\ ToSet(queue') = ToSet(queue)
        BY <1>0, <2>2 DEF TypeOK, PlaceInv
      <3>2. PICK new : new = {} OBVIOUS
      <3>3. /\ new \in SUBSET Task /\ ToSet(queue') = ToSet(queue) \cup new
            /\ \A u \in new : ~Added(u) /\ u = Follow[t] /\ t \in completed'
        BY <3>1, <3>2
      <3> QED BY <3>1, <3>3
    <2> QED BY <1>1, <2>1, <2>2 DEF Execute
  <1>7. asap' \in SUBSET Task /\ ticked' \in SUBSET Task
    <2>1. asap \in SUBSET Task /\ ticked \in SUBSET Task BY <1>0 DEF TypeOK
    <2>2. CASE Follow[t] # NoTask /\ Listed(Follow[t])
      <3>1. Follow[t] \in Task BY <1>3, <2>2, SchedulerAssumption
      <3> QED BY <2>1, <2>2, <3>1 DEF Listed
    <2>3. CASE UNCHANGED <<asap, ticked>> BY <2>1, <2>3
    <2>4. CASE asap' \in {asap \cup {t}, asap \ {t}} /\ ticked' = ticked \ {t} BY <1>3, <2>1, <2>4
    <2> QED BY <1>1, <2>2, <2>3, <2>4 DEF Execute
  <1>8. completed' \in {completed, completed \cup {t}} BY <1>1 DEF Execute
  <1>9. completed' \in SUBSET Task /\ completed \subseteq completed' BY <1>0, <1>3, <1>8 DEF TypeOK
  <1>10. TypeOK' BY <1>0, <1>2, <1>5, <1>6, <1>7, <1>9 DEF TypeOK
  <1>11. MainInv' BY <1>0, <1>2 DEF MainInv, Asked, Now
  <1>12. HandsInv' BY <1>0, <1>2, <1>4, <1>5 DEF HandsInv
  <1>13. \A u \in new : u \notin unlisted /\ u \notin completed /\ \A k \in Thread : running[k] # u
    BY <1>0, <1>6 DEF Added, IsRunning, OnceInv
  <1>14. PlaceInv' BY <1>0, <1>2, <1>6, <1>13 DEF PlaceInv
  <1>15. OnceInv'
    <2>1. ToSet(queue') \cap completed' = {} BY <1>0, <1>1, <1>3, <1>6, <1>8, <1>13 DEF OnceInv
    <2>2. ASSUME NEW k \in Thread, tpc'[k] = "run" PROVE running'[k] \notin completed'
      <3>1. k # th BY <1>4, <1>5, <2>2
      <3>2. tpc[k] = "run" BY <1>5, <2>2, <3>1
      <3>3. running[k] \notin completed BY <1>0, <3>2 DEF OnceInv
      <3>4. running[k] # t BY <1>0, <1>1, <1>3, <3>1 DEF PlaceInv
      <3> QED BY <1>2, <1>8, <3>3, <3>4
    <2>3. \A u \in completed' : IsRunning(u)' \/ u \in unlisted'
      BY <1>0, <1>1, <1>2, <1>8 DEF OnceInv, IsRunning
    <2> QED BY <2>1, <2>2, <2>3 DEF OnceInv
  <1>16. \A u : Added(u)' <=> (Added(u) \/ u \in new) BY <1>2, <1>6 DEF Added, IsRunning
  <1>17. \A u : (AddReturned(u)' <=> AddReturned(u)) /\ (RemoveReturned(u)' <=> RemoveReturned(u))
    BY <1>2, SameStep
  <1>18. \A u : ByMain(u)' <=> ByMain(u) BY <1>2, <1>17 DEF ByMain
  <1>19. \A u : (ByHandler(u) => ByHandler(u)') /\ (u \in new => ByHandler(u)')
    BY <1>6, <1>9 DEF ByHandler
  <1>20. OriginInv' BY <1>0, <1>16, <1>18, <1>19 DEF OriginInv
  <1>21. KeptInv' BY <1>0, <1>16, <1>18 DEF KeptInv
  <1>22. LeftInv' BY <1>0, <1>2, <1>9, <1>17 DEF LeftInv
  <1>23. GoneInv' BY <1>0, <1>2, <1>17 DEF GoneInv
  <1>24. NoLostWakeup' BY <1>4, <1>5 DEF NoLostWakeup
  <1> QED BY <1>10, <1>11, <1>12, <1>14, <1>15, <1>20, <1>21, <1>22, <1>23, <1>24 DEF SchedulerIInv

LEMMA FinishInductive ==
  ASSUME SchedulerIInv, NEW th \in Thread, Finish(th)
  PROVE  SchedulerIInv'
  <1>0. /\ TypeOK /\ MainInv /\ HandsInv /\ PlaceInv /\ OnceInv /\ OriginInv /\ KeptInv /\ LeftInv /\ GoneInv
    BY DEF SchedulerIInv
  <1>1. PICK t : t = running[th] OBVIOUS
  <1>2. /\ tpc[th] = "finish" /\ tpc' = [tpc EXCEPT ![th] = "notify"]
        /\ running' = [running EXCEPT ![th] = NoTask]
        /\ UNCHANGED <<asap, ticked, completed, toRemove, processing, stopWait, step, mpc>>
    BY DEF Finish, Goto, waitVars, mainVars
  <1>3. t \in Task /\ t # NoTask /\ t \notin ToSet(queue) /\ t \notin unlisted
    <2>1. t # NoTask BY <1>0, <1>1, <1>2 DEF HandsInv
    <2>2. t \in Task \cup {NoTask} BY <1>0, <1>1 DEF TypeOK
    <2> QED BY <1>0, <1>1, <2>1, <2>2 DEF PlaceInv
  <1>4. /\ running' \in [Thread -> Task \cup {NoTask}] /\ running'[th] = NoTask
        /\ \A u \in Thread : u # th => running'[u] = running[u]
    BY <1>0, <1>2 DEF TypeOK
  <1>5. /\ tpc' \in [Thread -> {"check", "pick", "run", "wake", "finish", "notify", "wait", "off"}]
        /\ tpc'[th] = "notify" /\ \A u \in Thread : u # th => tpc'[u] = tpc[u]
    BY <1>0, <1>2 DEF TypeOK
  <1>6. /\ queue' \in Seq(Task) /\ Distinct(queue') /\ deleted' \in SUBSET Task
        /\ ToSet(queue') = IF t \in completed THEN ToSet(queue) ELSE ToSet(queue) \cup {t}
        /\ unlisted' = IF t \in completed THEN unlisted \cup {t} ELSE unlisted
    <2>1. queue \in Seq(Task) /\ Distinct(queue) /\ deleted \in SUBSET Task
      BY <1>0 DEF TypeOK, PlaceInv
    <2>2. CASE t \in completed BY <1>1, <2>1, <2>2 DEF Finish
    <2>3. CASE t \notin completed
      <3>1. queue' = Append(queue, t) /\ unlisted' = unlisted /\ deleted' = deleted \cup ({t} \cap toRemove)
        BY <1>1, <2>3 DEF Finish, Requeue, Requeued, ToBeDeleted
      <3> QED BY <1>3, <2>1, <2>3, <3>1, AppendFacts
    <2> QED BY <2>2, <2>3
  <1>7. unlisted' \in SUBSET Task BY <1>0, <1>3, <1>6 DEF TypeOK
  <1>8. TypeOK' BY <1>0, <1>2, <1>4, <1>5, <1>6, <1>7 DEF TypeOK
  <1>9. MainInv' BY <1>0, <1>2 DEF MainInv, Asked, Now
  <1>10. HandsInv' BY <1>0, <1>4, <1>5 DEF HandsInv
  <1>11. \A u \in Thread : u # th => running[u] # t BY <1>0, <1>1, <1>3 DEF PlaceInv
  <1>12. NoTask \notin ToSet(queue') /\ NoTask \notin unlisted'
    BY <1>6, <1>7, SeqFacts, SchedulerAssumption
  <1>13. PlaceInv' BY <1>0, <1>3, <1>4, <1>6, <1>11, <1>12 DEF PlaceInv
  <1>14. \A u \in Task : IsRunning(u) <=> (IsRunning(u)' \/ u = t)
    BY <1>1, <1>4, SchedulerAssumption DEF IsRunning
  <1>15. OnceInv'
    <2>1. ToSet(queue') \cap completed' = {} BY <1>0, <1>2, <1>6 DEF OnceInv
    <2>2. \A k \in Thread : tpc'[k] = "run" => running'[k] \notin completed'
      BY <1>0, <1>2, <1>4, <1>5 DEF OnceInv
    <2>3. completed \subseteq Task BY <1>0 DEF TypeOK
    <2>4. \A u \in completed' : IsRunning(u)' \/ u \in unlisted'
      BY <1>0, <1>2, <1>6, <1>14, <2>3 DEF OnceInv
    <2> QED BY <2>1, <2>2, <2>4 DEF OnceInv
  <1>16. \A u \in Task : Added(u)' <=> Added(u) BY <1>6, <1>14 DEF Added
  <1>17. \A u : (AddReturned(u)' <=> AddReturned(u)) /\ (RemoveReturned(u)' <=> RemoveReturned(u))
    BY <1>2, SameStep
  <1>18. \A u : ByMain(u)' <=> ByMain(u) BY <1>2, <1>17 DEF ByMain
  <1>19. \A u : ByHandler(u)' <=> ByHandler(u) BY <1>2 DEF ByHandler
  <1>20. OriginInv' BY <1>0, <1>16, <1>18, <1>19 DEF OriginInv
  <1>21. KeptInv' BY <1>0, <1>16, <1>18 DEF KeptInv
  <1>22. LeftInv' BY <1>0, <1>2, <1>6, <1>17 DEF LeftInv
  <1>23. GoneInv' BY <1>0, <1>6, <1>17 DEF GoneInv
  <1>24. NoLostWakeup' BY <1>5 DEF NoLostWakeup
  <1> QED BY <1>8, <1>9, <1>10, <1>13, <1>15, <1>20, <1>21, <1>22, <1>23, <1>24 DEF SchedulerIInv

-----------------------------------------------------------------------------
(* The theorems. *)

LEMMA InitScheduler == Init => SchedulerIInv
  <1> SUFFICES ASSUME Init PROVE SchedulerIInv OBVIOUS
  <1>1. ToSet(queue) = {} /\ Distinct(queue) /\ queue \in Seq(Task) BY DEF Init, ToSet, Distinct
  <1>2. Len(Script) \in Nat /\ step = 1 /\ mpc = "next" BY Requests DEF Init
  <1>3. \A th \in Thread : running[th] = NoTask /\ tpc[th] = "check" BY DEF Init
  <1>4. \A t : ~AddReturned(t) /\ ~RemoveReturned(t) BY <1>2 DEF AddReturned, RemoveReturned
  <1>5. \A t \in Task : ~Added(t) /\ ~ByMain(t)
    BY <1>1, <1>2, <1>3, <1>4, SchedulerAssumption DEF Added, IsRunning, ByMain, Init
  <1>6. TypeOK
    <2>1. step \in 1 .. Len(Script) + 1 BY <1>2
    <2>2. running \in [Thread -> Task \cup {NoTask}]
          /\ tpc \in [Thread -> {"check", "pick", "run", "wake", "finish", "notify", "wait", "off"}]
      BY DEF Init
    <2>3. processing \in BOOLEAN /\ stopWait \in BOOLEAN BY DEF Init
    <2>4. /\ asap \in SUBSET Task /\ ticked \in SUBSET Task /\ completed \in SUBSET Task
          /\ toRemove \in SUBSET Task /\ deleted \in SUBSET Task /\ unlisted \in SUBSET Task
      BY DEF Init
    <2> QED BY <1>1, <1>2, <2>1, <2>2, <2>3, <2>4 DEF TypeOK
  <1>7. MainInv BY <1>2 DEF MainInv
  <1>8. HandsInv BY <1>3 DEF HandsInv
  <1>9. PlaceInv BY <1>1, <1>3 DEF PlaceInv, Init
  <1>10. OnceInv BY <1>1, <1>3 DEF OnceInv, Init
  <1>11. OriginInv /\ KeptInv BY <1>5 DEF OriginInv, KeptInv
  <1>12. LeftInv /\ GoneInv BY <1>4 DEF LeftInv, GoneInv, Init
  <1>13. NoLostWakeup
    <2>1. \A t : t \notin ToSet(queue) BY <1>1
    <2> QED BY <2>1, Zenon DEF NoLostWakeup
  <1> QED BY <1>6, <1>7, <1>8, <1>9, <1>10, <1>11, <1>12, <1>13 DEF SchedulerIInv

LEMMA StepScheduler == SchedulerIInv /\ [Next]_vars => SchedulerIInv'
  <1> SUFFICES ASSUME SchedulerIInv, [Next]_vars PROVE SchedulerIInv' OBVIOUS
  <1>1. CASE AddTask BY <1>1, AddTaskInductive
  <1>2. CASE RemoveTaskByName BY <1>2, RemoveInductive
  <1>3. CASE Stop \/ SpuriousWake BY <1>3, MainMovesInductive
  <1>4. CASE Joined BY <1>4, JoinedInductive
  <1>5. CASE Quit BY <1>5, QuitInductive
  <1>6. CASE Done \/ UNCHANGED vars BY <1>6, StutterInductive DEF Done
  <1>7. ASSUME NEW th \in Thread, ThreadStep(th) PROVE SchedulerIInv'
    <2>1. CASE Pick(th) BY <2>1, PickInductive
    <2>2. CASE Execute(th) BY <2>2, ExecuteInductive
    <2>3. CASE Finish(th) BY <2>3, FinishInductive
    <2>4. CASE ThreadMoves(th) BY <2>4, ThreadMovesInductive
    <2> QED BY <1>7, <2>1, <2>2, <2>3, <2>4 DEF ThreadStep, ThreadMoves
  <1>8. ASSUME NEW t \in Task, Tick(t) PROVE SchedulerIInv' BY <1>8, TickInductive
  <1> QED BY <1>1, <1>2, <1>3, <1>4, <1>5, <1>6, <1>7, <1>8 DEF Next, MainStep

\* The inductive invariant holds of every behaviour of the scheduler.
THEOREM SchedulerInductive == Spec => []SchedulerIInv
  BY InitScheduler, StepScheduler, PTL DEF Spec

\* The three counts of OnePlace are 0 or 1, and at most one is 1.
LEMMA InOnePlace == SchedulerIInv => OnePlace
  <1> SUFFICES ASSUME SchedulerIInv PROVE OnePlace OBVIOUS
  <1>0. PlaceInv BY DEF SchedulerIInv
  <1> SUFFICES ASSUME NEW t \in Task
               PROVE  Cardinality({i \in DOMAIN queue : queue[i] = t})
                      + Cardinality({th \in Thread : running[th] = t})
                      + (IF t \in unlisted THEN 1 ELSE 0) <= 1
    BY DEF OnePlace
  <1> DEFINE inQueue == {i \in DOMAIN queue : queue[i] = t}
             inHands == {th \in Thread : running[th] = t}
  <1>1. inQueue = {} \/ \E i : inQueue = {i} BY <1>0 DEF PlaceInv, Distinct
  <1>2. inHands = {} \/ \E th : inHands = {th}
    <2>1. t # NoTask BY SchedulerAssumption
    <2>2. \A a, b \in inHands : a = b BY <1>0, <2>1 DEF PlaceInv
    <2> HIDE DEF inHands
    <2>3. ASSUME NEW a \in inHands PROVE inHands = {a} BY <2>2
    <2> QED BY <2>3
  <1>3. inQueue # {} => t \in ToSet(queue) BY DEF ToSet
  <1>4. ~(inQueue # {} /\ inHands # {}) /\ ~(inQueue # {} /\ t \in unlisted) /\ ~(inHands # {} /\ t \in unlisted)
    BY <1>0, <1>3 DEF PlaceInv
  <1> HIDE DEF inQueue, inHands
  <1>5. Cardinality(inQueue) = (IF inQueue = {} THEN 0 ELSE 1) BY <1>1, FS_EmptySet, FS_Singleton
  <1>6. Cardinality(inHands) = (IF inHands = {} THEN 0 ELSE 1) BY <1>2, FS_EmptySet, FS_Singleton
  <1>7. Cardinality(inQueue) + Cardinality(inHands) + (IF t \in unlisted THEN 1 ELSE 0) <= 1
    BY <1>4, <1>5, <1>6
  <1> QED BY <1>7 DEF inQueue, inHands

\* For any number of threads: a task is in the queue, with one thread or out
\* for good, and in one of them only; what addTask was given is not forgotten;
\* and a task that is due when it is listed never waits for the time limit of
\* sleeping threads.
THEOREM SchedulerCorrect == Spec => []SchedulerInv
  <1>1. SchedulerIInv => SchedulerInv
    <2> SUFFICES ASSUME SchedulerIInv PROVE SchedulerInv OBVIOUS
    <2>1. OnePlace BY InOnePlace
    <2>2. NeverForgotten BY DEF SchedulerIInv, NeverForgotten, KeptInv, LeftInv, ByMain
    <2> QED BY <2>1, <2>2 DEF SchedulerIInv, SchedulerInv
  <1> QED BY <1>1, SchedulerInductive, PTL

\* Once removeTaskByName has returned, the handler of the task neither runs nor
\* is scheduled, whatever the threads were doing when the removal was asked for.
THEOREM RemovedIsQuiet == Spec => []QuietAfterRemove
  <1>1. SchedulerIInv => QuietAfterRemove
    <2> SUFFICES ASSUME SchedulerIInv, NEW t \in Task, RemoveReturned(t), AddReturned(t)
                 PROVE  ~IsRunning(t) /\ t \notin ToSet(queue)
      BY DEF QuietAfterRemove
    <2>1. t \in unlisted BY DEF SchedulerIInv, GoneInv
    <2> QED BY <2>1 DEF SchedulerIInv, PlaceInv, IsRunning
  <1> QED BY <1>1, SchedulerInductive, PTL

=============================================================================
