---------------------- MODULE SnapshotRegistry_proofs ----------------------
(***************************************************************************)
(* Proofs about SnapshotRegistry, for any commands, snapshots, PVs, lists  *)
(* and threads: the maps agree, a stop is answered only when its operation *)
(* is gone, and the requests of a PV are those of the snapshots that run.  *)
(***************************************************************************)
EXTENDS SnapshotRegistry, FiniteSetTheorems, TLAPS

-----------------------------------------------------------------------------
(* The inductive invariant. *)

\* Only an operation whose start has passed StartInsert can be in a map.
Entered(o) == cpc[o] \in {"request", "done"}

\* The life of an operation: entered, stopped, out of the maps, promise set.
RunningInv ==
    \A q \in Queue : running[q] # NoOp =>
        /\ QueueOf[running[q]] = q
        /\ Entered(running[q]) /\ op[running[q]].promise # "set"
PvMapInv == \A e \in pvMap : Entered(e[2]) /\ op[e[2]].promise # "set"
Gone(o) ==
    /\ Entered(o) /\ op[o].promise = "taken"
    /\ \A q \in Queue : running[q] # o
    /\ \A e \in pvMap : e[2] # o
ClosingInv == \A o \in closing : Gone(o)
HeldInv ==
    held # NoOp => /\ held \notin closing
                   /\ running[QueueOf[held]] = held \/ Gone(held)
PromiseInv ==
    \A o \in Op : /\ op[o].is_running <=> op[o].promise = "new"
                  /\ op[o].promise # "new" => Entered(o)
LifeInv == RunningInv /\ PvMapInv /\ ClosingInv /\ HeldInv /\ PromiseInv

\* A stop waits for an operation that is stopped, and is answered after it is gone.
StopInv ==
    \A c \in Stop :
        /\ cpc[c] = "wait" => target[c] # NoOp
        /\ target[c] # NoOp => /\ cpc[c] \in {"wait", "done"}
                               /\ op[target[c]].promise # "new"
                               /\ cpc[c] = "done" => op[target[c]].promise = "set"

StartsRaced(q) == <<q, "starts">> \in raced

\* Two commands of a snapshot that are in progress together have been noted, and
\* only then can a start find its name free and taken when it inserts.
RaceInv ==
    /\ \A c, d \in Command :
         c # d /\ QueueOf[c] = QueueOf[d] /\ InProgress(c) /\ InProgress(d) =>
             /\ Raced(QueueOf[c])
             /\ {c, d} \subseteq Start => StartsRaced(QueueOf[c])
    /\ \A c \in Start :
         cpc[c] = "valid" /\ running[QueueOf[c]] # NoOp =>
             Raced(QueueOf[c]) /\ StartsRaced(QueueOf[c])

\* The places of a PV in the list of a running operation that its start has
\* already requested, and all of them together.
Asked(o, p) == {i \in Positions(o, p) : i <= Len(PvList[o]) - Len(todo[o])}
Held(p) == UNION {{o} \X Asked(o, p) : o \in {o \in Op : running[QueueOf[o]] = o}}

\* What a start has still to request is the end of its list.
TodoInv ==
    \A c \in Start :
        /\ cpc[c] # "request" => todo[c] = <<>>
        /\ Len(todo[c]) <= Len(PvList[c])
        /\ \A k \in 1 .. Len(todo[c]) :
             todo[c][k] = PvList[c][Len(PvList[c]) - Len(todo[c]) + k]

\* A start that nothing overlaps requests for the operation that runs, and no
\* stop meets it before it has requested everything.
OrderInv ==
    \A o \in Op : ~Raced(QueueOf[o]) =>
        /\ cpc[o] = "request" => running[QueueOf[o]] = o
        /\ op[o].promise # "new" => cpc[o] = "done"

\* A request is missing from the count only if it was lost.
CountInv ==
    \A p \in Pv : Calm(p) => /\ requests[p] <= Cardinality(Held(p))
                             /\ p \notin lost => requests[p] = Cardinality(Held(p))

\* No entry, or one about to be erased, has no request but a lost one.
ChannelInv ==
    \A p \in Pv : /\ channel[p] = "none" => requests[p] = 0
                  /\ channel[p] = "leaving" /\ p \notin lost => requests[p] = 0

RegistryIInv ==
    /\ TypeOK /\ LifeInv /\ StopInv /\ RaceInv /\ NoOrphan
    /\ TodoInv /\ OrderInv /\ CountInv /\ ChannelInv

-----------------------------------------------------------------------------
(* Types. *)

LEMMA RepliedType ==
  ASSUME NEW code \in Code, NEW topic \in {"", "topic"}
  PROVE  Replied(code, topic) \in Reply
  <1> DEFINE x == <<code, topic>>
  <1>1. x \in Code \X {"", "topic"} /\ x[1] = code /\ x[2] = topic OBVIOUS
  <1> QED BY <1>1 DEF Reply

LEMMA OpRecords ==
  ASSUME NEW r \in OpRecord
  PROVE  /\ [r EXCEPT !.trigger = TRUE] \in OpRecord
         /\ [r EXCEPT !.is_running = FALSE, !.promise = "taken"] \in OpRecord
         /\ [r EXCEPT !.promise = "set"] \in OpRecord
         /\ [r EXCEPT !.trigger = TRUE].is_running = r.is_running
         /\ [r EXCEPT !.trigger = TRUE].promise = r.promise
  BY Zenon DEF OpRecord

LEMMA OpKept ==
  ASSUME TypeOK, NEW o \in Op, NEW r \in OpRecord, UNCHANGED op \/ op' = [op EXCEPT ![o] = r]
  PROVE  op' \in [Op -> OpRecord]
  BY DEF TypeOK

LEMMA AnswerType ==
  ASSUME TypeOK, NEW c \in Command, NEW code \in Code, NEW topic \in {"", "topic"},
         Answer(c, code, topic)
  PROVE  /\ reply' \in [Command -> Reply]
         /\ cpc' \in [Command -> {"unsent", "sent", "valid", "request", "wait", "done", "thrown"}]
  BY RepliedType DEF TypeOK, Answer

LEMMA GotoType ==
  ASSUME TypeOK, NEW c \in Command, NEW place \in {"valid", "request", "wait", "thrown"},
         Goto(c, place)
  PROVE  /\ reply' \in [Command -> Reply]
         /\ cpc' \in [Command -> {"unsent", "sent", "valid", "request", "wait", "done", "thrown"}]
  BY DEF TypeOK, Goto

LEMMA PositionsFinite ==
  ASSUME NEW o \in Op, NEW p
  PROVE  IsFiniteSet(Positions(o, p)) /\ Cardinality(Positions(o, p)) \in Nat
  <1>1. Len(PvList[o]) \in Nat /\ DOMAIN PvList[o] = 1 .. Len(PvList[o])
    BY RegistryAssumption DEF Op
  <1>2. IsFiniteSet(1 .. Len(PvList[o])) BY <1>1, FS_Interval
  <1>3. Positions(o, p) \in SUBSET (1 .. Len(PvList[o])) BY <1>1 DEF Positions
  <1> QED BY <1>2, <1>3, FS_Subset, FS_CardinalityType

LEMMA TypeInductive ==
  ASSUME TypeOK, [Next]_vars
  PROVE  TypeOK'
  <1> USE RegistryAssumption DEF TypeOK, Op, registryVars, channelVars
  <1>1. ASSUME NEW c \in Command, Take(c) PROVE TypeOK'
    <2>1. raced' \in SUBSET (Queue \X {"commands", "starts"}) BY <1>1 DEF Take, Queue
    <2>2. cpc' \in [Command -> {"unsent", "sent", "valid", "request", "wait", "done", "thrown"}]
      BY <1>1 DEF Take
    <2> QED BY <1>1, <2>1, <2>2 DEF Take
  <1>2. ASSUME NEW c \in Command, StartCheck(c) PROVE TypeOK'
    <2>1. PICK fault \in Fault[c] :
            Answer(c, 1, "") \/ Answer(c, 0, "") \/ Answer(c, fault, "") \/ Goto(c, "valid")
      BY <1>2 DEF StartCheck
    <2>2. fault \in Code OBVIOUS
    <2>4. 0 \in Code /\ 1 \in Code BY DEF Code
    <2>3. /\ reply' \in [Command -> Reply]
          /\ cpc' \in [Command -> {"unsent", "sent", "valid", "request", "wait", "done", "thrown"}]
      BY <2>1, <2>2, <2>4, AnswerType, GotoType
    <2> QED BY <1>2, <2>3 DEF StartCheck
  <1>3. ASSUME NEW c \in Command, StartTopicFails(c) PROVE TypeOK'
    BY <1>3, GotoType DEF StartTopicFails
  <1>4. ASSUME NEW c \in Command, StartInsert(c) PROVE TypeOK'
    <2>1. running' \in [Queue -> Op \cup {NoOp}] BY <1>4 DEF StartInsert
    <2>2. ToSet(PvList[c]) \subseteq Pv BY <1>4 DEF StartInsert, ToSet
    <2>3. pvMap' \in SUBSET (Pv \X Op) BY <1>4, <2>2 DEF StartInsert
    <2>4. todo' \in [Start -> Seq(Pv)] BY <1>4 DEF StartInsert
    <2> QED BY <1>4, <2>1, <2>3, <2>4, GotoType DEF StartInsert
  <1>5. ASSUME NEW c \in Command, StartRequest(c) PROVE TypeOK'
    <2>1. c \in Start /\ todo[c] \in Seq(Pv) /\ todo[c] # <<>> BY <1>5 DEF StartRequest
    <2>2. Head(todo[c]) \in Pv /\ Tail(todo[c]) \in Seq(Pv) BY <2>1
    <2>3. requests' \in [Pv -> Nat] BY <1>5, <2>2 DEF StartRequest
    <2>4. todo' \in [Start -> Seq(Pv)] BY <1>5, <2>1, <2>2 DEF StartRequest
    <2>5. channel' \in [Pv -> {"none", "served", "leaving"}] BY <1>5, <2>2 DEF StartRequest
    <2>6. lost' \in SUBSET Pv BY <1>5, <2>2 DEF StartRequest
    <2> QED BY <1>5, <2>3, <2>4, <2>5, <2>6 DEF StartRequest
  <1>6. ASSUME NEW c \in Command, StartDone(c) PROVE TypeOK'
    <2>1. 0 \in Code BY DEF Code
    <2> QED BY <1>6, <2>1, AnswerType DEF StartDone
  <1>7. ASSUME NEW c \in Command, TriggerSnapshot(c) PROVE TypeOK'
    <2>1. Answer(c, 0, "") \/ Answer(c, 1, "") \/ Answer(c, 2, "")
      BY <1>7 DEF TriggerSnapshot
    <2>2. 0 \in Code /\ 1 \in Code /\ 2 \in Code BY DEF Code
    <2>3. /\ reply' \in [Command -> Reply]
          /\ cpc' \in [Command -> {"unsent", "sent", "valid", "request", "wait", "done", "thrown"}]
      BY <2>1, <2>2, AnswerType
    <2>4. op' \in [Op -> OpRecord]
      <3>1. running[QueueOf[c]] \in Op \cup {NoOp} BY DEF Queue
      <3>2. \/ UNCHANGED op
            \/ /\ running[QueueOf[c]] # NoOp
               /\ op' = [op EXCEPT ![running[QueueOf[c]]].trigger = TRUE]
        BY <1>7 DEF TriggerSnapshot
      <3>3. CASE running[QueueOf[c]] \in Op
        <4> DEFINE r == [op[running[QueueOf[c]]] EXCEPT !.trigger = TRUE]
        <4>1. r \in OpRecord BY <3>3, OpRecords
        <4>2. UNCHANGED op \/ op' = [op EXCEPT ![running[QueueOf[c]]] = r] BY <3>2
        <4> HIDE DEF r
        <4> QED BY <3>3, <4>1, <4>2, OpKept
      <3> QED BY <3>1, <3>2, <3>3
    <2> QED BY <1>7, <2>3, <2>4 DEF TriggerSnapshot
  <1>8. ASSUME NEW c \in Command, StopSnapshot(c) PROVE TypeOK'
    <2>1. Answer(c, 1, "") \/ Answer(c, 0, "") \/ Goto(c, "thrown") \/ Goto(c, "wait")
      BY <1>8 DEF StopSnapshot, AfterStop
    <2>2. 0 \in Code /\ 1 \in Code BY DEF Code
    <2>3. /\ reply' \in [Command -> Reply]
          /\ cpc' \in [Command -> {"unsent", "sent", "valid", "request", "wait", "done", "thrown"}]
      BY <2>1, <2>2, AnswerType, GotoType
    <2>4. running[QueueOf[c]] \in Op \cup {NoOp} BY DEF Queue
    <2>5. op' \in [Op -> OpRecord]
      <3>1. \/ UNCHANGED op
            \/ /\ running[QueueOf[c]] # NoOp
               /\ op' = [op EXCEPT ![running[QueueOf[c]]] =
                                  [@ EXCEPT !.is_running = FALSE, !.promise = "taken"]]
        BY <1>8 DEF StopSnapshot
      <3>2. CASE running[QueueOf[c]] \in Op
        <4> DEFINE r == [op[running[QueueOf[c]]] EXCEPT !.is_running = FALSE, !.promise = "taken"]
        <4>1. r \in OpRecord BY <3>2, OpRecords
        <4>2. UNCHANGED op \/ op' = [op EXCEPT ![running[QueueOf[c]]] = r] BY <3>1
        <4> HIDE DEF r
        <4> QED BY <3>2, <4>1, <4>2, OpKept
      <3> QED BY <2>4, <3>1, <3>2
    <2>6. target' \in [Stop -> Op \cup {NoOp}] BY <1>8, <2>4 DEF StopSnapshot
    <2> QED BY <1>8, <2>3, <2>5, <2>6 DEF StopSnapshot
  <1>9. ASSUME NEW c \in Command, StopDone(c) PROVE TypeOK'
    <2>1. 0 \in Code BY DEF Code
    <2> QED BY <1>9, <2>1, AnswerType DEF StopDone
  <1>10. ASSUME NEW q \in Queue, Decommission(q) PROVE TypeOK'
    <2>1. running[q] \in Op BY <1>10 DEF Decommission
    <2>2. running' \in [Queue -> Op \cup {NoOp}] BY <1>10 DEF Decommission
    <2>3. pvMap' \in SUBSET (Pv \X Op) BY <1>10 DEF Decommission, Unmapped
    <2>4. requests' \in [Pv -> Nat] BY <1>10, <2>1, PositionsFinite DEF Decommission, Released
    <2> QED BY <1>10, <2>1, <2>2, <2>3, <2>4 DEF Decommission
  <1>11. ASSUME NEW o \in Op, RemoveSnapshot(o) PROVE TypeOK'
    <2>1. op' \in [Op -> OpRecord]
      BY <1>11, OpRecords DEF RemoveSnapshot
    <2>2. closing' \in SUBSET Op BY <1>11 DEF RemoveSnapshot, WaitedFor
    <2> QED BY <1>11, <2>1, <2>2 DEF RemoveSnapshot
  <1>12. CASE ShutdownBegins BY <1>12 DEF ShutdownBegins
  <1>13. CASE ShutdownEnds BY <1>13 DEF ShutdownEnds
  <1>14. CASE Down \/ UNCHANGED vars BY <1>14 DEF Down, vars
  <1>15. ASSUME NEW q \in Queue, Expiration(q) PROVE TypeOK' BY <1>15 DEF Expiration
  <1>16. ASSUME NEW o \in Op, LastTaskHangs(o) PROVE TypeOK' BY <1>16 DEF LastTaskHangs
  <1>17. ASSUME NEW p \in Pv, ChannelUnused(p) PROVE TypeOK' BY <1>17 DEF ChannelUnused
  <1>18. ASSUME NEW p \in Pv, ChannelErased(p) PROVE TypeOK' BY <1>18 DEF ChannelErased
  <1> QED BY <1>1, <1>2, <1>3, <1>4, <1>5, <1>6, <1>7, <1>8, <1>9, <1>10, <1>11, <1>12,
             <1>13, <1>14, <1>15, <1>16, <1>17, <1>18
          DEF Next, CommandStep, LastTask, SpuriousWakeup

-----------------------------------------------------------------------------
(* What the actions have in common. *)

\* A command that finds its operation finds a member of Op.
LEMMA FoundType ==
  ASSUME TypeOK, NEW c \in Command
  PROVE  QueueOf[c] \in Queue /\ running[QueueOf[c]] \in Op \cup {NoOp}
  BY DEF TypeOK, Queue

\* The commands that only answer or move on leave maps and operations alone.
Passive(c) ==
    StartCheck(c) \/ StartTopicFails(c) \/ StartDone(c) \/ TriggerSnapshot(c) \/ StopDone(c)

LEMMA PassiveEffect ==
  ASSUME TypeOK, NEW c \in Command, Passive(c)
  PROVE  /\ UNCHANGED <<running, pvMap, closing, held, channelVars, todo, target, shut, raced>>
         /\ \E place \in {"valid", "done", "thrown"} :
              /\ cpc' = [cpc EXCEPT ![c] = place]
              /\ place = "valid" => c \in Start /\ cpc[c] = "sent" /\ running[QueueOf[c]] = NoOp
              /\ c \in Start => \/ cpc[c] \in {"sent", "valid"}
                                \/ cpc[c] = "request" /\ place = "done" /\ todo[c] = <<>>
              /\ c \in Stop => /\ cpc[c] = "wait" /\ place = "done"
                               /\ op[target[c]].promise = "set"
         /\ cpc[c] \notin {"unsent", "done", "thrown"}
         /\ \A o \in Op : /\ op'[o].is_running <=> op[o].is_running
                          /\ op'[o].promise = op[o].promise
  <1> USE RegistryAssumption DEF registryVars, channelVars, Command
  <1>1. CASE StartCheck(c) BY <1>1 DEF StartCheck, Answer, Goto
  <1>2. CASE StartTopicFails(c) BY <1>2 DEF StartTopicFails, Goto
  <1>3. CASE StartDone(c) BY <1>3 DEF StartDone, Answer
  <1>4. CASE TriggerSnapshot(c)
    <2>1. running[QueueOf[c]] \in Op \cup {NoOp} BY FoundType
    <2>2. \A o \in Op : /\ op'[o].is_running <=> op[o].is_running
                       /\ op'[o].promise = op[o].promise
      <3>1. \/ UNCHANGED op
            \/ /\ running[QueueOf[c]] # NoOp
               /\ op' = [op EXCEPT ![running[QueueOf[c]]].trigger = TRUE]
        BY <1>4 DEF TriggerSnapshot
      <3>2. CASE UNCHANGED op BY <3>2
      <3>3. CASE ~UNCHANGED op
        <4> DEFINE x == running[QueueOf[c]]
                   r == [op[x] EXCEPT !.trigger = TRUE]
        <4>1. x \in Op /\ op' = [op EXCEPT ![x] = r] BY <2>1, <3>1, <3>3
        <4>2. r.is_running = op[x].is_running /\ r.promise = op[x].promise
          <5>1. op[x] \in OpRecord BY <4>1 DEF TypeOK
          <5> QED BY <5>1, OpRecords
        <4> HIDE DEF r, x
        <4> QED BY <4>1, <4>2 DEF TypeOK
      <3> QED BY <3>2, <3>3
    <2> QED BY <1>4, <2>2 DEF TriggerSnapshot, Answer
  <1>5. CASE StopDone(c) BY <1>5 DEF StopDone, Answer
  <1> QED BY <1>1, <1>2, <1>3, <1>4, <1>5 DEF Passive

\* What a stop does: it is answered or throws, or it marks the operation and waits.
\* A stop either finds nothing to do, or takes the promise of the operation.
StopFinds(c) ==
  UNCHANGED <<op, target>> /\ \E place \in {"done", "thrown"} : cpc' = [cpc EXCEPT ![c] = place]
StopTakes(c, o) ==
  /\ o = running[QueueOf[c]] /\ op[o].promise = "new"
  /\ op' = [op EXCEPT ![o] = [@ EXCEPT !.is_running = FALSE, !.promise = "taken"]]
  /\ target' = [target EXCEPT ![c] = o]
  /\ cpc' = [cpc EXCEPT ![c] = "wait"]

LEMMA StopEffect ==
  ASSUME TypeOK, NEW c \in Command, StopSnapshot(c)
  PROVE  /\ c \in Stop /\ cpc[c] = "sent"
         /\ UNCHANGED <<running, pvMap, closing, held, channelVars, todo, shut, raced>>
         /\ \E place \in {"done", "thrown", "wait"} : cpc' = [cpc EXCEPT ![c] = place]
         /\ StopFinds(c) \/ \E o \in Op : StopTakes(c, o)
  <1>1. running[QueueOf[c]] \in Op \cup {NoOp} BY FoundType
  <1>2. StopFinds(c) \/ \E o \in Op : StopTakes(c, o)
    BY <1>1 DEF StopSnapshot, Answer, Goto, AfterStop, StopFinds, StopTakes
  <1>3. \E place \in {"done", "thrown", "wait"} : cpc' = [cpc EXCEPT ![c] = place]
    BY <1>2 DEF StopFinds, StopTakes
  <1> QED BY <1>2, <1>3 DEF StopSnapshot, Answer, Goto

LEMMA InsertEffect ==
  ASSUME TypeOK, NEW c \in Command, StartInsert(c), NEW q \in Queue
  PROVE  \/ running'[q] = running[q]
         \/ q = QueueOf[c] /\ running[q] = NoOp /\ running'[q] = c
  <1>1. running \in [Queue -> Op \cup {NoOp}] BY DEF TypeOK
  <1>2. running' = [running EXCEPT ![QueueOf[c]] =
                      IF running[QueueOf[c]] = NoOp THEN c ELSE running[QueueOf[c]]]
    BY DEF StartInsert
  <1>3. CASE q = QueueOf[c]
    <2>1. running'[q] = IF running[q] = NoOp THEN c ELSE running[q] BY <1>1, <1>2, <1>3
    <2> QED BY <1>3, <2>1
  <1>4. CASE q # QueueOf[c] BY <1>1, <1>2, <1>4
  <1> QED BY <1>3, <1>4

\* What a last task does when it comes to its end, on time or after it hung.
Removal(o) == o \in closing /\ RemoveSnapshot(o)

\* The steps that touch neither the registry nor the commands.
Apart == UNCHANGED <<running, pvMap, op, closing, held, cpc, todo, target, reply, raced>>

LEMMA NextCases ==
  ASSUME [Next]_vars
  PROVE  \/ \E c \in Command : \/ Take(c) \/ Passive(c) \/ StartInsert(c)
                               \/ StartRequest(c) \/ StopSnapshot(c)
         \/ \E q \in Queue : Decommission(q) \/ Expiration(q)
         \/ \E o \in Op : Removal(o)
         \/ Apart /\ (UNCHANGED channelVars \/ \E p \in Pv : ChannelUnused(p) \/ ChannelErased(p))
  <1>1. CASE \E p \in Pv : ChannelUnused(p) \/ ChannelErased(p)
    BY <1>1 DEF ChannelUnused, ChannelErased, Apart, registryVars
  <1>2. CASE \E o \in Op : LastTask(o) \/ LastTaskHangs(o) \/ SpuriousWakeup(o)
    BY <1>2 DEF LastTask, LastTaskHangs, SpuriousWakeup, Removal, Apart
  <1>3. CASE ShutdownBegins \/ ShutdownEnds \/ Down \/ UNCHANGED vars
    BY <1>3 DEF ShutdownBegins, ShutdownEnds, Down, vars, registryVars, Apart
  <1> QED BY <1>1, <1>2, <1>3 DEF Next, CommandStep, Passive

-----------------------------------------------------------------------------
(* The life of an operation. *)

LEMMA LifeInductive ==
  ASSUME TypeOK, TypeOK', LifeInv, [Next]_vars
  PROVE  LifeInv'
  <1> USE RegistryAssumption DEF LifeInv, Entered, Op, registryVars, channelVars
  <1>0. \A e \in pvMap : e[2] \in Op BY DEF TypeOK
  <1>1. ASSUME NEW c \in Command, Take(c) PROVE LifeInv'
    <2>1. UNCHANGED <<running, pvMap, op, closing, held>> BY <1>1 DEF Take
    <2>2. \A o \in Op : Entered(o) => Entered(o)' BY <1>1 DEF Take, TypeOK
    <2>3. \A o \in Op : Gone(o) => Gone(o)' BY <2>1, <2>2 DEF Gone
    <2> HIDE DEF Entered
    <2>4. RunningInv' BY <2>1, <2>2 DEF RunningInv, TypeOK
    <2>5. PvMapInv' BY <2>1, <2>2, <1>0 DEF PvMapInv
    <2>6. ClosingInv' /\ HeldInv' BY <2>1, <2>3 DEF ClosingInv, HeldInv, TypeOK
    <2>7. PromiseInv' BY <2>1, <2>2 DEF PromiseInv
    <2> QED BY <2>4, <2>5, <2>6, <2>7
  <1>2. ASSUME NEW c \in Command, Passive(c) PROVE LifeInv'
    <2>0. UNCHANGED <<running, pvMap, closing, held>> BY <1>2, PassiveEffect
    <2>1. PICK place \in {"valid", "done", "thrown"} :
              /\ cpc' = [cpc EXCEPT ![c] = place]
              /\ c \in Start => \/ cpc[c] \in {"sent", "valid"}
                                \/ cpc[c] = "request" /\ place = "done"
      BY <1>2, PassiveEffect
    <2>2. \A o \in Op : Entered(o) => Entered(o)' BY <2>1, SMT DEF TypeOK, Command
    <2>3. \A o \in Op : /\ op'[o].is_running <=> op[o].is_running
                       /\ op'[o].promise = op[o].promise
      BY <1>2, PassiveEffect
    <2> HIDE DEF Entered
    <2>4. RunningInv'
      <3>1. \A q \in Queue : running[q] # NoOp =>
              /\ running[q] \in Op /\ QueueOf[running[q]] = q
              /\ Entered(running[q]) /\ op[running[q]].promise # "set"
        BY DEF RunningInv, TypeOK
      <3>2. \A q \in Queue : running[q] # NoOp =>
              /\ QueueOf[running[q]] = q
              /\ Entered(running[q])' /\ op'[running[q]].promise # "set"
        BY <3>1, <2>2, <2>3, <2>0, Zenon
      <3> QED BY <2>0, <3>2 DEF RunningInv
    <2>5. PvMapInv'
      <3>1. \A e \in pvMap : Entered(e[2]) /\ op[e[2]].promise # "set" BY DEF PvMapInv
      <3>2. \A e \in pvMap : Entered(e[2])' /\ op'[e[2]].promise # "set"
        BY <3>1, <2>2, <2>3, <1>0, Zenon
      <3> QED BY <2>0, <3>2 DEF PvMapInv
    <2>8. \A o \in Op : Gone(o) => Gone(o)' BY <2>0, <2>2, <2>3 DEF Gone
    <2>6. ClosingInv' /\ HeldInv' BY <2>0, <2>8 DEF ClosingInv, HeldInv, TypeOK
    <2>7. PromiseInv' BY <2>2, <2>3 DEF PromiseInv
    <2> QED BY <2>4, <2>5, <2>6, <2>7
  <1>3. ASSUME NEW c \in Command, StartInsert(c) PROVE LifeInv'
    <2>0. c \in Start /\ QueueOf[c] \in Queue BY <1>3 DEF StartInsert, Queue
    <2>1. /\ cpc' = [cpc EXCEPT ![c] = "request"] /\ cpc[c] = "valid"
          /\ UNCHANGED <<op, closing, held>> /\ held = NoOp
      BY <1>3 DEF StartInsert, Goto, Unlocked
    <2>2. \A o \in Op : Entered(o) => Entered(o)' BY <2>1 DEF TypeOK, Command
    <2>3. ~Entered(c) /\ Entered(c)' BY <2>0, <2>1 DEF TypeOK, Command
    <2>4. op[c].promise = "new" /\ c \notin closing
      BY <2>0, <2>3 DEF PromiseInv, ClosingInv, Gone
    <2> HIDE DEF Entered
    <2>5. RunningInv'
      <3>1. \A q \in Queue :
              running'[q] = running[q] \/ (q = QueueOf[c] /\ running'[q] = c)
        BY <1>3, InsertEffect
      <3> SUFFICES ASSUME NEW q \in Queue, running'[q] # NoOp
                   PROVE  /\ QueueOf[running'[q]] = q /\ Entered(running[q])'
                          /\ op'[running'[q]].promise # "set"
        BY DEF RunningInv
      <3>2. CASE running'[q] = c /\ q = QueueOf[c] BY <3>2, <2>1, <2>3, <2>4 DEF Entered
      <3>3. CASE running'[q] = running[q]
        BY <3>3, <2>1, <2>2 DEF RunningInv, TypeOK, Entered
      <3> QED BY <3>1, <3>2, <3>3
    <2>6. \A e \in pvMap' : e \in pvMap \/ e[2] = c BY <1>3 DEF StartInsert
    <2>7. PvMapInv' BY <2>6, <2>1, <2>2, <2>3, <2>4, <1>0 DEF PvMapInv
    <2>8. ClosingInv'
      <3>1. \A q \in Queue : running'[q] \in {running[q], c}
        BY <1>3, <2>0 DEF StartInsert, TypeOK
      <3> QED BY <3>1, <2>1, <2>2, <2>4, <2>6 DEF ClosingInv, Gone, TypeOK
    <2>9. PromiseInv' BY <2>1, <2>2 DEF PromiseInv
    <2>10. HeldInv' BY <2>1 DEF HeldInv
    <2> QED BY <2>5, <2>7, <2>8, <2>9, <2>10
  <1>4. ASSUME NEW c \in Command, StartRequest(c) PROVE LifeInv'
    BY <1>4 DEF StartRequest, RunningInv, PvMapInv, ClosingInv, HeldInv, Gone, PromiseInv
  <1>5. ASSUME NEW c \in Command, StopSnapshot(c) PROVE LifeInv'
    <2>0. c \in Stop /\ cpc[c] = "sent" /\ UNCHANGED <<running, pvMap, closing, held>>
      BY <1>5, StopEffect
    <2>1. \A o \in Op : Entered(o)' <=> Entered(o)
      <3>1. \E place \in {"done", "thrown", "wait"} : cpc' = [cpc EXCEPT ![c] = place]
        BY <1>5, StopEffect
      <3>2. \A o \in Op : o # c BY <2>0
      <3> QED BY <3>1, <3>2 DEF TypeOK, Command
    <2>2. CASE UNCHANGED op
      <3> HIDE DEF Entered
      <3>1. \A o \in Op : Gone(o) => Gone(o)' BY <2>0, <2>1, <2>2 DEF Gone
      <3>2. ClosingInv' /\ HeldInv' BY <2>0, <3>1 DEF ClosingInv, HeldInv, TypeOK
      <3> QED BY <2>0, <2>1, <2>2, <3>2, <1>0 DEF RunningInv, PvMapInv, PromiseInv, TypeOK
    <2>3. CASE ~UNCHANGED op
      <3>1. PICK o \in Op :
              /\ o = running[QueueOf[c]] /\ op[o].promise = "new"
              /\ op' = [op EXCEPT ![o] = [@ EXCEPT !.is_running = FALSE, !.promise = "taken"]]
        <4>1. PICK o \in Op : StopTakes(c, o) BY <1>5, <2>3, StopEffect DEF StopFinds
        <4> QED BY <4>1 DEF StopTakes
      <3>2. /\ op'[o].is_running = FALSE /\ op'[o].promise = "taken"
            /\ \A x \in Op : x # o => op'[x] = op[x]
        BY <3>1 DEF TypeOK, OpRecord
      <3>3. Entered(o)
        <4>1. QueueOf[c] \in Queue BY FoundType
        <4> QED BY <3>1, <4>1 DEF RunningInv
      <3> HIDE DEF Entered
      <3>4. RunningInv'
        <4>1. \A x \in Op : op[x].promise # "set" => op'[x].promise # "set" BY <3>2
        <4>2. \A q \in Queue : running[q] # NoOp => running[q] \in Op BY DEF TypeOK
        <4> QED BY <2>0, <2>1, <4>1, <4>2 DEF RunningInv
      <3>5. PvMapInv' BY <2>0, <2>1, <3>2, <1>0 DEF PvMapInv
      <3>8. \A x \in Op : Gone(x) => Gone(x)' BY <2>0, <2>1, <3>1, <3>2 DEF Gone
      <3>6. ClosingInv' /\ HeldInv' BY <2>0, <3>8 DEF ClosingInv, HeldInv, TypeOK
      <3>7. PromiseInv' BY <2>1, <3>2, <3>3 DEF PromiseInv
      <3> QED BY <3>4, <3>5, <3>6, <3>7
    <2> QED BY <2>2, <2>3
  <1>6. ASSUME NEW q \in Queue, Decommission(q) PROVE LifeInv'
    <2>0. PICK o \in Op : o = running[q] BY <1>6 DEF Decommission, TypeOK
    <2>1. /\ o = running[q] /\ ~op[o].is_running /\ held = NoOp
          /\ running' = [running EXCEPT ![q] = NoOp]
          /\ closing' \in {closing, closing \cup {o}} /\ held' \in {NoOp, o}
          /\ pvMap' = {e \in pvMap : e[2] # o} /\ UNCHANGED <<op, cpc>>
      BY <1>6, <2>0 DEF Decommission, Unmapped, Unlocked, TypeOK
    <2>2. Entered(o) /\ op[o].promise = "taken" /\ QueueOf[o] = q
      BY <2>1 DEF RunningInv, PromiseInv, TypeOK, OpRecord
    <2>3. RunningInv' BY <2>1 DEF RunningInv, TypeOK
    <2>4. PvMapInv' BY <2>1 DEF PvMapInv
    <2>5. \A r \in Queue : running'[r] # o
      BY <2>1, <2>2 DEF RunningInv, TypeOK
    <2>8. Gone(o)' BY <2>1, <2>2, <2>5 DEF Gone
    <2>9. \A x \in Op : Gone(x) => Gone(x)' BY <2>1 DEF Gone, TypeOK
    <2> HIDE DEF Entered
    <2>6. ClosingInv' BY <2>1, <2>8, <2>9 DEF ClosingInv, TypeOK
    <2>11. o \notin closing BY <2>1, <2>2 DEF ClosingInv, Gone
    <2>12. held' # NoOp => held' = o /\ closing' = closing
      BY <1>6, <2>1 DEF Decommission
    <2>10. HeldInv' BY <2>8, <2>11, <2>12 DEF HeldInv
    <2>7. PromiseInv' BY <2>1 DEF PromiseInv, Entered
    <2> QED BY <2>3, <2>4, <2>6, <2>7, <2>10
  <1>7. ASSUME NEW o \in Op, Removal(o) PROVE LifeInv'
    <2>1. /\ o \in closing /\ UNCHANGED <<running, pvMap, cpc>>
          /\ \A x \in closing' : \/ x \in closing /\ x # o
                                 \/ x = held /\ x # NoOp /\ running[QueueOf[x]] # x
          /\ held' \in {NoOp, held}
          /\ op' = [op EXCEPT ![o].promise = "set"]
      BY <1>7 DEF Removal, RemoveSnapshot, WaitedFor
    <2>2. /\ op'[o].promise = "set" /\ (op'[o].is_running <=> op[o].is_running)
          /\ \A x \in Op : x # o => op'[x] = op[x]
      BY <2>1 DEF TypeOK, OpRecord
    <2>3. /\ Entered(o) /\ op[o].promise = "taken"
          /\ \A q \in Queue : running[q] # o
          /\ \A e \in pvMap : e[2] # o
      BY <2>1 DEF ClosingInv, Gone
    <2>4. RunningInv' BY <2>1, <2>2, <2>3 DEF RunningInv, TypeOK
    <2>5. PvMapInv' BY <2>1, <2>2, <2>3, <1>0 DEF PvMapInv
    <2>8. \A x \in Op : x # o /\ Gone(x) => Gone(x)' BY <2>1, <2>2 DEF Gone
    <2>9. held # o BY <2>1 DEF HeldInv
    <2>11. o \notin closing' BY <2>1, <2>9
    <2>12. held' # NoOp => held' \notin closing'
      BY <1>7, <2>1 DEF HeldInv, Removal, RemoveSnapshot
    <2>6. ClosingInv' /\ HeldInv'
      <3>1. \A x \in closing' : x # o BY <2>11
      <3>2. ClosingInv' BY <2>1, <2>8, <3>1 DEF ClosingInv, HeldInv, TypeOK
      <3>3. HeldInv' BY <2>1, <2>8, <2>9, <2>12 DEF HeldInv, TypeOK
      <3> QED BY <3>2, <3>3
    <2>7. PromiseInv' BY <2>1, <2>2, <2>3 DEF PromiseInv
    <2> QED BY <2>4, <2>5, <2>6, <2>7
  <1>8. CASE Apart
    BY <1>8 DEF Apart, RunningInv, PvMapInv, ClosingInv, HeldInv, Gone, PromiseInv
  <1>9. ASSUME NEW q \in Queue, Expiration(q) PROVE LifeInv'
    <2>1. /\ UNCHANGED <<running, pvMap, op, closing, cpc>>
          /\ running[q] # NoOp /\ held' = running[q]
      BY <1>9 DEF Expiration
    <2>3. running[q] \notin closing BY <2>1 DEF ClosingInv, Gone
    <2>2. HeldInv' BY <2>1, <2>3 DEF HeldInv, RunningInv
    <2> QED BY <2>1, <2>2 DEF RunningInv, PvMapInv, ClosingInv, Gone, PromiseInv
  <1> QED BY <1>1, <1>2, <1>3, <1>4, <1>5, <1>6, <1>7, <1>8, <1>9, NextCases

-----------------------------------------------------------------------------
(* A stop and the operation it waits for. *)

LEMMA StopInductive ==
  ASSUME TypeOK, LifeInv, StopInv, [Next]_vars
  PROVE  StopInv'
  <1> USE RegistryAssumption DEF registryVars, channelVars
  <1> DEFINE Waits(c) ==
               /\ cpc[c] = "wait" => target[c] # NoOp
               /\ target[c] # NoOp => /\ cpc[c] \in {"wait", "done"}
                                      /\ op[target[c]].promise # "new"
                                      /\ cpc[c] = "done" => op[target[c]].promise = "set"
  <1>0. /\ \A s \in Stop : s \in Command /\ target[s] \in Op \cup {NoOp} /\ Waits(s)
        /\ \A s \in Stop : s \notin Start /\ s \notin Trigger
    BY DEF TypeOK, StopInv, Command
  <1>1. ASSUME NEW c \in Command, Take(c) PROVE StopInv'
    BY <1>1, <1>0 DEF Take, TypeOK, StopInv
  <1>2. ASSUME NEW c \in Command, Passive(c) PROVE StopInv'
    <2> SUFFICES ASSUME NEW s \in Stop PROVE Waits(s)' BY DEF StopInv
    <2>1. UNCHANGED target BY <1>2, PassiveEffect
    <2>2. \A o \in Op : op'[o].promise = op[o].promise BY <1>2, PassiveEffect
    <2>3. PICK place \in {"valid", "done", "thrown"} :
              /\ cpc' = [cpc EXCEPT ![c] = place]
              /\ c \in Stop => /\ cpc[c] = "wait" /\ place = "done"
                               /\ op[target[c]].promise = "set"
      BY <1>2, PassiveEffect
    <2>4. CASE s = c BY <2>1, <2>2, <2>3, <2>4, <1>0 DEF TypeOK
    <2>5. CASE s # c BY <2>1, <2>2, <2>3, <2>5, <1>0 DEF TypeOK
    <2> QED BY <2>4, <2>5
  <1>3. ASSUME NEW c \in Command, StartInsert(c) PROVE StopInv'
    BY <1>3, <1>0 DEF StartInsert, Goto, TypeOK, StopInv
  <1>4. ASSUME NEW c \in Command, StartRequest(c) PROVE StopInv'
    BY <1>4 DEF StartRequest, StopInv
  <1>5. ASSUME NEW c \in Command, StopSnapshot(c) PROVE StopInv'
    <2> SUFFICES ASSUME NEW s \in Stop PROVE Waits(s)' BY DEF StopInv
    <2>0. c \in Stop /\ cpc[c] = "sent" /\ target[c] = NoOp BY <1>5, <1>0, StopEffect
    <2>1. CASE StopFinds(c)
      BY <2>0, <2>1, <1>0 DEF TypeOK, StopFinds
    <2>2. ASSUME NEW o \in Op, StopTakes(c, o) PROVE Waits(s)'
      <3>1. op'[o].promise = "taken" /\ \A x \in Op : x # o => op'[x] = op[x]
        BY <2>2 DEF TypeOK, OpRecord, StopTakes
      <3>2. CASE s = c BY <2>0, <2>2, <3>1, <3>2 DEF TypeOK, StopTakes
      <3>3. CASE s # c
        <4>1. target'[s] = target[s] /\ cpc'[s] = cpc[s] BY <2>2, <3>3, <1>0 DEF TypeOK, StopTakes
        <4> QED BY <2>2, <3>1, <4>1, <1>0 DEF StopTakes
      <3> QED BY <3>2, <3>3
    <2> HIDE DEF Waits
    <2> QED BY <1>5, <2>1, <2>2, StopEffect
  <1>6. ASSUME NEW q \in Queue, Decommission(q) PROVE StopInv'
    BY <1>6 DEF Decommission, StopInv
  <1>7. ASSUME NEW o \in Op, Removal(o) PROVE StopInv'
    <2>1. /\ op'[o].promise = "set" /\ UNCHANGED <<cpc, target>>
          /\ \A x \in Op : x # o => op'[x] = op[x]
      BY <1>7 DEF Removal, RemoveSnapshot, TypeOK, OpRecord
    <2> QED BY <2>1, <1>0 DEF StopInv
  <1>8. CASE Apart \/ \E q \in Queue : Expiration(q)
    BY <1>8 DEF Apart, Expiration, StopInv
  <1> QED BY <1>1, <1>2, <1>3, <1>4, <1>5, <1>6, <1>7, <1>8, NextCases

-----------------------------------------------------------------------------
(* Commands that overlap. *)

LEMMA RaceInductive ==
  ASSUME TypeOK, LifeInv, RaceInv, [Next]_vars
  PROVE  RaceInv'
  <1> USE RegistryAssumption DEF registryVars, channelVars
  <1> DEFINE Noted(c, d) ==
               c # d /\ QueueOf[c] = QueueOf[d] /\ InProgress(c) /\ InProgress(d) =>
                   /\ Raced(QueueOf[c])
                   /\ {c, d} \subseteq Start => StartsRaced(QueueOf[c])
             Free(c) ==
               cpc[c] = "valid" /\ running[QueueOf[c]] # NoOp =>
                   Raced(QueueOf[c]) /\ StartsRaced(QueueOf[c])
  <1>0. /\ \A c, d \in Command : Noted(c, d)
        /\ \A c \in Start : c \in Command /\ Free(c)
    BY DEF RaceInv, Command
  <1>1. ASSUME NEW c \in Command, Take(c) PROVE RaceInv'
    <2>1. cpc' = [cpc EXCEPT ![c] = "sent"] /\ UNCHANGED running BY <1>1 DEF Take
    <2>2. raced \subseteq raced' BY <1>1 DEF Take
    <2>3. \A d \in Command : InProgress(d) /\ QueueOf[d] = QueueOf[c] =>
            /\ <<QueueOf[d], "commands">> \in raced'
            /\ {c, d} \subseteq Start => <<QueueOf[d], "starts">> \in raced'
      BY <1>1 DEF Take
    <2>4. \A d \in Command : d # c => (InProgress(d)' <=> InProgress(d)) /\ cpc'[d] = cpc[d]
      BY <2>1 DEF InProgress, TypeOK
    <2>5. cpc'[c] = "sent" BY <2>1 DEF TypeOK
    <2>6. \A x, y \in Command : Noted(x, y)'
      <3> TAKE x, y \in Command
      <3>1. CASE x # c /\ y # c BY <3>1, <2>2, <2>4, <1>0 DEF Raced, StartsRaced
      <3>2. CASE x = c \/ y = c BY <3>2, <2>3, <2>4 DEF Raced, StartsRaced
      <3> QED BY <3>1, <3>2
    <2>7. \A x \in Start : Free(x)' BY <2>1, <2>2, <2>4, <2>5, <1>0 DEF Raced, StartsRaced
    <2> QED BY <2>6, <2>7 DEF RaceInv
  <1>2. ASSUME NEW c \in Command, Passive(c) PROVE RaceInv'
    <2>1. PICK place \in {"valid", "done", "thrown"} :
              /\ cpc' = [cpc EXCEPT ![c] = place]
              /\ place = "valid" => running[QueueOf[c]] = NoOp
      BY <1>2, PassiveEffect
    <2>2. InProgress(c) /\ UNCHANGED <<running, raced>> BY <1>2, PassiveEffect DEF InProgress
    <2>3. \A x \in Command : InProgress(x)' => InProgress(x) BY <2>1, <2>2 DEF InProgress, TypeOK
    <2>4. \A x, y \in Command : Noted(x, y)' BY <2>2, <2>3, <1>0 DEF Raced, StartsRaced
    <2>5. \A x \in Start : Free(x)' BY <2>1, <2>2, <1>0 DEF Raced, StartsRaced, TypeOK
    <2> QED BY <2>4, <2>5 DEF RaceInv
  <1>3. ASSUME NEW c \in Command, StartInsert(c) PROVE RaceInv'
    <2>1. /\ c \in Start /\ cpc[c] = "valid" /\ cpc' = [cpc EXCEPT ![c] = "request"]
          /\ UNCHANGED raced
      BY <1>3 DEF StartInsert, Goto
    <2>2. \A x \in Command : InProgress(x)' => InProgress(x) BY <2>1 DEF InProgress, TypeOK
    <2>3. \A x, y \in Command : Noted(x, y)' BY <2>1, <2>2, <1>0 DEF Raced, StartsRaced
    <2>4. ASSUME NEW x \in Start, cpc'[x] = "valid", running'[QueueOf[x]] # NoOp
          PROVE  (Raced(QueueOf[x]) /\ StartsRaced(QueueOf[x]))'
      <3>1. x # c /\ cpc[x] = "valid" BY <2>1, <2>4 DEF TypeOK, Command
      <3>2. CASE running[QueueOf[x]] # NoOp BY <2>1, <3>1, <3>2, <1>0 DEF Raced, StartsRaced
      <3>3. CASE running[QueueOf[x]] = NoOp
        <4>1. QueueOf[x] \in Queue BY FoundType, <1>0
        <4>2. QueueOf[x] = QueueOf[c] BY <1>3, <2>4, <3>3, <4>1, InsertEffect
        <4>3. InProgress(x) /\ InProgress(c) BY <2>1, <3>1 DEF InProgress
        <4> QED BY <2>1, <3>1, <4>2, <4>3, <1>0 DEF Raced, StartsRaced
      <3> QED BY <3>2, <3>3
    <2> QED BY <2>3, <2>4 DEF RaceInv
  <1>4. ASSUME NEW c \in Command, StartRequest(c) PROVE RaceInv'
    BY <1>4 DEF StartRequest, RaceInv, InProgress, Raced, StartsRaced
  <1>5. ASSUME NEW c \in Command, StopSnapshot(c) PROVE RaceInv'
    <2>1. /\ c \in Stop /\ cpc[c] = "sent" /\ UNCHANGED <<running, raced>>
          /\ \E place \in {"done", "thrown", "wait"} : cpc' = [cpc EXCEPT ![c] = place]
      BY <1>5, StopEffect
    <2>2. \A x \in Command : InProgress(x)' => InProgress(x) BY <2>1 DEF InProgress, TypeOK
    <2>3. \A x, y \in Command : Noted(x, y)' BY <2>1, <2>2, <1>0 DEF Raced, StartsRaced
    <2>4. \A x \in Start : Free(x)' BY <2>1, <1>0 DEF Raced, StartsRaced, TypeOK
    <2> QED BY <2>3, <2>4 DEF RaceInv
  <1>6. ASSUME NEW q \in Queue, Decommission(q) PROVE RaceInv'
    <2>1. /\ running' = [running EXCEPT ![q] = NoOp] /\ UNCHANGED <<cpc, raced>>
      BY <1>6 DEF Decommission
    <2>2. \A x, y \in Command : Noted(x, y)' BY <2>1, <1>0 DEF Raced, StartsRaced, InProgress
    <2>3. \A x \in Start : Free(x)' BY <2>1, <1>0 DEF Raced, StartsRaced, TypeOK
    <2> QED BY <2>2, <2>3 DEF RaceInv
  <1>7. ASSUME NEW o \in Op, Removal(o) PROVE RaceInv'
    BY <1>7 DEF Removal, RemoveSnapshot, RaceInv, InProgress, Raced, StartsRaced
  <1>8. CASE Apart \/ \E q \in Queue : Expiration(q)
    BY <1>8 DEF Apart, Expiration, RaceInv, InProgress, Raced, StartsRaced
  <1> QED BY <1>1, <1>2, <1>3, <1>4, <1>5, <1>6, <1>7, <1>8, NextCases

-----------------------------------------------------------------------------
(* No operation is left collecting events, and every reply can be read. *)

LEMMA OrphanInductive ==
  ASSUME TypeOK, LifeInv, RaceInv, NoOrphan, [Next]_vars
  PROVE  NoOrphan'
  <1> USE RegistryAssumption DEF registryVars, channelVars
  <1>0. \A e \in pvMap : /\ e[2] \in Start /\ e[2] # NoOp /\ QueueOf[e[2]] \in Queue
                         /\ running[QueueOf[e[2]]] = e[2] \/ StartsRaced(QueueOf[e[2]])
    BY DEF TypeOK, NoOrphan, StartsRaced, Op, Queue, Command
  <1>1. ASSUME NEW c \in Command, Take(c) PROVE NoOrphan'
    BY <1>1 DEF Take, NoOrphan
  <1>2. ASSUME NEW c \in Command, Passive(c) PROVE NoOrphan'
    BY <1>2, PassiveEffect DEF NoOrphan
  <1>3. ASSUME NEW c \in Command, StartInsert(c) PROVE NoOrphan'
    <2>1. /\ c \in Start /\ cpc[c] = "valid" /\ UNCHANGED raced
          /\ \A e \in pvMap' : e \in pvMap \/ e[2] = c
          /\ running' = [running EXCEPT ![QueueOf[c]] =
                           IF running[QueueOf[c]] = NoOp THEN c ELSE running[QueueOf[c]]]
      BY <1>3 DEF StartInsert, Goto
    <2>2. QueueOf[c] \in Queue BY FoundType
    <2> SUFFICES ASSUME NEW e \in pvMap'
                 PROVE  running'[QueueOf[e[2]]] = e[2] \/ StartsRaced(QueueOf[e[2]])
      BY <2>1 DEF NoOrphan, StartsRaced
    <2>3. CASE e[2] = c
      <3>1. CASE running[QueueOf[c]] = NoOp
        <4>1. running'[QueueOf[c]] = c BY <2>1, <2>2, <3>1 DEF TypeOK
        <4> QED BY <2>3, <4>1
      <3>2. CASE running[QueueOf[c]] # NoOp BY <2>1, <2>3, <3>2 DEF RaceInv
      <3> QED BY <3>1, <3>2
    <2>4. CASE e[2] # c
      <3>1. e \in pvMap BY <2>1, <2>4
      <3>2. CASE StartsRaced(QueueOf[e[2]]) BY <3>2
      <3>3. CASE running[QueueOf[e[2]]] = e[2] BY <1>0, <1>3, <2>4, <3>1, <3>3, InsertEffect
      <3> QED BY <1>0, <3>1, <3>2, <3>3
    <2> QED BY <2>3, <2>4
  <1>4. ASSUME NEW c \in Command, StartRequest(c) PROVE NoOrphan'
    BY <1>4 DEF StartRequest, NoOrphan
  <1>5. ASSUME NEW c \in Command, StopSnapshot(c) PROVE NoOrphan'
    BY <1>5, StopEffect DEF NoOrphan
  <1>6. ASSUME NEW q \in Queue, Decommission(q) PROVE NoOrphan'
    <2>1. /\ running' = [running EXCEPT ![q] = NoOp] /\ UNCHANGED raced
          /\ pvMap' = {e \in pvMap : e[2] # running[q]}
      BY <1>6 DEF Decommission, Unmapped
    <2> SUFFICES ASSUME NEW e \in pvMap', ~StartsRaced(QueueOf[e[2]])
                 PROVE  running'[QueueOf[e[2]]] = e[2]
      BY <2>1 DEF NoOrphan, StartsRaced
    <2>2. e \in pvMap /\ e[2] # running[q] BY <2>1
    <2>3. running[QueueOf[e[2]]] = e[2] /\ QueueOf[e[2]] \in Queue BY <1>0, <2>2
    <2>4. QueueOf[e[2]] # q BY <2>2, <2>3
    <2> QED BY <2>1, <2>3, <2>4 DEF TypeOK
  <1>7. ASSUME NEW o \in Op, Removal(o) PROVE NoOrphan'
    BY <1>7 DEF Removal, RemoveSnapshot, NoOrphan
  <1>8. CASE Apart \/ \E q \in Queue : Expiration(q)
    BY <1>8 DEF Apart, Expiration, NoOrphan
  <1> QED BY <1>1, <1>2, <1>3, <1>4, <1>5, <1>6, <1>7, <1>8, NextCases

ReplyKeys == {"error", "reply_id", "message", "publishing_topic"}
Plain == <<"error", "reply_id">> \o <<"message">> \o <<>>
WithTopic == <<"error", "reply_id">> \o <<"message">> \o <<"publishing_topic">>

LEMMA KeyTypes ==
  /\ <<"error", "reply_id">> \in Seq(ReplyKeys) /\ <<"message">> \in Seq(ReplyKeys)
  /\ <<"publishing_topic">> \in Seq(ReplyKeys) /\ <<>> \in Seq(ReplyKeys)
  BY DEF ReplyKeys

LEMMA KeySeq ==
  ASSUME NEW t \in Seq(ReplyKeys)
  PROVE  <<"error", "reply_id">> \o <<"message">> \o t \in Seq(ReplyKeys)
  BY KeyTypes

\* Neither list of keys names a key twice.
LEMMA PlainKeys ==
  Len(Plain) = 3 /\ \A i, j \in DOMAIN Plain : Plain[i] = Plain[j] => i = j
  <1>1. Plain \in Seq(ReplyKeys) BY KeySeq, KeyTypes DEF Plain
  <1>2. Len(Plain) = 3 BY DEF Plain
  <1>3. Plain[1] = "error" BY DEF Plain
  <1>4. Plain[2] = "reply_id" BY DEF Plain
  <1>5. Plain[3] = "message" BY DEF Plain
  <1>6. DOMAIN Plain = 1 .. Len(Plain) BY <1>1
  <1> QED BY <1>2, <1>3, <1>4, <1>5, <1>6

LEMMA TopicKeys ==
  Len(WithTopic) = 4 /\ \A i, j \in DOMAIN WithTopic : WithTopic[i] = WithTopic[j] => i = j
  <1>1. WithTopic \in Seq(ReplyKeys) BY KeySeq, KeyTypes DEF WithTopic
  <1>2. Len(WithTopic) = 4 BY DEF WithTopic
  <1>3. WithTopic[1] = "error" BY DEF WithTopic
  <1>4. WithTopic[2] = "reply_id" BY DEF WithTopic
  <1>5. WithTopic[3] = "message" BY DEF WithTopic
  <1>6. WithTopic[4] = "publishing_topic" BY DEF WithTopic
  <1>7. DOMAIN WithTopic = 1 .. Len(WithTopic) BY <1>1
  <1> QED BY <1>2, <1>3, <1>4, <1>5, <1>6, <1>7

LEMMA ThreePairs ==
  ASSUME NEW m, NEW t, m = 1, t = 0
  PROVE  m + t + 2 = 3
  OBVIOUS

LEMMA ReplyDecodable ==
  ASSUME NEW r \in Reply
  PROVE  Decodable(r.wire)
  <1>1. CASE r = NoReply
    <2>1. r.wire.header = 0 /\ r.wire.keys = <<>> BY <1>1 DEF NoReply, Wire
    <2> QED BY <2>1 DEF Decodable
  <1>2. ASSUME NEW topic \in {"", "topic"}, NEW code, r = Replied(code, topic)
        PROVE  Decodable(r.wire)
    <2>0. r.wire = ContinuousReplyMsgpack("text", topic) BY <1>2 DEF Replied
    <2>1. CASE topic = ""
      <3>1. Opt("message", "text") = <<"message">> /\ Opt("publishing_topic", topic) = <<>>
        BY <2>1 DEF Opt
      <3>2. r.wire.header = 3
        <4> DEFINE m == IF "text" = "" THEN 0 ELSE 1
                   t == IF topic = "" THEN 0 ELSE 1
        <4>1. m = 1 OBVIOUS
        <4>2. t = 0 BY <2>1
        <4>3. ContinuousReplyMsgpack("text", topic).header = m + t + 2
          BY DEF ContinuousReplyMsgpack, CommandReplyMsgpack, Wire
        <4> HIDE DEF m, t
        <4> QED BY <2>0, <4>1, <4>2, <4>3, ThreePairs, Zenon
      <3>3. r.wire.keys = <<"error", "reply_id">> \o Opt("message", "text")
                            \o Opt("publishing_topic", topic)
        BY <2>0, <2>1 DEF ContinuousReplyMsgpack, CommandReplyMsgpack, Wire
      <3>4. r.wire.keys = Plain BY <3>1, <3>3, Zenon DEF Plain
      <3> QED BY <3>2, <3>4, PlainKeys DEF Decodable
    <2>2. CASE topic = "topic"
      <3>1. r.wire.header = 4 /\ r.wire.keys = WithTopic
        BY <2>0, <2>2 DEF ContinuousReplyMsgpack, CommandReplyMsgpack, Wire, Opt, WithTopic
      <3> QED BY <3>1, TopicKeys DEF Decodable
    <2> QED BY <2>1, <2>2
  <1> QED BY <1>1, <1>2 DEF Reply

-----------------------------------------------------------------------------
(* What a start has still to request. *)

LEMMA TodoKept ==
  ASSUME TodoInv, UNCHANGED todo,
         \A x \in Start : cpc'[x] # "request" => cpc[x] # "request"
  PROVE  TodoInv'
  BY DEF TodoInv

LEMMA TodoInductive ==
  ASSUME TypeOK, TodoInv, [Next]_vars
  PROVE  TodoInv'
  <1> USE RegistryAssumption DEF registryVars, channelVars
  <1> DEFINE Rest(c) ==
               /\ cpc[c] # "request" => todo[c] = <<>>
               /\ Len(todo[c]) <= Len(PvList[c])
               /\ \A k \in 1 .. Len(todo[c]) :
                    todo[c][k] = PvList[c][Len(PvList[c]) - Len(todo[c]) + k]
  <1>0. \A x \in Start : x \in Command /\ Rest(x) BY DEF TodoInv, Command
  <1>1. ASSUME NEW c \in Command, Take(c) PROVE TodoInv'
    <2>1. UNCHANGED todo /\ cpc[c] = "unsent" /\ cpc' = [cpc EXCEPT ![c] = "sent"]
      BY <1>1 DEF Take
    <2>2. \A x \in Command : cpc'[x] # "request" => cpc[x] # "request" BY <2>1 DEF TypeOK
    <2> QED BY <2>1, <2>2, <1>0, TodoKept
  <1>2. ASSUME NEW c \in Command, Passive(c) PROVE TodoInv'
    <2>1. UNCHANGED todo BY <1>2, PassiveEffect
    <2>2. PICK place \in {"valid", "done", "thrown"} :
            /\ cpc' = [cpc EXCEPT ![c] = place]
            /\ c \in Start => \/ cpc[c] \in {"sent", "valid"}
                              \/ todo[c] = <<>>
      BY <1>2, PassiveEffect
    <2>3. \A x \in Start : cpc'[x] # "request" => cpc[x] # "request" \/ todo[x] = <<>>
      BY <2>2, <1>0 DEF TypeOK
    <2> QED BY <2>1, <2>3, <1>0 DEF TodoInv
  <1>3. ASSUME NEW c \in Command, StartInsert(c) PROVE TodoInv'
    <2>1. /\ c \in Start /\ cpc' = [cpc EXCEPT ![c] = "request"]
          /\ todo' = [todo EXCEPT ![c] = PvList[c]]
      BY <1>3 DEF StartInsert, Goto
    <2> SUFFICES ASSUME NEW x \in Start PROVE Rest(x)' BY DEF TodoInv
    <2>2. CASE x = c
      <3>1. cpc'[x] = "request" /\ todo'[x] = PvList[x] BY <2>1, <2>2 DEF TypeOK
      <3>2. PvList[x] \in Seq(Pv) /\ Len(PvList[x]) \in Nat OBVIOUS
      <3> QED BY <3>1, <3>2
    <2>3. CASE x # c
      <3>1. cpc'[x] = cpc[x] /\ todo'[x] = todo[x] BY <2>1, <2>3, <1>0 DEF TypeOK
      <3>2. Rest(x) BY <1>0
      <3> QED BY <3>1, <3>2, Zenon
    <2> QED BY <2>2, <2>3
  <1>4. ASSUME NEW c \in Command, StartRequest(c) PROVE TodoInv'
    <2>1. /\ c \in Start /\ todo[c] # <<>> /\ cpc[c] = "request" /\ UNCHANGED cpc
          /\ todo' = [todo EXCEPT ![c] = Tail(todo[c])]
      BY <1>4 DEF StartRequest
    <2> SUFFICES ASSUME NEW x \in Start PROVE Rest(x)' BY DEF TodoInv
    <2>2. CASE x = c
      <3>1. todo[x] \in Seq(Pv) /\ todo'[x] = Tail(todo[x]) BY <2>1, <2>2 DEF TypeOK
      <3>2. /\ Len(todo[x]) \in Nat /\ Len(todo[x]) > 0 /\ Len(todo'[x]) = Len(todo[x]) - 1
            /\ Len(PvList[x]) \in Nat
        <4>1. todo[x] # <<>> /\ PvList[x] \in Seq(Pv) BY <2>1, <2>2
        <4>2. Len(todo[x]) \in Nat /\ Len(todo[x]) # 0 /\ Len(PvList[x]) \in Nat BY <3>1, <4>1
        <4>3. Len(Tail(todo[x])) = Len(todo[x]) - 1 BY <3>1, <4>1
        <4> QED BY <3>1, <4>2, <4>3
      <3>3. \A k \in 1 .. Len(todo'[x]) : todo'[x][k] = todo[x][k + 1] BY <3>1, <3>2
      <3>4. \A k \in 1 .. Len(todo'[x]) :
              todo'[x][k] = PvList[x][Len(PvList[x]) - Len(todo'[x]) + k]
        <4> TAKE k \in 1 .. Len(todo'[x])
        <4>1. k + 1 \in 1 .. Len(todo[x]) BY <3>2
        <4>0. \A j \in 1 .. Len(todo[x]) : todo[x][j] = PvList[x][Len(PvList[x]) - Len(todo[x]) + j]
          BY <2>1, <2>2, <1>0
        <4>2. todo[x][k + 1] = PvList[x][Len(PvList[x]) - Len(todo[x]) + (k + 1)] BY <4>0, <4>1
        <4>3. Len(PvList[x]) - Len(todo[x]) + (k + 1) = Len(PvList[x]) - Len(todo'[x]) + k
          BY <3>2
        <4> QED BY <3>3, <4>2, <4>3
      <3>5. cpc'[x] = "request" BY <2>1, <2>2
      <3>6. Len(todo'[x]) <= Len(PvList[x])
        <4>1. Len(todo[x]) <= Len(PvList[x]) BY <1>0
        <4> QED BY <3>2, <4>1
      <3> QED BY <3>4, <3>5, <3>6
    <2>3. CASE x # c
      <3>1. cpc'[x] = cpc[x] /\ todo'[x] = todo[x] BY <2>1, <2>3 DEF TypeOK
      <3>2. Rest(x) BY <1>0
      <3> QED BY <3>1, <3>2, Zenon
    <2> QED BY <2>2, <2>3
  <1>5. ASSUME NEW c \in Command, StopSnapshot(c) PROVE TodoInv'
    <2>1. /\ c \in Stop /\ UNCHANGED todo
          /\ \E place \in {"done", "thrown", "wait"} : cpc' = [cpc EXCEPT ![c] = place]
      BY <1>5, StopEffect
    <2>2. \A x \in Start : cpc'[x] = cpc[x] BY <2>1, <1>0 DEF TypeOK
    <2> QED BY <2>1, <2>2, <1>0, TodoKept
  <1>6. ASSUME NEW q \in Queue, Decommission(q) PROVE TodoInv'
    BY <1>6 DEF Decommission, TodoInv
  <1>7. ASSUME NEW o \in Op, Removal(o) PROVE TodoInv'
    BY <1>7 DEF Removal, RemoveSnapshot, TodoInv
  <1>8. CASE Apart \/ \E q \in Queue : Expiration(q)
    <2>1. UNCHANGED <<cpc, todo>> BY <1>8 DEF Apart, Expiration
    <2> QED BY <2>1 DEF TodoInv
  <1> QED BY <1>1, <1>2, <1>3, <1>4, <1>5, <1>6, <1>7, <1>8, NextCases

LEMMA OrderInductive ==
  ASSUME TypeOK, LifeInv, RaceInv, OrderInv, [Next]_vars
  PROVE  OrderInv'
  <1> USE RegistryAssumption DEF registryVars, channelVars, Op
  <1> DEFINE Ordered(o) ==
               ~Raced(QueueOf[o]) =>
                   /\ cpc[o] = "request" => running[QueueOf[o]] = o
                   /\ op[o].promise # "new" => cpc[o] = "done"
  <1>0. \A x \in Start : x \in Command /\ Ordered(x) /\ QueueOf[x] \in Queue
    BY DEF OrderInv, Command, Queue
  <1>1. ASSUME NEW c \in Command, Take(c) PROVE OrderInv'
    <2>1. /\ UNCHANGED <<running, op>> /\ cpc[c] = "unsent" /\ cpc' = [cpc EXCEPT ![c] = "sent"]
          /\ raced \subseteq raced'
      BY <1>1 DEF Take
    <2>2. c \in Start => op[c].promise = "new" BY <2>1 DEF LifeInv, PromiseInv, Entered
    <2> QED BY <2>1, <2>2, <1>0 DEF OrderInv, Raced, TypeOK
  <1>2. ASSUME NEW c \in Command, Passive(c) PROVE OrderInv'
    <2>1. UNCHANGED <<running, raced>> /\ \A x \in Op : op'[x].promise = op[x].promise
      BY <1>2, PassiveEffect
    <2>2. PICK place \in {"valid", "done", "thrown"} :
            /\ cpc' = [cpc EXCEPT ![c] = place]
            /\ c \in Start => \/ cpc[c] \in {"sent", "valid"}
                              \/ cpc[c] = "request" /\ place = "done"
      BY <1>2, PassiveEffect
    <2>3. \A x \in Start : cpc'[x] # cpc[x] /\ op[x].promise # "new" => cpc'[x] = "done"
      BY <2>2, <1>0 DEF TypeOK, LifeInv, PromiseInv, Entered
    <2>4. \A x \in Start : cpc'[x] = "request" => cpc[x] = "request"
      BY <2>2, <1>0 DEF TypeOK
    <2> QED BY <2>1, <2>3, <2>4, <1>0 DEF OrderInv, Raced
  <1>3. ASSUME NEW c \in Command, StartInsert(c) PROVE OrderInv'
    <2>1. /\ c \in Start /\ cpc[c] = "valid" /\ cpc' = [cpc EXCEPT ![c] = "request"]
          /\ UNCHANGED <<op, raced>>
          /\ running' = [running EXCEPT ![QueueOf[c]] =
                           IF running[QueueOf[c]] = NoOp THEN c ELSE running[QueueOf[c]]]
      BY <1>3 DEF StartInsert, Goto
    <2> SUFFICES ASSUME NEW x \in Start PROVE Ordered(x)' BY DEF OrderInv
    <2>2. CASE x = c
      <3>1. op[c].promise = "new" BY <2>1 DEF LifeInv, PromiseInv, Entered
      <3>2. running[QueueOf[c]] = NoOp => running'[QueueOf[c]] = c BY <2>1, <1>0 DEF TypeOK
      <3>3. running[QueueOf[c]] # NoOp => Raced(QueueOf[c]) BY <2>1 DEF RaceInv
      <3> QED BY <2>1, <2>2, <3>1, <3>2, <3>3 DEF Raced
    <2>3. CASE x # c
      <3>1. cpc'[x] = cpc[x] BY <2>1, <2>3, <1>0 DEF TypeOK
      <3>2. running[QueueOf[x]] = x => running'[QueueOf[x]] = x
        BY <1>0, <1>3, <2>3, InsertEffect
      <3> QED BY <2>1, <3>1, <3>2, <1>0 DEF Raced
    <2> QED BY <2>2, <2>3
  <1>4. ASSUME NEW c \in Command, StartRequest(c) PROVE OrderInv'
    BY <1>4 DEF StartRequest, OrderInv, Raced
  <1>5. ASSUME NEW c \in Command, StopSnapshot(c) PROVE OrderInv'
    <2>1. /\ c \in Stop /\ cpc[c] = "sent" /\ UNCHANGED <<running, raced>>
          /\ \E place \in {"done", "thrown", "wait"} : cpc' = [cpc EXCEPT ![c] = place]
      BY <1>5, StopEffect
    <2>2. \A x \in Start : cpc'[x] = cpc[x] BY <2>1, <1>0 DEF TypeOK
    <2>3. CASE UNCHANGED op BY <2>1, <2>2, <2>3, <1>0 DEF OrderInv, Raced
    <2>4. CASE ~UNCHANGED op
      <3>1. PICK o \in Op :
              /\ o = running[QueueOf[c]]
              /\ op' = [op EXCEPT ![o] = [@ EXCEPT !.is_running = FALSE, !.promise = "taken"]]
        <4>1. PICK o \in Op : StopTakes(c, o) BY <1>5, <2>4, StopEffect DEF StopFinds
        <4> QED BY <4>1 DEF StopTakes
      <3>2. QueueOf[c] \in Queue BY FoundType
      <3>3. QueueOf[o] = QueueOf[c] /\ Entered(o) BY <3>1, <3>2 DEF LifeInv, RunningInv
      <3>4. cpc[o] = "request" => Raced(QueueOf[o])
        <4>1. o # c /\ InProgress(c) BY <2>1 DEF InProgress
        <4>2. cpc[o] = "request" => InProgress(o) BY DEF InProgress
        <4> QED BY <3>3, <4>1, <4>2, <1>0 DEF RaceInv
      <3>5. \A x \in Start : x # o => op'[x] = op[x] BY <3>1 DEF TypeOK
      <3> QED BY <2>1, <2>2, <3>3, <3>4, <3>5, <1>0 DEF OrderInv, Raced, Entered
    <2> QED BY <2>3, <2>4
  <1>6. ASSUME NEW q \in Queue, Decommission(q) PROVE OrderInv'
    <2>1. /\ running' = [running EXCEPT ![q] = NoOp] /\ UNCHANGED <<op, cpc, raced>>
          /\ running[q] \in Op /\ ~op[running[q]].is_running
      BY <1>6 DEF Decommission, TypeOK
    <2>2. op[running[q]].promise # "new" BY <2>1 DEF LifeInv, PromiseInv
    <2>3. \A x \in Start : running[QueueOf[x]] = x => running'[QueueOf[x]] = x \/ x = running[q]
      BY <2>1, <1>0 DEF TypeOK
    <2> QED BY <2>1, <2>2, <2>3, <1>0 DEF OrderInv, Raced
  <1>7. ASSUME NEW o \in Op, Removal(o) PROVE OrderInv'
    <2>1. /\ o \in closing /\ UNCHANGED <<running, cpc, raced>>
          /\ \A x \in Op : x # o => op'[x] = op[x]
      BY <1>7 DEF Removal, RemoveSnapshot, TypeOK
    <2>2. op[o].promise = "taken" BY <2>1 DEF LifeInv, ClosingInv, Gone
    <2> QED BY <2>1, <2>2, <1>0 DEF OrderInv, Raced
  <1>8. CASE Apart \/ \E q \in Queue : Expiration(q)
    BY <1>8 DEF Apart, Expiration, OrderInv, Raced
  <1> QED BY <1>1, <1>2, <1>3, <1>4, <1>5, <1>6, <1>7, <1>8, NextCases

-----------------------------------------------------------------------------
(* The requests of a PV. *)

LEMMA HeldMember ==
  ASSUME NEW p, NEW x
  PROVE  x \in Held(p) <=>
           \E o \in Op : \E i \in Asked(o, p) : running[QueueOf[o]] = o /\ x = <<o, i>>
  BY DEF Held

LEMMA HeldFinite ==
  ASSUME TypeOK, NEW p
  PROVE  IsFiniteSet(Held(p)) /\ Cardinality(Held(p)) \in Nat
  <1> DEFINE R == {o \in Op : running[QueueOf[o]] = o}
             F == {{o} \X Asked(o, p) : o \in R}
             f == [o \in R |-> {o} \X Asked(o, p)]
  <1>1. IsFiniteSet(R) BY RegistryAssumption, FS_Subset DEF Op
  <1>2. f \in Surjection(R, F) BY DEF Surjection
  <1>3. IsFiniteSet(F) BY <1>1, <1>2, FS_Surjection
  <1>4. \A T \in F : IsFiniteSet(T)
    <2>1. SUFFICES ASSUME NEW o \in R PROVE IsFiniteSet({o} \X Asked(o, p)) OBVIOUS
    <2>2. Asked(o, p) \in SUBSET Positions(o, p) BY DEF Asked
    <2>3. IsFiniteSet(Asked(o, p)) BY <2>2, PositionsFinite, FS_Subset
    <2> QED BY <2>3, FS_Singleton, FS_Product
  <1>5. IsFiniteSet(UNION F) BY <1>3, <1>4, FS_UNION
  <1> QED BY <1>5, FS_CardinalityType DEF Held

\* A start that is not requesting has requested its whole list.
LEMMA AskedAll ==
  ASSUME TodoInv, NEW o \in Op, cpc[o] # "request", NEW p
  PROVE  Asked(o, p) = Positions(o, p)
  <1>1. todo[o] = <<>> BY DEF TodoInv, Op
  <1>2. PvList[o] \in Seq(Pv) BY RegistryAssumption DEF Op
  <1>3. Len(todo[o]) = 0 /\ Len(PvList[o]) \in Nat /\ DOMAIN PvList[o] = 1 .. Len(PvList[o])
    BY <1>1, <1>2
  <1> QED BY <1>3 DEF Asked, Positions

LEMMA CountInductive ==
  ASSUME TypeOK, LifeInv, RaceInv, TodoInv, OrderInv, CountInv, ChannelInv, [Next]_vars
  PROVE  CountInv'
  <1> USE RegistryAssumption DEF registryVars, channelVars
  <1>0. \A x \in Start : x \in Command /\ x \in Op /\ QueueOf[x] \in Queue BY DEF Op, Command, Queue
  <1>1. ASSUME raced \subseteq raced', NEW p \in Pv, Calm(p)' PROVE Calm(p)
    BY <1>1 DEF Calm, Users, Raced
  <1>2. ASSUME UNCHANGED <<running, todo, requests, lost>>, raced \subseteq raced' PROVE CountInv'
    <2>1. \A p : Held(p)' = Held(p) BY <1>2 DEF Held, Asked, Positions
    <2> QED BY <1>1, <1>2, <2>1 DEF CountInv
  <1>3. ASSUME NEW c \in Command, StartInsert(c) PROVE CountInv'
    <2>1. /\ c \in Start /\ cpc[c] = "valid" /\ UNCHANGED <<requests, lost, raced>>
          /\ todo' = [todo EXCEPT ![c] = PvList[c]]
      BY <1>3 DEF StartInsert, Goto
    <2>2. running[QueueOf[c]] # c
      <3>1. ~Entered(c) /\ c # NoOp BY <2>1 DEF Entered, Op
      <3> QED BY <1>0, <2>1, <3>1 DEF LifeInv, RunningInv
    <2>3. \A o \in Op : o # c => (running'[QueueOf[o]] = o <=> running[QueueOf[o]] = o)
      <3> SUFFICES ASSUME NEW o \in Op, o # c
                   PROVE  running'[QueueOf[o]] = o <=> running[QueueOf[o]] = o
        OBVIOUS
      <3>1. QueueOf[o] \in Queue /\ o # NoOp BY <1>0 DEF Op
      <3> QED BY <1>3, <3>1, InsertEffect
    <2>4. \A o \in Op : \A p : o # c => Asked(o, p)' = Asked(o, p)
      BY <2>1 DEF Asked, Positions, TypeOK, Op
    <2>5. \A p : Asked(c, p)' = {}
      <3>1. todo'[c] = PvList[c] /\ Len(PvList[c]) \in Nat /\ DOMAIN PvList[c] = 1 .. Len(PvList[c])
        BY <2>1 DEF TypeOK
      <3> QED BY <3>1 DEF Asked, Positions
    <2>6. \A p : Held(p)' = Held(p)
      <3> TAKE p
      <3>1. \A x : x \in Held(p)' => x \in Held(p)
        BY <2>3, <2>4, <2>5 DEF Held
      <3>2. \A x : x \in Held(p) => x \in Held(p)'
        BY <2>2, <2>3, <2>4 DEF Held
      <3> QED BY <3>1, <3>2
    <2> QED BY <2>1, <2>6, <1>1 DEF CountInv
  <1>4. ASSUME NEW c \in Command, StartRequest(c) PROVE CountInv'
    <2>1. /\ c \in Start /\ cpc[c] = "request" /\ todo[c] # <<>> /\ UNCHANGED <<running, raced>>
          /\ requests' = [requests EXCEPT ![Head(todo[c])] = @ + 1] /\ lost \subseteq lost'
          /\ todo' = [todo EXCEPT ![c] = Tail(todo[c])]
      BY <1>4 DEF StartRequest
    <2>2. /\ todo[c] \in Seq(Pv) /\ todo[c] # <<>> /\ PvList[c] \in Seq(Pv)
          /\ Len(todo[c]) \in Nat /\ Len(PvList[c]) \in Nat
      <3>1. todo[c] \in Seq(Pv) /\ PvList[c] \in Seq(Pv) /\ todo[c] # <<>> BY <2>1 DEF TypeOK
      <3> QED BY <3>1
    <2>3. /\ Len(todo[c]) > 0 /\ Len(todo[c]) <= Len(PvList[c])
          /\ todo[c][1] = PvList[c][Len(PvList[c]) - Len(todo[c]) + 1]
      <3>1. /\ Len(todo[c]) <= Len(PvList[c])
            /\ \A k \in 1 .. Len(todo[c]) :
                 todo[c][k] = PvList[c][Len(PvList[c]) - Len(todo[c]) + k]
        BY <2>1 DEF TodoInv
      <3>2. Len(todo[c]) > 0 BY <2>2
      <3>3. 1 \in 1 .. Len(todo[c]) BY <2>2, <3>2
      <3> QED BY <3>1, <3>2, <3>3
    <2>13. PICK l \in Nat : l = Len(PvList[c]) BY <2>2
    <2>14. PICK m \in Nat : m = Len(todo[c]) BY <2>2
    <2>15. m > 0 /\ m <= l BY <2>3, <2>13, <2>14
    <2>16. l - m + 1 \in Nat /\ l - m + 1 \in 1 .. l BY <2>15
    <2>4. PICK n \in Nat : n = l - m + 1 BY <2>16
    <2>11. PICK h \in Pv : h = Head(todo[c]) BY <2>2
    <2>12. n \in DOMAIN PvList[c] /\ PvList[c][n] = h
      <3>1. h = todo[c][1] BY <2>2, <2>11
      <3>2. DOMAIN PvList[c] = 1 .. l BY <2>2, <2>13
      <3>3. PvList[c][n] = todo[c][1] BY <2>3, <2>4, <2>13, <2>14
      <3> QED BY <2>4, <2>16, <3>1, <3>2, <3>3
    <2>5. todo'[c] = Tail(todo[c]) /\ Len(todo'[c]) = Len(todo[c]) - 1
      <3>1. todo'[c] = Tail(todo[c]) BY <2>1 DEF TypeOK
      <3> QED BY <2>2, <3>1
    <2>6. \A o \in Op : \A p : o # c => Asked(o, p)' = Asked(o, p)
      BY <2>1 DEF Asked, Positions, TypeOK, Op
    <2>10. \A i \in DOMAIN PvList[c] :
             /\ i \in Nat
             /\ i <= Len(PvList[c]) - Len(todo'[c]) <=> i <= Len(PvList[c]) - Len(todo[c]) \/ i = n
             /\ i = n => ~(i <= Len(PvList[c]) - Len(todo[c]))
      <3>1. \A i \in DOMAIN PvList[c] : i \in Nat BY <2>2
      <3>2. Len(todo'[c]) = m - 1 BY <2>5, <2>14
      <3>3. \A i \in Nat : i <= l - (m - 1) <=> i <= l - m \/ i = n BY <2>4, <2>15
      <3>4. ~(n <= l - m) BY <2>4, <2>15
      <3> QED BY <2>13, <2>14, <3>1, <3>2, <3>3, <3>4
    <2>7. Asked(c, h)' = Asked(c, h) \cup {n} /\ n \notin Asked(c, h)
      BY <2>12, <2>10 DEF Asked, Positions
    <2>8. \A p : p # h => Asked(c, p)' = Asked(c, p)
      BY <2>12, <2>10 DEF Asked, Positions
    <2>9. ASSUME NEW p \in Pv, Calm(p)
          PROVE  /\ requests'[p] <= Cardinality(Held(p)')
                 /\ p \notin lost' => requests'[p] = Cardinality(Held(p)')
      <3>1. CASE p # h
        <4>1. Held(p)' = Held(p)
          <5>1. \A o \in Op : Asked(o, p)' = Asked(o, p) BY <2>6, <2>8, <3>1
          <5> QED BY <2>1, <5>1 DEF Held
        <4> QED BY <2>1, <2>9, <2>11, <3>1, <4>1 DEF CountInv, TypeOK
      <3>2. CASE p = h
        <4>1. c \in Users(p) BY <1>0, <2>1, <2>12, <3>2 DEF Users, ToSet
        <4>2. running[QueueOf[c]] = c BY <1>0, <2>1, <2>9, <4>1 DEF Calm, OrderInv
        <4>3. Held(p)' = Held(p) \cup {<<c, n>>}
          <5>1. \A x \in Held(p)' : x \in Held(p) \/ x = <<c, n>>
            <6> TAKE x \in Held(p)'
            <6>1. PICK o \in Op : /\ running'[QueueOf[o]] = o
                                  /\ \E i \in Asked(o, p)' : x = <<o, i>>
              BY DEF Held
            <6>2. PICK i \in Asked(o, p)' : x = <<o, i>> BY <6>1
            <6>3. CASE i \in Asked(o, p) BY <2>1, <6>1, <6>2, <6>3, HeldMember
            <6>4. CASE i \notin Asked(o, p) BY <2>6, <2>7, <3>2, <6>2, <6>4
            <6> QED BY <6>3, <6>4
          <5>2. \A x \in Held(p) : x \in Held(p)'
            <6>1. \A o \in Op : Asked(o, p) \subseteq Asked(o, p)' BY <2>6, <2>7, <3>2
            <6> QED BY <2>1, <6>1 DEF Held
          <5>3. <<c, n>> \in Held(p)'
            <6>1. n \in Asked(c, p)' BY <2>7, <3>2
            <6> QED BY <1>0, <2>1, <4>2, <6>1 DEF Held
          <5> QED BY <5>1, <5>2, <5>3
        <4>4. <<c, n>> \notin Held(p) BY <2>7, <3>2, HeldMember
        <4>5. /\ requests[p] <= Cardinality(Held(p))
              /\ p \notin lost' => requests[p] = Cardinality(Held(p))
          BY <2>1, <2>9 DEF CountInv
        <4>6. requests'[p] = requests[p] + 1 /\ requests[p] \in Nat BY <2>1, <2>11, <3>2 DEF TypeOK
        <4>7. /\ Cardinality(Held(p) \cup {<<c, n>>}) = Cardinality(Held(p)) + 1
              /\ Cardinality(Held(p)) \in Nat
          BY <4>4, HeldFinite, FS_AddElement
        <4> QED BY <4>3, <4>5, <4>6, <4>7
      <3> QED BY <3>1, <3>2
    <2> QED BY <2>1, <2>9, <1>1 DEF CountInv
  <1>6. ASSUME NEW q \in Queue, Decommission(q) PROVE CountInv'
    <2> DEFINE o == running[q]
    <2>1. /\ o \in Op /\ ~op[o].is_running /\ running' = [running EXCEPT ![q] = NoOp]
          /\ requests' = Released(o) /\ UNCHANGED <<todo, lost, raced>>
      BY <1>6 DEF Decommission, TypeOK
    <2>2. op[o].promise # "new" /\ QueueOf[o] = q
      BY <2>1 DEF LifeInv, PromiseInv, RunningInv
    <2> SUFFICES ASSUME NEW p \in Pv, Calm(p)
                 PROVE  /\ requests'[p] <= Cardinality(Held(p)')
                        /\ p \notin lost => requests'[p] = Cardinality(Held(p)')
      BY <2>1, <1>1 DEF CountInv
    <2> DEFINE Mine == {o} \X Positions(o, p)
               n == Cardinality(Positions(o, p))
    <2>3. Asked(o, p) = Positions(o, p)
      <3>1. CASE o \in Users(p)
        <4>1. cpc[o] = "done" BY <2>1, <2>2, <3>1 DEF OrderInv, Calm
        <4> QED BY <2>1, <4>1, AskedAll
      <3>2. CASE o \notin Users(p) BY <2>1, <3>2 DEF Users, ToSet, Asked, Positions
      <3> QED BY <3>1, <3>2
    <2>4. Held(p)' = Held(p) \ Mine
      <3>1. \A x \in Op : Asked(x, p)' = Asked(x, p) BY <2>1 DEF Asked, Positions
      <3>2. \A x \in Op : running'[QueueOf[x]] = x <=> running[QueueOf[x]] = x /\ x # o
        <4> TAKE x \in Op
        <4>1. QueueOf[x] \in Queue /\ x # NoOp BY <1>0 DEF Op
        <4>2. CASE QueueOf[x] = q BY <2>1, <4>1, <4>2 DEF TypeOK
        <4>3. CASE QueueOf[x] # q BY <2>1, <2>2, <4>1, <4>3 DEF TypeOK
        <4> QED BY <4>2, <4>3
      <3> HIDE DEF o
      <3>3. \A y \in Held(p)' : y \in Held(p) /\ y \notin Mine
        <4> TAKE y \in Held(p)'
        <4>1. PICK x \in Op : running'[QueueOf[x]] = x /\ \E i \in Asked(x, p)' : y = <<x, i>>
          BY DEF Held
        <4>2. PICK i \in Asked(x, p) : y = <<x, i>> BY <3>1, <4>1
        <4>3. running[QueueOf[x]] = x /\ x # o BY <3>2, <4>1
        <4> QED BY <4>2, <4>3, HeldMember
      <3>4. \A y \in Held(p) : y \in Held(p)' \/ y \in Mine
        <4> TAKE y \in Held(p)
        <4>0. PICK x \in Op : \E i \in Asked(x, p) : running[QueueOf[x]] = x /\ y = <<x, i>>
          BY HeldMember
        <4>1. PICK i \in Asked(x, p) : running[QueueOf[x]] = x /\ y = <<x, i>> BY <4>0
        <4>2. CASE x = o BY <2>3, <4>1, <4>2
        <4>3. CASE x # o BY <3>1, <3>2, <4>1, <4>3 DEF Held
        <4> QED BY <4>2, <4>3
      <3> QED BY <3>3, <3>4
    <2>5. Mine \subseteq Held(p)
      <3>1. running[QueueOf[o]] = o BY <2>2
      <3> HIDE DEF o
      <3> QED BY <2>1, <2>3, <3>1 DEF Held
    <2>6. n \in Nat /\ IsFiniteSet(Mine) /\ Cardinality(Mine) = n
      <3>1. IsFiniteSet(Positions(o, p)) /\ n \in Nat BY <2>1, PositionsFinite
      <3>2. IsFiniteSet({o}) /\ Cardinality({o}) = 1 BY FS_Singleton
      <3>3. IsFiniteSet(Mine) /\ Cardinality(Mine) = 1 * n
        BY <3>1, <3>2, FS_Product
      <3> QED BY <3>1, <3>3
    <2>7. Cardinality(Held(p) \ Mine) = Cardinality(Held(p)) - n
      <3>1. Held(p) \cap Mine = Mine BY <2>5
      <3>2. IsFiniteSet(Held(p)) BY HeldFinite
      <3> HIDE DEF Mine, n
      <3>3. Cardinality(Held(p) \ Mine) = Cardinality(Held(p)) - Cardinality(Held(p) \cap Mine)
        BY <3>2, FS_Difference
      <3> QED BY <2>6, <3>1, <3>3
    <2>8. n <= Cardinality(Held(p)) /\ Cardinality(Held(p)) \in Nat
      BY <2>5, <2>6, HeldFinite, FS_Subset
    <2>9. /\ requests[p] <= Cardinality(Held(p)) /\ requests[p] \in Nat
          /\ p \notin lost => requests[p] = Cardinality(Held(p))
      BY DEF CountInv, TypeOK
    <2>10. requests'[p] = IF requests[p] > n THEN requests[p] - n ELSE 0
      BY <2>1 DEF Released
    <2> HIDE DEF n, Mine
    <2> QED BY <2>4, <2>6, <2>7, <2>8, <2>9, <2>10
  <1>7. ASSUME NEW c \in Command, Take(c) \/ Passive(c) \/ StopSnapshot(c) PROVE CountInv'
    <2>1. UNCHANGED <<running, todo, requests, lost>> /\ raced \subseteq raced'
      BY <1>7, PassiveEffect, StopEffect DEF Take
    <2> QED BY <2>1, <1>2
  <1>8. ASSUME NEW o \in Op, Removal(o) PROVE CountInv'
    BY <1>8, <1>2 DEF Removal, RemoveSnapshot
  <1>9. ASSUME Apart, UNCHANGED channelVars \/ \E p \in Pv : ChannelUnused(p) PROVE CountInv'
    BY <1>9, <1>2 DEF Apart, ChannelUnused
  <1>10. ASSUME NEW q \in Queue, Expiration(q) PROVE CountInv'
    BY <1>10, <1>2 DEF Expiration
  <1>11. ASSUME Apart, NEW x \in Pv, ChannelErased(x) PROVE CountInv'
    <2>1. \A p : Held(p)' = Held(p) BY <1>11 DEF Apart, Held, Asked, Positions
    <2>2. \A p \in Pv : p # x => requests'[p] = requests[p]
      BY <1>11 DEF ChannelErased, TypeOK
    <2>3. requests'[x] = 0 /\ UNCHANGED <<lost, raced>> /\ (x \notin lost => requests[x] = 0)
      BY <1>11 DEF ChannelErased, ChannelInv, TypeOK
    <2>4. Cardinality(Held(x)) \in Nat BY HeldFinite
    <2>5. 0 <= Cardinality(Held(x)) BY <2>4
    <2> QED BY <2>1, <2>2, <2>3, <2>5, <1>1 DEF CountInv
  <1> QED BY <1>3, <1>4, <1>6, <1>7, <1>8, <1>9, <1>10, <1>11, NextCases

\* The entry of a PV and its requests.
LEMMA ChannelInductive ==
  ASSUME TypeOK, ChannelInv, [Next]_vars
  PROVE  ChannelInv'
  <1> USE RegistryAssumption DEF registryVars, channelVars
  <1>1. ASSUME UNCHANGED channelVars PROVE ChannelInv' BY <1>1 DEF ChannelInv
  <1>2. ASSUME NEW c \in Command, StartRequest(c) PROVE ChannelInv'
    <2>1. c \in Start /\ todo[c] \in Seq(Pv) /\ todo[c] # <<>> BY <1>2 DEF StartRequest, TypeOK
    <2>2. PICK h \in Pv : h = Head(todo[c]) BY <2>1
    <2>3. /\ requests' = [requests EXCEPT ![h] = @ + 1]
          /\ channel' = [channel EXCEPT ![h] = IF @ = "none" THEN "served" ELSE @]
          /\ lost \subseteq lost' /\ (channel[h] = "leaving" => h \in lost')
      BY <1>2, <2>2 DEF StartRequest
    <2>4. \A p \in Pv : p # h => requests'[p] = requests[p] /\ channel'[p] = channel[p]
      BY <2>3 DEF TypeOK
    <2>5. channel'[h] # "none" /\ (channel'[h] = "leaving" => h \in lost')
      BY <2>3 DEF TypeOK
    <2> QED BY <2>3, <2>4, <2>5 DEF ChannelInv
  <1>3. ASSUME NEW q \in Queue, Decommission(q) PROVE ChannelInv'
    <2>1. /\ running[q] \in Op /\ requests' = Released(running[q]) /\ UNCHANGED <<channel, lost>>
      BY <1>3 DEF Decommission, TypeOK
    <2>2. \A p \in Pv : requests[p] = 0 => requests'[p] = 0
      <3> TAKE p \in Pv
      <3>1. PICK n \in Nat : n = Cardinality(Positions(running[q], p)) BY <2>1, PositionsFinite
      <3>2. requests'[p] = IF requests[p] > n THEN requests[p] - n ELSE 0
        BY <2>1, <3>1 DEF Released
      <3> QED BY <3>2
    <2> QED BY <2>1, <2>2 DEF ChannelInv
  <1>4. ASSUME NEW p \in Pv, ChannelUnused(p) PROVE ChannelInv'
    BY <1>4 DEF ChannelUnused, ChannelInv, TypeOK
  <1>5. ASSUME NEW p \in Pv, ChannelErased(p) PROVE ChannelInv'
    BY <1>5 DEF ChannelErased, ChannelInv, TypeOK
  <1>6. ASSUME NEW c \in Command, Take(c) \/ Passive(c) \/ StartInsert(c) \/ StopSnapshot(c)
        PROVE  ChannelInv'
    <2>1. UNCHANGED channelVars BY <1>6, PassiveEffect, StopEffect DEF Take, StartInsert
    <2> QED BY <2>1, <1>1
  <1>7. ASSUME NEW o \in Op, Removal(o) PROVE ChannelInv'
    BY <1>7, <1>1 DEF Removal, RemoveSnapshot
  <1>8. ASSUME NEW q \in Queue, Expiration(q) PROVE ChannelInv'
    BY <1>8, <1>1 DEF Expiration
  <1> QED BY <1>1, <1>2, <1>3, <1>4, <1>5, <1>6, <1>7, <1>8, NextCases

-----------------------------------------------------------------------------
(* The theorems. *)

LEMMA InitEstablishes ==
  ASSUME Init
  PROVE  RegistryIInv
  <1> USE RegistryAssumption DEF Init
  <1>1. TypeOK
    <2>1. NoReply \in Reply BY DEF Reply
    <2>2. NewOp \in OpRecord BY DEF NewOp, OpRecord
    <2>3. <<>> \in Seq(Pv) OBVIOUS
    <2> QED BY <2>1, <2>2, <2>3 DEF TypeOK
  <1>2. \A o \in Op : op[o].promise = "new" /\ op[o].is_running /\ cpc[o] = "unsent"
    BY DEF NewOp, Op, Command
  <1>3. LifeInv BY <1>2 DEF LifeInv, RunningInv, PvMapInv, ClosingInv, HeldInv, PromiseInv
  <1>4. StopInv BY DEF StopInv, Command
  <1>5. RaceInv BY DEF RaceInv, InProgress, Command
  <1>6. NoOrphan BY DEF NoOrphan
  <1>7. TodoInv
    <2>1. \A c \in Start : Len(PvList[c]) \in Nat OBVIOUS
    <2> QED BY <2>1 DEF TodoInv
  <1>8. OrderInv BY <1>2 DEF OrderInv
  <1>9. CountInv
    <2> SUFFICES ASSUME NEW p \in Pv
                 PROVE  requests[p] = Cardinality(Held(p)) /\ requests[p] = 0
      BY DEF CountInv
    <2>1. \A o \in Op : running[QueueOf[o]] # o BY DEF Op, Queue, Command
    <2>2. Held(p) = {} BY <2>1 DEF Held
    <2> QED BY <2>2, FS_EmptySet
  <1>10. ChannelInv BY DEF ChannelInv
  <1> QED BY <1>1, <1>3, <1>4, <1>5, <1>6, <1>7, <1>8, <1>9, <1>10 DEF RegistryIInv

\* RegistryIInv is inductive: every reachable state of the registry satisfies it,
\* whatever commands overlap and wherever the shutdown comes.
THEOREM RegistryInductive == Spec => []RegistryIInv
  <1>1. Init => RegistryIInv BY InitEstablishes
  <1>2. RegistryIInv /\ [Next]_vars => RegistryIInv'
    BY TypeInductive, LifeInductive, StopInductive, RaceInductive, OrphanInductive,
       TodoInductive, OrderInductive, CountInductive, ChannelInductive DEF RegistryIInv
  <1> QED BY <1>1, <1>2, PTL DEF Spec

\* The maps of the registry agree, no operation is left collecting events that
\* nobody fetches (unless two starts of a name overlapped), and the client can
\* read every reply.
THEOREM RegistryCorrect == Spec => []RegistryInv
  <1>1. RegistryIInv => RegistryInv
    BY ReplyDecodable DEF RegistryIInv, RegistryInv, RepliesReadable, TypeOK
  <1> QED BY <1>1, RegistryInductive, PTL

\* A stop is answered only when the operation it found is out of both maps.
THEOREM StopMeansGone == Spec => []StoppedIsGone
  <1>1. ASSUME RegistryIInv PROVE StoppedIsGone
    <2> SUFFICES ASSUME NEW c \in Stop, cpc[c] = "done", target[c] # NoOp
                 PROVE  /\ \A q \in Queue : running[q] # target[c]
                        /\ \A p \in Pv : <<p, target[c]>> \notin pvMap
      BY DEF StoppedIsGone
    <2>1. op[target[c]].promise = "set" BY <1>1 DEF RegistryIInv, StopInv
    <2>2. \A q \in Queue : running[q] # target[c]
      BY <1>1, <2>1 DEF RegistryIInv, LifeInv, RunningInv
    <2>3. \A e \in pvMap : e[2] # target[c]
      BY <1>1, <2>1 DEF RegistryIInv, LifeInv, PvMapInv
    <2> QED BY <2>2, <2>3
  <1> QED BY <1>1, RegistryInductive, PTL

\* A started snapshot keeps its PVs monitored unless a request of the PV was
\* counted on an entry about to be erased; and at rest a PV never has more
\* requests than the snapshots that run need, and exactly those if none was
\* lost, for any lists and any sharing.
THEOREM PvsHeld == Spec => []SharedPvsHeld
  <1>1. ASSUME RegistryIInv PROVE StartedIsMonitored
    <2> SUFFICES ASSUME NEW p \in Pv, NEW q \in Queue, running[q] # NoOp,
                        cpc[running[q]] = "done", p \in ToSet(PvList[running[q]]), Calm(p),
                        p \notin lost
                 PROVE  requests[p] > 0 /\ channel[p] = "served"
      BY DEF StartedIsMonitored
    <2>1. PICK o \in Op : o = running[q] BY <1>1 DEF RegistryIInv, TypeOK
    <2>2. running[QueueOf[o]] = o BY <1>1, <2>1 DEF RegistryIInv, LifeInv, RunningInv
    <2>3. Asked(o, p) = Positions(o, p) BY <1>1, <2>1, AskedAll DEF RegistryIInv
    <2>4. Positions(o, p) # {} BY <2>1 DEF Positions, ToSet
    <2>5. Held(p) # {} BY <2>2, <2>3, <2>4, HeldMember
    <2>6. IsFiniteSet(Held(p)) /\ Cardinality(Held(p)) \in Nat
      BY <1>1, HeldFinite DEF RegistryIInv
    <2>7. Cardinality(Held(p)) # 0 BY <2>5, <2>6, FS_EmptySet
    <2>8. requests[p] = Cardinality(Held(p)) BY <1>1 DEF RegistryIInv, CountInv
    <2>9. requests[p] > 0 BY <2>6, <2>7, <2>8
    <2>10. channel[p] = "served"
      <3>1. requests[p] # 0 BY <2>9
      <3> QED BY <1>1, <3>1 DEF RegistryIInv, ChannelInv, TypeOK
    <2> QED BY <2>9, <2>10
  <1>2. ASSUME RegistryIInv PROVE RequestsBalanced
    <2> SUFFICES ASSUME Quiescent, NEW p \in Pv, Calm(p)
                 PROVE  /\ requests[p] <= Cardinality(Wanted(p))
                        /\ p \notin lost => requests[p] = Cardinality(Wanted(p))
      BY DEF RequestsBalanced
    <2>1. \A o \in Op : cpc[o] # "request"
      BY DEF Quiescent, InProgress, Op, Command
    <2>2. \A o \in Op : Asked(o, p) = Positions(o, p)
      BY <1>2, <2>1, AskedAll DEF RegistryIInv
    <2>3. Held(p) = Wanted(p) BY <2>2 DEF Held, Wanted
    <2> QED BY <1>2, <2>3 DEF RegistryIInv, CountInv
  <1> QED BY <1>1, <1>2, RegistryInductive, PTL DEF SharedPvsHeld
=============================================================================
