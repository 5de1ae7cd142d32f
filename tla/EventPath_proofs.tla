-------------------------- MODULE EventPath_proofs --------------------------
(***************************************************************************)
(* Proofs about the path of a monitor event: the channels that poll for it *)
(* (EpicsChannels) and the windows of the repeating snapshots that it is   *)
(* added to (SnapshotWindow).                                              *)
(*                                                                         *)
(* Channels, for any PVs, clients, entries and threads: types, one task    *)
(* for each channel, and reference counts that never exceed the clients    *)
(* that hold a PV.                                                         *)
(*                                                                         *)
(* Windows, for any PVs, events, window length, reserve and growth: what   *)
(* the operators of the ring do to its entries, the invariant of both      *)
(* kinds of window, and that the submissions are an EventStream.           *)
(***************************************************************************)
EXTENDS EpicsChannels, SnapshotWindow, FiniteSetTheorems, SequenceTheorems, TLAPS

-----------------------------------------------------------------------------
(* Channels: types. *)

LEMMA CommandTypes ==
  ASSUME TypeOK, NEW c \in Client, NEW p \in Pv,
         AddToChannel(c, p) \/ RemoveChannel(c, p) \/ (\E e \in Entry : AddChannel(c, p, e))
  PROVE  TypeOK'
  <1> USE ChannelConstants DEF TypeOK
  <1>1. CASE AddToChannel(c, p)
    BY <1>1 DEF AddToChannel, monVars, endVars
  <1>2. CASE RemoveChannel(c, p)
    <2>1. \A k \in Nat : CountDown(k) \in Nat BY DEF CountDown
    <2>2. keep_alive' \in [Entry -> Nat] BY <1>2, <2>1 DEF RemoveChannel
    <2> QED BY <1>2, <2>2 DEF RemoveChannel, monVars, endVars
  <1>3. CASE \E e \in Entry : AddChannel(c, p, e)
    <2> PICK e \in Entry : AddChannel(c, p, e) BY <1>3
    <2> QED BY DEF AddChannel, Goto, Point, monVars, endVars
  <1> QED BY <1>1, <1>2, <1>3

LEMMA TaskTypes ==
  ASSUME TypeOK, NEW e \in Entry, Detach(e) \/ TaskStep(e)
  PROVE  TypeOK'
  <1> USE ChannelConstants DEF TypeOK, Goto, Point, mapVars, endVars
  <1>1. CASE Detach(e) BY <1>1 DEF Detach, monVars
  <1>2. CASE CheckKeepAlive(e)
    <2>1. pc' \in [Entry -> Point] BY <1>2 DEF CheckKeepAlive
    <2> QED BY <1>2, <2>1 DEF CheckKeepAlive, monVars
  <1>3. CASE CleanupAndErase(e)
    <2>0. 0 \in Version BY DEF Version
    <2>1. channel_map' \in [Pv -> Entry \cup {NoEntry}] BY <1>3 DEF CleanupAndErase
    <2>2. keep_alive' \in [Entry -> Nat] BY <1>3 DEF CleanupAndErase
    <2>3. pc' \in [Entry -> Point] BY <1>3 DEF CleanupAndErase
    <2>4. /\ to_force' \in [Entry -> BOOLEAN] /\ force_update' \in [Entry -> BOOLEAN]
          /\ connected' \in [Entry -> BOOLEAN]
      BY <1>3 DEF CleanupAndErase
    <2>5. /\ got' \in [Entry -> Version] /\ unread' \in [Entry -> Version]
          /\ received' \in [Entry -> Version]
      BY <1>3, <2>0 DEF CleanupAndErase
    <2>6. get_op' \in [Entry -> {"none", "asked", "done"}] BY <1>3 DEF CleanupAndErase
    <2> QED BY <1>3, <2>1, <2>2, <2>3, <2>4, <2>5, <2>6 DEF CleanupAndErase
  <1>4. CASE TakeForce(e)
    <2>1. force_update' \in [Entry -> BOOLEAN] BY <1>4 DEF TakeForce, Forced
    <2> QED BY <1>4, <2>1 DEF TakeForce
  <1>5. CASE Poll(e) BY <1>5 DEF Poll, Version
  <1>6. CASE PollByGet(e)
    <2>1. pc' \in [Entry -> Point] BY <1>6 DEF PollByGet
    <2>2. get_op' \in [Entry -> {"none", "asked", "done"}] BY <1>6 DEF PollByGet
    <2>3. received' \in [Entry -> Version] BY <1>6 DEF PollByGet, Version
    <2>4. got' \in [Entry -> Version] BY <1>6 DEF PollByGet, Version
    <2>5. force_update' \in [Entry -> BOOLEAN] BY <1>6 DEF PollByGet
    <2> QED BY <1>6, <2>1, <2>2, <2>3, <2>4, <2>5 DEF PollByGet
  <1>7. CASE Deliver(e)
    <2>1. seen' \in [Pv -> Version] BY <1>7 DEF Deliver
    <2>2. received' \in [Entry -> Version] BY <1>7 DEF Deliver, Version
    <2>3. pc' \in [Entry -> Point] BY <1>7 DEF Deliver
    <2> QED BY <1>7, <2>1, <2>2, <2>3 DEF Deliver
  <1>8. CASE Requeue(e)
    <2>1. queue' \in Seq(Entry)
      <3>1. Append(queue, e) \in Seq(Entry) OBVIOUS
      <3>2. queue' = queue \/ queue' = Append(queue, e) BY <1>8 DEF Requeue, AtEnd
      <3> QED BY <3>1, <3>2
    <2>2. pc' \in [Entry -> Point] BY <1>8 DEF Requeue
    <2> QED BY <1>8, <2>1, <2>2 DEF Requeue, monVars
  <1> QED BY <1>1, <1>2, <1>3, <1>4, <1>5, <1>6, <1>7, <1>8 DEF TaskStep

LEMMA OtherTypes ==
  ASSUME TypeOK,
         \/ Begin \/ Shutdown \/ ShutdownClear
         \/ \E p \in Pv : ForceMonitorChannelUpdate(p) \/ IocUpdate(p)
         \/ \E e \in Entry : Connect(e) \/ GetDone(e)
  PROVE  TypeOK'
  <1> USE ChannelConstants DEF TypeOK, mapVars
  <1>1. CASE Begin
    <2>1. Head(queue) \in Entry /\ Tail(queue) \in Seq(Entry) BY <1>1 DEF Begin
    <2> QED BY <1>1, <2>1 DEF Begin, Goto, Point, monVars, endVars
  <1>2. CASE Shutdown BY <1>2 DEF Shutdown, monVars
  <1>3. CASE ShutdownClear BY <1>3 DEF ShutdownClear, monVars
  <1>4. ASSUME NEW p \in Pv, ForceMonitorChannelUpdate(p) PROVE TypeOK'
    BY <1>4 DEF ForceMonitorChannelUpdate, monVars, endVars
  <1>5. ASSUME NEW p \in Pv, IocUpdate(p) PROVE TypeOK'
    <2>1. ioc[p] + 1 \in Version BY <1>5 DEF IocUpdate, Version
    <2>2. ioc' \in [Pv -> Version] BY <1>5, <2>1 DEF IocUpdate
    <2>3. unread' \in [Entry -> Version] BY <1>5, <2>1 DEF IocUpdate
    <2> QED BY <1>5, <2>2, <2>3 DEF IocUpdate, endVars
  <1>6. ASSUME NEW e \in Entry, Connect(e) PROVE TypeOK'
    BY <1>6 DEF Connect, endVars
  <1>7. ASSUME NEW e \in Entry, GetDone(e) PROVE TypeOK'
    <2>1. ioc[pv[e]] \in Version OBVIOUS
    <2>2. got' \in [Entry -> Version] BY <1>7, <2>1 DEF GetDone
    <2>3. get_op' \in [Entry -> {"none", "asked", "done"}] BY <1>7 DEF GetDone
    <2> QED BY <1>7, <2>2, <2>3 DEF GetDone, endVars
  <1> QED BY <1>1, <1>2, <1>3, <1>4, <1>5, <1>6, <1>7

\* Type correctness of the channel map, the reference counts, the monitor
\* operations and the tasks (EpicsServiceManager), for every instance.
THEOREM ChannelTypeCorrect == Spec => []TypeOK
  <1>1. Init => TypeOK
    <2>1. 0 \in Version /\ 1 \in Version BY ChannelConstants DEF Version
    <2>2. "free" \in Point BY DEF Point
    <2> SUFFICES ASSUME Init PROVE TypeOK OBVIOUS
    <2>3. /\ holders \in [Pv -> SUBSET Client]
          /\ channel_map \in [Pv -> Entry \cup {NoEntry}]
          /\ pv \in [Entry -> Pv] /\ keep_alive \in [Entry -> Nat]
      BY DEF Init
    <2>4. /\ to_force \in [Entry -> BOOLEAN] /\ force_update \in [Entry -> BOOLEAN]
          /\ connected \in [Entry -> BOOLEAN]
      BY DEF Init
    <2>5. /\ got \in [Entry -> Version] /\ unread \in [Entry -> Version]
          /\ received \in [Entry -> Version]
          /\ ioc \in [Pv -> Version] /\ seen \in [Pv -> Version]
      BY <2>1 DEF Init
    <2>6. get_op \in [Entry -> {"none", "asked", "done"}] /\ pc \in [Entry -> Point]
      BY <2>2 DEF Init
    <2>7. queue \in Seq(Entry) BY DEF Init
    <2>8. end_processing \in BOOLEAN /\ cleared \in BOOLEAN BY DEF Init
    <2> QED BY <2>3, <2>4, <2>5, <2>6, <2>7, <2>8, Zenon DEF TypeOK
  <1>2. TypeOK /\ [Next]_vars => TypeOK'
    <2> SUFFICES ASSUME TypeOK, [Next]_vars PROVE TypeOK' OBVIOUS
    <2>1. CASE UNCHANGED vars
      BY <2>1 DEF TypeOK, vars, mapVars, monVars, endVars
    <2>2. CASE Next
      BY <2>1, <2>2, CommandTypes, TaskTypes, OtherTypes DEF Next, Destroyed
    <2> QED BY <2>1, <2>2
  <1> QED BY <1>1, <1>2, PTL DEF Spec

-----------------------------------------------------------------------------
(* One task for each channel. *)

Unused == {"free", "created", "ended"}
Inside == Point \ (Unused \cup {"queued"})

\* addChannel is over before the destructor runs, and the destructor clears the
\* map when no task is left.
NoLateAdd ==
  /\ end_processing => \A e \in Entry : pc[e] # "created"
  /\ cleared => end_processing /\ \A p \in Pv : channel_map[p] = NoEntry

ServedInv == TypeOK /\ ChannelsServed /\ NoLateAdd

\* A step that leaves tasks, map and queue alone.
LEMMA ServedByOthers ==
  ASSUME ServedInv, UNCHANGED <<channel_map, pv, pc, queue, endVars>>
  PROVE  ChannelsServed' /\ NoLateAdd'
  BY DEF ServedInv, ChannelsServed, MapHasTask, TaskInMap, QueuedOnce, NoLateAdd, endVars

\* A step of a task from one section to the next.
LEMMA ServedInside ==
  ASSUME ServedInv, NEW e \in Entry, NEW q \in Inside, pc[e] \in Inside,
         pc' = [pc EXCEPT ![e] = q], UNCHANGED <<channel_map, pv, queue, endVars>>
  PROVE  ChannelsServed' /\ NoLateAdd'
  <1> USE DEF ServedInv, TypeOK, Inside, Unused, Point, endVars
  <1>1. \A f \in Entry : f # e => pc'[f] = pc[f] OBVIOUS
  <1>2. pc'[e] = q OBVIOUS
  <1>3. MapHasTask'
    <2> SUFFICES ASSUME NEW p \in Pv, channel_map[p] # NoEntry
                 PROVE  /\ pv[channel_map[p]] = p
                        /\ pc'[channel_map[p]] # "free"
                        /\ ~end_processing => pc'[channel_map[p]] # "ended"
      BY DEF MapHasTask
    <2> QED BY <1>1, <1>2 DEF ChannelsServed, MapHasTask
  <1>4. TaskInMap' BY <1>1, <1>2 DEF ChannelsServed, TaskInMap
  <1>5. QueuedOnce' BY <1>1, <1>2 DEF ChannelsServed, QueuedOnce
  <1>6. NoLateAdd' BY <1>1, <1>2 DEF NoLateAdd
  <1> QED BY <1>3, <1>4, <1>5, <1>6 DEF ChannelsServed

\* A task is put at the end of the queue.
LEMMA ServedQueued ==
  ASSUME ServedInv, NEW e \in Entry, pc[e] \in Inside \cup {"created"},
         pc' = [pc EXCEPT ![e] = "queued"], queue' = Append(queue, e),
         UNCHANGED <<channel_map, pv, endVars>>
  PROVE  ChannelsServed' /\ NoLateAdd'
  <1> USE DEF ServedInv, TypeOK, Inside, Unused, Point, endVars
  <1>1. \A f \in Entry : f # e => pc'[f] = pc[f] OBVIOUS
  <1>2. pc'[e] = "queued" OBVIOUS
  <1>3. MapHasTask'
    <2> SUFFICES ASSUME NEW p \in Pv, channel_map[p] # NoEntry
                 PROVE  /\ pv[channel_map[p]] = p
                        /\ pc'[channel_map[p]] # "free"
                        /\ ~end_processing => pc'[channel_map[p]] # "ended"
      BY DEF MapHasTask
    <2> QED BY <1>1, <1>2 DEF ChannelsServed, MapHasTask
  <1>4. TaskInMap' BY <1>1, <1>2 DEF ChannelsServed, TaskInMap
  <1>5. QueuedOnce'
    <2>1. /\ Len(queue') = Len(queue) + 1 /\ Len(queue) \in Nat
          /\ queue'[Len(queue) + 1] = e
          /\ \A i \in 1 .. Len(queue) : queue'[i] = queue[i]
      OBVIOUS
    <2>2. \A i \in 1 .. Len(queue) : queue[i] # e BY DEF ChannelsServed, QueuedOnce
    <2>3. \A f \in Entry : pc'[f] = "queued" <=> \E i \in 1 .. Len(queue') : queue'[i] = f
      <3> SUFFICES ASSUME NEW f \in Entry
                   PROVE  pc'[f] = "queued" <=> \E i \in 1 .. Len(queue') : queue'[i] = f
        OBVIOUS
      <3>1. CASE f = e
        <4>1. Len(queue) + 1 \in 1 .. Len(queue') BY <2>1
        <4> QED BY <3>1, <4>1, <2>1, <1>2
      <3>2. CASE f # e
        <4>1. pc[f] = "queued" <=> \E i \in 1 .. Len(queue) : queue[i] = f
          BY DEF ChannelsServed, QueuedOnce
        <4>2. \A i \in 1 .. Len(queue') : i \in 1 .. Len(queue) \/ i = Len(queue) + 1
          BY <2>1
        <4>3. \A i \in 1 .. Len(queue) : i \in 1 .. Len(queue') BY <2>1
        <4> QED BY <3>2, <4>1, <4>2, <4>3, <2>1, <1>1
      <3> QED BY <3>1, <3>2
    <2>4. \A i, j \in 1 .. Len(queue') : queue'[i] = queue'[j] => i = j
      BY <2>1, <2>2 DEF ChannelsServed, QueuedOnce
    <2> QED BY <2>3, <2>4 DEF QueuedOnce
  <1>6. NoLateAdd' BY <1>1, <1>2 DEF NoLateAdd
  <1> QED BY <1>3, <1>4, <1>5, <1>6 DEF ChannelsServed

LEMMA ServedBegin ==
  ASSUME ServedInv, Begin PROVE ChannelsServed' /\ NoLateAdd'
  <1> USE DEF ServedInv, TypeOK, Point
  <1> DEFINE h == Head(queue)
  <1>1. h \in Entry /\ h = queue[1] /\ Len(queue) \in Nat /\ Len(queue) >= 1 BY DEF Begin
  <1>2. pc[h] = "queued"
    <2>1. 1 \in 1 .. Len(queue) BY <1>1
    <2> QED BY <1>1, <2>1 DEF ChannelsServed, QueuedOnce
  <1>3. /\ \A f \in Entry : f # h => pc'[f] = pc[f]
        /\ (pc'[h] = "ended" /\ end_processing) \/ pc'[h] = "check"
        /\ queue' = Tail(queue)
        /\ UNCHANGED <<channel_map, pv, end_processing, cleared>>
    BY <1>1 DEF Begin, Goto, EndSeen, mapVars, endVars
  <1> HIDE DEF h
  <1>4. MapHasTask'
    <2> SUFFICES ASSUME NEW p \in Pv, channel_map[p] # NoEntry
                 PROVE  /\ pv[channel_map[p]] = p
                        /\ pc'[channel_map[p]] # "free"
                        /\ ~end_processing => pc'[channel_map[p]] # "ended"
      BY <1>3 DEF MapHasTask
    <2> QED BY <1>3 DEF ChannelsServed, MapHasTask
  <1>5. TaskInMap' BY <1>2, <1>3 DEF ChannelsServed, TaskInMap
  <1>6. QueuedOnce'
    <2>1. /\ Len(queue') = Len(queue) - 1
          /\ \A i \in 1 .. Len(queue) - 1 : queue'[i] = queue[i + 1]
      BY <1>1, <1>3
    <2>2. \A f \in Entry : pc'[f] = "queued" <=> \E i \in 1 .. Len(queue') : queue'[i] = f
      <3> SUFFICES ASSUME NEW f \in Entry
                   PROVE  pc'[f] = "queued" <=> \E i \in 1 .. Len(queue') : queue'[i] = f
        OBVIOUS
      <3>0. pc[f] = "queued" <=> \E i \in 1 .. Len(queue) : queue[i] = f
        BY DEF ChannelsServed, QueuedOnce
      <3>1. CASE f = h
        <4>1. \A i \in 1 .. Len(queue) : queue[i] = h => i = 1
          BY <1>1 DEF ChannelsServed, QueuedOnce
        <4>2. \A i \in 1 .. Len(queue') : queue'[i] # h
          <5> SUFFICES ASSUME NEW i \in 1 .. Len(queue'), queue'[i] = h PROVE FALSE OBVIOUS
          <5>1. i + 1 \in 1 .. Len(queue) /\ queue[i + 1] = h BY <1>1, <2>1
          <5> QED BY <4>1, <5>1
        <4> QED BY <3>1, <4>2, <1>3
      <3>2. CASE f # h
        <4>1. ASSUME NEW i \in 1 .. Len(queue), queue[i] = f
              PROVE  \E j \in 1 .. Len(queue') : queue'[j] = f
          <5>1. i # 1 BY <4>1, <3>2, <1>1
          <5>2. i - 1 \in 1 .. Len(queue') /\ queue'[i - 1] = f BY <4>1, <5>1, <1>1, <2>1
          <5> QED BY <5>2
        <4>2. ASSUME NEW i \in 1 .. Len(queue'), queue'[i] = f
              PROVE  \E j \in 1 .. Len(queue) : queue[j] = f
          <5>1. i + 1 \in 1 .. Len(queue) /\ queue[i + 1] = f BY <4>2, <1>1, <2>1
          <5> QED BY <5>1
        <4> QED BY <3>0, <3>2, <4>1, <4>2, <1>3
      <3> QED BY <3>1, <3>2
    <2>3. ASSUME NEW i \in 1 .. Len(queue'), NEW j \in 1 .. Len(queue'),
                 queue'[i] = queue'[j]
          PROVE  i = j
      <3>1. /\ i + 1 \in 1 .. Len(queue) /\ j + 1 \in 1 .. Len(queue)
            /\ queue[i + 1] = queue[j + 1]
        BY <2>3, <1>1, <2>1
      <3>2. i + 1 = j + 1 BY <3>1 DEF ChannelsServed, QueuedOnce
      <3> QED BY <3>2
    <2> QED BY <2>2, <2>3 DEF QueuedOnce
  <1>7. NoLateAdd' BY <1>3 DEF NoLateAdd
  <1> QED BY <1>4, <1>5, <1>6, <1>7 DEF ChannelsServed

\* A task that is over: erased from the map, or ended by the destructor.
LEMMA ServedErase ==
  ASSUME ServedInv, NEW e \in Entry, CleanupAndErase(e) PROVE ChannelsServed' /\ NoLateAdd'
  <1> USE ChannelConstants DEF ServedInv, TypeOK, Point
  <1>1. channel_map[pv[e]] = e /\ pc[e] = "erase" /\ pv[e] \in Pv
    BY DEF CleanupAndErase, ChannelsServed, TaskInMap
  <1>2. /\ \A f \in Entry : f # e => pc'[f] = pc[f]
        /\ pc'[e] = "free"
        /\ channel_map'[pv[e]] = NoEntry
        /\ \A p \in Pv : p # pv[e] => channel_map'[p] = channel_map[p]
        /\ UNCHANGED <<pv, queue, end_processing, cleared>>
    BY <1>1 DEF CleanupAndErase, Goto, endVars
  <1>3. MapHasTask'
    <2> SUFFICES ASSUME NEW p \in Pv, channel_map'[p] # NoEntry
                 PROVE  /\ pv[channel_map'[p]] = p
                        /\ pc'[channel_map'[p]] # "free"
                        /\ ~end_processing => pc'[channel_map'[p]] # "ended"
      BY <1>2 DEF MapHasTask
    <2>1. p # pv[e] /\ channel_map'[p] = channel_map[p] /\ channel_map[p] \in Entry BY <1>2
    <2>2. channel_map[p] # e BY <2>1 DEF ChannelsServed, MapHasTask
    <2> QED BY <1>2, <2>1, <2>2 DEF ChannelsServed, MapHasTask
  <1>4. TaskInMap'
    <2> SUFFICES ASSUME NEW f \in Entry, pc'[f] \notin {"free", "ended"}
                 PROVE  channel_map'[pv[f]] = f
      BY <1>2 DEF TaskInMap
    <2>1. f # e /\ channel_map[pv[f]] = f BY <1>2 DEF ChannelsServed, TaskInMap
    <2> QED BY <1>1, <1>2, <2>1
  <1>5. QueuedOnce' BY <1>1, <1>2 DEF ChannelsServed, QueuedOnce
  <1>6. NoLateAdd' BY <1>1, <1>2 DEF NoLateAdd
  <1> QED BY <1>3, <1>4, <1>5, <1>6 DEF ChannelsServed

LEMMA ServedEnded ==
  ASSUME ServedInv, NEW e \in Entry, pc[e] \in Inside, end_processing,
         pc' = [pc EXCEPT ![e] = "ended"], UNCHANGED <<channel_map, pv, queue, endVars>>
  PROVE  ChannelsServed' /\ NoLateAdd'
  <1> USE DEF ServedInv, TypeOK, Inside, Unused, Point, endVars
  <1>1. \A f \in Entry : f # e => pc'[f] = pc[f] OBVIOUS
  <1>2. pc'[e] = "ended" OBVIOUS
  <1>3. MapHasTask'
    <2> SUFFICES ASSUME NEW p \in Pv, channel_map[p] # NoEntry
                 PROVE  pv[channel_map[p]] = p /\ pc'[channel_map[p]] # "free"
      BY DEF MapHasTask
    <2> QED BY <1>1, <1>2 DEF ChannelsServed, MapHasTask
  <1>4. TaskInMap' BY <1>1, <1>2 DEF ChannelsServed, TaskInMap
  <1>5. QueuedOnce' BY <1>1, <1>2 DEF ChannelsServed, QueuedOnce
  <1>6. NoLateAdd' BY <1>1, <1>2 DEF NoLateAdd
  <1> QED BY <1>3, <1>4, <1>5, <1>6 DEF ChannelsServed

LEMMA ServedAdd ==
  ASSUME ServedInv, NEW c \in Client, NEW p \in Pv, NEW e \in Entry, AddChannel(c, p, e)
  PROVE  ChannelsServed' /\ NoLateAdd'
  <1> USE ChannelConstants DEF ServedInv, TypeOK, Point
  <1>1. pc[e] = "free" /\ channel_map[p] = NoEntry /\ ~end_processing
    BY DEF AddChannel, Unmonitored
  <1>2. /\ \A f \in Entry : f # e => pc'[f] = pc[f] /\ pv'[f] = pv[f]
        /\ pc'[e] = "created" /\ pv'[e] = p /\ channel_map'[p] = e
        /\ \A q \in Pv : q # p => channel_map'[q] = channel_map[q]
        /\ UNCHANGED <<queue, end_processing, cleared>>
    BY DEF AddChannel, Goto, endVars
  <1>3. MapHasTask'
    <2> SUFFICES ASSUME NEW q \in Pv, channel_map'[q] # NoEntry
                 PROVE  /\ pv'[channel_map'[q]] = q
                        /\ pc'[channel_map'[q]] # "free"
                        /\ pc'[channel_map'[q]] # "ended"
      BY <1>2 DEF MapHasTask
    <2>1. CASE q = p BY <1>2, <2>1
    <2>2. CASE q # p
      <3>1. channel_map'[q] = channel_map[q] /\ channel_map[q] \in Entry BY <1>2, <2>2
      <3>2. channel_map[q] # e BY <1>1, <3>1 DEF ChannelsServed, MapHasTask
      <3> QED BY <1>1, <1>2, <3>1, <3>2 DEF ChannelsServed, MapHasTask
    <2> QED BY <2>1, <2>2
  <1>4. TaskInMap'
    <2> SUFFICES ASSUME NEW f \in Entry, pc'[f] \notin {"free", "ended"}
                 PROVE  channel_map'[pv'[f]] = f
      BY DEF TaskInMap
    <2>1. CASE f = e BY <1>2, <2>1
    <2>2. CASE f # e
      <3>1. channel_map[pv[f]] = f BY <1>2, <2>2 DEF ChannelsServed, TaskInMap
      <3>2. pv[f] # p BY <1>1, <3>1
      <3> QED BY <1>2, <2>2, <3>1, <3>2
    <2> QED BY <2>1, <2>2
  <1>5. QueuedOnce'
    <2>1. ASSUME NEW f \in Entry
          PROVE  pc'[f] = "queued" <=> \E i \in 1 .. Len(queue) : queue[i] = f
      <3>1. pc[f] = "queued" <=> \E i \in 1 .. Len(queue) : queue[i] = f
        BY DEF ChannelsServed, QueuedOnce
      <3>2. pc'[f] = "queued" <=> pc[f] = "queued"
        <4>1. CASE f = e BY <1>1, <1>2, <4>1
        <4>2. CASE f # e BY <1>2, <4>2
        <4> QED BY <4>1, <4>2
      <3> QED BY <3>1, <3>2
    <2>2. queue' = queue BY <1>2
    <2>3. \A i, j \in 1 .. Len(queue) : queue[i] = queue[j] => i = j
      BY DEF ChannelsServed, QueuedOnce
    <2> QED BY <2>1, <2>2, <2>3 DEF QueuedOnce
  <1>6. NoLateAdd' BY <1>1, <1>2 DEF NoLateAdd
  <1> QED BY <1>3, <1>4, <1>5, <1>6 DEF ChannelsServed

LEMMA ServedShutdown ==
  ASSUME ServedInv, Shutdown \/ ShutdownClear PROVE ChannelsServed' /\ NoLateAdd'
  <1>1. CASE Shutdown
    BY <1>1 DEF Shutdown, ServedInv, ChannelsServed, MapHasTask, TaskInMap, QueuedOnce,
                NoLateAdd, mapVars
  <1>2. CASE ShutdownClear
    <2> USE DEF ServedInv, TypeOK, Point
    <2>1. \A e \in Entry : pc[e] \in {"free", "ended"}
      <3> SUFFICES ASSUME NEW e \in Entry, pc[e] \notin {"free", "ended"} PROVE FALSE
        OBVIOUS
      <3>1. pc[e] # "created" BY <1>2 DEF ShutdownClear, NoLateAdd
      <3>2. pc[e] # "queued"
        BY <1>2 DEF ShutdownClear, PoolDrained, ChannelsServed, QueuedOnce
      <3>3. e \notin Running BY <1>2 DEF ShutdownClear, PoolDrained
      <3> QED BY <3>1, <3>2, <3>3 DEF Running
    <2>2. /\ \A p \in Pv : channel_map'[p] = NoEntry
          /\ UNCHANGED <<pc, queue, pv, end_processing>> /\ end_processing
      BY <1>2 DEF ShutdownClear
    <2>3. MapHasTask' BY <2>2 DEF MapHasTask
    <2>4. TaskInMap' BY <2>1, <2>2 DEF TaskInMap
    <2>5. QueuedOnce' BY <2>2 DEF ChannelsServed, QueuedOnce
    <2>6. NoLateAdd'
      <3>1. end_processing' BY <2>2
      <3>2. \A e \in Entry : pc'[e] # "created" BY <2>1, <2>2
      <3> QED BY <2>2, <3>1, <3>2 DEF NoLateAdd
    <2> QED BY <2>3, <2>4, <2>5, <2>6 DEF ChannelsServed
  <1> QED BY <1>1, <1>2

\* The inductive step.
LEMMA ServedStep == ASSUME ServedInv, [Next]_vars PROVE ChannelsServed' /\ NoLateAdd'
  <1>1. CASE UNCHANGED vars
    BY <1>1, ServedByOthers DEF vars, mapVars
  <1>2. ASSUME NEW c \in Client, NEW p \in Pv,
               \/ AddToChannel(c, p) \/ RemoveChannel(c, p)
               \/ \E e \in Entry : AddChannel(c, p, e)
        PROVE  ChannelsServed' /\ NoLateAdd'
    <2>1. CASE AddToChannel(c, p) BY <2>1, ServedByOthers DEF AddToChannel
    <2>2. CASE RemoveChannel(c, p) BY <2>2, ServedByOthers DEF RemoveChannel
    <2>3. CASE \E e \in Entry : AddChannel(c, p, e) BY <2>3, ServedAdd
    <2> QED BY <1>2, <2>1, <2>2, <2>3
  <1>3. ASSUME NEW p \in Pv, ForceMonitorChannelUpdate(p) \/ IocUpdate(p)
        PROVE  ChannelsServed' /\ NoLateAdd'
    BY <1>3, ServedByOthers DEF ForceMonitorChannelUpdate, IocUpdate, mapVars
  <1>4. ASSUME NEW e \in Entry, Detach(e) \/ TaskStep(e) \/ Connect(e) \/ GetDone(e)
        PROVE  ChannelsServed' /\ NoLateAdd'
    <2> USE DEF Goto, mapVars, Inside, Unused, Point
    <2>1. CASE Detach(e) BY <2>1, ServedQueued DEF Detach
    <2>2. CASE Connect(e) \/ GetDone(e) BY <2>2, ServedByOthers DEF Connect, GetDone
    <2>3. CASE CheckKeepAlive(e)
      <3>1. PICK q \in Inside : pc' = [pc EXCEPT ![e] = q] BY <2>3 DEF CheckKeepAlive
      <3> QED BY <2>3, <3>1, ServedInside DEF CheckKeepAlive
    <2>4. CASE CleanupAndErase(e) BY <2>4, ServedErase
    <2>5. CASE TakeForce(e) BY <2>5, ServedInside DEF TakeForce
    <2>6. CASE Poll(e)
      <3>1. PICK q \in Inside : pc' = [pc EXCEPT ![e] = q] BY <2>6 DEF Poll
      <3> QED BY <2>6, <3>1, ServedInside DEF Poll
    <2>7. CASE PollByGet(e) BY <2>7, ServedInside DEF PollByGet
    <2>8. CASE Deliver(e) BY <2>8, ServedInside DEF Deliver
    <2>9. CASE Requeue(e)
      <3>1. CASE EndSeen BY <2>9, <3>1, ServedEnded DEF Requeue, EndSeen
      <3>2. CASE ~EndSeen BY <2>9, <3>2, ServedQueued DEF Requeue, AtEnd
      <3> QED BY <3>1, <3>2
    <2> QED BY <1>4, <2>1, <2>2, <2>3, <2>4, <2>5, <2>6, <2>7, <2>8, <2>9 DEF TaskStep
  <1>5. CASE Begin BY <1>5, ServedBegin
  <1>6. CASE Shutdown \/ ShutdownClear BY <1>6, ServedShutdown
  <1> QED BY <1>1, <1>2, <1>3, <1>4, <1>5, <1>6 DEF Next, Destroyed

LEMMA ServedInvariant == Spec => []ServedInv
  <1>1. Init => ChannelsServed /\ NoLateAdd
    BY DEF Init, ChannelsServed, MapHasTask, TaskInMap, QueuedOnce, NoLateAdd
  <1>2. TypeOK' /\ ServedInv /\ [Next]_vars => ServedInv'
    BY ServedStep DEF ServedInv
  <1>3. Init /\ TypeOK => ServedInv BY <1>1 DEF ServedInv
  <1> QED BY <1>2, <1>3, ChannelTypeCorrect, PTL DEF Spec

\* Every channel in channel_map is worked on by exactly one task, queued once or
\* running, until the destructor: addChannel, task and cleanupAndErase keep the
\* map and the pool in step, for any number of PVs, clients and threads.
THEOREM OneTaskPerChannel == Spec => []ChannelsServed
  <1>1. ServedInv => ChannelsServed BY DEF ServedInv
  <1> QED BY <1>1, ServedInvariant, PTL

-----------------------------------------------------------------------------
(* Reference counts. *)

\* A client more or less among the holders of a PV.
LEMMA HolderCounts ==
  ASSUME TypeOK, NEW p \in Pv, NEW c \in Client
  PROVE  /\ Cardinality(holders[p]) \in Nat
         /\ c \notin holders[p] => Cardinality(holders[p] \cup {c}) = Cardinality(holders[p]) + 1
         /\ c \in holders[p] => Cardinality(holders[p] \ {c}) = Cardinality(holders[p]) - 1
  <1>1. holders[p] \subseteq Client BY DEF TypeOK
  <1>2. IsFiniteSet(holders[p]) BY <1>1, ChannelConstants, FS_Subset
  <1> QED BY <1>2, FS_CardinalityType, FS_AddElement, FS_RemoveElement

\* A step that touches neither holders nor counts, and adds nothing to the map.
LEMMA CountsUntouched ==
  ASSUME KeepAliveBounded, UNCHANGED <<holders, keep_alive>>,
         \A p \in Pv : channel_map'[p] = channel_map[p] \/ channel_map'[p] = NoEntry
  PROVE  KeepAliveBounded'
  BY DEF KeepAliveBounded

LEMMA CountsStep ==
  ASSUME ServedInv, KeepAliveBounded, [Next]_vars PROVE KeepAliveBounded'
  <1> USE ChannelConstants DEF ServedInv, TypeOK
  <1>0. \A q, r \in Pv : channel_map[q] # NoEntry /\ channel_map[q] = channel_map[r] => q = r
    BY DEF ChannelsServed, MapHasTask
  <1>1. CASE UNCHANGED vars BY <1>1, CountsUntouched DEF vars, mapVars
  <1>2. ASSUME NEW c \in Client, NEW p \in Pv, AddToChannel(c, p) PROVE KeepAliveBounded'
    <2> SUFFICES ASSUME NEW q \in Pv, channel_map[q] # NoEntry
                 PROVE  keep_alive'[channel_map[q]] <= Cardinality(holders'[q])
      BY <1>2 DEF AddToChannel, KeepAliveBounded
    <2>0. keep_alive[channel_map[q]] <= Cardinality(holders[q]) BY DEF KeepAliveBounded
    <2>1. CASE q = p
      <3>1. Cardinality(holders'[p]) = Cardinality(holders[p]) + 1
        BY <1>2, HolderCounts DEF AddToChannel
      <3>2. keep_alive'[channel_map[p]] = keep_alive[channel_map[p]] + 1
        BY <1>2 DEF AddToChannel
      <3>3. keep_alive[channel_map[p]] \in Nat /\ Cardinality(holders[p]) \in Nat
        BY <2>1, HolderCounts
      <3> HIDE DEF TypeOK, ServedInv
      <3> QED BY <2>0, <2>1, <3>1, <3>2, <3>3
    <2>2. CASE q # p
      <3>1. channel_map[q] # channel_map[p] BY <1>0, <2>2
      <3>2. holders'[q] = holders[q] BY <1>2, <2>2 DEF AddToChannel
      <3>3. channel_map[q] \in Entry OBVIOUS
      <3>4. keep_alive'[channel_map[q]] = keep_alive[channel_map[q]]
        BY <1>2, <3>1, <3>3 DEF AddToChannel
      <3> QED BY <2>0, <3>2, <3>4
    <2> QED BY <2>1, <2>2
  <1>3. ASSUME NEW c \in Client, NEW p \in Pv, RemoveChannel(c, p) PROVE KeepAliveBounded'
    <2> SUFFICES ASSUME NEW q \in Pv, channel_map[q] # NoEntry
                 PROVE  keep_alive'[channel_map[q]] <= Cardinality(holders'[q])
      BY <1>3 DEF RemoveChannel, KeepAliveBounded
    <2>0. keep_alive[channel_map[q]] <= Cardinality(holders[q]) BY DEF KeepAliveBounded
    <2>1. CASE q = p
      <3>1. Cardinality(holders'[p]) = Cardinality(holders[p]) - 1
        BY <1>3, HolderCounts DEF RemoveChannel
      <3>2. keep_alive'[channel_map[p]] = CountDown(keep_alive[channel_map[p]])
        BY <1>3, <2>1 DEF RemoveChannel
      <3>3. Cardinality(holders[p]) >= 1
        <4>1. IsFiniteSet(holders[p]) /\ holders[p] # {}
          BY <1>3, FS_Subset DEF RemoveChannel
        <4> QED BY <4>1, FS_EmptySet, FS_CardinalityType
      <3>4. keep_alive[channel_map[p]] \in Nat /\ Cardinality(holders[p]) \in Nat
        BY <2>1, HolderCounts
      <3> HIDE DEF TypeOK, ServedInv
      <3> QED BY <2>0, <2>1, <3>1, <3>2, <3>3, <3>4 DEF CountDown
    <2>2. CASE q # p
      <3>1. channel_map[q] # channel_map[p] BY <1>0, <2>2
      <3>2. holders'[q] = holders[q] BY <1>3, <2>2 DEF RemoveChannel
      <3>3. channel_map[q] \in Entry OBVIOUS
      <3>4. keep_alive'[channel_map[q]] = keep_alive[channel_map[q]]
        BY <1>3, <3>1, <3>3 DEF RemoveChannel
      <3> QED BY <2>0, <3>2, <3>4
    <2> QED BY <2>1, <2>2
  <1>4. ASSUME NEW c \in Client, NEW p \in Pv, NEW e \in Entry, AddChannel(c, p, e)
        PROVE  KeepAliveBounded'
    <2> SUFFICES ASSUME NEW q \in Pv, channel_map'[q] # NoEntry
                 PROVE  keep_alive'[channel_map'[q]] <= Cardinality(holders'[q])
      BY DEF KeepAliveBounded
    <2>1. CASE q = p
      <3>1. Cardinality(holders'[p]) = Cardinality(holders[p]) + 1
        BY <1>4, HolderCounts DEF AddChannel
      <3>2. channel_map'[p] = e /\ keep_alive'[e] = 1 BY <1>4 DEF AddChannel
      <3>3. Cardinality(holders[p]) \in Nat BY HolderCounts
      <3> HIDE DEF TypeOK, ServedInv
      <3> QED BY <2>1, <3>1, <3>2, <3>3
    <2>2. CASE q # p
      <3>1. channel_map'[q] = channel_map[q] /\ holders'[q] = holders[q]
        BY <1>4, <2>2 DEF AddChannel
      <3>2. channel_map[q] # e BY <1>4, <3>1 DEF AddChannel, ChannelsServed, MapHasTask
      <3>3. keep_alive[channel_map[q]] <= Cardinality(holders[q])
        BY <3>1 DEF KeepAliveBounded
      <3>4. channel_map[q] \in Entry BY <3>1
      <3>5. keep_alive'[channel_map[q]] = keep_alive[channel_map[q]]
        BY <1>4, <3>2, <3>4 DEF AddChannel
      <3> QED BY <3>1, <3>3, <3>5
    <2> QED BY <2>1, <2>2
  <1>5. ASSUME NEW p \in Pv, ForceMonitorChannelUpdate(p) \/ IocUpdate(p)
        PROVE  KeepAliveBounded'
    BY <1>5, CountsUntouched DEF ForceMonitorChannelUpdate, IocUpdate, mapVars
  <1>6. ASSUME NEW e \in Entry, CleanupAndErase(e) PROVE KeepAliveBounded'
    <2>1. channel_map[pv[e]] = e BY <1>6 DEF CleanupAndErase, ChannelsServed, TaskInMap
    <2> SUFFICES ASSUME NEW q \in Pv, channel_map'[q] # NoEntry
                 PROVE  keep_alive'[channel_map'[q]] <= Cardinality(holders[q])
      BY <1>6 DEF CleanupAndErase, KeepAliveBounded
    <2>2. channel_map'[q] = channel_map[q] /\ channel_map[q] # e
      <3>1. q # pv[e] BY <1>6, <2>1 DEF CleanupAndErase
      <3>2. channel_map'[q] = channel_map[q] BY <1>6, <3>1 DEF CleanupAndErase
      <3> QED BY <1>0, <2>1, <3>1, <3>2
    <2> QED BY <1>6, <2>2 DEF CleanupAndErase, KeepAliveBounded
  <1>7. ASSUME NEW e \in Entry,
               Detach(e) \/ (TaskStep(e) /\ ~CleanupAndErase(e)) \/ Connect(e) \/ GetDone(e)
        PROVE  KeepAliveBounded'
    BY <1>7, CountsUntouched
    DEF Detach, TaskStep, CheckKeepAlive, TakeForce, Poll, PollByGet, Deliver, Requeue,
        Connect, GetDone, mapVars
  <1>8. CASE Begin \/ Shutdown BY <1>8, CountsUntouched DEF Begin, Shutdown, mapVars
  <1>9. CASE ShutdownClear BY <1>9, CountsUntouched DEF ShutdownClear
  <1> QED BY <1>1, <1>2, <1>3, <1>4, <1>5, <1>6, <1>7, <1>8, <1>9 DEF Next, Destroyed

\* No request keeps a channel alive after its client gave it back: keep_alive of a
\* channel in the map is at most the number of clients that hold the PV, also
\* after requests were lost between the task's test and its erase.
THEOREM CountsBounded == Spec => []KeepAliveBounded
  <1>1. Init => KeepAliveBounded BY DEF Init, KeepAliveBounded
  <1>2. ServedInv /\ KeepAliveBounded /\ [Next]_vars => KeepAliveBounded' BY CountsStep
  <1> QED BY <1>1, <1>2, ServedInvariant, PTL DEF Spec
-----------------------------------------------------------------------------
(* Windows.  Rings: what the operators of TimeWindowBuffer do to the entries. *)

Slot == [ev : Nat, ts : Nat, place : Nat]

(* a ring of n slots whose tail is where the entries end *)
IsRing(b, n) ==
  /\ n \in Nat \ {0}
  /\ b \in [slots : [0 .. n - 1 -> Slot], head : 0 .. n - 1, tail : 0 .. n - 1, count : 0 .. n]
  /\ b.tail = (b.head + b.count) % n

LEMMA Modulo ==
  ASSUME NEW n \in Nat \ {0}, NEW x \in Nat, x < 2 * n
  PROVE  /\ x % n = IF x < n THEN x ELSE x - n
         /\ x % n \in 0 .. n - 1
  <1>1. CASE x < n BY <1>1
  <1>2. CASE x >= n
    <2>1. x - n \in 0 .. n - 1 BY <1>2
    <2>2. x = n * 1 + (x - n) OBVIOUS
    <2>3. x % n = x - n BY <2>1, <2>2
    <2> QED BY <1>2, <2>1, <2>3
  <1> QED BY <1>1, <1>2

LEMMA RingSize ==
  ASSUME NEW b, NEW n, IsRing(b, n)
  PROVE  Size(b) = n /\ DOMAIN b.slots = 0 .. n - 1
  <1>1. DOMAIN b.slots = 0 .. n - 1 /\ n \in Nat \ {0} BY DEF IsRing
  <1>2. n - 1 \in Int BY <1>1
  <1>3. Cardinality(0 .. n - 1) = n BY <1>1, <1>2, FS_Interval
  <1> QED BY <1>1, <1>3 DEF Size

LEMMA RingEntries ==
  ASSUME NEW b, NEW n, IsRing(b, n)
  PROVE  /\ b.count \in Nat /\ b.count <= n
         /\ Entries(b) \in Seq(Slot) /\ Len(Entries(b)) = b.count
         /\ DOMAIN Entries(b) = 1 .. b.count
         /\ \A i \in 1 .. b.count : /\ Entries(b)[i] = b.slots[(b.head + i - 1) % n]
                                    /\ (b.head + i - 1) % n \in 0 .. n - 1
  <1>1. Size(b) = n BY RingSize
  <1>2. /\ n \in Nat \ {0} /\ b.head \in 0 .. n - 1 /\ b.count \in 0 .. n
        /\ b.slots \in [0 .. n - 1 -> Slot]
    BY DEF IsRing
  <1>3. \A i \in 1 .. b.count : (b.head + i - 1) % n \in 0 .. n - 1
    <2> TAKE i \in 1 .. b.count
    <2>1. b.head + i - 1 \in Nat /\ b.head + i - 1 < 2 * n BY <1>2
    <2> QED BY <1>2, <2>1, Modulo
  <1>4. \A i \in 1 .. b.count : b.slots[(b.head + i - 1) % n] \in Slot
    BY <1>2, <1>3
  <1>5. b.count \in Nat BY <1>2
  <1>6. Entries(b) = [i \in 1 .. b.count |-> b.slots[(b.head + i - 1) % n]]
    BY <1>1 DEF Entries
  <1>7. Entries(b) \in Seq(Slot) BY <1>4, <1>5, <1>6, IsASeq
  <1>8. Len(Entries(b)) = b.count BY <1>5, <1>6, <1>7, LenProperties
  <1> QED BY <1>2, <1>3, <1>5, <1>6, <1>7, <1>8

LEMMA EmptyRing ==
  ASSUME NEW r \in Nat \ {0}
  PROVE  /\ IsRing(EmptyBuffer(r), r) /\ Entries(EmptyBuffer(r)) = <<>>
         /\ \A i \in 0 .. r - 1 : EmptyBuffer(r).slots[i] = FreeSlot
  <1>1. FreeSlot \in Slot BY DEF FreeSlot, Slot
  <1>2. (0 + 0) % r = 0 BY Modulo
  <1>3. IsRing(EmptyBuffer(r), r) BY <1>1, <1>2 DEF IsRing, EmptyBuffer
  <1>4. Len(Entries(EmptyBuffer(r))) = 0 /\ Entries(EmptyBuffer(r)) \in Seq(Slot)
    BY <1>3, RingEntries DEF EmptyBuffer
  <1>5. Entries(EmptyBuffer(r)) = <<>>
    <2>1. PICK s \in Seq(Slot) : s = Entries(EmptyBuffer(r)) BY <1>4
    <2>2. Len(s) = 0 BY <1>4, <2>1
    <2> QED BY <2>1, <2>2, EmptySeq
  <1> QED BY <1>3, <1>5 DEF EmptyBuffer

(* A set of positions closed downwards is an interval from the first. *)
LEMMA Prefix ==
  ASSUME NEW c \in Nat, NEW D \in SUBSET (1 .. c), \A i \in D : 1 .. i \subseteq D
  PROVE  Cardinality(D) \in 0 .. c /\ D = 1 .. Cardinality(D)
  <1>1. IsFiniteSet(1 .. c) /\ Cardinality(1 .. c) = c BY FS_Interval
  <1>2. IsFiniteSet(D) /\ Cardinality(D) <= c
    <2>1. PICK S : S = 1 .. c OBVIOUS
    <2>2. IsFiniteSet(S) /\ Cardinality(S) = c /\ D \in SUBSET S BY <1>1, <2>1
    <2> QED BY <2>2, FS_Subset
  <1>3. Cardinality(D) \in Nat BY <1>2, FS_CardinalityType
  <1> DEFINE k == Cardinality(D)
  <1>4. \A i \in D : i <= k
    <2> TAKE i \in D
    <2>1. i \in Nat \ {0} OBVIOUS
    <2>2. Cardinality(1 .. i) = i BY <2>1, FS_Interval
    <2>3. Cardinality(1 .. i) <= k BY <1>2, FS_Subset
    <2> QED BY <2>2, <2>3
  <1>5. D \subseteq 1 .. k BY <1>3, <1>4
  <1>6. IsFiniteSet(1 .. k) /\ Cardinality(1 .. k) = k BY <1>3, FS_Interval
  <1>7. 1 .. k = D BY <1>5, <1>6, FS_Subset
  <1> QED BY <1>2, <1>3, <1>7

Old(b, t, w, k) ==
  /\ k \in 0 .. b.count
  /\ TooOld(b, t, w) = 1 .. k
  /\ \A i \in 1 .. k : t - Entries(b)[i].ts > w
  /\ k < b.count => ~(t - Entries(b)[k + 1].ts > w)

LEMMA TooOldIsPrefix ==
  ASSUME NEW b, NEW n, IsRing(b, n), NEW t, NEW w
  PROVE  Old(b, t, w, Cardinality(TooOld(b, t, w)))
  <1> DEFINE D == TooOld(b, t, w)
  <1>1. b.count \in Nat BY RingEntries
  <1>2. D \subseteq 1 .. b.count BY DEF TooOld
  <1>3. \A i \in D : 1 .. i \subseteq D BY <1>1 DEF TooOld
  <1>4. Cardinality(D) \in 0 .. b.count /\ D = 1 .. Cardinality(D)
    <2> HIDE DEF D
    <2> QED BY <1>1, <1>2, <1>3, Prefix
  <1>5. PICK k : k = Cardinality(D) OBVIOUS
  <1>6. k \in 0 .. b.count /\ D = 1 .. k BY <1>4, <1>5
  <1>7. \A i \in 1 .. k : t - Entries(b)[i].ts > w BY <1>6 DEF TooOld
  <1>8. k < b.count => ~(t - Entries(b)[k + 1].ts > w)
    <2> SUFFICES ASSUME k < b.count, t - Entries(b)[k + 1].ts > w PROVE FALSE OBVIOUS
    <2>1. k + 1 \in 1 .. b.count /\ k + 1 \notin 1 .. k BY <1>1, <1>6
    <2>2. \A j \in 1 .. k + 1 : t - Entries(b)[j].ts > w BY <1>1, <1>6, <1>7
    <2>3. k + 1 \in D BY <2>1, <2>2 DEF TooOld
    <2> QED BY <1>6, <2>1, <2>3
  <1> QED BY <1>5, <1>6, <1>7, <1>8 DEF Old

(* every slot of c holds what one of b holds, nothing, or the entry e *)
SlotsFrom(c, b, e) ==
  \A i \in DOMAIN c.slots : \/ c.slots[i] \in {FreeSlot, e}
                            \/ \E j \in DOMAIN b.slots : c.slots[i] = b.slots[j]

LEMMA ModuloShift ==
  ASSUME NEW n \in Nat \ {0}, NEW h \in 0 .. n - 1, NEW k \in Nat, NEW j \in Nat, k + j <= n
  PROVE  /\ (h + k) % n \in 0 .. n - 1
         /\ (((h + k) % n) + j) % n = (h + (k + j)) % n
  <1>1. PICK a \in Nat : a = h + k OBVIOUS
  <1>2. PICK d \in Nat : d = h + (k + j) OBVIOUS
  <1>3. a < 2 * n /\ d < 2 * n /\ a + j = d BY <1>1, <1>2
  <1>4. PICK x : x = a % n OBVIOUS
  <1>5. x \in 0 .. n - 1 /\ x = IF a < n THEN a ELSE a - n BY <1>3, <1>4, Modulo
  <1>6. PICK z \in Nat : z = x + j BY <1>5
  <1>7. z < 2 * n BY <1>5, <1>6
  <1>8. z % n = IF z < n THEN z ELSE z - n BY <1>7, Modulo
  <1>9. d % n = IF d < n THEN d ELSE d - n BY <1>3, Modulo
  <1>10. PICK y, v : y = d % n /\ v = z % n OBVIOUS
  <1>11. v = y
    <2>1. v = IF z < n THEN z ELSE z - n BY <1>8, <1>10
    <2>2. y = IF d < n THEN d ELSE d - n BY <1>9, <1>10
    <2>3. CASE a < n BY <1>3, <1>5, <1>6, <2>1, <2>2, <2>3
    <2>4. CASE ~(a < n) BY <1>3, <1>5, <1>6, <2>1, <2>2, <2>4
    <2> QED BY <2>3, <2>4
  <1> QED BY <1>1, <1>2, <1>4, <1>5, <1>6, <1>10, <1>11

LEMMA ModuloDiffers ==
  ASSUME NEW n \in Nat \ {0}, NEW h \in 0 .. n - 1, NEW i \in Nat, NEW j \in Nat, i < j, j < n
  PROVE  (h + i) % n # (h + j) % n
  <1>1. PICK a \in Nat : a = h + i OBVIOUS
  <1>2. PICK d \in Nat : d = h + j OBVIOUS
  <1>3. a < 2 * n /\ d < 2 * n /\ a < d /\ d - a < n BY <1>1, <1>2
  <1>4. a % n = IF a < n THEN a ELSE a - n BY <1>3, Modulo
  <1>5. d % n = IF d < n THEN d ELSE d - n BY <1>3, Modulo
  <1>6. PICK x, y : x = a % n /\ y = d % n OBVIOUS
  <1>7. x # y BY <1>3, <1>4, <1>5, <1>6
  <1> QED BY <1>1, <1>2, <1>6, <1>7

(* the fields of a ring *)
Parts(b, n, s, h, c) ==
  /\ n \in Nat \ {0} /\ s \in [0 .. n - 1 -> Slot] /\ h \in 0 .. n - 1 /\ c \in 0 .. n
  /\ b = [slots |-> s, head |-> h, tail |-> (h + c) % n, count |-> c]

LEMMA RingParts ==
  ASSUME NEW b, NEW n, IsRing(b, n)
  PROVE  \E s, h, c : Parts(b, n, s, h, c)
  BY DEF IsRing, Parts

LEMMA PartsRing ==
  ASSUME NEW b, NEW n, NEW s, NEW h, NEW c, Parts(b, n, s, h, c)
  PROVE  /\ IsRing(b, n)
         /\ \A i \in 1 .. c : /\ i - 1 \in Nat /\ (h + (i - 1)) % n \in 0 .. n - 1
                              /\ Entries(b)[i] = s[(h + (i - 1)) % n]
  <1>1. (h + c) % n \in 0 .. n - 1
    <2>1. h + c \in Nat /\ h + c < 2 * n BY DEF Parts
    <2>2. n \in Nat \ {0} BY DEF Parts
    <2> QED BY <2>1, <2>2, Modulo
  <1>2. IsRing(b, n) BY <1>1 DEF IsRing, Parts
  <1>3. b.slots = s /\ b.head = h /\ b.count = c BY DEF Parts
  <1> SUFFICES ASSUME NEW i \in 1 .. c
               PROVE  /\ i - 1 \in Nat /\ (h + (i - 1)) % n \in 0 .. n - 1
                      /\ Entries(b)[i] = s[(h + (i - 1)) % n]
    BY <1>2
  <1>4. Entries(b)[i] = s[(h + i - 1) % n] /\ (h + i - 1) % n \in 0 .. n - 1
    BY <1>2, <1>3, RingEntries
  <1>5. h + i - 1 = h + (i - 1) /\ i - 1 \in Nat BY DEF Parts
  <1> QED BY <1>4, <1>5

LEMMA PruneRing ==
  ASSUME NEW b, NEW n, IsRing(b, n), NEW t, NEW w, NEW k, Old(b, t, w, k),
         k = Cardinality(TooOld(b, t, w))
  PROVE  LET p == pruneOldIfNeeded(b, t, w)
         IN /\ IsRing(p, n) /\ p.slots = b.slots /\ p.count = b.count - k
            /\ \A i \in 1 .. p.count : Entries(p)[i] = Entries(b)[k + i]
  <1> DEFINE p == pruneOldIfNeeded(b, t, w)
  <1>1. Size(b) = n BY RingSize
  <1>2. PICK s, h, c : Parts(b, n, s, h, c) BY RingParts
  <1>3. b.count = c /\ b.head = h /\ b.slots = s BY <1>2 DEF Parts
  <1>4. k \in 0 .. c BY <1>3 DEF Old
  <1>5. p = [slots |-> s, head |-> (h + k) % n, tail |-> (h + c) % n, count |-> c - k]
    <2>1. p = [b EXCEPT !.head = (h + k) % n, !.count = c - k]
      BY <1>1, <1>3 DEF pruneOldIfNeeded
    <2>2. b = [slots |-> s, head |-> h, tail |-> (h + c) % n, count |-> c] BY <1>2 DEF Parts
    <2> QED BY <2>1, <2>2
  <1>6. n \in Nat \ {0} /\ h \in 0 .. n - 1 /\ c \in 0 .. n BY <1>2 DEF Parts
  <1>7. PICK j : j = c - k OBVIOUS
  <1>8. j \in Nat /\ k \in Nat /\ k + j = c /\ k + j <= n /\ j \in 0 .. n BY <1>4, <1>6, <1>7
  <1>9. (h + k) % n \in 0 .. n - 1 /\ (((h + k) % n) + j) % n = (h + c) % n
    BY <1>6, <1>8, ModuloShift
  <1>10. Parts(p, n, s, (h + k) % n, j) BY <1>2, <1>5, <1>6, <1>7, <1>8, <1>9 DEF Parts
  <1>11. p.count = j /\ p.slots = s BY <1>10 DEF Parts
  <1>12. ASSUME NEW i \in 1 .. j PROVE Entries(p)[i] = Entries(b)[k + i]
    <2>1. k + i \in 1 .. c /\ (k + i) - 1 = k + (i - 1) /\ i - 1 \in Nat /\ k + (i - 1) <= n
      BY <1>6, <1>8
    <2>2. Entries(p)[i] = s[(((h + k) % n) + (i - 1)) % n] BY <1>10, PartsRing
    <2>3. Entries(b)[k + i] = s[(h + ((k + i) - 1)) % n] BY <1>2, <2>1, PartsRing
    <2>4. (((h + k) % n) + (i - 1)) % n = (h + (k + (i - 1))) % n BY <1>6, <1>8, <2>1, ModuloShift
    <2> QED BY <2>1, <2>2, <2>3, <2>4
  <1>13. IsRing(p, n) BY <1>10, PartsRing
  <1> QED BY <1>3, <1>7, <1>11, <1>12, <1>13

LEMMA Larger ==
  ASSUME NEW n \in Nat \ {0}, NEW g \in Nat \ {0, 1}
  PROVE  n * g \in Nat \ {0} /\ n < n * g
  <1>1. PICK d \in Nat : g = 2 + d
    <2>1. g - 2 \in Nat /\ g = 2 + (g - 2) OBVIOUS
    <2> QED BY <2>1
  <1>2. n * d \in Nat OBVIOUS
  <1>3. n * g = n + n + n * d BY <1>1
  <1> QED BY <1>2, <1>3

LEMMA ExpandRing ==
  ASSUME NEW b, NEW n, IsRing(b, n), b.count = n, NEW g \in Nat \ {0, 1}
  PROVE  LET x == expandBuffer(b, g)
         IN /\ IsRing(x, n * g) /\ x.count = n /\ n < n * g
            /\ \A i \in 1 .. n : Entries(x)[i] = Entries(b)[i]
            /\ \A e : SlotsFrom(x, b, e)
  <1> DEFINE x == expandBuffer(b, g)
             at(i) == IF i < n THEN b.slots[(b.head + i) % n] ELSE FreeSlot
  <1>1. Size(b) = n /\ DOMAIN b.slots = 0 .. n - 1 BY RingSize
  <1>2. n \in Nat \ {0} /\ b.head \in 0 .. n - 1 /\ b.slots \in [0 .. n - 1 -> Slot]
    BY DEF IsRing
  <1>3. PICK m : m = n * g OBVIOUS
  <1>4. m \in Nat \ {0} /\ n < m BY <1>2, <1>3, Larger
  <1>5. x = [slots |-> [i \in 0 .. m - 1 |-> at(i)], head |-> 0, tail |-> n, count |-> n]
    BY <1>1, <1>3 DEF expandBuffer
  <1>6. \A i \in 0 .. n - 1 : (b.head + i) % n \in 0 .. n - 1
    <2> TAKE i \in 0 .. n - 1
    <2>1. b.head + i \in Nat /\ b.head + i < 2 * n BY <1>2
    <2> QED BY <1>2, <2>1, Modulo
  <1>7. \A i \in 0 .. m - 1 : i < n => at(i) = b.slots[(b.head + i) % n] /\ (b.head + i) % n \in 0 .. n - 1
    <2> SUFFICES ASSUME NEW i \in 0 .. m - 1, i < n
                 PROVE  at(i) = b.slots[(b.head + i) % n] /\ (b.head + i) % n \in 0 .. n - 1
      BY Zenon
    <2>1. i \in 0 .. n - 1 BY <1>2
    <2> QED BY <1>6, <2>1
  <1>8. \A i \in 0 .. m - 1 : ~(i < n) => at(i) = FreeSlot
    OBVIOUS
  <1>9. FreeSlot \in Slot BY DEF FreeSlot, Slot
  <1>10. \A i \in 0 .. m - 1 : at(i) \in Slot
    <2> HIDE DEF at
    <2> QED BY <1>2, <1>7, <1>8, <1>9
  <1>11. (0 + n) % m = n
    <2>1. n \in Nat /\ n < 2 * m /\ 0 + n = n BY <1>2, <1>4
    <2>2. n % m = n BY <1>4, <2>1, Modulo
    <2> QED BY <2>1, <2>2
  <1>12. x \in [slots : [0 .. m - 1 -> Slot], head : 0 .. m - 1, tail : 0 .. m - 1, count : 0 .. m]
    <2>1. [i \in 0 .. m - 1 |-> at(i)] \in [0 .. m - 1 -> Slot]
      <3> HIDE DEF at
      <3> QED BY <1>10
    <2>2. 0 \in 0 .. m - 1 /\ n \in 0 .. m - 1 /\ n \in 0 .. m BY <1>2, <1>4
    <2> HIDE DEF at
    <2> QED BY <1>5, <2>1, <2>2
  <1>13. x.tail = n /\ x.head = 0 /\ x.count = n BY <1>5
  <1>14. IsRing(x, m) BY <1>4, <1>11, <1>12, <1>13 DEF IsRing
  <1>15. ASSUME NEW i \in 1 .. n PROVE Entries(x)[i] = Entries(b)[i]
    <2>1. Entries(x)[i] = x.slots[(0 + i - 1) % m]
      <3>1. PICK y : y = x OBVIOUS
      <3> HIDE DEF x
      <3>2. IsRing(y, m) /\ y.head = 0 /\ y.count = n BY <1>13, <1>14, <3>1
      <3>3. Entries(y)[i] = y.slots[(y.head + i - 1) % m] BY <3>2, RingEntries
      <3> QED BY <3>1, <3>2, <3>3
    <2>2. (0 + i - 1) % m = i - 1
      <3>1. 0 + i - 1 \in Nat /\ 0 + i - 1 < 2 * m /\ 0 + i - 1 < m BY <1>2, <1>4
      <3> QED BY <1>4, <3>1, Modulo
    <2>3. i - 1 \in 0 .. m - 1 /\ i - 1 < n /\ b.head + (i - 1) = b.head + i - 1 BY <1>2, <1>4
    <2>4. x.slots[i - 1] = at(i - 1)
      <3> HIDE DEF at
      <3> QED BY <1>5, <2>3
    <2>5. Entries(b)[i] = b.slots[(b.head + i - 1) % n] BY RingEntries
    <2> QED BY <1>7, <2>1, <2>2, <2>3, <2>4, <2>5
  <1>16. ASSUME NEW e PROVE SlotsFrom(x, b, e)
    <2>1. DOMAIN x.slots = 0 .. m - 1 /\ \A i \in 0 .. m - 1 : x.slots[i] = at(i)
      <3> HIDE DEF at
      <3> QED BY <1>5
    <2> HIDE DEF x, at
    <2> SUFFICES ASSUME NEW i \in 0 .. m - 1
                 PROVE  \/ x.slots[i] \in {FreeSlot, e}
                        \/ \E j \in DOMAIN b.slots : x.slots[i] = b.slots[j]
      BY <2>1 DEF SlotsFrom
    <2> QED BY <1>1, <1>7, <1>8, <2>1
  <1> QED BY <1>3, <1>4, <1>13, <1>14, <1>15, <1>16

(* the entry at the tail of a ring with room *)
Insert(b, entry) ==
  [[b EXCEPT !.slots[b.tail] = entry, !.tail = NextIndex(@, b)] EXCEPT !.count = @ + 1]

LEMMA InsertRing ==
  ASSUME NEW b, NEW n, IsRing(b, n), b.count < n, NEW entry \in Slot
  PROVE  LET r == Insert(b, entry)
         IN /\ IsRing(r, n) /\ r.count = b.count + 1
            /\ \A i \in 1 .. b.count : Entries(r)[i] = Entries(b)[i]
            /\ Entries(r)[b.count + 1] = entry
            /\ SlotsFrom(r, b, entry)
  <1> DEFINE r == Insert(b, entry)
  <1>1. Size(b) = n /\ DOMAIN b.slots = 0 .. n - 1 BY RingSize
  <1>2. PICK s, h, c : Parts(b, n, s, h, c) BY RingParts
  <1>3. /\ b.count = c /\ b.head = h /\ b.slots = s /\ n \in Nat \ {0} /\ h \in 0 .. n - 1
        /\ c \in 0 .. n /\ s \in [0 .. n - 1 -> Slot]
    BY <1>2 DEF Parts
  <1>4. c \in Nat /\ c < n /\ c + 1 <= n /\ c + 1 \in 0 .. n /\ 1 \in Nat BY <1>3
  <1>5. PICK t : t = (h + c) % n OBVIOUS
  <1>6. t \in 0 .. n - 1 /\ (t + 1) % n = (h + (c + 1)) % n BY <1>3, <1>4, <1>5, ModuloShift
  <1>7. PICK q : q = [s EXCEPT ![t] = entry] OBVIOUS
  <1>8. r = [slots |-> q, head |-> h, tail |-> (t + 1) % n, count |-> c + 1]
    <2>1. b = [slots |-> s, head |-> h, tail |-> t, count |-> c] BY <1>2, <1>5 DEF Parts
    <2>2. b.tail = t BY <2>1
    <2>3. r = [[b EXCEPT !.slots = q, !.tail = (t + 1) % n] EXCEPT !.count = c + 1]
      BY <1>1, <1>3, <1>7, <2>1, <2>2 DEF Insert, NextIndex
    <2> QED BY <2>1, <2>3
  <1>9. /\ q \in [0 .. n - 1 -> Slot] /\ q[t] = entry
        /\ \A x \in 0 .. n - 1 : x # t => q[x] = s[x]
    BY <1>3, <1>6, <1>7
  <1>10. Parts(r, n, q, h, c + 1) BY <1>3, <1>4, <1>6, <1>8, <1>9 DEF Parts
  <1>11. IsRing(r, n) /\ r.count = c + 1 /\ r.slots = q
    <2>1. IsRing(r, n) BY <1>10, PartsRing
    <2> HIDE DEF r
    <2> QED BY <1>8, <2>1
  <1>12. ASSUME NEW i \in 1 .. c PROVE Entries(r)[i] = Entries(b)[i]
    <2>1. i \in 1 .. c + 1 /\ i - 1 \in Nat /\ i - 1 < c BY <1>4
    <2>2. Entries(r)[i] = q[(h + (i - 1)) % n] BY <1>10, <2>1, PartsRing
    <2>3. Entries(b)[i] = s[(h + (i - 1)) % n] /\ (h + (i - 1)) % n \in 0 .. n - 1
      BY <1>2, PartsRing
    <2>4. (h + (i - 1)) % n # t
      <3>1. PICK m \in Nat : m = i - 1 BY <2>1
      <3>2. (h + m) % n # (h + c) % n BY <1>3, <1>4, <2>1, <3>1, ModuloDiffers
      <3> QED BY <1>5, <3>1, <3>2
    <2> QED BY <1>9, <2>2, <2>3, <2>4
  <1>13. Entries(r)[c + 1] = entry
    <2>1. c + 1 \in 1 .. c + 1 /\ (c + 1) - 1 = c BY <1>4
    <2>2. Entries(r)[c + 1] = q[(h + ((c + 1) - 1)) % n] BY <1>10, <2>1, PartsRing
    <2> QED BY <1>5, <1>9, <2>1, <2>2
  <1>14. SlotsFrom(r, b, entry)
    <2>1. DOMAIN r.slots = 0 .. n - 1 BY <1>9, <1>11
    <2> SUFFICES ASSUME NEW i \in 0 .. n - 1
                 PROVE  \/ q[i] \in {FreeSlot, entry}
                        \/ \E j \in DOMAIN b.slots : q[i] = b.slots[j]
      BY <1>11, <2>1 DEF SlotsFrom
    <2> QED BY <1>1, <1>3, <1>9
  <1> QED BY <1>3, <1>11, <1>12, <1>13, <1>14

(* r is b with the k oldest entries gone, because of their age, and a new one *)
Pushed(r, b, entry, w, k) ==
  /\ \E m : IsRing(r, m)
  /\ Old(b, entry.ts, w, k)
  /\ Entries(r) = Append(SubSeq(Entries(b), k + 1, Len(Entries(b))), entry)
  /\ r.count = b.count - k + 1
  /\ \A i \in 1 .. b.count - k : Entries(r)[i] = Entries(b)[k + i]
  /\ Entries(r)[b.count - k + 1] = entry
  /\ SlotsFrom(r, b, entry)

LEMMA PushRing ==
  ASSUME NEW b, NEW n, IsRing(b, n), NEW entry \in Slot, NEW w, NEW g \in Nat \ {0, 1}
  PROVE  Pushed(push(b, entry, w, g), b, entry, w, Cardinality(TooOld(b, entry.ts, w)))
  <1> DEFINE p == pruneOldIfNeeded(b, entry.ts, w)
             x == IF p.count = Size(p) THEN expandBuffer(p, g) ELSE p
             r == push(b, entry, w, g)
  <1>0. PICK k : k = Cardinality(TooOld(b, entry.ts, w)) OBVIOUS
  <1>1. Old(b, entry.ts, w, k) BY <1>0, TooOldIsPrefix
  <1>2. /\ IsRing(p, n) /\ p.slots = b.slots /\ p.count = b.count - k
        /\ \A i \in 1 .. p.count : Entries(p)[i] = Entries(b)[k + i]
    BY <1>0, <1>1, PruneRing
  <1>3. b.count \in Nat /\ k \in 0 .. b.count /\ n \in Nat \ {0} BY <1>1, RingEntries DEF Old, IsRing
  <1>4. PICK c \in Nat : c = b.count - k BY <1>3
  <1>5. p.count = c /\ c <= n /\ Size(p) = n BY <1>2, <1>4, RingEntries, RingSize
  <1> HIDE DEF p
  <1>6. /\ \E m : IsRing(x, m) /\ c < m
        /\ x.count = c /\ SlotsFrom(x, b, entry)
        /\ \A i \in 1 .. c : Entries(x)[i] = Entries(p)[i]
    <2>1. CASE c = n
      <3>1. x = expandBuffer(p, g) BY <1>5, <2>1
      <3>2. /\ IsRing(x, n * g) /\ x.count = n /\ n < n * g
            /\ \A i \in 1 .. n : Entries(x)[i] = Entries(p)[i]
            /\ SlotsFrom(x, p, entry)
        BY <1>2, <1>5, <2>1, <3>1, ExpandRing
      <3>3. SlotsFrom(x, b, entry)
        <4> HIDE DEF x
        <4> QED BY <1>2, <3>2 DEF SlotsFrom
      <3> HIDE DEF x
      <3> QED BY <2>1, <3>2, <3>3
    <2>2. CASE c # n
      <3>1. x = p BY <1>5, <2>2
      <3>2. SlotsFrom(x, b, entry) BY <1>2, <3>1 DEF SlotsFrom
      <3> HIDE DEF x
      <3> QED BY <1>2, <1>3, <1>5, <2>2, <3>1, <3>2
    <2> QED BY <2>1, <2>2
  <1>7. PICK m : IsRing(x, m) /\ c < m BY <1>6
  <1>8. Size(x) = m BY <1>7, RingSize
  <1>9. r = Insert(x, entry)
    <2>1. r = (IF x.count < Size(x)
                THEN Insert(x, entry)
                ELSE [[x EXCEPT !.slots[x.tail] = entry, !.tail = NextIndex(@, x)]
                        EXCEPT !.head = NextIndex(@, x)])
      BY DEF push, Insert, p
    <2> HIDE DEF x, r
    <2> QED BY <1>6, <1>7, <1>8, <2>1
  <1> HIDE DEF x, r
  <1>10. /\ IsRing(r, m) /\ r.count = c + 1
         /\ \A i \in 1 .. c : Entries(r)[i] = Entries(x)[i]
         /\ Entries(r)[c + 1] = entry
         /\ SlotsFrom(r, x, entry)
    BY <1>6, <1>7, <1>9, InsertRing
  <1>11. SlotsFrom(r, b, entry) BY <1>6, <1>10 DEF SlotsFrom
  <1>12. Entries(r) = Append(SubSeq(Entries(b), k + 1, Len(Entries(b))), entry)
    <2> DEFINE E == Entries(b)
               S == SubSeq(E, k + 1, Len(E))
    <2>1. E \in Seq(Slot) /\ Len(E) = b.count BY RingEntries
    <2>2. \A i \in k + 1 .. Len(E) : E[i] \in Slot
      <3> HIDE DEF E
      <3> QED BY <1>3, <2>1, ElementOfSeq
    <2>3. k + 1 \in Int /\ Len(E) \in Int /\ Len(E) - (k + 1) + 1 = c BY <1>3, <1>4, <2>1
    <2>4. S \in Seq(Slot) /\ Len(S) = c /\ \A i \in 1 .. c : S[i] = E[(k + 1) + i - 1]
      <3>1. /\ S \in Seq(Slot)
            /\ Len(S) = IF k + 1 <= Len(E) THEN Len(E) - (k + 1) + 1 ELSE 0
            /\ \A i \in 1 .. Len(E) - (k + 1) + 1 : S[i] = E[(k + 1) + i - 1]
        <4> HIDE DEF E
        <4> QED BY <2>2, <2>3, SubSeqProperties
      <3> HIDE DEF E, S
      <3>2. Len(S) = c BY <1>3, <1>4, <2>1, <2>3, <3>1
      <3> QED BY <2>3, <3>1, <3>2
    <2> HIDE DEF E, S
    <2>5. /\ Append(S, entry) \in Seq(Slot) /\ Len(Append(S, entry)) = c + 1
          /\ \A i \in 1 .. c : Append(S, entry)[i] = S[i]
          /\ Append(S, entry)[c + 1] = entry
      BY <2>4, AppendProperties
    <2>6. Entries(r) \in Seq(Slot) /\ Len(Entries(r)) = c + 1 BY <1>10, RingEntries
    <2>7. ASSUME NEW i \in 1 .. c + 1 PROVE Entries(r)[i] = Append(S, entry)[i]
      <3>1. CASE i = c + 1 BY <1>10, <2>5, <3>1
      <3>2. CASE i # c + 1
        <4>1. i \in 1 .. c /\ (k + 1) + i - 1 = k + i BY <1>3, <3>2
        <4>2. Entries(r)[i] = Entries(b)[k + i] BY <1>2, <1>5, <1>6, <1>10, <4>1
        <4>3. Append(S, entry)[i] = E[k + i] BY <2>4, <2>5, <4>1
        <4> QED BY <4>2, <4>3 DEF E
      <3> QED BY <3>1, <3>2
    <2>8. Entries(r) = Append(S, entry) BY <2>5, <2>6, <2>7, SeqEqual
    <2> QED BY <2>8 DEF E, S
  <1>13. /\ r.count = b.count - k + 1 /\ Entries(r)[b.count - k + 1] = entry
         /\ \A i \in 1 .. b.count - k : Entries(r)[i] = Entries(b)[k + i]
    BY <1>2, <1>4, <1>5, <1>6, <1>10
  <1>14. Pushed(r, b, entry, w, k) BY <1>1, <1>10, <1>11, <1>12, <1>13 DEF Pushed
  <1> QED BY <1>0, <1>14 DEF r

-----------------------------------------------------------------------------
(* Types of the windows. *)

Bounded(b, l, t) == \A i \in DOMAIN b.slots : b.slots[i].ev \in 0 .. l /\ b.slots[i].ts \in 0 .. t

Rings ==
  /\ processing = EmptyBuffer(Reserve)
  /\ \E n : IsRing(acquiring, n)
  /\ Bounded(acquiring, Len(log), now)
  /\ \A i \in 1 .. acquiring.count : Entries(acquiring)[i].ev \in 1 .. Len(log)

Queues ==
  /\ log \in Seq(PV) /\ daq \in Seq(DOMAIN log) /\ busy \subseteq DOMAIN log
  /\ latest \in [PV -> 0 .. Len(log)] /\ out \in Seq(DOMAIN log)
  /\ no_events \subseteq PV /\ covered \subseteq PV
  /\ places \in [1 .. MaxEvents -> Nat] /\ DOMAIN log \subseteq 1 .. MaxEvents

Clocks ==
  /\ now \in 0 .. MaxTime
  /\ begin \in 0 .. now /\ forced \in 0 .. now /\ read_time \in 0 .. now

Flags ==
  /\ kind \in Kinds
  /\ registered \in BOOLEAN /\ running \in BOOLEAN /\ request \in BOOLEAN
  /\ epc \in {"read", "check", "submit", "done"} /\ header_sent \in BOOLEAN
  /\ epc \in {"read", "check"} => registered

WTypes == Rings /\ Queues /\ Clocks /\ Flags

LEMMA RingBounds ==
  ASSUME NEW b, NEW n, IsRing(b, n)
  PROVE  b.head \in DOMAIN b.slots /\ b.tail \in DOMAIN b.slots /\ b.count \in 0 .. Size(b)
  BY RingSize DEF IsRing

LEMMA TypesSuffice ==
  ASSUME WTypes
  PROVE  WindowTypeOK
  <1> USE WindowConstants DEF WTypes
  <1>1. BufferOK(acquiring)
    <2> PICK n : IsRing(acquiring, n) BY DEF Rings
    <2> QED BY RingBounds DEF Rings, Bounded, BufferOK
  <1>2. BufferOK(processing)
    <2>1. Reserve \in Nat \ {0} OBVIOUS
    <2>2. IsRing(processing, Reserve) BY <2>1, EmptyRing DEF Rings
    <2>3. DOMAIN processing.slots = 0 .. Reserve - 1 BY <2>2, RingSize
    <2>4. \A i \in 0 .. Reserve - 1 : processing.slots[i].ev = 0 /\ processing.slots[i].ts = 0
      BY <2>1, EmptyRing DEF Rings, FreeSlot
    <2>5. 0 \in 0 .. Len(log) /\ 0 \in 0 .. now
      <3>1. Len(log) \in Nat BY LenProperties DEF Queues
      <3> QED BY <3>1 DEF Clocks
    <2> QED BY <2>2, <2>3, <2>4, <2>5, RingBounds DEF BufferOK
  <1> QED BY <1>1, <1>2 DEF WindowTypeOK, Queues, Clocks, Flags

LEMMA WindowTypesInit ==
  ASSUME WindowInit
  PROVE  WTypes
  <1> USE WindowConstants DEF WindowInit
  <1>1. Rings
    <2>1. Reserve \in Nat \ {0} OBVIOUS
    <2>2. IsRing(acquiring, Reserve) BY <2>1, EmptyRing
    <2>3. Entries(acquiring) = <<>> /\ Len(Entries(acquiring)) = acquiring.count
      BY <2>1, <2>2, EmptyRing, RingEntries
    <2>4. acquiring.count = 0 BY <2>3
    <2>5. DOMAIN acquiring.slots = 0 .. Reserve - 1 BY <2>2, RingSize
    <2>6. Bounded(acquiring, Len(log), now) BY <2>1, <2>5, EmptyRing DEF Bounded, FreeSlot
    <2> QED BY <2>2, <2>4, <2>6 DEF Rings
  <1>2. Queues
    <2>1. \A S : <<>> \in Seq(S) BY EmptySeq
    <2> QED BY <2>1 DEF Queues
  <1>3. Clocks BY DEF Clocks
  <1>4. Flags BY DEF Flags
  <1> QED BY <1>1, <1>2, <1>3, <1>4 DEF WTypes

LEMMA RingsKept ==
  ASSUME Rings, Len(log) \in Nat, Len(log') \in Nat, Len(log) <= Len(log'),
         now \in Nat, now' \in Nat, now <= now', UNCHANGED <<acquiring, processing>>
  PROVE  Rings'
  <1>1. \E n : IsRing(acquiring', n) BY DEF Rings
  <1>2. Bounded(acquiring', Len(log'), now') BY DEF Rings, Bounded
  <1>3. \A i \in 1 .. acquiring'.count : Entries(acquiring')[i].ev \in 1 .. Len(log')
    <2> SUFFICES ASSUME NEW i \in 1 .. acquiring.count PROVE Entries(acquiring)[i].ev \in 1 .. Len(log')
      OBVIOUS
    <2>1. Entries(acquiring)[i].ev \in 1 .. Len(log) BY DEF Rings
    <2> QED BY <2>1
  <1> QED BY <1>1, <1>2, <1>3 DEF Rings

LEMMA FetchFacts ==
  ASSUME NEW b, NEW n, IsRing(b, n), NEW S, \A i \in 1 .. b.count : Entries(b)[i].ev \in S
  PROVE  /\ fetchWindow(b) \in Seq(S) /\ Len(fetchWindow(b)) = b.count
         /\ DOMAIN fetchWindow(b) = 1 .. b.count
         /\ \A i \in 1 .. b.count : fetchWindow(b)[i] = Entries(b)[i].ev
  <1>1. b.count \in Nat BY RingEntries
  <1>2. fetchWindow(b) = [i \in 1 .. b.count |-> Entries(b)[i].ev] BY DEF fetchWindow
  <1>3. fetchWindow(b) \in Seq(S) BY <1>1, <1>2, IsASeq
  <1> QED BY <1>1, <1>2, <1>3, LenProperties

Stamped(n) == [ev |-> n, ts |-> now, place |-> places[n] + 1]

(* what adding the event n does when the k oldest entries are too old *)
AddEffect(n, k) ==
  /\ Pushed(acquiring', acquiring, Stamped(n), TimeWindow, k)
  /\ no_events' = no_events \ {log[n]}
  /\ covered' = covered \cup {log[Entries(acquiring)[i].ev] : i \in 1 .. k}
  /\ UNCHANGED <<processing, latest>>

LEMMA AddToWindowEffect ==
  ASSUME WTypes, NEW n \in busy, AddToWindow(n)
  PROVE  Stamped(n) \in Slot /\ \E k : AddEffect(n, k)
  <1> USE WindowConstants DEF WTypes
  <1>1. PICK r : IsRing(acquiring, r) BY DEF Rings
  <1>2. Stamped(n) \in Slot
    <2>1. n \in Nat BY LenProperties DEF Queues
    <2>2. now \in Nat BY DEF Clocks
    <2>3. places[n] + 1 \in Nat BY DEF Queues
    <2> QED BY <2>1, <2>2, <2>3 DEF Stamped, Slot
  <1>3. Stamped(n).ts = now BY DEF Stamped
  <1>4. acquiring' = push(acquiring, Stamped(n), TimeWindow, Grow) BY DEF AddToWindow, Stamped
  <1>5. Grow \in Nat \ {0, 1} OBVIOUS
  <1>6. PICK k : Pushed(acquiring', acquiring, Stamped(n), TimeWindow, k)
    BY <1>1, <1>2, <1>4, <1>5, PushRing
  <1>7. Old(acquiring, now, TimeWindow, k) BY <1>3, <1>6 DEF Pushed
  <1>8. TooOld(acquiring, now, TimeWindow) = 1 .. k /\ k \in 0 .. acquiring.count BY <1>7 DEF Old
  <1>9. \A i \in 1 .. acquiring.count : fetchWindow(acquiring)[i] = Entries(acquiring)[i].ev
    BY <1>1, FetchFacts DEF Rings
  <1>10. acquiring.count \in Nat BY <1>1, RingEntries
  <1>11. covered' = covered \cup {log[Entries(acquiring)[i].ev] : i \in 1 .. k}
    <2>1. covered' = covered \cup PvsOf({fetchWindow(acquiring)[i] : i \in 1 .. k})
      BY <1>8 DEF AddToWindow
    <2>2. \A i \in 1 .. k : fetchWindow(acquiring)[i] = Entries(acquiring)[i].ev
      BY <1>8, <1>9, <1>10
    <2> QED BY <2>1, <2>2 DEF PvsOf
  <1>12. no_events' = no_events \ {log[n]} /\ UNCHANGED <<processing, latest>> BY DEF AddToWindow
  <1> QED BY <1>2, <1>6, <1>11, <1>12 DEF AddEffect

LEMMA AddedRings ==
  ASSUME WTypes, NEW n \in busy, NEW k, AddEffect(n, k), UNCHANGED <<log, now>>
  PROVE  Rings' /\ covered' \subseteq PV
  <1> USE DEF WTypes
  <1>1. PICK r : IsRing(acquiring, r) BY DEF Rings
  <1>2. acquiring.count \in Nat BY <1>1, RingEntries
  <1>3. k \in 0 .. acquiring.count BY DEF AddEffect, Pushed, Old
  <1>4. Len(log) \in Nat /\ DOMAIN log = 1 .. Len(log) /\ \A i \in 1 .. Len(log) : log[i] \in PV
    BY LenProperties DEF Queues
  <1>5. now \in Nat BY WindowConstants DEF Clocks
  <1>6. n \in 1 .. Len(log) BY <1>4 DEF Queues
  <1>7. Bounded(acquiring', Len(log), now)
    <2> SUFFICES ASSUME NEW i \in DOMAIN acquiring'.slots
                 PROVE  acquiring'.slots[i].ev \in 0 .. Len(log) /\ acquiring'.slots[i].ts \in 0 .. now
      BY DEF Bounded
    <2>1. PICK v : v = acquiring'.slots[i] OBVIOUS
    <2>2. v \in {FreeSlot, Stamped(n)} \/ \E j \in DOMAIN acquiring.slots : v = acquiring.slots[j]
      BY <2>1 DEF AddEffect, Pushed, SlotsFrom
    <2>3. CASE v = FreeSlot BY <1>4, <1>5, <2>1, <2>3 DEF FreeSlot
    <2>4. CASE v = Stamped(n) BY <1>4, <1>5, <1>6, <2>1, <2>4 DEF Stamped
    <2>5. CASE \E j \in DOMAIN acquiring.slots : v = acquiring.slots[j]
      BY <2>1, <2>5 DEF Rings, Bounded
    <2> QED BY <2>2, <2>3, <2>4, <2>5
  <1>8. ASSUME NEW i \in 1 .. acquiring'.count
        PROVE  Entries(acquiring')[i].ev \in 1 .. Len(log)
    <2>1. acquiring'.count = acquiring.count - k + 1 BY DEF AddEffect, Pushed
    <2>2. CASE i = acquiring.count - k + 1
      <3>1. Entries(acquiring')[i] = Stamped(n) BY <2>2 DEF AddEffect, Pushed
      <3>2. Stamped(n).ev = n BY DEF Stamped
      <3> QED BY <1>6, <3>1, <3>2
    <2>3. CASE i # acquiring.count - k + 1
      <3>1. i \in 1 .. acquiring.count - k /\ k + i \in 1 .. acquiring.count BY <1>2, <1>3, <2>1, <2>3
      <3>2. Entries(acquiring')[i] = Entries(acquiring)[k + i] BY <3>1 DEF AddEffect, Pushed
      <3> QED BY <3>1, <3>2 DEF Rings
    <2> QED BY <2>2, <2>3
  <1>9. Rings' BY <1>7, <1>8 DEF AddEffect, Pushed, Rings
  <1>10. covered' \subseteq PV
    <2>1. \A i \in 1 .. k : Entries(acquiring)[i].ev \in 1 .. Len(log) BY <1>2, <1>3 DEF Rings
    <2>2. \A i \in 1 .. k : log[Entries(acquiring)[i].ev] \in PV BY <1>4, <2>1
    <2> QED BY <2>2 DEF AddEffect, Queues
  <1> QED BY <1>9, <1>10

LEMMA SeqWidens ==
  ASSUME NEW S, NEW T, S \subseteq T, NEW s \in Seq(S)
  PROVE  s \in Seq(T)
  <1>1. Len(s) \in Nat /\ s \in [1 .. Len(s) -> S] BY LenProperties
  <1>2. s = [i \in 1 .. Len(s) |-> s[i]] /\ \A i \in 1 .. Len(s) : s[i] \in T BY <1>1
  <1> QED BY <1>1, <1>2, IsASeq

(* the ranges that the types of the queues give *)
LEMMA QueueFacts ==
  ASSUME WTypes
  PROVE  /\ Len(log) \in Nat /\ DOMAIN log = 1 .. Len(log) /\ now \in Nat
         /\ \A i \in 1 .. Len(log) : log[i] \in PV
         /\ Len(daq) \in Nat /\ DOMAIN daq = 1 .. Len(daq)
         /\ \A i \in 1 .. Len(daq) : daq[i] \in 1 .. Len(log)
  <1> USE WindowConstants DEF WTypes, Queues
  <1>1. Len(log) \in Nat /\ DOMAIN log = 1 .. Len(log) /\ log \in [1 .. Len(log) -> PV]
    BY LenProperties
  <1>2. Len(daq) \in Nat /\ DOMAIN daq = 1 .. Len(daq) /\ daq \in [1 .. Len(daq) -> DOMAIN log]
    BY LenProperties
  <1>3. now \in Nat BY DEF Clocks
  <1> QED BY <1>1, <1>2, <1>3

LEMMA ArriveTypes ==
  ASSUME WTypes, NEW p \in PV, Arrive(p)
  PROVE  WTypes'
  <1> USE DEF Arrive, dataVars, timeVars, loopVars
  <1>1. /\ log' \in Seq(PV) /\ Len(log') = Len(log) + 1
        /\ \A i \in 1 .. Len(log) : log'[i] = log[i]
    BY AppendProperties DEF WTypes, Queues
  <1>2. Len(log) \in Nat /\ now \in Nat /\ DOMAIN log = 1 .. Len(log) BY QueueFacts
  <1>3. DOMAIN log' = 1 .. Len(log) + 1 BY <1>1, LenProperties
  <1>4. DOMAIN log \subseteq DOMAIN log' /\ Len(log) + 1 \in DOMAIN log' BY <1>2, <1>3
  <1>5. Rings' BY <1>1, <1>2, RingsKept DEF WTypes
  <1>6. daq' \in Seq(DOMAIN log')
    <2>1. daq \in Seq(DOMAIN log') BY <1>4, SeqWidens DEF WTypes, Queues
    <2> QED BY <1>4, <2>1, AppendProperties
  <1>7. out' \in Seq(DOMAIN log') BY <1>4, SeqWidens DEF WTypes, Queues
  <1>8. latest' \in [PV -> 0 .. Len(log')] BY <1>1, <1>2 DEF WTypes, Queues
  <1>9. DOMAIN log' \subseteq 1 .. MaxEvents BY <1>2, <1>3, WindowConstants
  <1>10. Queues' BY <1>1, <1>4, <1>6, <1>7, <1>8, <1>9 DEF WTypes, Queues
  <1> QED BY <1>5, <1>10 DEF WTypes, Clocks, Flags

LEMMA AddDataEffect ==
  ASSUME WTypes, NEW n \in busy, AddData(n)
  PROVE  /\ busy' \in {busy, busy \ {n}} /\ places' \in [1 .. MaxEvents -> Nat]
         /\ registered => /\ places' = [places EXCEPT ![n] = @ + 1] /\ n \in DOMAIN places
                          /\ busy' = IF LastPlace(n) THEN busy \ {n} ELSE busy
         /\ ~registered => busy' = busy \ {n} /\ UNCHANGED dataVars
         /\ UNCHANGED <<kind, now, log, daq, registered, running, request, timeVars, loopVars>>
  <1>1. n \in 1 .. MaxEvents /\ places \in [1 .. MaxEvents -> Nat] /\ registered \in BOOLEAN
    BY DEF WTypes, Queues, Flags
  <1>2. CASE registered
    <2>1. places' = [places EXCEPT ![n] = @ + 1] /\ busy' = IF LastPlace(n) THEN busy \ {n} ELSE busy
      BY <1>2 DEF AddData
    <2>2. places' \in [1 .. MaxEvents -> Nat] BY <1>1, <2>1
    <2> QED BY <1>1, <1>2, <2>1, <2>2 DEF AddData
  <1>3. CASE ~registered
    <2>1. busy' = busy \ {n} /\ UNCHANGED dataVars BY <1>3 DEF AddData
    <2>2. places' = places BY <2>1 DEF dataVars
    <2> QED BY <1>1, <1>3, <2>1, <2>2 DEF AddData
  <1> QED BY <1>1, <1>2, <1>3

LEMMA EventTypes ==
  ASSUME WTypes, TakeEvent \/ \E n \in busy : AddData(n)
  PROVE  WTypes'
  <1>0. Len(log) \in Nat /\ now \in Nat BY QueueFacts
  <1>1. CASE TakeEvent
    <2> USE <1>1 DEF TakeEvent, dataVars, timeVars, loopVars
    <2>1. Head(daq) \in DOMAIN log /\ Tail(daq) \in Seq(DOMAIN log)
      BY HeadTailProperties DEF WTypes, Queues
    <2>2. Rings' BY <1>0, RingsKept DEF WTypes
    <2>3. Queues' BY <2>1 DEF WTypes, Queues
    <2> QED BY <2>2, <2>3 DEF WTypes, Clocks, Flags
  <1>2. CASE \E n \in busy : AddData(n)
    <2> PICK n \in busy : AddData(n) BY <1>2
    <2>0. /\ busy' \in {busy, busy \ {n}} /\ places' \in [1 .. MaxEvents -> Nat]
          /\ UNCHANGED <<kind, now, log, daq, registered, running, request, timeVars, loopVars>>
      BY AddDataEffect
    <2>1. Clocks' /\ Flags' BY <2>0 DEF WTypes, Clocks, Flags, timeVars, loopVars
    <2>2. CASE ~registered
      <3>0. UNCHANGED dataVars BY <2>2, AddDataEffect
      <3>1. Rings' BY <1>0, <2>0, <3>0, RingsKept DEF WTypes, dataVars
      <3>2. Queues' BY <2>0, <3>0 DEF WTypes, Queues, dataVars, loopVars
      <3> QED BY <2>1, <3>1, <3>2 DEF WTypes
    <2>3. CASE AddLatest(n)
      <3> USE <2>3 DEF AddLatest
      <3>1. Rings' BY <1>0, <2>0, RingsKept DEF WTypes
      <3>2. n \in 0 .. Len(log) BY QueueFacts DEF WTypes, Queues
      <3>3. Queues' BY <2>0, <3>2 DEF WTypes, Queues, loopVars
      <3> QED BY <2>1, <3>1, <3>3 DEF WTypes
    <2>4. CASE AddToWindow(n)
      <3>1. PICK k : AddEffect(n, k) BY <2>4, AddToWindowEffect
      <3>2. Rings' /\ covered' \subseteq PV BY <2>0, <3>1, AddedRings
      <3>3. Queues' BY <2>0, <3>1, <3>2 DEF AddEffect, WTypes, Queues, loopVars
      <3> QED BY <2>1, <3>2, <3>3 DEF WTypes
    <2>5. ~registered \/ AddLatest(n) \/ AddToWindow(n) BY DEF AddData
    <2> QED BY <2>2, <2>3, <2>4, <2>5
  <1> QED BY <1>1, <1>2

LEMMA LoopTypes ==
  ASSUME WTypes, TriggerSnapshot \/ StopSnapshot \/ Tick \/ ReadClock \/ NotDue \/ Submitted
                 \/ Done \/ UNCHANGED windowVars
  PROVE  WTypes'
  <1> USE WindowConstants DEF dataVars, timeVars, loopVars
  <1>0. Len(log) \in Nat /\ now \in Nat BY QueueFacts
  <1>1. UNCHANGED <<acquiring, processing, log>> /\ now' \in {now, now + 1}
    BY DEF TriggerSnapshot, StopSnapshot, Tick, ReadClock, NotDue, Submitted, Done, windowVars
  <1>2. Rings' BY <1>0, <1>1, RingsKept DEF WTypes
  <1>3. CASE TriggerSnapshot
    BY <1>2, <1>3 DEF TriggerSnapshot, WTypes, Queues, Clocks, Flags
  <1>4. CASE StopSnapshot BY <1>2, <1>4 DEF StopSnapshot, WTypes, Queues, Clocks, Flags
  <1>5. CASE Tick
    <2>1. Clocks' BY <1>5 DEF Tick, WTypes, Clocks
    <2> QED BY <1>2, <1>5, <2>1 DEF Tick, WTypes, Queues, Flags
  <1>6. CASE ReadClock
    <2>1. Clocks' BY <1>6 DEF ReadClock, WTypes, Clocks
    <2> QED BY <1>2, <1>6, <2>1 DEF ReadClock, WTypes, Queues, Flags
  <1>7. CASE NotDue BY <1>2, <1>7 DEF NotDue, WTypes, Queues, Clocks, Flags
  <1>8. CASE Submitted BY <1>2, <1>8 DEF Submitted, WTypes, Queues, Clocks, Flags
  <1>9. CASE Done \/ UNCHANGED windowVars
    BY <1>2, <1>9 DEF Done, windowVars, WTypes, Queues, Clocks, Flags
  <1> QED BY <1>3, <1>4, <1>5, <1>6, <1>7, <1>8, <1>9

LEMMA SubmitLatestEffect ==
  ASSUME SubmitLatest
  PROVE  /\ epc = "check" /\ kind.type = "normal" /\ epc' = "submit" /\ Renew /\ Removed
         /\ UNCHANGED <<kind, now, log, daq, busy, running, read_time, out, header_sent>>
         /\ UNCHANGED <<places, acquiring, processing, no_events, latest, covered>> /\ NoReader
  BY Zenon DEF SubmitLatest, dataVars

LEMMA RenewTypes ==
  ASSUME WTypes, Renew, Removed, UNCHANGED <<now, read_time>>
  PROVE  Clocks' /\ registered' \in BOOLEAN /\ request' \in BOOLEAN
  <1>1. begin' \in {begin, read_time} /\ forced' \in {forced, read_time} BY DEF Renew
  <1>2. Clocks' BY <1>1 DEF WTypes, Clocks
  <1>3. registered' \in BOOLEAN BY DEF Removed, WTypes, Flags
  <1>4. request' \in BOOLEAN BY DEF Renew
  <1> QED BY <1>2, <1>3, <1>4

(* what a submission of a buffered snapshot does to the data *)
LEMMA SubmitEffect ==
  ASSUME WTypes, SubmitWindow
  PROVE  /\ acquiring' = EmptyBuffer(Reserve) /\ processing' = EmptyBuffer(Reserve)
         /\ out' = out \o fetchWindow(acquiring)
         /\ fetchWindow(acquiring) \in Seq(DOMAIN log)
         /\ covered' = covered \cup PvsOf(ToSet(fetchWindow(acquiring))) \cup no_events
         /\ PvsOf(ToSet(fetchWindow(acquiring))) \subseteq PV
         /\ DOMAIN fetchWindow(acquiring) = 1 .. acquiring.count
         /\ \A i \in 1 .. acquiring.count : fetchWindow(acquiring)[i] = Entries(acquiring)[i].ev
  <1>1. PICK r : IsRing(acquiring, r) BY DEF WTypes, Rings
  <1>2. Len(log) \in Nat /\ DOMAIN log = 1 .. Len(log) /\ \A i \in 1 .. Len(log) : log[i] \in PV
    BY QueueFacts
  <1>3. \A i \in 1 .. acquiring.count : Entries(acquiring)[i].ev \in DOMAIN log
    BY <1>2 DEF WTypes, Rings
  <1>4. /\ fetchWindow(acquiring) \in Seq(DOMAIN log)
        /\ DOMAIN fetchWindow(acquiring) = 1 .. acquiring.count
        /\ \A i \in 1 .. acquiring.count : fetchWindow(acquiring)[i] = Entries(acquiring)[i].ev
    BY <1>1, <1>3, FetchFacts
  <1>5. PvsOf(ToSet(fetchWindow(acquiring))) \subseteq PV
    BY <1>2, <1>3, <1>4 DEF PvsOf, ToSet
  <1>6. acquiring' = EmptyBuffer(Reserve) /\ processing' = EmptyBuffer(Reserve)
    BY DEF SubmitWindow, AfterFetch, WTypes, Rings
  <1>7. /\ out' = out \o fetchWindow(acquiring)
        /\ covered' = covered \cup PvsOf(ToSet(fetchWindow(acquiring))) \cup no_events
    BY DEF SubmitWindow
  <1> QED BY <1>4, <1>5, <1>6, <1>7

LEMMA SubmitTypes ==
  ASSUME WTypes, SubmitLatest \/ SubmitWindow
  PROVE  WTypes'
  <1> USE WindowConstants DEF dataVars, timeVars, loopVars
  <1>0. Len(log) \in Nat /\ now \in Nat BY QueueFacts
  <1>1. CASE SubmitLatest
    <2>0. UNCHANGED <<log, now, acquiring, processing>> BY <1>1, SubmitLatestEffect
    <2>1. Rings' BY <1>0, <2>0, RingsKept DEF WTypes
    <2>2. Clocks' /\ registered' \in BOOLEAN /\ request' \in BOOLEAN
      BY <1>1, RenewTypes, SubmitLatestEffect
    <2>3. Queues' BY <1>1, SubmitLatestEffect DEF WTypes, Queues
    <2>4. Flags' BY <1>1, <2>2, SubmitLatestEffect DEF WTypes, Flags
    <2> QED BY <2>1, <2>2, <2>3, <2>4 DEF WTypes
  <1>2. CASE SubmitWindow
    <2>1. Rings'
      <3>1. acquiring' = EmptyBuffer(Reserve) /\ processing' = EmptyBuffer(Reserve)
            /\ log' = log /\ now' = now
        BY <1>2, SubmitEffect DEF SubmitWindow
      <3>2. Reserve \in Nat \ {0} OBVIOUS
      <3>3. IsRing(acquiring', Reserve) /\ Entries(acquiring') = <<>>
        BY <3>1, <3>2, EmptyRing
      <3>4. acquiring'.count = 0 BY <3>3, RingEntries
      <3>5. DOMAIN acquiring'.slots = 0 .. Reserve - 1 BY <3>3, RingSize
      <3>6. Bounded(acquiring', Len(log'), now')
        <4>1. \A i \in 0 .. Reserve - 1 : acquiring'.slots[i] = FreeSlot BY <3>1, <3>2, EmptyRing
        <4>2. 0 \in 0 .. Len(log') /\ 0 \in 0 .. now' BY <1>0, <3>1
        <4> QED BY <3>5, <4>1, <4>2 DEF Bounded, FreeSlot
      <3> QED BY <3>1, <3>3, <3>4, <3>6 DEF Rings
    <2>2. Clocks' /\ registered' \in BOOLEAN /\ request' \in BOOLEAN
      BY <1>2, RenewTypes DEF SubmitWindow
    <2>3. Queues'
      <3>1. out' \in Seq(DOMAIN log)
        <4>1. PICK f \in Seq(DOMAIN log) : out' = out \o f BY <1>2, SubmitEffect
        <4>2. out \in Seq(DOMAIN log) BY DEF WTypes, Queues
        <4> QED BY <4>1, <4>2, ConcatProperties
      <3>2. covered' \subseteq PV BY <1>2, SubmitEffect DEF WTypes, Queues
      <3>3. no_events' \subseteq PV BY <1>2 DEF SubmitWindow, AfterWindow, WTypes, Queues
      <3> QED BY <1>2, <3>1, <3>2, <3>3 DEF SubmitWindow, WTypes, Queues
    <2>4. Flags'
      <3>1. header_sent' \in BOOLEAN BY <1>2 DEF SubmitWindow
      <3> QED BY <1>2, <2>2, <3>1 DEF SubmitWindow, WTypes, Flags
    <2> QED BY <2>1, <2>2, <2>3, <2>4 DEF WTypes
  <1> QED BY <1>1, <1>2

LEMMA WindowTypesStep ==
  ASSUME WTypes, [WindowNext]_windowVars
  PROVE  WTypes'
  BY ArriveTypes, EventTypes, LoopTypes, SubmitTypes DEF WindowNext

-----------------------------------------------------------------------------
(* The order of the events: one thread takes them as they came. *)

OrderInv ==
  /\ \A x, y \in busy : x = y
  /\ busy \cap ToSet(daq) = {}
  /\ \A i, j \in DOMAIN daq : i < j => daq[i] < daq[j]
  /\ \A m \in DOMAIN log \ ToSet(daq) : \A q \in ToSet(daq) : m < q
  /\ \A m \in Added : \A x \in busy : m < x

LEMMA ToSetAppend ==
  ASSUME NEW S, NEW s \in Seq(S), NEW e \in S
  PROVE  ToSet(Append(s, e)) = ToSet(s) \cup {e}
  <1>1. Len(s) \in Nat /\ DOMAIN s = 1 .. Len(s) BY LenProperties
  <1>2. /\ Append(s, e) \in Seq(S) /\ Len(Append(s, e)) = Len(s) + 1
        /\ \A i \in 1 .. Len(s) : Append(s, e)[i] = s[i]
        /\ Append(s, e)[Len(s) + 1] = e
    BY AppendProperties
  <1>3. DOMAIN Append(s, e) = 1 .. Len(s) + 1 BY <1>2, LenProperties
  <1>4. \A i \in 1 .. Len(s) + 1 : i \in 1 .. Len(s) \/ i = Len(s) + 1 BY <1>1
  <1>5. 1 .. Len(s) \subseteq 1 .. Len(s) + 1 /\ Len(s) + 1 \in 1 .. Len(s) + 1 BY <1>1
  <1> QED BY <1>1, <1>2, <1>3, <1>4, <1>5 DEF ToSet

LEMMA ToSetTail ==
  ASSUME NEW S, NEW s \in Seq(S), s # <<>>
  PROVE  /\ Len(s) \in Nat \ {0} /\ DOMAIN s = 1 .. Len(s) /\ DOMAIN Tail(s) = 1 .. Len(s) - 1
         /\ Head(s) = s[1] /\ \A i \in 1 .. Len(s) - 1 : Tail(s)[i] = s[i + 1]
         /\ ToSet(s) = {Head(s)} \cup ToSet(Tail(s))
  <1>1. Len(s) \in Nat /\ DOMAIN s = 1 .. Len(s) BY LenProperties
  <1>2. Len(s) # 0 BY EmptySeq
  <1>3. /\ Tail(s) \in Seq(S) /\ Len(Tail(s)) = Len(s) - 1
        /\ \A i \in 1 .. Len(s) - 1 : Tail(s)[i] = s[i + 1]
    BY HeadTailProperties
  <1>4. DOMAIN Tail(s) = 1 .. Len(s) - 1 BY <1>3, LenProperties
  <1>5. Head(s) = s[1] OBVIOUS
  <1>6. \A i \in 1 .. Len(s) : i = 1 \/ (i - 1 \in 1 .. Len(s) - 1 /\ (i - 1) + 1 = i) BY <1>1
  <1>7. 1 \in 1 .. Len(s) /\ \A i \in 1 .. Len(s) - 1 : i + 1 \in 1 .. Len(s) BY <1>1, <1>2
  <1>8. ToSet(s) \subseteq {Head(s)} \cup ToSet(Tail(s))
    <2> SUFFICES ASSUME NEW i \in 1 .. Len(s) PROVE s[i] \in {Head(s)} \cup ToSet(Tail(s))
      BY <1>1 DEF ToSet
    <2>1. CASE i = 1 BY <1>5, <2>1
    <2>2. CASE i # 1
      <3>1. i - 1 \in DOMAIN Tail(s) /\ Tail(s)[i - 1] = s[i] BY <1>3, <1>4, <1>6, <2>2
      <3> QED BY <3>1 DEF ToSet
    <2> QED BY <2>1, <2>2
  <1>9. {Head(s)} \cup ToSet(Tail(s)) \subseteq ToSet(s)
    BY <1>1, <1>3, <1>4, <1>5, <1>7 DEF ToSet
  <1> QED BY <1>1, <1>2, <1>3, <1>4, <1>5, <1>8, <1>9

LEMMA DaqRange ==
  ASSUME WTypes
  PROVE  ToSet(daq) \subseteq 1 .. Len(log)
  BY QueueFacts DEF ToSet

LEMMA ArriveOrder ==
  ASSUME WTypes, OrderInv, NEW p \in PV, Arrive(p)
  PROVE  OrderInv' /\ Added' = Added
  <1> DEFINE l == Len(log)
  <1>1. l \in Nat /\ DOMAIN log = 1 .. l /\ Len(daq) \in Nat /\ DOMAIN daq = 1 .. Len(daq)
    BY QueueFacts
  <1>2. DOMAIN log' = 1 .. l + 1
    <2>1. log' \in Seq(PV) /\ Len(log') = l + 1 BY AppendProperties DEF Arrive, WTypes, Queues
    <2> QED BY <2>1, LenProperties
  <1>3. daq \in Seq(Nat) /\ daq' = Append(daq, l + 1) /\ l + 1 \in Nat
    <2>1. DOMAIN log \subseteq Nat BY <1>1
    <2> QED BY <1>1, <2>1, SeqWidens DEF Arrive, WTypes, Queues
  <1>4. ToSet(daq') = ToSet(daq) \cup {l + 1} BY <1>3, ToSetAppend
  <1>5. /\ daq' \in Seq(Nat) /\ Len(daq') = Len(daq) + 1
        /\ \A i \in 1 .. Len(daq) : daq'[i] = daq[i]
        /\ daq'[Len(daq) + 1] = l + 1
    BY <1>3, AppendProperties
  <1>6. DOMAIN daq' = 1 .. Len(daq) + 1 BY <1>5, LenProperties
  <1>7. ToSet(daq) \subseteq 1 .. l BY DaqRange
  <1>8. busy' = busy /\ busy \subseteq 1 .. l BY <1>1 DEF Arrive, WTypes, Queues
  <1>9. Added = 1 .. l \ (busy \cup ToSet(daq)) BY <1>1 DEF Added
  <1>10. Added' = 1 .. l + 1 \ (busy \cup ToSet(daq')) BY <1>2, <1>8 DEF Added
  <1> HIDE DEF l
  <1>11. 1 .. l + 1 = 1 .. l \cup {l + 1} /\ l + 1 \notin 1 .. l BY <1>1
  <1>12. Added' = Added BY <1>4, <1>7, <1>8, <1>9, <1>10, <1>11
  <1>13. busy' \cap ToSet(daq') = {} BY <1>4, <1>8, <1>11 DEF OrderInv
  <1>14. ASSUME NEW i \in DOMAIN daq', NEW j \in DOMAIN daq', i < j PROVE daq'[i] < daq'[j]
    <2>1. i \in 1 .. Len(daq) BY <1>1, <1>6, <1>14
    <2>2. daq'[i] = daq[i] /\ daq[i] \in 1 .. l BY <1>1, <1>5, <1>7, <2>1 DEF ToSet
    <2>3. CASE j = Len(daq) + 1 BY <1>1, <1>5, <2>2, <2>3
    <2>4. CASE j # Len(daq) + 1
      <3>1. j \in 1 .. Len(daq) BY <1>1, <1>6, <2>4
      <3> QED BY <1>1, <1>5, <1>14, <2>1, <3>1 DEF OrderInv
    <2> QED BY <2>3, <2>4
  <1>15. ASSUME NEW m \in DOMAIN log' \ ToSet(daq'), NEW q \in ToSet(daq') PROVE m < q
    <2>1. m \in 1 .. l /\ m \notin ToSet(daq) BY <1>2, <1>4, <1>11, <1>15
    <2>2. CASE q = l + 1 BY <1>1, <2>1, <2>2
    <2>3. CASE q \in ToSet(daq) BY <1>1, <2>1, <2>3 DEF OrderInv, l
    <2> QED BY <1>4, <1>15, <2>2, <2>3
  <1>16. \A m \in Added' : \A x \in busy' : m < x BY <1>8, <1>12 DEF OrderInv
  <1>17. \A x, y \in busy' : x = y BY <1>8 DEF OrderInv
  <1> QED BY <1>12, <1>13, <1>14, <1>15, <1>16, <1>17 DEF OrderInv

LEMMA TakeOrder ==
  ASSUME WTypes, OrderInv, TakeEvent
  PROVE  OrderInv' /\ Added' = Added
  <1> DEFINE h == Head(daq)
             rest == ToSet(Tail(daq))
  <1>1. busy = {}
    <2>1. IsFiniteSet(1 .. Len(log)) BY QueueFacts, FS_Interval
    <2>2. busy \subseteq 1 .. Len(log) BY QueueFacts DEF WTypes, Queues
    <2>3. IsFiniteSet(busy) BY <2>1, <2>2, FS_Subset
    <2>4. Cardinality(busy) \in Nat /\ Cardinality(busy) < 1
      BY <2>3, FS_CardinalityType DEF TakeEvent, DaqThreads
    <2>5. Cardinality(busy) = 0 BY <2>4
    <2> QED BY <2>3, <2>5, FS_EmptySet
  <1>2. busy' = {h} /\ daq' = Tail(daq) /\ log' = log BY <1>1 DEF TakeEvent
  <1>3. daq \in Seq(DOMAIN log) /\ daq # <<>> BY DEF TakeEvent, WTypes, Queues
  <1>4. /\ Len(daq) \in Nat \ {0} /\ DOMAIN daq = 1 .. Len(daq) /\ DOMAIN Tail(daq) = 1 .. Len(daq) - 1
        /\ h = daq[1] /\ \A i \in 1 .. Len(daq) - 1 : Tail(daq)[i] = daq[i + 1]
        /\ ToSet(daq) = {h} \cup rest
    BY <1>3, ToSetTail
  <1>5. \A i \in 1 .. Len(daq) - 1 : daq[1] < daq[i + 1]
    <2> TAKE i \in 1 .. Len(daq) - 1
    <2>1. 1 \in DOMAIN daq /\ i + 1 \in DOMAIN daq /\ 1 < i + 1 BY <1>4
    <2> QED BY <2>1 DEF OrderInv
  <1>6. \A q \in rest : h < q BY <1>4, <1>5 DEF ToSet
  <1>7. ToSet(daq) \subseteq 1 .. Len(log) /\ Len(log) \in Nat /\ DOMAIN log = 1 .. Len(log)
    BY DaqRange, QueueFacts
  <1>8. h \notin rest BY <1>4, <1>6, <1>7
  <1>9. Added = DOMAIN log \ ToSet(daq) BY <1>1 DEF Added
  <1>10. Added' = DOMAIN log \ ({h} \cup rest) BY <1>2 DEF Added
  <1> HIDE DEF h, rest
  <1>11. Added' = Added BY <1>4, <1>9, <1>10
  <1>12. ASSUME NEW i \in DOMAIN daq', NEW j \in DOMAIN daq', i < j PROVE daq'[i] < daq'[j]
    <2>1. i \in 1 .. Len(daq) - 1 /\ j \in 1 .. Len(daq) - 1 BY <1>2, <1>4
    <2>2. i + 1 \in DOMAIN daq /\ j + 1 \in DOMAIN daq /\ i + 1 < j + 1 BY <1>4, <1>12, <2>1
    <2>3. daq[i + 1] < daq[j + 1] BY <2>2 DEF OrderInv
    <2> QED BY <1>2, <1>4, <2>1, <2>3
  <1>13. \A m \in DOMAIN log' \ ToSet(daq') : \A q \in ToSet(daq') : m < q
    <2> SUFFICES ASSUME NEW m \in DOMAIN log \ rest, NEW q \in rest PROVE m < q
      BY <1>2 DEF rest
    <2>1. CASE m = h BY <1>6, <2>1
    <2>2. CASE m # h BY <1>4, <2>2 DEF OrderInv
    <2> QED BY <2>1, <2>2
  <1>14. \A m \in Added' : \A x \in busy' : m < x BY <1>2, <1>4, <1>9, <1>11 DEF OrderInv
  <1>15. busy' \cap ToSet(daq') = {} BY <1>2, <1>8 DEF rest
  <1>16. \A x, y \in busy' : x = y BY <1>2
  <1> QED BY <1>11, <1>12, <1>13, <1>14, <1>15, <1>16 DEF OrderInv

LEMMA AddOrder ==
  ASSUME WTypes, OrderInv, NEW n \in busy, AddData(n)
  PROVE  /\ OrderInv' /\ busy = {n} /\ \A m \in Added : m < n
         /\ \/ busy' = {n} /\ Added' = Added /\ registered /\ ~LastPlace(n)
            \/ busy' = {} /\ Added' = Added \cup {n} /\ (registered => LastPlace(n))
  <1>1. busy = {n} BY DEF OrderInv
  <1>2. UNCHANGED <<log, daq>> BY AddDataEffect
  <1>3. n \in DOMAIN log /\ n \notin ToSet(daq) BY DEF OrderInv, WTypes, Queues
  <1>4. \/ busy' = {n} /\ registered /\ ~LastPlace(n)
        \/ busy' = {} /\ (registered => LastPlace(n))
    BY <1>1 DEF AddData
  <1>5. \A m \in Added : m < n BY DEF OrderInv
  <1>6. CASE busy' = {n} /\ registered /\ ~LastPlace(n)
    <2>1. Added' = Added BY <1>1, <1>2, <1>6 DEF Added
    <2>2. OrderInv' BY <1>1, <1>2, <1>6, <2>1 DEF OrderInv
    <2> QED BY <1>1, <1>5, <1>6, <2>1, <2>2
  <1>7. CASE busy' = {} /\ (registered => LastPlace(n))
    <2>1. Added' = Added \cup {n} BY <1>1, <1>2, <1>3, <1>7 DEF Added
    <2>2. OrderInv' BY <1>2, <1>7 DEF OrderInv, Added
    <2> QED BY <1>1, <1>5, <1>7, <2>1, <2>2
  <1> QED BY <1>4, <1>6, <1>7

OtherStep ==
  \/ TriggerSnapshot \/ StopSnapshot \/ Tick \/ ReadClock \/ NotDue
  \/ SubmitLatest \/ SubmitWindow \/ Submitted \/ Done \/ UNCHANGED windowVars

LEMMA OtherOrder ==
  ASSUME OrderInv, OtherStep
  PROVE  OrderInv' /\ Added' = Added /\ UNCHANGED <<log, daq, busy, places, latest, kind>>
  <1>1. UNCHANGED <<log, daq, busy, places, latest, kind>>
    BY SubmitLatestEffect
       DEF OtherStep, TriggerSnapshot, StopSnapshot, Tick, ReadClock, NotDue, SubmitWindow, Submitted, Done, windowVars, dataVars
  <1> QED BY <1>1 DEF OrderInv, Added

LEMMA WindowCases ==
  ASSUME [WindowNext]_windowVars
  PROVE  \/ \E p \in PV : Arrive(p)
         \/ TakeEvent
         \/ \E n \in busy : AddData(n)
         \/ OtherStep
  BY DEF WindowNext, OtherStep

LEMMA OrderStep ==
  ASSUME WTypes, OrderInv, [WindowNext]_windowVars
  PROVE  OrderInv' /\ Added \subseteq Added'
  BY WindowCases, ArriveOrder, TakeOrder, AddOrder, OtherOrder

(* An event has been added for some of its places, never for more. *)
PlaceInv ==
  /\ \A m \in 1 .. MaxEvents : m \notin DOMAIN log \/ m \in ToSet(daq) => places[m] = 0
  /\ \A x \in busy : places[x] < Listed[log[x]]
  /\ ~registered => NoReader

LEMMA PlaceStep ==
  ASSUME WTypes, OrderInv, PlaceInv, [WindowNext]_windowVars
  PROVE  PlaceInv'
  <1>0. \A x \in busy : x \in DOMAIN log /\ log[x] \in PV
    BY QueueFacts DEF WTypes, Queues
  <1>1. CASE \E p \in PV : Arrive(p)
    <2>1. PICK p \in PV : Arrive(p) BY <1>1
    <2>2. places' = places /\ busy' = busy BY <2>1 DEF Arrive, dataVars
    <2>3. Len(log) \in Nat /\ DOMAIN log = 1 .. Len(log) /\ \A i \in 1 .. Len(log) : log'[i] = log[i]
      BY <2>1, AppendProperties, QueueFacts DEF Arrive, WTypes, Queues
    <2>4. DOMAIN log' = 1 .. Len(log) + 1
      <3>1. log' \in Seq(PV) /\ Len(log') = Len(log) + 1
        BY <2>1, AppendProperties DEF Arrive, WTypes, Queues
      <3> QED BY <3>1, LenProperties
    <2>5. ToSet(daq') = ToSet(daq) \cup {Len(log) + 1}
      <3>1. DOMAIN log \subseteq Nat BY <2>3
      <3>2. daq \in Seq(Nat) BY <3>1, SeqWidens DEF WTypes, Queues
      <3>3. daq' = Append(daq, Len(log) + 1) BY <2>1 DEF Arrive
      <3>4. Len(log) + 1 \in Nat BY <2>3
      <3>5. ToSet(Append(daq, Len(log) + 1)) = ToSet(daq) \cup {Len(log) + 1} BY <3>2, <3>4, ToSetAppend
      <3> QED BY <3>3, <3>5
    <2>6. Len(log) + 1 \notin DOMAIN log /\ DOMAIN log \subseteq DOMAIN log' BY <2>3, <2>4
    <2>7. \A x \in busy : log'[x] = log[x] BY <1>0, <2>3
    <2>8. (~registered => NoReader)' BY <2>1, <2>2 DEF PlaceInv, NoReader, Arrive
    <2> QED BY <2>2, <2>5, <2>6, <2>7, <2>8 DEF PlaceInv
  <1>2. CASE TakeEvent
    <2>1. places' = places /\ log' = log /\ busy' = busy \cup {Head(daq)} /\ daq' = Tail(daq)
      BY <1>2 DEF TakeEvent, dataVars
    <2>2. ToSet(daq) = {Head(daq)} \cup ToSet(Tail(daq))
      <3>1. daq \in Seq(DOMAIN log) /\ daq # <<>> BY <1>2 DEF TakeEvent, WTypes, Queues
      <3> QED BY <3>1, ToSetTail
    <2>3. ToSet(daq) \subseteq DOMAIN log BY DaqRange, QueueFacts
    <2>4. Head(daq) \in 1 .. MaxEvents /\ log[Head(daq)] \in PV
      BY <2>2, <2>3, QueueFacts DEF WTypes, Queues
    <2>5. places[Head(daq)] = 0 BY <2>2, <2>4 DEF PlaceInv
    <2>6. Listed[log[Head(daq)]] \in Nat \ {0} BY <2>4, WindowConstants
    <2>7. places[Head(daq)] < Listed[log[Head(daq)]] BY <2>5, <2>6
    <2>8. (~registered => NoReader)' BY <1>2, <2>1, <2>5 DEF PlaceInv, NoReader, TakeEvent
    <2> QED BY <2>1, <2>2, <2>7, <2>8 DEF PlaceInv
  <1>3. CASE \E n \in busy : AddData(n)
    <2>1. PICK n \in busy : AddData(n) BY <1>3
    <2>2. UNCHANGED <<log, daq>> BY <2>1, AddDataEffect
    <2>3. n \in DOMAIN log /\ n \notin ToSet(daq) BY <1>0 DEF OrderInv
    <2>4. places' = places \/ (places' = [places EXCEPT ![n] = @ + 1] /\ n \in DOMAIN places)
      BY <2>1, AddDataEffect DEF dataVars, WTypes, Flags
    <2>5. \A m \in 1 .. MaxEvents : m # n => places'[m] = places[m]
      BY <2>4 DEF WTypes, Queues
    <2>6. \A x \in busy' : places'[x] < Listed[log[x]]
      <3>1. CASE busy' = {} BY <3>1
      <3>2. CASE busy' = {n} /\ registered /\ ~LastPlace(n)
        <4>1. places'[n] = places[n] + 1 BY <2>1, <3>2, AddDataEffect DEF WTypes, Queues
        <4>2. places[n] \in Nat /\ Listed[log[n]] \in Nat BY <1>0, WindowConstants DEF WTypes, Queues
        <4>3. places[n] < Listed[log[n]] BY DEF PlaceInv
        <4>4. places[n] + 1 # Listed[log[n]] BY <3>2 DEF LastPlace
        <4>5. places[n] + 1 < Listed[log[n]] BY <4>2, <4>3, <4>4
        <4> QED BY <3>2, <4>1, <4>5
      <3> QED BY <2>1, <3>1, <3>2, AddOrder
    <2>7. (~registered => NoReader)'
      <3>1. registered' = registered BY <2>1, AddDataEffect
      <3>2. busy' = {} \/ registered BY <2>1, AddOrder
      <3> QED BY <3>1, <3>2 DEF NoReader
    <2> QED BY <2>2, <2>3, <2>5, <2>6, <2>7 DEF PlaceInv
  <1>4. CASE OtherStep
    <2>1. UNCHANGED <<log, daq, busy, places>> BY <1>4, OtherOrder
    <2>2. registered' = registered \/ NoReader
      BY <1>4, SubmitLatestEffect
         DEF OtherStep, TriggerSnapshot, StopSnapshot, Tick, ReadClock, NotDue, SubmitWindow, Submitted, Done, windowVars
    <2> QED BY <2>1, <2>2 DEF PlaceInv, NoReader
  <1> QED BY <1>1, <1>2, <1>3, <1>4, WindowCases

LEMMA LatestStep ==
  ASSUME WTypes, OrderInv, LatestWins, [WindowNext]_windowVars
  PROVE  LatestWins'
  <1> SUFFICES ASSUME (kind.type = "normal")', registered', NEW m \in Added'
               PROVE  latest'[log'[m]] >= m
    BY DEF LatestWins
  <1>1. CASE \E p \in PV : Arrive(p)
    <2>1. PICK p \in PV : Arrive(p) BY <1>1
    <2>2. m \in Added BY <2>1, ArriveOrder
    <2>3. m \in 1 .. Len(log) BY <2>2, QueueFacts DEF Added
    <2>4. log'[m] = log[m] BY <2>1, <2>3, AppendProperties DEF Arrive, WTypes, Queues
    <2> QED BY <2>1, <2>2, <2>4 DEF LatestWins, Arrive, dataVars
  <1>2. CASE TakeEvent
    <2>1. m \in Added BY <1>2, TakeOrder
    <2> QED BY <1>2, <2>1 DEF LatestWins, TakeEvent, dataVars
  <1>3. CASE \E n \in busy : AddData(n)
    <2>1. PICK n \in busy : AddData(n) BY <1>3
    <2>2. registered /\ kind.type = "normal" BY <2>1, AddDataEffect
    <2>3. latest' = [latest EXCEPT ![log[n]] = n] /\ log' = log
      BY <2>1, <2>2 DEF AddData, AddLatest, AddToWindow
    <2>4. m \in Added \/ m = n BY <2>1, AddOrder
    <2>5. \A x \in Added : x < n BY <2>1, AddOrder
    <2>6. n \in 1 .. Len(log) /\ m \in 1 .. Len(log) /\ Len(log) \in Nat
      BY <2>4, QueueFacts DEF Added, WTypes, Queues
    <2>7. log[m] \in PV /\ log[n] \in PV /\ latest \in [PV -> 0 .. Len(log)]
      BY <2>6, QueueFacts DEF WTypes, Queues
    <2>8. CASE log[m] = log[n]
      <3>1. latest'[log'[m]] = n BY <2>3, <2>7, <2>8
      <3> QED BY <2>4, <2>5, <2>6, <3>1
    <2>9. CASE log[m] # log[n]
      <3>1. latest'[log'[m]] = latest[log[m]] /\ m \in Added BY <2>3, <2>4, <2>7, <2>9
      <3> QED BY <2>2, <3>1 DEF LatestWins
    <2> QED BY <2>8, <2>9
  <1>4. CASE OtherStep
    <2>1. m \in Added /\ UNCHANGED <<log, latest, kind>> BY <1>4, OtherOrder
    <2>2. registered
      BY <1>4, SubmitLatestEffect
         DEF WTypes, Flags, OtherStep, TriggerSnapshot, StopSnapshot, Tick, ReadClock, NotDue, SubmitWindow, Submitted, Done, windowVars, Removed
    <2> QED BY <2>1, <2>2 DEF LatestWins
  <1> QED BY <1>1, <1>2, <1>3, <1>4, WindowCases

-----------------------------------------------------------------------------
(* What the iterations of a periodic TIMED_BUFFERED snapshot cover. *)

(* the PVs that have an event in the window *)
InWindow == {log[Entries(acquiring)[i].ev] : i \in 1 .. acquiring.count}

CoverInv ==
  kind.type = "timed" /\ ~kind.triggered =>
    /\ PV \subseteq no_events \cup covered \cup InWindow
    /\ epc = "submit" /\ submission.tail => covered = PV /\ no_events = PV

LEMMA AddCover ==
  ASSUME WTypes, CoverInv, NEW n \in busy, AddData(n)
  PROVE  CoverInv'
  <1>1. UNCHANGED <<kind, log, epc, submission>> /\ epc # "submit"
    BY DEF AddData, loopVars, MutexFree
  <1> SUFFICES ASSUME kind.type = "timed", ~kind.triggered
               PROVE  PV \subseteq no_events' \cup covered' \cup InWindow'
    BY <1>1 DEF CoverInv
  <1>2. CASE ~registered BY <1>2 DEF AddData, dataVars, CoverInv, InWindow
  <1>3. CASE registered
    <2>1. AddToWindow(n) BY <1>3 DEF AddData, AddLatest
    <2>2. PICK k : AddEffect(n, k) BY <2>1, AddToWindowEffect
    <2>3. acquiring.count \in Nat
      <3>1. PICK r : IsRing(acquiring, r) BY DEF WTypes, Rings
      <3> QED BY <3>1, RingEntries
    <2>4. k \in 0 .. acquiring.count /\ acquiring'.count = acquiring.count - k + 1
      BY <2>2 DEF AddEffect, Pushed, Old
    <2> SUFFICES ASSUME NEW p \in PV, p \notin no_events', p \notin covered'
                 PROVE  p \in InWindow'
      OBVIOUS
    <2>5. p \in no_events \/ p \in covered \/ p \in InWindow BY DEF CoverInv
    <2>6. CASE p \in no_events
      <3>1. p = log[n] BY <2>2, <2>6 DEF AddEffect
      <3>2. acquiring.count - k + 1 \in 1 .. acquiring'.count BY <2>3, <2>4
      <3>3. Entries(acquiring')[acquiring.count - k + 1] = Stamped(n) BY <2>2 DEF AddEffect, Pushed
      <3>4. Stamped(n).ev = n BY DEF Stamped
      <3> QED BY <1>1, <3>1, <3>2, <3>3, <3>4 DEF InWindow
    <2>7. CASE p \in covered BY <2>2, <2>7 DEF AddEffect
    <2>8. CASE p \in InWindow
      <3>1. PICK i \in 1 .. acquiring.count : p = log[Entries(acquiring)[i].ev] BY <2>8 DEF InWindow
      <3>2. ~(i \in 1 .. k) BY <2>2, <3>1 DEF AddEffect
      <3>3. PICK j : j = i - k OBVIOUS
      <3>4. j \in 1 .. acquiring.count - k /\ k + j = i /\ j \in 1 .. acquiring'.count
        BY <2>3, <2>4, <3>2, <3>3
      <3>5. Entries(acquiring')[j] = Entries(acquiring)[i] BY <2>2, <3>4 DEF AddEffect, Pushed
      <3> QED BY <1>1, <3>1, <3>4, <3>5 DEF InWindow
    <2> QED BY <2>5, <2>6, <2>7, <2>8
  <1> QED BY <1>2, <1>3

LEMMA SubmitCover ==
  ASSUME WTypes, CoverInv, SubmitWindow
  PROVE  CoverInv'
  <1> SUFFICES ASSUME kind.type = "timed", ~kind.triggered
               PROVE  /\ PV \subseteq no_events' \cup covered' \cup InWindow'
                      /\ submission'.tail => covered' = PV /\ no_events' = PV
    BY DEF SubmitWindow, CoverInv
  <1>1. InWindow \subseteq PvsOf(ToSet(fetchWindow(acquiring)))
    BY SubmitEffect DEF InWindow, PvsOf, ToSet
  <1>2. covered' = PV
    <2>1. PV \subseteq covered' BY <1>1, SubmitEffect DEF CoverInv
    <2>2. covered' \subseteq PV BY SubmitEffect DEF WTypes, Queues
    <2> QED BY <2>1, <2>2
  <1>3. submission'.tail => no_events' = PV
    <2>1. submission'.tail = Expired BY DEF SubmitWindow
    <2> QED BY <2>1 DEF SubmitWindow, AfterWindow
  <1> QED BY <1>2, <1>3

LEMMA CoverStep ==
  ASSUME WTypes, CoverInv, [WindowNext]_windowVars
  PROVE  CoverInv'
  <1>1. CASE \E p \in PV : Arrive(p)
    <2>1. PICK p \in PV : Arrive(p) BY <1>1
    <2>2. \A i \in 1 .. acquiring.count : log'[Entries(acquiring)[i].ev] = log[Entries(acquiring)[i].ev]
      <3>1. \A i \in 1 .. Len(log) : log'[i] = log[i]
        BY <2>1, AppendProperties DEF Arrive, WTypes, Queues
      <3> QED BY <3>1 DEF WTypes, Rings
    <2>3. UNCHANGED <<kind, acquiring, no_events, covered, epc, submission>>
      BY <2>1 DEF Arrive, dataVars, loopVars
    <2>4. InWindow' = InWindow BY <2>2, <2>3 DEF InWindow
    <2> QED BY <2>3, <2>4 DEF CoverInv
  <1>2. CASE TakeEvent BY <1>2 DEF TakeEvent, CoverInv, InWindow, dataVars, loopVars
  <1>3. CASE \E n \in busy : AddData(n) BY <1>3, AddCover
  <1>4. CASE SubmitWindow BY <1>4, SubmitCover
  <1>5. CASE SubmitLatest
    <2>1. kind.type # "timed" /\ kind' = kind BY <1>5, SubmitLatestEffect
    <2> QED BY <2>1 DEF CoverInv
  <1>6. CASE Submitted
    <2>1. UNCHANGED <<kind, log, acquiring, no_events, submission>> /\ epc' # "submit"
          /\ epc = "submit" /\ covered' = IF submission.tail THEN {} ELSE covered
      BY <1>6 DEF Submitted
    <2>2. InWindow' = InWindow BY <2>1 DEF InWindow
    <2> QED BY <2>1, <2>2 DEF CoverInv
  <1>7. CASE TriggerSnapshot \/ StopSnapshot \/ Tick
    <2>1. UNCHANGED <<kind, log, acquiring, no_events, covered, epc, submission>>
      BY <1>7 DEF TriggerSnapshot, StopSnapshot, Tick, dataVars, loopVars
    <2> QED BY <2>1 DEF CoverInv, InWindow
  <1>8. CASE ReadClock \/ NotDue
    <2>1. UNCHANGED <<kind, log, acquiring, no_events, covered>> /\ epc' # "submit"
      BY <1>8 DEF ReadClock, NotDue, dataVars
    <2>2. InWindow' = InWindow BY <2>1 DEF InWindow
    <2> QED BY <2>1, <2>2 DEF CoverInv
  <1>9. CASE Done \/ UNCHANGED windowVars
    <2>1. UNCHANGED <<kind, log, acquiring, no_events, covered, epc, submission>>
      BY <1>9 DEF Done, windowVars, dataVars, loopVars
    <2> QED BY <2>1 DEF CoverInv, InWindow
  <1> QED BY <1>1, <1>2, <1>3, <1>4, <1>5, <1>6, <1>7, <1>8, <1>9, WindowCases DEF OtherStep

(* the inductive invariant of the windows *)
WInv == WTypes /\ OrderInv /\ PlaceInv /\ LatestWins /\ CoverInv

LEMMA WInvInit ==
  ASSUME WindowInit
  PROVE  WInv
  <1>1. WTypes BY WindowTypesInit
  <1>2. ToSet(daq) = {} /\ busy = {} /\ DOMAIN log = {} /\ DOMAIN daq = {}
    BY DEF WindowInit, ToSet
  <1>3. OrderInv /\ LatestWins BY <1>2 DEF OrderInv, LatestWins, Added
  <1>5. PlaceInv BY <1>2 DEF WindowInit, PlaceInv, NoReader
  <1>4. CoverInv BY DEF WindowInit, CoverInv
  <1> QED BY <1>1, <1>3, <1>4, <1>5 DEF WInv

LEMMA WInvStep ==
  ASSUME WInv, [WindowNext]_windowVars
  PROVE  WInv'
  BY WindowTypesStep, OrderStep, PlaceStep, LatestStep, CoverStep DEF WInv

(* The windows of a repeating snapshot, for any number of PVs, events and    *)
(* commands, any window, reserve and growth: the indices of the rings stay   *)
(* in their slots through pruning, growth and swap; a NORMAL snapshot        *)
(* (SnapshotRepeatingOpInfo::addData) holds of every PV the last event that  *)
(* was taken over; and when the window of a periodic TIMED_BUFFERED one ends *)
(* every PV had an event in it, lost one to age, or was asked for an update. *)
THEOREM WindowCorrect == WindowSpec => []WindowInv
  <1>1. WInv => WindowInv
    <2>1. WInv => WindowCovered BY DEF WInv, CoverInv, WindowCovered
    <2> QED BY <2>1, TypesSuffice DEF WInv, WindowInv
  <1> QED BY <1>1, WInvInit, WInvStep, PTL DEF WindowSpec

-----------------------------------------------------------------------------
(* The events of the submissions are a stream. *)

(* an entry of the ring: of an event that was added, or is being added *)
EntryOK(e) ==
  /\ e.place \in Nat \ {0}
  /\ e.ev \in Added \/ (e.ev \in busy /\ e.place <= places[e.ev])

Newest == Entries(acquiring)[acquiring.count]

(* the newest entry is the last copy of its event, or it is the one that the *)
(* event in work was added for last                                          *)
NewestOK ==
  kind.type = "timed" =>
    /\ \A n \in busy : places[n] # 0 => /\ acquiring.count # 0 /\ Newest.ev = n
                                        /\ Newest.place = places[n]
    /\ acquiring.count # 0 /\ NoReader => Newest.place = Listed[log[Newest.ev]]

StreamInv ==
  /\ \A i \in 1 .. acquiring.count : EntryOK(Entries(acquiring)[i])
  /\ \A i, j \in 1 .. acquiring.count :
       i < j => Entries(acquiring)[i].ts <= Entries(acquiring)[j].ts
  /\ \A i \in DOMAIN out : out[i] \in Added
  /\ NewestOK

LEMMA StampBounds ==
  ASSUME WTypes
  PROVE  \A i \in 1 .. acquiring.count : Entries(acquiring)[i].ts \in 0 .. now
  <1>1. PICK r : IsRing(acquiring, r) BY DEF WTypes, Rings
  <1>2. DOMAIN acquiring.slots = 0 .. r - 1 BY <1>1, RingSize
  <1> TAKE i \in 1 .. acquiring.count
  <1>3. PICK x \in 0 .. r - 1 : Entries(acquiring)[i] = acquiring.slots[x] BY <1>1, RingEntries
  <1> QED BY <1>2, <1>3 DEF WTypes, Rings, Bounded

(* the newest of a ring that is not empty is one of its entries *)
LEMMA NewestIn ==
  ASSUME WTypes
  PROVE  /\ acquiring.count \in Nat
         /\ acquiring.count # 0 => acquiring.count \in 1 .. acquiring.count /\ Newest.ev \in 1 .. Len(log)
  <1>1. PICK r : IsRing(acquiring, r) BY DEF WTypes, Rings
  <1>2. acquiring.count \in Nat BY <1>1, RingEntries
  <1>3. acquiring.count # 0 => acquiring.count \in 1 .. acquiring.count BY <1>2
  <1> QED BY <1>2, <1>3 DEF WTypes, Rings, Newest

(* a step that leaves the ring alone *)
LEMMA StreamKept ==
  ASSUME StreamInv, UNCHANGED <<acquiring, out>>, Added \subseteq Added', NewestOK',
         \A x \in busy :
           \/ x \in Added'
           \/ x \in busy' /\ \A q \in Nat : q <= places[x] => q <= places'[x]
  PROVE  StreamInv'
  <1>1. ASSUME NEW i \in 1 .. acquiring.count PROVE EntryOK(Entries(acquiring)[i])'
    <2>1. PICK e : e = Entries(acquiring)[i] OBVIOUS
    <2>2. EntryOK(e) BY <2>1 DEF StreamInv
    <2>3. e = Entries(acquiring)[i]' BY <2>1
    <2> QED BY <2>2, <2>3 DEF EntryOK
  <1> QED BY <1>1 DEF StreamInv

LEMMA AddStream ==
  ASSUME WInv, StreamInv, NEW n \in busy, NEW k, AddEffect(n, k), AddData(n), registered
  PROVE  StreamInv'
  <1>1. /\ busy = {n} /\ \A m \in Added : m < n
        /\ \/ busy' = {n} /\ Added' = Added /\ ~LastPlace(n)
           \/ busy' = {} /\ Added' = Added \cup {n} /\ LastPlace(n)
    BY AddOrder DEF WInv
  <1>2. out' = out /\ log' = log /\ kind' = kind BY DEF AddData, loopVars
  <1>3. PICK r : IsRing(acquiring, r) BY DEF WInv, WTypes, Rings
  <1>4. acquiring.count \in Nat BY <1>3, RingEntries
  <1>5. k \in 0 .. acquiring.count /\ acquiring'.count = acquiring.count - k + 1
    BY DEF AddEffect, Pushed, Old
  <1>6. PICK c \in Nat : c = acquiring.count - k BY <1>4, <1>5
  <1>7. /\ \A i \in 1 .. c : Entries(acquiring')[i] = Entries(acquiring)[k + i]
        /\ Entries(acquiring')[c + 1] = Stamped(n)
        /\ acquiring'.count = c + 1
    BY <1>5, <1>6 DEF AddEffect, Pushed
  <1>8. \A i \in 1 .. c : k + i \in 1 .. acquiring.count BY <1>4, <1>5, <1>6
  <1>9. Stamped(n).ev = n /\ Stamped(n).ts = now /\ Stamped(n).place = places[n] + 1 BY DEF Stamped
  <1>10. now \in Nat BY QueueFacts DEF WInv
  <1>20. places[n] \in Nat /\ places'[n] = places[n] + 1
    <2>1. places \in [1 .. MaxEvents -> Nat] /\ n \in 1 .. MaxEvents BY DEF WInv, WTypes, Queues
    <2>2. places' = [places EXCEPT ![n] = @ + 1] BY AddDataEffect DEF WInv
    <2> QED BY <2>1, <2>2
  <1>11. ASSUME NEW i \in 1 .. c + 1 PROVE EntryOK(Entries(acquiring)[i])'
    <2>0. PICK e : e = Entries(acquiring')[i] OBVIOUS
    <2>1. CASE i = c + 1
      <3>1. e.ev = n /\ e.place = places[n] + 1 BY <1>7, <1>9, <2>0, <2>1
      <3>2. e.place \in Nat \ {0} /\ e.place <= places'[n] BY <1>20, <3>1
      <3> QED BY <1>1, <2>0, <3>1, <3>2 DEF EntryOK
    <2>2. CASE i # c + 1
      <3>1. i \in 1 .. c BY <2>2
      <3>2. EntryOK(e) BY <1>7, <1>8, <2>0, <3>1 DEF StreamInv
      <3>3. e.place \in Nat \ {0} /\ (e.ev \in Added \/ (e.ev = n /\ e.place <= places[n]))
        BY <1>1, <3>2 DEF EntryOK
      <3>4. e.ev \in Added \/ (e.ev = n /\ e.place <= places'[n]) BY <1>20, <3>3
      <3> QED BY <1>1, <2>0, <3>3, <3>4 DEF EntryOK
    <2> QED BY <2>1, <2>2
  <1>12. ASSUME NEW i \in 1 .. c + 1, NEW j \in 1 .. c + 1, i < j
         PROVE  Entries(acquiring')[i].ts <= Entries(acquiring')[j].ts
    <2>1. i \in 1 .. c /\ k + i \in 1 .. acquiring.count BY <1>8, <1>12
    <2>2. Entries(acquiring')[i] = Entries(acquiring)[k + i] BY <1>7, <2>1
    <2>3. CASE j = c + 1
      <3>1. Entries(acquiring)[k + i].ts \in 0 .. now BY <2>1, StampBounds DEF WInv
      <3> QED BY <1>7, <1>9, <1>10, <2>2, <2>3, <3>1
    <2>4. CASE j # c + 1
      <3>1. j \in 1 .. c /\ k + j \in 1 .. acquiring.count /\ k + i < k + j
        <4>1. j \in 1 .. c BY <2>4
        <4> QED BY <1>4, <1>5, <1>8, <1>12, <4>1
      <3>2. Entries(acquiring')[j] = Entries(acquiring)[k + j] BY <1>7, <3>1
      <3> QED BY <2>1, <2>2, <3>1, <3>2 DEF StreamInv
    <2> QED BY <2>3, <2>4
  <1>13. \A i \in DOMAIN out' : out'[i] \in Added' BY <1>1, <1>2 DEF StreamInv
  <1>14. NewestOK'
    <2>1. Newest' = Stamped(n) BY <1>7 DEF Newest
    <2>2. acquiring'.count # 0 BY <1>7
    <2>3. Newest'.ev = n /\ Newest'.place = places'[n] BY <1>9, <1>20, <2>1
    <2>4. CASE busy' = {n} /\ ~LastPlace(n)
      <3>1. ~NoReader' BY <1>20, <2>4 DEF NoReader
      <3> QED BY <2>2, <2>3, <2>4, <3>1 DEF NewestOK
    <2>5. CASE busy' = {} /\ LastPlace(n)
      <3>1. Newest'.place = Listed[log'[Newest'.ev]] BY <1>2, <1>9, <2>1, <2>3, <2>5 DEF LastPlace
      <3> QED BY <2>5, <3>1 DEF NewestOK
    <2> QED BY <1>1, <2>4, <2>5
  <1> QED BY <1>7, <1>11, <1>12, <1>13, <1>14 DEF StreamInv

LEMMA SubmitStream ==
  ASSUME WInv, StreamInv, SubmitWindow
  PROVE  StreamInv'
  <1> USE WindowConstants
  <1>1. Added' = Added /\ UNCHANGED <<busy, places>> BY OtherOrder DEF OtherStep, WInv
  <1>2. acquiring'.count = 0
    <2>1. acquiring' = EmptyBuffer(Reserve) BY SubmitEffect DEF WInv
    <2> QED BY <2>1 DEF EmptyBuffer
  <1>3. PICK f : f = fetchWindow(acquiring) OBVIOUS
  <1>4. /\ out' = out \o f /\ f \in Seq(DOMAIN log) /\ DOMAIN f = 1 .. acquiring.count
        /\ \A i \in 1 .. acquiring.count : f[i] = Entries(acquiring)[i].ev
    BY <1>3, SubmitEffect DEF WInv
  <1>5. out \in Seq(DOMAIN log) BY DEF WInv, WTypes, Queues
  <1>6. /\ Len(out) \in Nat /\ DOMAIN out = 1 .. Len(out)
        /\ Len(f) \in Nat /\ DOMAIN f = 1 .. Len(f)
    BY <1>4, <1>5, LenProperties
  <1>7. /\ out' \in Seq(DOMAIN log) /\ Len(out') = Len(out) + Len(f)
        /\ \A i \in 1 .. Len(out) + Len(f) :
             out'[i] = IF i <= Len(out) THEN out[i] ELSE f[i - Len(out)]
    BY <1>4, <1>5, ConcatProperties
  <1>8. DOMAIN out' = 1 .. Len(out) + Len(f) BY <1>7, LenProperties
  <1>10. NoReader BY DEF SubmitWindow
  <1>11. ASSUME NEW i \in 1 .. acquiring.count PROVE Entries(acquiring)[i].ev \in Added
    <2>1. PICK e : e = Entries(acquiring)[i] OBVIOUS
    <2>2. EntryOK(e) BY <2>1 DEF StreamInv
    <2>3. e.ev \in busy => places[e.ev] = 0 BY <1>10 DEF NoReader
    <2> QED BY <2>1, <2>2, <2>3 DEF EntryOK
  <1>9. ASSUME NEW i \in DOMAIN out' PROVE out'[i] \in Added
    <2>1. CASE i <= Len(out)
      <3>1. i \in DOMAIN out /\ out'[i] = out[i] BY <1>6, <1>7, <1>8, <2>1
      <3> QED BY <3>1 DEF StreamInv
    <2>2. CASE ~(i <= Len(out))
      <3>1. PICK j : j = i - Len(out) OBVIOUS
      <3>2. j \in 1 .. Len(f) /\ out'[i] = f[j] BY <1>6, <1>7, <1>8, <2>2, <3>1
      <3> QED BY <1>4, <1>6, <1>11, <3>2
    <2> QED BY <2>1, <2>2
  <1>12. NewestOK' BY <1>1, <1>2, <1>10 DEF NewestOK, NoReader
  <1> QED BY <1>1, <1>2, <1>9, <1>12 DEF StreamInv

LEMMA QuietStep ==
  ASSUME [WindowNext]_windowVars, ~SubmitWindow,
         ~(\E n \in busy : AddData(n) /\ AddToWindow(n) /\ registered)
  PROVE  UNCHANGED <<acquiring, out>>
  <1>1. CASE \E n \in busy : AddData(n)
    BY <1>1 DEF AddData, AddLatest, dataVars, loopVars
  <1>2. CASE (\E p \in PV : Arrive(p)) \/ TakeEvent
    BY <1>2 DEF Arrive, TakeEvent, dataVars, loopVars
  <1>3. CASE OtherStep
    BY <1>3, SubmitLatestEffect
       DEF OtherStep, TriggerSnapshot, StopSnapshot, Tick, ReadClock, NotDue, Submitted, Done,
           windowVars, dataVars, loopVars
  <1> QED BY <1>1, <1>2, <1>3, WindowCases

LEMMA QuietStream ==
  ASSUME WInv, StreamInv, [WindowNext]_windowVars, ~SubmitWindow,
         ~(\E n \in busy : AddData(n) /\ AddToWindow(n) /\ registered)
  PROVE  StreamInv'
  <1>1. UNCHANGED <<acquiring, out>> /\ Added \subseteq Added' BY QuietStep, OrderStep DEF WInv
  <1>2. Newest' = Newest BY <1>1 DEF Newest
  <1>3. \A x \in busy : x \in DOMAIN log BY DEF WInv, WTypes, Queues
  <1>4. CASE \E p \in PV : Arrive(p)
    <2>1. PICK p \in PV : Arrive(p) BY <1>4
    <2>2. UNCHANGED <<busy, places, kind>> BY <2>1 DEF Arrive, dataVars
    <2>3. \A i \in 1 .. Len(log) : log'[i] = log[i]
      BY <2>1, AppendProperties DEF Arrive, WInv, WTypes, Queues
    <2>4. acquiring.count # 0 => log'[Newest.ev] = log[Newest.ev] BY <2>3, NewestIn DEF WInv
    <2>5. NewestOK' BY <1>1, <1>2, <2>2, <2>4 DEF StreamInv, NewestOK, NoReader
    <2> QED BY <1>1, <2>2, <2>5, StreamKept
  <1>5. CASE TakeEvent
    <2>1. UNCHANGED <<places, kind, log>> /\ busy' = busy \cup {Head(daq)} BY <1>5 DEF TakeEvent, dataVars
    <2>2. places[Head(daq)] = 0
      <3>1. daq \in Seq(DOMAIN log) /\ daq # <<>> BY <1>5 DEF TakeEvent, WInv, WTypes, Queues
      <3>2. Head(daq) \in ToSet(daq) /\ Head(daq) \in DOMAIN log BY <3>1, ToSetTail, HeadTailProperties
      <3> QED BY <3>2 DEF WInv, WTypes, Queues, PlaceInv
    <2>3. NewestOK' BY <1>1, <1>2, <2>1, <2>2 DEF StreamInv, NewestOK, NoReader
    <2> QED BY <1>1, <2>1, <2>3, StreamKept
  <1>6. CASE \E n \in busy : AddData(n)
    <2>1. PICK n \in busy : AddData(n) BY <1>6
    <2>2. /\ busy = {n} /\ UNCHANGED <<log, kind>>
          /\ \/ busy' = {n} /\ registered
             \/ busy' = {} /\ n \in Added'
      BY <2>1, AddOrder, AddDataEffect DEF WInv
    <2>3. CASE ~registered
      <3>1. busy' = {} /\ n \in Added' BY <2>2, <2>3
      <3>2. NoReader BY <2>3 DEF WInv, PlaceInv
      <3>3. NewestOK' BY <1>1, <1>2, <2>2, <3>1, <3>2 DEF StreamInv, NewestOK
      <3>4. \A x \in busy : x \in Added' BY <2>2, <3>1
      <3> QED BY <1>1, <3>3, <3>4, StreamKept
    <2>4. CASE registered
      <3>1. ~AddToWindow(n) BY <2>1, <2>4
      <3>2. kind.type # "timed" BY <2>1, <2>4, <3>1 DEF AddData, AddLatest
      <3>3. NewestOK' BY <2>2, <3>2 DEF NewestOK
      <3>4. places[n] \in Nat /\ places'[n] = places[n] + 1
        <4>1. places \in [1 .. MaxEvents -> Nat] /\ n \in 1 .. MaxEvents BY DEF WInv, WTypes, Queues
        <4>2. places' = [places EXCEPT ![n] = @ + 1] BY <2>1, <2>4, AddDataEffect DEF WInv
        <4> QED BY <4>1, <4>2
      <3>5. \A q \in Nat : q <= places[n] => q <= places'[n] BY <3>4
      <3> QED BY <1>1, <2>2, <3>3, <3>5, StreamKept
    <2> QED BY <2>3, <2>4
  <1>7. CASE OtherStep
    <2>1. UNCHANGED <<log, busy, places, kind>> BY <1>7, OtherOrder DEF WInv
    <2>2. NewestOK' BY <1>1, <1>2, <2>1 DEF StreamInv, NewestOK, NoReader
    <2> QED BY <1>1, <2>1, <2>2, StreamKept
  <1> QED BY <1>4, <1>5, <1>6, <1>7, WindowCases

LEMMA StreamStep ==
  ASSUME WInv, StreamInv, [WindowNext]_windowVars
  PROVE  StreamInv'
  <1>1. CASE SubmitWindow BY <1>1, SubmitStream
  <1>2. CASE \E n \in busy : AddData(n) /\ AddToWindow(n) /\ registered
    <2>1. PICK n \in busy : AddData(n) /\ AddToWindow(n) /\ registered BY <1>2
    <2>2. PICK k : AddEffect(n, k) BY <2>1, AddToWindowEffect DEF WInv
    <2> QED BY <2>1, <2>2, AddStream
  <1> QED BY <1>1, <1>2, QuietStream

LEMMA LastIsNewest ==
  ASSUME WTypes
  PROVE  /\ Entries(acquiring) = <<>> <=> acquiring.count = 0
         /\ Last(Entries(acquiring)) = Newest /\ Stream!Last(Entries(acquiring)) = Newest
  <1>1. PICK r : IsRing(acquiring, r) BY DEF WTypes, Rings
  <1>2. PICK E \in Seq(Slot) : E = Entries(acquiring) BY <1>1, RingEntries
  <1>3. Len(E) = acquiring.count /\ acquiring.count \in Nat BY <1>1, <1>2, RingEntries
  <1>4. E = <<>> <=> Len(E) = 0 BY EmptySeq
  <1> QED BY <1>2, <1>3, <1>4 DEF Last, Stream!Last, Newest

LEMMA CompleteMaps ==
  ASSUME WInv, StreamInv, kind.type = "timed", NoReader
  PROVE  Stream!Complete
  <1>1. /\ Entries(acquiring) = <<>> <=> acquiring.count = 0
        /\ Stream!Last(Entries(acquiring)) = Newest
    BY LastIsNewest DEF WInv
  <1>2. acquiring.count # 0 => Newest.place = Listed[log[Newest.ev]] BY DEF StreamInv, NewestOK
  <1> QED BY <1>1, <1>2 DEF Stream!Complete

(* the copy that is added is the first one, or follows the newest entry *)
LEMMA CopyMaps ==
  ASSUME WInv, StreamInv, NEW n \in busy, AddData(n), kind.type = "timed"
  PROVE  Stream!FirstCopy(Stamped(n)) \/ Stream!NextCopy(Stamped(n))
  <1> DEFINE E == Entries(acquiring)
  <1>1. busy = {n} /\ \A x \in Added : x < n BY AddOrder DEF WInv
  <1>2. PICK r : IsRing(acquiring, r) BY DEF WInv, WTypes, Rings
  <1>3. DOMAIN E = 1 .. acquiring.count BY <1>2, RingEntries
  <1>4. /\ E = <<>> <=> acquiring.count = 0
        /\ Stream!Last(E) = Newest
    BY LastIsNewest DEF WInv
  <1>5. Stamped(n).ev = n /\ Stamped(n).place = places[n] + 1 BY DEF Stamped
  <1>6. places[n] \in Nat BY DEF WInv, WTypes, Queues
  <1>7. CASE places[n] = 0
    <2>1. NoReader BY <1>1, <1>7 DEF NoReader
    <2>2. Stream!Complete BY <2>1, CompleteMaps
    <2>3. ASSUME NEW i \in DOMAIN E PROVE E[i].ev < n
      <3>1. PICK e : e = E[i] OBVIOUS
      <3>2. EntryOK(e) BY <1>3, <3>1 DEF StreamInv
      <3>3. e.ev \in Added BY <1>1, <1>7, <3>2 DEF EntryOK
      <3> QED BY <1>1, <3>1, <3>3
    <2>4. Stamped(n).place = 1 BY <1>5, <1>7
    <2> HIDE DEF E
    <2>5. \A i \in DOMAIN E : E[i].ev < Stamped(n).ev BY <1>5, <2>3
    <2> QED BY <2>2, <2>4, <2>5 DEF Stream!FirstCopy, E
  <1>8. CASE places[n] # 0
    <2>1. acquiring.count # 0 /\ Newest.ev = n /\ Newest.place = places[n]
      BY <1>8 DEF StreamInv, NewestOK
    <2>2. places[n] < Listed[log[n]] BY DEF WInv, PlaceInv
    <2>3. Listed[log[n]] \in Nat
      <3>1. log[n] \in PV BY QueueFacts DEF WInv, WTypes, Queues
      <3> QED BY <3>1, WindowConstants
    <2>4. Newest.place # Listed[log[Newest.ev]] BY <1>6, <2>1, <2>2, <2>3
    <2>5. ~Stream!Complete BY <1>4, <2>1, <2>4 DEF Stream!Complete
    <2> QED BY <1>4, <1>5, <2>1, <2>5 DEF Stream!NextCopy
  <1> QED BY <1>7, <1>8

LEMMA AddIsAdd ==
  ASSUME WInv, StreamInv, NEW n \in busy, NEW k, AddEffect(n, k), AddData(n),
         kind.type = "timed"
  PROVE  Stream!Add
  <1> DEFINE E == Entries(acquiring)
             F == Entries(acquiring')
             e == Stamped(n)
  <1>1. PICK r : IsRing(acquiring, r) BY DEF WInv, WTypes, Rings
  <1>2. acquiring.count \in Nat /\ Len(E) = acquiring.count /\ DOMAIN E = 1 .. acquiring.count
    BY <1>1, RingEntries
  <1>3. PICK m : IsRing(acquiring', m) BY DEF AddEffect, Pushed
  <1>4. F \in Seq(Slot) /\ Len(F) = acquiring'.count BY <1>3, RingEntries
  <1>5. /\ k \in 0 .. acquiring.count /\ acquiring'.count = acquiring.count - k + 1
        /\ F[acquiring.count - k + 1] = e
        /\ F = Append(SubSeq(E, k + 1, Len(E)), e)
    BY DEF AddEffect, Pushed, Old
  <1>6. e.ev = n /\ e.ts = now BY DEF Stamped
  <1>7. Last(F) = e BY <1>4, <1>5 DEF Last
  <1>8. F # <<>>
    <2>1. Len(F) # 0 BY <1>2, <1>4, <1>5
    <2> HIDE DEF F
    <2> QED BY <2>1
  <1>9. out' = out BY DEF AddData, loopVars
  <1>10. \A x \in Added : x < n BY AddOrder DEF WInv
  <1>11. Stream!FirstCopy(e) \/ Stream!NextCopy(e) BY CopyMaps
  <1>12. \A i \in DOMAIN out : out[i] < e.ev BY <1>6, <1>10 DEF StreamInv
  <1>13. ASSUME NEW i \in DOMAIN E PROVE e.ts - E[i].ts > TimeWindow <=> i <= k
    <2>1. /\ \A j \in 1 .. k : now - E[j].ts > TimeWindow
          /\ k < acquiring.count => ~(now - E[k + 1].ts > TimeWindow)
      BY <1>6 DEF AddEffect, Pushed, Old
    <2>2. CASE i <= k
      <3>1. i \in 1 .. k BY <1>2, <1>5, <2>2
      <3> QED BY <1>6, <2>1, <2>2, <3>1
    <2>3. CASE ~(i <= k)
      <3>1. /\ k < acquiring.count /\ k + 1 \in 1 .. acquiring.count
            /\ (i = k + 1 \/ k + 1 < i)
        BY <1>2, <1>5, <2>3
      <3>2. now \in Nat BY QueueFacts DEF WInv
      <3>3. E[i].ts \in 0 .. now /\ E[k + 1].ts \in 0 .. now
        BY <1>2, <3>1, StampBounds DEF WInv
      <3>4. i = k + 1 \/ E[k + 1].ts <= E[i].ts BY <1>2, <3>1 DEF StreamInv
      <3>5. PICK x \in Nat, y \in Nat : x = E[i].ts /\ y = E[k + 1].ts BY <3>2, <3>3
      <3>6. y <= x BY <3>4, <3>5
      <3>7. ~(now - y > TimeWindow) BY <2>1, <3>1, <3>5
      <3>8. ~(now - x > TimeWindow) BY <3>2, <3>5, <3>6, <3>7, WindowConstants
      <3> QED BY <1>6, <2>3, <3>5, <3>8
    <2> QED BY <2>2, <2>3
  <1>14. k \in 0 .. Len(E) BY <1>2, <1>5
  <1> HIDE DEF E, F, e
  <1>15. /\ F # <<>>
         /\ \E j \in 0 .. Len(E) :
              /\ F = Append(SubSeq(E, j + 1, Len(E)), Last(F))
              /\ \A i \in DOMAIN E : Last(F).ts - E[i].ts > TimeWindow <=> i <= j
         /\ Stream!FirstCopy(Last(F)) \/ Stream!NextCopy(Last(F))
         /\ \A i \in DOMAIN out : out[i] < Last(F).ev
         /\ out' = out
    BY <1>5, <1>7, <1>8, <1>9, <1>11, <1>12, <1>13, <1>14
  <1>16. Stream!Last(F) = Last(F) BY DEF Stream!Last, Last
  <1> QED BY <1>15, <1>16 DEF Stream!Add, E, F

LEMMA SubmitIsSubmit ==
  ASSUME WInv, StreamInv, SubmitWindow
  PROVE  Stream!Submit
  <1>1. PICK r : IsRing(acquiring, r) BY DEF WInv, WTypes, Rings
  <1>2. DOMAIN Entries(acquiring) = 1 .. acquiring.count BY <1>1, RingEntries
  <1>3. fetchWindow(acquiring) = [i \in DOMAIN Entries(acquiring) |-> Entries(acquiring)[i].ev]
    BY <1>2 DEF fetchWindow
  <1>4. out' = out \o fetchWindow(acquiring) /\ acquiring' = EmptyBuffer(Reserve)
    BY SubmitEffect DEF WInv
  <1>5. Reserve \in Nat \ {0} BY WindowConstants
  <1>6. Entries(acquiring') = <<>> BY <1>4, <1>5, EmptyRing
  <1>7. kind.type = "timed" /\ NoReader BY DEF SubmitWindow
  <1>8. Stream!Complete BY <1>7, CompleteMaps
  <1> QED BY <1>3, <1>4, <1>6, <1>8 DEF Stream!Submit

LEMMA StreamStepMaps ==
  ASSUME WInv, StreamInv, [WindowNext]_windowVars
  PROVE  [Stream!Next]_<<Entries(acquiring), out>>
  <1>1. CASE SubmitWindow BY <1>1, SubmitIsSubmit DEF Stream!Next
  <1>2. CASE \E n \in busy : AddData(n) /\ AddToWindow(n) /\ registered
    <2>1. PICK n \in busy : AddData(n) /\ AddToWindow(n) /\ registered BY <1>2
    <2>2. PICK k : AddEffect(n, k) BY <2>1, AddToWindowEffect DEF WInv
    <2>3. Stream!Add BY <2>1, <2>2, AddIsAdd DEF AddToWindow
    <2> QED BY <2>3 DEF Stream!Next
  <1>3. CASE ~SubmitWindow /\ ~(\E n \in busy : AddData(n) /\ AddToWindow(n) /\ registered)
    <2>1. UNCHANGED <<acquiring, out>> BY <1>3, QuietStep
    <2> QED BY <2>1
  <1> QED BY <1>1, <1>2, <1>3

LEMMA StreamInitMaps ==
  ASSUME WindowInit
  PROVE  StreamInv /\ Stream!Init
  <1>1. Reserve \in Nat \ {0} BY WindowConstants
  <1>2. acquiring = EmptyBuffer(Reserve) /\ out = <<>> BY DEF WindowInit
  <1>3. Entries(acquiring) = <<>> BY <1>1, <1>2, EmptyRing
  <1>4. acquiring.count = 0 BY <1>2 DEF EmptyBuffer
  <1>5. busy = {} BY DEF WindowInit
  <1> QED BY <1>2, <1>3, <1>4, <1>5 DEF StreamInv, NewestOK, Stream!Init

(* The rings of BackTimedBufferedSnapshotOpInfo, their swap and the partial  *)
(* submissions implement EventStream for every window, reserve and growth    *)
(* factor: the events are published in the order of arrival, each one once   *)
(* for every place of its PV in the list of the command (addData is called   *)
(* for every entry of pv_snapshot_map_), its copies one after the other, and *)
(* one is left out only if a later one found it older than the window.       *)
THEOREM WindowsImplementStream == WindowSpec => ImplementsStream
  <1>1. WindowInit => WInv /\ StreamInv /\ Stream!Init BY WInvInit, StreamInitMaps
  <1>2. WInv /\ StreamInv /\ [WindowNext]_windowVars => (WInv /\ StreamInv)'
    BY WInvStep, StreamStep
  <1>3. WInv /\ StreamInv /\ [WindowNext]_windowVars => [Stream!Next]_<<Entries(acquiring), out>>
    BY StreamStepMaps
  <1> QED BY <1>1, <1>2, <1>3, PTL DEF WindowSpec, ImplementsStream, Stream!Spec

=============================================================================
