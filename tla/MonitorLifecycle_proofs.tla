----------------------- MODULE MonitorLifecycle_proofs -----------------------
(* Proofs about MonitorLifecycle. *)
EXTENDS MonitorLifecycle, FiniteSetTheorems, TLAPS

\* The initial contents of a worker's locals are in range.
LEMMA AnyTypes == AnyMonitor \in Monitor /\ AnySer \in Ser
BY MonitorConstants DEF AnyMonitor, AnySer

\* The set of PV names with a row is finite, so an order of it is a sequence.
LEMMA OrdersAreSeqs ==
  ASSUME NEW P \in SUBSET Pv
  PROVE  Orders(P) \subseteq Seq(Pv)
<1>1. IsFiniteSet(P) BY MonitorConstants, FS_Subset
<1>2. Cardinality(P) \in Nat BY <1>1, FS_CardinalityType
<1> SUFFICES ASSUME NEW q \in Orders(P) PROVE q \in Seq(Pv)
  OBVIOUS
<1>3. q \in [1 .. Cardinality(P) -> P] BY DEF Orders
<1>4. q \in [1 .. Cardinality(P) -> Pv] BY <1>3
<1> QED BY <1>2, <1>4

\* A worker that is busy has a monitor to handle.
Busy == \A w \in Worker : pc[w] # "idle" => job[w] # <<>>

TInv == TypeOK /\ Busy

\* The monitor a busy worker handles, and its PV.
LEMMA HeadMonitor ==
  ASSUME TInv, NEW w \in Worker, pc[w] # "idle"
  PROVE  Current(w) \in Monitor /\ PvAt(w) \in Pv
<1>1. job[w] \in Seq(Monitor) /\ job[w] # <<>> BY DEF TInv, TypeOK, Busy
<1>2. Head(job[w]) \in Monitor BY <1>1
<1> QED BY <1>2, MonitorConstants DEF Current, PvAt

\* A command of more than one monitor is not done after the first.
LEMMA TailNotEmpty ==
  ASSUME NEW s \in Seq(Monitor), s # <<>>, Len(s) # 1
  PROVE  Tail(s) # <<>>
<1>1. Len(s) \in Nat /\ Len(s) # 0 OBVIOUS
<1>2. Len(Tail(s)) = Len(s) - 1 OBVIOUS
<1>3. Len(Tail(s)) # 0 BY <1>1, <1>2
<1> SUFFICES ASSUME Tail(s) = <<>> PROVE FALSE
  OBVIOUS
<1>4. Len(<<>>) = 0 OBVIOUS
<1> QED BY <1>3, <1>4, Zenon

\* addChannelMonitor adds monitors with a serialization.
LEMMA ConfiguredType ==
  ASSUME TypeOK, NEW t \in Thread
  PROVE  Configured(t) \subseteq Monitor \X Ser
<1>1. job[t] \in Seq(Monitor) /\ job_ser[t] \in Ser BY DEF TypeOK, Worker
<1>2. Mentioned(t) \subseteq Monitor BY <1>1 DEF Mentioned
<1>3. \A m \in Mentioned(t) : <<m, job_ser[t]>> \in Monitor \X Ser BY <1>1, <1>2
<1> QED BY <1>3 DEF Configured, TypeOK

\* Every step keeps TInv: one step per action, one per variable it changes.
LEMMA TypeStep ==
  ASSUME TInv, [Next]_vars
  PROVE  TInv'
<1> USE MonitorConstants
<1> USE DEF TInv, TypeOK, Busy, Worker, Point, Phase, Age, Old, Unset, store, rowFlags, topics, workers, scanVars
<1>1. CASE Restart
  <2>1. config' \subseteq Monitor \X Ser BY <1>1 DEF Restart
  <2>2. live' \in [Monitor -> BOOLEAN] BY <1>1 DEF Restart
  <2>3. ser' \in [Monitor -> Ser] BY <1>1 DEF Restart
  <2>4. quiet' \in [Monitor -> Age] BY <1>1 DEF Restart
  <2> QED BY <1>1, <2>1, <2>2, <2>3, <2>4 DEF Restart
<1>2. CASE Crash
  BY <1>2, AnyTypes DEF Crash
<1>3. CASE Tick
  <2>1. purge' \in [Monitor -> Age \cup {Unset}] BY <1>3 DEF Tick, Older
  <2>2. found_purge' \in Age \cup {Unset} BY <1>3 DEF Tick, Older
  <2>3. quiet' \in [Monitor -> Age] BY <1>3 DEF Tick, Older
  <2> QED BY <1>3, <2>1, <2>2, <2>3 DEF Tick
<1>4. CASE Consumers
  BY <1>4 DEF Consumers
<1>5. ASSUME NEW t \in Thread, NEW c \in Command, NEW s \in Ser, Receive(t, c, s) PROVE TInv'
  BY <1>5 DEF Receive, Goto
<1>6. ASSUME NEW t \in Thread, StoreMonitorData(t) PROVE TInv'
  <2>1. config' \subseteq Monitor \X Ser
    BY <1>6, ConfiguredType DEF StoreMonitorData, AddChannelMonitor
  <2>2. consul' \subseteq Monitor \X Ser
    BY <1>6, ConfiguredType DEF StoreMonitorData, AddChannelMonitor
  <2>3. live' \in [Monitor -> BOOLEAN] BY <1>6 DEF StoreMonitorData, AddChannelMonitor
  <2>4. ser' \in [Monitor -> Ser] BY <1>6 DEF StoreMonitorData, AddChannelMonitor
  <2>5. purge' \in [Monitor -> Age \cup {Unset}] BY <1>6 DEF StoreMonitorData, AddChannelMonitor
  <2>6. quiet' \in [Monitor -> Age] BY <1>6 DEF StoreMonitorData, AddChannelMonitor
  <2>7. pc' \in [Worker -> Point] BY <1>6 DEF StoreMonitorData, Goto
  <2>8. Busy' BY <1>6 DEF StoreMonitorData, Goto
  <2> QED BY <1>6, <2>1, <2>2, <2>3, <2>4, <2>5, <2>6, <2>7, <2>8 DEF StoreMonitorData
<1>7. ASSUME NEW t \in Thread, StoreFails(t) PROVE TInv'
  <2>1. config' \subseteq Monitor \X Ser
    BY <1>7, ConfiguredType DEF StoreFails, AddChannelMonitor
  <2>2. live' \in [Monitor -> BOOLEAN] BY <1>7 DEF StoreFails, AddChannelMonitor
  <2>3. ser' \in [Monitor -> Ser] BY <1>7 DEF StoreFails, AddChannelMonitor
  <2>4. purge' \in [Monitor -> Age \cup {Unset}] BY <1>7 DEF StoreFails, AddChannelMonitor
  <2>5. quiet' \in [Monitor -> Age]
    BY <1>7 DEF StoreFails, AddChannelMonitor
  <2>6. pc' \in [Worker -> Point] BY <1>7 DEF StoreFails, Goto
  <2>7. job' \in [Worker -> Seq(Monitor)] BY <1>7 DEF StoreFails
  <2>8. Busy' BY <1>7 DEF StoreFails, Goto
  <2> QED BY <1>7, <2>1, <2>2, <2>3, <2>4, <2>5, <2>6, <2>7, <2>8 DEF StoreFails
<1>8. ASSUME NEW w \in Worker, Lookup(w) PROVE TInv'
  BY <1>8 DEF Lookup, Goto
<1>9. ASSUME NEW w \in Worker, FindActive(w) PROVE TInv'
  <2>1. job' \in [Worker -> Seq(Monitor)] BY <1>9 DEF FindActive, Handled
  <2>2. ref_valid' \in [Worker -> BOOLEAN] BY <1>9 DEF FindActive, Handled
  <2>3. pc' \in [Worker -> Point] BY <1>9 DEF FindActive, Handled, Goto
  <2>4. phase' \in Phase BY <1>9 DEF FindActive, Handled
  <2>5. Busy'
    BY <1>9, <2>1, <2>3, TailNotEmpty DEF FindActive, Handled, Goto
  <2> QED BY <1>9, <2>1, <2>2, <2>3, <2>4, <2>5 DEF FindActive
<1>27. ASSUME NEW w \in Worker, NotSanitized(w) PROVE TInv'
  <2>1. job' \in [Worker -> Seq(Monitor)] BY <1>27 DEF NotSanitized, Handled
  <2>2. ref_valid' \in [Worker -> BOOLEAN] BY <1>27 DEF NotSanitized, Handled
  <2>3. pc' \in [Worker -> Point] BY <1>27 DEF NotSanitized, Handled, Goto
  <2>4. phase' \in Phase BY <1>27 DEF NotSanitized, Handled
  <2>5. Busy'
    BY <1>27, <2>1, <2>3, TailNotEmpty DEF NotSanitized, Handled, Goto
  <2> QED BY <1>27, <2>1, <2>2, <2>3, <2>4, <2>5 DEF NotSanitized
<1>10. ASSUME NEW w \in Worker, FindNone(w) PROVE TInv'
  BY <1>10 DEF FindNone, Goto
<1>11. ASSUME NEW w \in Worker, Push(w) PROVE TInv'
  <2>1. active' \in [Monitor -> Nat]
    <3>1. pc[w] # "idle" BY <1>11 DEF Push
    <3>2. Current(w) \in Monitor BY <3>1, HeadMonitor
    <3> QED BY <1>11, <3>2 DEF Push
  <2>2. pc' \in [Worker -> Point] BY <1>11 DEF Push, Goto
  <2>3. Busy' BY <1>11 DEF Push, Goto
  <2> QED BY <1>11, <2>1, <2>2, <2>3 DEF Push
<1>12. ASSUME NEW w \in Worker, Activate(w) PROVE TInv'
  <2>1. requests' \in [Pv -> Nat]
    <3>1. pc[w] # "idle" BY <1>12 DEF Activate
    <3>2. PvAt(w) \in Pv BY <3>1, HeadMonitor
    <3>3. requests' = [requests EXCEPT ![PvAt(w)] = requests[PvAt(w)] + 1] BY <1>12 DEF Activate
    <3>4. requests \in [Pv -> Nat] OBVIOUS
    <3> HIDE DEF TInv, TypeOK, Busy
    <3> QED BY <3>2, <3>3, <3>4
  <2>2. job' \in [Worker -> Seq(Monitor)] BY <1>12 DEF Activate, Handled
  <2>3. ref_valid' \in [Worker -> BOOLEAN] BY <1>12 DEF Activate, Handled
  <2>4. pc' \in [Worker -> Point] BY <1>12 DEF Activate, Handled, Goto
  <2>5. phase' \in Phase BY <1>12 DEF Activate, Handled
  <2>6. Busy'
    BY <1>12, <2>2, <2>4, TailNotEmpty DEF Activate, Handled, Goto
  <2> QED BY <1>12, <2>1, <2>2, <2>3, <2>4, <2>5, <2>6 DEF Activate
<1>13. ASSUME NEW w \in Worker, CreateQueueFails(w) PROVE TInv'
  <2>1. job' \in [Worker -> Seq(Monitor)] BY <1>13 DEF CreateQueueFails, NoRow
  <2>2. ref_valid' \in [Worker -> BOOLEAN] BY <1>13 DEF CreateQueueFails, NoRow
  <2>3. pc' \in [Worker -> Point] BY <1>13 DEF CreateQueueFails, NoRow, Goto
  <2>4. phase' \in Phase BY <1>13 DEF CreateQueueFails, NoRow
  <2>5. todo' \in Seq(Pv)
    <3>1. CASE w = Scanner BY <1>13, <3>1 DEF CreateQueueFails
    <3>2. CASE w # Scanner BY <1>13, <3>2 DEF CreateQueueFails
    <3> QED BY <3>1, <3>2
  <2>6. count' \in Nat BY <1>13 DEF CreateQueueFails, NoRow
  <2>7. found' \in Monitor BY <1>13, AnyTypes DEF CreateQueueFails, NoRow
  <2>8. found_ser' \in Ser BY <1>13, AnyTypes DEF CreateQueueFails, NoRow
  <2>9. found_purge' \in Age \cup {Unset} BY <1>13 DEF CreateQueueFails, NoRow
  <2>10. flag' \in {-1, 0, 1} BY <1>13 DEF CreateQueueFails, NoRow
  <2>11. Busy' BY <1>13 DEF CreateQueueFails, NoRow, Goto
  <2> QED BY <1>13, <2>1, <2>2, <2>3, <2>4, <2>5, <2>6, <2>7, <2>8, <2>9, <2>10, <2>11 DEF CreateQueueFails
<1>14. CASE ScanBegin
  <2>1. todo' \in Seq(Pv)
    <3>1. {PvOf[m] : m \in {n \in Monitor : live[n]}} \in SUBSET Pv OBVIOUS
    <3> QED BY <1>14, <3>1, OrdersAreSeqs DEF ScanBegin
  <2> QED BY <1>14, <2>1 DEF ScanBegin
<1>15. CASE NextPv
  <2>1. count' \in Nat BY <1>15 DEF NextPv
  <2>2. todo' \in Seq(Pv) BY <1>15 DEF NextPv
  <2> QED BY <1>15, <2>1, <2>2 DEF NextPv
<1>16. ASSUME NEW m \in Monitor, Pick(m) PROVE TInv'
  <2>1. count' \in Nat BY <1>16 DEF Pick
  <2>2. found' \in Monitor BY <1>16 DEF Pick
  <2>3. found_ser' \in Ser BY <1>16 DEF Pick
  <2>4. found_purge' \in Age \cup {Unset} BY <1>16 DEF Pick
  <2>5. job' \in [Worker -> Seq(Monitor)]
    <3>1. <<m>> \in Seq(Monitor) BY <1>16
    <3> QED BY <1>16, <3>1 DEF Pick
  <2>6. pc' \in [Worker -> Point] BY <1>16 DEF Pick, Goto
  <2>7. Busy'
    <3>1. <<m>> # <<>> OBVIOUS
    <3> QED BY <1>16, <3>1, <2>5, <2>6 DEF Pick, Goto
  <2> QED BY <1>16, <2>1, <2>2, <2>3, <2>4, <2>5, <2>6, <2>7 DEF Pick
<1>17. CASE ScanEnd
  BY <1>17 DEF ScanEnd
<1>18. CASE Check
  <2>1. flag' \in {-1, 0, 1} BY <1>18 DEF Check
  <2>2. phase' \in Phase BY <1>18 DEF Check
  <2>3. quiet' \in [Monitor -> Age] BY <1>18 DEF Check
  <2> QED BY <1>18, <2>1, <2>2, <2>3 DEF Check
<1>19. CASE StopErase
  <2>1. active' \in [Monitor -> Nat]
    <3>1. found \in Monitor /\ active \in [Monitor -> Nat] OBVIOUS
    <3>2. active' = [active EXCEPT ![found] = IF active[found] > 0 THEN active[found] - 1 ELSE 0]
      BY <1>19 DEF StopErase
    <3> HIDE DEF TInv, TypeOK, Busy
    <3> QED BY <3>1, <3>2
  <2>2. phase' \in Phase BY <1>19 DEF StopErase
  <2> QED BY <1>19, <2>1, <2>2 DEF StopErase
<1>20. CASE StopRelease
  <2>1. requests' \in [Pv -> Nat]
    <3>1. found \in Monitor /\ PvOf[found] \in Pv /\ requests \in [Pv -> Nat] OBVIOUS
    <3>2. requests' = [requests EXCEPT ![PvOf[found]] = CountDown(requests[PvOf[found]])]
      BY <1>20 DEF StopRelease
    <3>3. CountDown(requests[PvOf[found]]) \in Nat BY <3>1 DEF CountDown
    <3> HIDE DEF TInv, TypeOK, Busy
    <3> QED BY <3>1, <3>2, <3>3
  <2>2. phase' \in Phase BY <1>20 DEF StopRelease
  <2> QED BY <1>20, <2>1, <2>2 DEF StopRelease
<1>21. CASE StopEraseKey
  BY <1>21 DEF StopEraseKey
<1>22. CASE Remove
  <2>1. live' \in [Monitor -> BOOLEAN] BY <1>22 DEF Remove, NoRow
  <2>2. ser' \in [Monitor -> Ser] BY <1>22, AnyTypes DEF Remove, NoRow
  <2>3. processed' \in [Monitor -> BOOLEAN] BY <1>22 DEF Remove, NoRow
  <2>4. purge' \in [Monitor -> Age \cup {Unset}] BY <1>22 DEF Remove, NoRow
  <2>5. quiet' \in [Monitor -> Age] BY <1>22 DEF Remove, NoRow
  <2>6. config' \subseteq Monitor \X Ser BY <1>22 DEF Remove, NoRow
  <2>7. consul' \subseteq Monitor \X Ser BY <1>22 DEF Remove, NoRow
  <2>8. found' \in Monitor BY <1>22, AnyTypes DEF Remove, NoRow
  <2>9. found_ser' \in Ser BY <1>22, AnyTypes DEF Remove, NoRow
  <2>10. found_purge' \in Age \cup {Unset} BY <1>22 DEF Remove, NoRow
  <2>11. flag' \in {-1, 0, 1} BY <1>22 DEF Remove, NoRow
  <2> QED BY <1>22, <2>1, <2>2, <2>3, <2>4, <2>5, <2>6, <2>7, <2>8, <2>9, <2>10, <2>11 DEF Remove
<1>23. CASE Tag
  <2>1. purge' \in [Monitor -> Age \cup {Unset}] BY <1>23 DEF Tag, Tagged, PurgeTs, NoRow
  <2>2. processed' \in [Monitor -> BOOLEAN] BY <1>23 DEF Tag, Tagged, PurgeTs, NoRow
  <2>3. found' \in Monitor BY <1>23, AnyTypes DEF Tag, Tagged, PurgeTs, NoRow
  <2>4. found_ser' \in Ser BY <1>23, AnyTypes DEF Tag, Tagged, PurgeTs, NoRow
  <2>5. found_purge' \in Age \cup {Unset} BY <1>23 DEF Tag, Tagged, PurgeTs, NoRow
  <2>6. flag' \in {-1, 0, 1} BY <1>23 DEF Tag, Tagged, PurgeTs, NoRow
  <2> QED BY <1>23, <2>1, <2>2, <2>3, <2>4, <2>5, <2>6 DEF Tag
<1>24. CASE CheckFails
  BY <1>24 DEF CheckFails
<1>25. CASE DeleteQueueFails
  BY <1>25 DEF DeleteQueueFails
<1>26. CASE UNCHANGED vars BY <1>26 DEF vars
<1> QED
  BY <1>1, <1>2, <1>3, <1>4, <1>5, <1>6, <1>7, <1>8, <1>9, <1>10, <1>11, <1>12, <1>13,
     <1>14, <1>15, <1>16, <1>17, <1>18, <1>19, <1>20, <1>21, <1>22, <1>23, <1>24, <1>25, <1>26, <1>27
     DEF Next, StartStep, ScanStep

\* The initial state has TInv.
LEMMA TypeInit == Init => TInv
<1> SUFFICES ASSUME Init PROVE TInv
  OBVIOUS
<1> USE MonitorConstants, AnyTypes DEF Init
<1>1. mode \in {"down", "starting", "ready"} /\ consul \subseteq Monitor \X Ser /\ config \subseteq Monitor \X Ser
  OBVIOUS
<1>2. live \in [Monitor -> BOOLEAN] /\ ser \in [Monitor -> Ser] /\ processed \in [Monitor -> BOOLEAN]
  OBVIOUS
<1>3. purge \in [Monitor -> Age \cup {Unset}] /\ quiet \in [Monitor -> Age] /\ found_purge \in Age \cup {Unset}
  BY DEF Age, Old, Unset
<1>4. active \in [Monitor -> Nat] /\ requests \in [Pv -> Nat]
  OBVIOUS
<1>5. pc \in [Worker -> Point] BY DEF Point
<1>6. job \in [Worker -> Seq(Monitor)] /\ todo \in Seq(Pv)
  OBVIOUS
<1>7. job_ser \in [Worker -> Ser] /\ ref_valid \in [Worker -> BOOLEAN] /\ readers \in BOOLEAN
  OBVIOUS
<1>8. phase \in Phase /\ count \in Nat /\ found \in Monitor /\ found_ser \in Ser /\ flag \in {-1, 0, 1}
  BY DEF Phase
<1>9. Busy BY DEF Busy
<1> QED BY <1>1, <1>2, <1>3, <1>4, <1>5, <1>6, <1>7, <1>8, <1>9 DEF TInv, TypeOK

\* TypeOK holds: no action of the commands, the scans, a crash or a restart
\* leaves the declared ranges; in particular keep_alive does not go below 0.
THEOREM MonitorTypeCorrect == Spec => []TypeOK
<1>1. Init => TInv BY TypeInit
<1>2. TInv /\ [Next]_vars => TInv' BY TypeStep
<1>3. TInv => TypeOK BY DEF TInv
<1> QED BY <1>1, <1>2, <1>3, PTL DEF Spec

\* The two parts of RowsConfigured for one monitor.
RowOf(m) == live[m] => <<m, ser[m]>> \in config
Ghost(m) == OneSerialization /\ ~live[m] => \A s \in Ser : <<m, s>> \notin config

\* addChannelMonitor keeps RowsConfigured.
LEMMA AddRows ==
  ASSUME TypeOK, RowsConfigured, NEW t \in Thread, AddChannelMonitor(t)
  PROVE  RowsConfigured'
<1>1. job_ser[t] \in Ser BY DEF TypeOK, Worker
<1> SUFFICES ASSUME NEW m \in Monitor PROVE RowOf(m)' /\ Ghost(m)'
  BY DEF RowsConfigured, RowOf, Ghost
<1>2. RowOf(m) /\ Ghost(m) BY DEF RowsConfigured, RowOf, Ghost
<1>3. live'[m] = (live[m] \/ m \in Fresh(t)) BY DEF AddChannelMonitor
<1>4. ser'[m] = IF m \in Fresh(t) /\ ~live[m] THEN job_ser[t] ELSE ser[m]
  BY DEF AddChannelMonitor
<1>5. config' = config \cup {<<n, job_ser[t]>> : n \in Mentioned(t)}
  BY DEF AddChannelMonitor, Configured
<1>6. RowOf(m)' BY <1>2, <1>3, <1>4, <1>5 DEF RowOf, Fresh
<1>7. Ghost(m)' BY <1>1, <1>2, <1>3, <1>5 DEF Ghost, Fresh, OneSerialization
<1> QED BY <1>6, <1>7

\* removeChannelMonitor keeps RowsConfigured: it takes the row's own entry.
LEMMA RemoveRows ==
  ASSUME TypeOK, RowsConfigured, Remove
  PROVE  RowsConfigured'
<1>1. found \in Monitor /\ found_ser \in Ser BY DEF TypeOK
<1> SUFFICES ASSUME NEW m \in Monitor PROVE RowOf(m)' /\ Ghost(m)'
  BY DEF RowsConfigured, RowOf, Ghost
<1>2. RowOf(m) /\ Ghost(m) BY DEF RowsConfigured, RowOf, Ghost
<1>3. config' = config \ {<<found, found_ser>>} BY DEF Remove
<1>4. CASE m = found
  <2>1. ~live'[m] BY <1>4 DEF Remove, TypeOK
  <2>2. ASSUME OneSerialization, NEW s \in Ser PROVE <<m, s>> \notin config'
    BY <1>1, <1>3, <1>4, <2>2 DEF OneSerialization
  <2> QED BY <2>1, <2>2 DEF RowOf, Ghost, OneSerialization
<1>5. CASE m # found
  <2>1. live'[m] = live[m] /\ ser'[m] = ser[m] BY <1>5 DEF Remove, TypeOK
  <2> QED BY <1>2, <1>3, <1>5, <2>1 DEF RowOf, Ghost, OneSerialization
<1> QED BY <1>4, <1>5

\* loadNodeConfiguration establishes RowsConfigured.
LEMMA RestartRows ==
  ASSUME TypeOK, Restart
  PROVE  RowsConfigured'
<1>1. config' = consul BY DEF Restart
<1>2. ASSUME NEW m \in Monitor
      PROVE  live'[m] = (\E s \in Ser : <<m, s>> \in consul) /\ (live'[m] => <<m, ser'[m]>> \in consul)
  BY <1>2 DEF Restart
<1> QED BY <1>1, <1>2 DEF RowsConfigured

RInv == TInv /\ RowsConfigured

\* Every step keeps RowsConfigured.
LEMMA RowsStep ==
  ASSUME RInv, [Next]_vars
  PROVE  RowsConfigured'
<1> USE DEF RInv, TInv
<1>1. CASE Restart BY <1>1, RestartRows
<1>2. CASE Crash BY <1>2 DEF Crash, RowsConfigured
<1>3. ASSUME NEW t \in Thread, StoreMonitorData(t) \/ StoreFails(t) PROVE RowsConfigured'
  BY <1>3, AddRows DEF StoreMonitorData, StoreFails
<1>4. CASE Remove BY <1>4, RemoveRows
<1>5. CASE UNCHANGED store BY <1>5 DEF store, RowsConfigured
<1>6. ASSUME NEW w \in Worker, StartStep(w) \/ CreateQueueFails(w) PROVE UNCHANGED store
  BY <1>6 DEF StartStep, CreateQueueFails, Lookup, NotSanitized, FindActive, FindNone, Push, Activate
<1>7. ASSUME ScanStep, ~Remove PROVE UNCHANGED store
  BY <1>7 DEF ScanStep, ScanBegin, NextPv, Pick, ScanEnd, Check, StopErase, StopRelease, StopEraseKey, Tag
<1>8. ASSUME Tick \/ Consumers \/ CheckFails \/ DeleteQueueFails PROVE UNCHANGED store
  BY <1>8 DEF Tick, Consumers, CheckFails, DeleteQueueFails
<1>9. ASSUME NEW t \in Thread, NEW c \in Command, NEW s \in Ser, Receive(t, c, s) PROVE UNCHANGED store
  BY <1>9 DEF Receive
<1>10. CASE UNCHANGED vars BY <1>5, <1>10 DEF vars
<1> QED
  BY <1>1, <1>2, <1>3, <1>4, <1>5, <1>6, <1>7, <1>8, <1>9, <1>10 DEF Next

\* RowsConfigured holds for any number of monitors, threads and failed calls to
\* the server: the database and the configuration never disagree about a
\* monitor, across stores, purges, crashes and restarts.
THEOREM RowsAlwaysConfigured == Spec => []RowsConfigured
<1>1. Init => RInv
  BY TypeInit DEF Init, RInv, RowsConfigured
<1>2. RInv /\ [Next]_vars => RInv' BY TypeStep, RowsStep DEF RInv
<1>3. RInv => RowsConfigured BY DEF RInv
<1> QED BY <1>1, <1>2, <1>3, PTL DEF Spec

(***************************************************************************)
(* A monitor is only stopped when it was idle for long enough.  The purge  *)
(* time of a row is no older than its last sign of use, except between the *)
(* check that sees consumers and the reset of the time; and the copy that  *)
(* the scan decides on is as good, because a row in the scan's hands stays *)
(* in the database.                                                        *)
(***************************************************************************)
PurgeYounger(m) ==
  purge[m] # Unset =>
    /\ live[m]
    /\ mode # "down"
    /\ purge[m] <= quiet[m] \/ (m = found /\ phase = "tag" /\ flag = -1)

Control ==
  /\ mode = "down" => phase = "idle" /\ \A w \in Worker : pc[w] = "idle"
  /\ pc[Scanner] # "idle" => phase = "start" /\ Len(job[Scanner]) = 1

FoundLive == phase \notin {"idle", "pick"} => live[found]

CopyYounger == phase = "check" /\ found_purge # Unset => found_purge <= quiet[found]

IdleInv ==
  /\ TInv
  /\ Control
  /\ FoundLive
  /\ CopyYounger
  /\ \A m \in Monitor : PurgeYounger(m)

\* The scan's thread handles a Start only inside a startup scan, and nothing runs
\* while the process is down.
LEMMA ControlStep ==
  ASSUME TInv, Control, [Next]_vars
  PROVE  Control'
<1> USE DEF Control, TInv, TypeOK, Worker, scanVars, workers, Goto
<1>1. CASE Restart BY <1>1 DEF Restart
<1>2. CASE Crash BY <1>2 DEF Crash
<1>3. CASE Tick \/ Consumers BY <1>3 DEF Tick, Consumers
<1>4. ASSUME NEW t \in Thread, NEW c \in Command, NEW s \in Ser, Receive(t, c, s) PROVE Control'
  BY <1>4, MonitorConstants DEF Receive
<1>5. ASSUME NEW t \in Thread, StoreMonitorData(t) \/ StoreFails(t) PROVE Control'
  BY <1>5, MonitorConstants DEF StoreMonitorData, StoreFails
<1>6. ASSUME NEW w \in Worker, Lookup(w) \/ FindNone(w) \/ Push(w) PROVE Control'
  BY <1>6 DEF Lookup, FindNone, Push
<1>7. ASSUME NEW w \in Worker, NotSanitized(w) \/ FindActive(w) \/ Activate(w) PROVE Control'
  <2>1. pc[w] # "idle" /\ mode # "down" /\ mode' = mode BY <1>7 DEF NotSanitized, FindActive, Activate
  <2>2. Handled(w) BY <1>7 DEF NotSanitized, FindActive, Activate
  <2>3. CASE w = Scanner
    <3>1. pc'[Scanner] = "idle" BY <2>1, <2>2, <2>3 DEF Handled
    <3> QED BY <2>1, <3>1
  <2>4. CASE w # Scanner BY <2>1, <2>2, <2>4 DEF Handled
  <2> QED BY <2>3, <2>4
<1>8. ASSUME NEW w \in Worker, CreateQueueFails(w) PROVE Control'
  BY <1>8, MonitorConstants DEF CreateQueueFails
<1>9. CASE ScanBegin \/ NextPv \/ ScanEnd BY <1>9 DEF ScanBegin, NextPv, ScanEnd
<1>10. ASSUME NEW m \in Monitor, Pick(m) PROVE Control'
  <2>1. CASE mode = "starting"
    <3>1. job'[Scanner] = <<m>> /\ phase' = "start" /\ mode' = mode BY <1>10, <2>1 DEF Pick
    <3>2. Len(job'[Scanner]) = 1 BY <3>1
    <3> QED BY <2>1, <3>1, <3>2
  <2>2. CASE mode # "starting" BY <1>10, <2>2 DEF Pick
  <2> QED BY <2>1, <2>2
<1>11. CASE Check \/ CheckFails \/ DeleteQueueFails \/ Remove \/ Tag
  BY <1>11 DEF Check, CheckFails, DeleteQueueFails, Remove, Tag
<1>12. CASE StopErase \/ StopRelease \/ StopEraseKey
  BY <1>12 DEF StopErase, StopRelease, StopEraseKey
<1>13. CASE UNCHANGED vars BY <1>13 DEF vars
<1> QED
  BY <1>1, <1>2, <1>3, <1>4, <1>5, <1>6, <1>7, <1>8, <1>9, <1>10, <1>11, <1>12, <1>13
     DEF Next, StartStep, ScanStep

\* Time keeps the order of two ages.
LEMMA YoungerPurge ==
  ASSUME NEW a \in Age, NEW b \in Age, a <= b
  PROVE  Older(a) \in Age /\ Older(a) <= Older(b) /\ Older(a) # Unset
BY MonitorConstants DEF Older, Age, Old, Unset

\* A step that leaves the rows, the ages and the scan's copy alone keeps the
\* relation between them, unless it moves the scan.
LEMMA QuietStep ==
  ASSUME IdleInv, UNCHANGED <<live, purge, quiet, found, found_purge, flag>>,
         mode' = "down" => mode = "down",
         phase' = phase
  PROVE  FoundLive' /\ CopyYounger' /\ \A m \in Monitor : PurgeYounger(m)'
BY DEF IdleInv, FoundLive, CopyYounger, PurgeYounger

\* The scan moves on, but not to the check and not away from the tag.
LEMMA MoveStep ==
  ASSUME IdleInv, UNCHANGED <<mode, live, purge, quiet, found, found_purge, flag>>,
         phase # "tag", phase' # "check",
         phase' \in {"idle", "pick"} \/ phase \notin {"idle", "pick"}
  PROVE  FoundLive' /\ CopyYounger' /\ \A m \in Monitor : PurgeYounger(m)'
BY DEF IdleInv, FoundLive, CopyYounger, PurgeYounger

\* Time passes.
LEMMA TickIdle ==
  ASSUME IdleInv, Tick
  PROVE  FoundLive' /\ CopyYounger' /\ \A m \in Monitor : PurgeYounger(m)'
<1> USE DEF IdleInv, TInv, TypeOK
<1>1. UNCHANGED <<live, mode, phase, found, flag>> BY DEF Tick, store
<1>2. ASSUME NEW m \in Monitor PROVE PurgeYounger(m)'
  <2>1. purge'[m] = Older(purge[m]) /\ quiet'[m] = Older(quiet[m]) BY DEF Tick
  <2>2. PurgeYounger(m) OBVIOUS
  <2>3. CASE purge[m] = Unset BY <2>1, <2>3 DEF Older, PurgeYounger
  <2>4. CASE purge[m] # Unset
    <3>1. purge[m] \in Age /\ quiet[m] \in Age BY <2>4
    <3>2. purge[m] <= quiet[m] => purge'[m] <= quiet'[m] BY <2>1, <3>1, YoungerPurge
    <3> QED BY <1>1, <2>2, <2>4, <3>2 DEF PurgeYounger
  <2> QED BY <2>3, <2>4
<1>3. CopyYounger'
  <2>1. found_purge' = Older(found_purge) /\ quiet'[found] = Older(quiet[found]) BY DEF Tick
  <2>2. CASE found_purge = Unset BY <2>1, <2>2 DEF Older, CopyYounger
  <2>3. CASE found_purge # Unset
    <3>1. found_purge \in Age /\ quiet[found] \in Age BY <2>3
    <3>2. found_purge <= quiet[found] => found_purge' <= quiet'[found] BY <2>1, <3>1, YoungerPurge
    <3> QED BY <1>1, <2>3, <3>2 DEF CopyYounger
  <2> QED BY <2>2, <2>3
<1> QED BY <1>1, <1>2, <1>3 DEF FoundLive

\* addChannelMonitor only touches the ages of rows it inserts.
LEMMA AddIdle ==
  ASSUME IdleInv, NEW t \in Thread, AddChannelMonitor(t), UNCHANGED <<mode, scanVars>>
  PROVE  FoundLive' /\ CopyYounger' /\ \A m \in Monitor : PurgeYounger(m)'
<1> USE DEF IdleInv, TInv, TypeOK, scanVars
<1>1. \A m \in Monitor : live[m] => live'[m] /\ quiet'[m] = quiet[m] BY DEF AddChannelMonitor
<1>2. \A m \in Monitor : purge'[m] = Unset \/ purge'[m] = purge[m] BY DEF AddChannelMonitor
<1>3. FoundLive' BY <1>1 DEF FoundLive
<1>4. CopyYounger' BY <1>1 DEF CopyYounger, FoundLive
<1>5. \A m \in Monitor : PurgeYounger(m)' BY <1>1, <1>2 DEF PurgeYounger
<1> QED BY <1>3, <1>4, <1>5

\* The copy of the row is as young as the row.
LEMMA PickIdle ==
  ASSUME IdleInv, NEW m \in Monitor, Pick(m)
  PROVE  FoundLive' /\ CopyYounger' /\ \A n \in Monitor : PurgeYounger(n)'
<1> USE DEF IdleInv, TInv, TypeOK
<1>1. UNCHANGED <<mode, live, purge, quiet>> BY DEF Pick, store, rowFlags
<1>2. phase = "pick" /\ found' = m /\ found_purge' = purge[m] /\ live[m] BY DEF Pick, Unprocessed
<1>3. FoundLive' BY <1>1, <1>2 DEF FoundLive
<1>4. CopyYounger' BY <1>1, <1>2 DEF CopyYounger, PurgeYounger
<1>5. \A n \in Monitor : PurgeYounger(n)' BY <1>1, <1>2 DEF PurgeYounger
<1> QED BY <1>3, <1>4, <1>5

\* The check of the consumers.
LEMMA CheckIdle ==
  ASSUME IdleInv, Check
  PROVE  FoundLive' /\ CopyYounger' /\ \A m \in Monitor : PurgeYounger(m)'
<1> USE DEF IdleInv, TInv, TypeOK
<1>1. UNCHANGED <<mode, live, purge, found>> BY DEF Check, store, rowFlags
<1>2. phase = "check" /\ phase' \in {"stop", "tag"} BY DEF Check
<1>3. readers => flag' = -1 /\ phase' = "tag" BY DEF Check, HasConsumers
<1>4. ~readers => quiet' = quiet BY DEF Check
<1>5. \A m \in Monitor : m # found => quiet'[m] = quiet[m] BY DEF Check
<1>6. \A m \in Monitor : PurgeYounger(m)' BY <1>1, <1>2, <1>3, <1>4, <1>5 DEF PurgeYounger
<1> QED BY <1>1, <1>2, <1>6 DEF FoundLive, CopyYounger

\* The purge time is set, reset or left after the handler.
LEMMA TagIdle ==
  ASSUME IdleInv, Tag
  PROVE  FoundLive' /\ CopyYounger' /\ \A m \in Monitor : PurgeYounger(m)'
<1> USE DEF IdleInv, TInv, TypeOK
<1>1. UNCHANGED <<mode, live, quiet>> BY DEF Tag, store
<1>2. phase = "tag" /\ phase' = "pick" /\ live[found] BY DEF Tag, FoundLive
<1>3. \A m \in Monitor : m # found => purge'[m] = purge[m] BY DEF Tag
<1>4. purge'[found] = PurgeTs(flag, purge[found]) BY DEF Tag
<1>5. mode # "down" BY <1>2 DEF Control
<1>6. ASSUME NEW m \in Monitor PROVE PurgeYounger(m)'
  <2>1. CASE m # found BY <1>1, <1>2, <1>3, <2>1 DEF PurgeYounger
  <2>2. CASE m = found /\ flag = -1 BY <1>4, <2>2 DEF PurgeTs, PurgeYounger
  <2>3. CASE m = found /\ flag = 1
    <3>1. purge'[m] = 0 BY <1>4, <2>3 DEF PurgeTs
    <3>2. 0 <= quiet[m] BY MonitorConstants DEF Age, Old
    <3> QED BY <1>1, <1>2, <1>5, <2>3, <3>1, <3>2 DEF PurgeYounger
  <2>4. CASE m = found /\ flag = 0
    <3>1. purge'[m] = purge[m] BY <1>4, <2>4 DEF PurgeTs
    <3> QED BY <1>1, <1>2, <1>5, <2>4, <3>1 DEF PurgeYounger
  <2> QED BY <2>1, <2>2, <2>3, <2>4
<1> QED BY <1>2, <1>6 DEF FoundLive, CopyYounger

\* The row goes away with its purge time.
LEMMA RemoveIdle ==
  ASSUME IdleInv, Remove
  PROVE  FoundLive' /\ CopyYounger' /\ \A m \in Monitor : PurgeYounger(m)'
<1> USE DEF IdleInv, TInv, TypeOK
<1>1. phase = "remove" /\ phase' = "pick" /\ mode' = mode BY DEF Remove
<1>2. purge'[found] = Unset BY DEF Remove
<1>3. \A m \in Monitor : m # found => purge'[m] = purge[m] /\ live'[m] = live[m] /\ quiet'[m] = quiet[m]
  BY DEF Remove
<1>4. \A m \in Monitor : PurgeYounger(m)' BY <1>1, <1>2, <1>3 DEF PurgeYounger
<1> QED BY <1>1, <1>4 DEF FoundLive, CopyYounger

\* An exception ends a command or the startup scan.
LEMMA CreateQueueFailsIdle ==
  ASSUME IdleInv, NEW w \in Worker, CreateQueueFails(w)
  PROVE  FoundLive' /\ CopyYounger' /\ \A m \in Monitor : PurgeYounger(m)'
<1>1. UNCHANGED <<mode, live, purge, quiet>> BY DEF CreateQueueFails, store, rowFlags
<1>2. CASE w = Scanner
  <2>1. phase = "start" BY <1>2 DEF CreateQueueFails, IdleInv, Control
  <2>2. phase' = "idle" BY <1>2 DEF CreateQueueFails
  <2> QED BY <1>1, <2>1, <2>2 DEF IdleInv, FoundLive, CopyYounger, PurgeYounger
<1>3. CASE w # Scanner BY <1>1, <1>3, QuietStep DEF CreateQueueFails, scanVars
<1> QED BY <1>2, <1>3

\* The end of the Start handler.
LEMMA HandledIdle ==
  ASSUME IdleInv, NEW w \in Worker, NotSanitized(w) \/ FindActive(w) \/ Activate(w)
  PROVE  FoundLive' /\ CopyYounger' /\ \A m \in Monitor : PurgeYounger(m)'
<1>1. UNCHANGED <<mode, live, purge, quiet, found, found_purge, flag>>
  BY DEF NotSanitized, FindActive, Activate, store, rowFlags
<1>2. pc[w] # "idle" /\ phase' = IF w = Scanner THEN "tag" ELSE phase
  BY DEF NotSanitized, FindActive, Activate, Handled
<1>3. CASE w = Scanner
  <2>1. phase = "start" BY <1>2, <1>3 DEF IdleInv, Control
  <2> QED BY <1>1, <1>2, <1>3, <2>1, MoveStep
<1>4. CASE w # Scanner BY <1>1, <1>2, <1>4, QuietStep
<1> QED BY <1>3, <1>4

\* Every step keeps IdleInv.
LEMMA IdleStep ==
  ASSUME IdleInv, [Next]_vars
  PROVE  IdleInv'
<1> DEFINE Goal == FoundLive' /\ CopyYounger' /\ \A m \in Monitor : PurgeYounger(m)'
<1>1. TInv' /\ Control' BY TypeStep, ControlStep DEF IdleInv
<1>2. CASE Restart
  <2>1. mode = "down" BY <1>2 DEF Restart
  <2>2. phase' = "idle" /\ purge' = purge BY <1>2, <2>1 DEF Restart, scanVars, rowFlags, IdleInv, Control
  <2>3. \A m \in Monitor : purge[m] = Unset BY <2>1 DEF IdleInv, PurgeYounger
  <2> QED BY <1>1, <2>2, <2>3 DEF IdleInv, FoundLive, CopyYounger, PurgeYounger
<1>3. CASE Crash
  <2>1. phase' = "idle" /\ \A m \in Monitor : purge'[m] = Unset BY <1>3 DEF Crash
  <2> QED BY <1>1, <2>1 DEF IdleInv, FoundLive, CopyYounger, PurgeYounger
<1>4. CASE Tick BY <1>1, <1>4, TickIdle DEF IdleInv
<1>5. CASE Consumers
  <2>1. Goal BY <1>5, QuietStep DEF Consumers, store, rowFlags, scanVars
  <2> QED BY <1>1, <2>1 DEF IdleInv
<1>6. ASSUME NEW t \in Thread, NEW c \in Command, NEW s \in Ser, Receive(t, c, s) PROVE IdleInv'
  <2>1. Goal BY <1>6, QuietStep DEF Receive, store, rowFlags, scanVars
  <2> QED BY <1>1, <2>1 DEF IdleInv
<1>7. ASSUME NEW t \in Thread, StoreMonitorData(t) \/ StoreFails(t) PROVE IdleInv'
  <2>1. Goal BY <1>7, AddIdle DEF StoreMonitorData, StoreFails
  <2> QED BY <1>1, <2>1 DEF IdleInv
<1>8. ASSUME NEW w \in Worker, Lookup(w) \/ FindNone(w) \/ Push(w) PROVE IdleInv'
  <2>1. Goal BY <1>8, QuietStep DEF Lookup, FindNone, Push, store, rowFlags, scanVars
  <2> QED BY <1>1, <2>1 DEF IdleInv
<1>9. ASSUME NEW w \in Worker, NotSanitized(w) \/ FindActive(w) \/ Activate(w) PROVE IdleInv'
  BY <1>1, <1>9, HandledIdle DEF IdleInv
<1>10. ASSUME NEW w \in Worker, CreateQueueFails(w) PROVE IdleInv'
  BY <1>1, <1>10, CreateQueueFailsIdle DEF IdleInv
<1>11. CASE ScanBegin \/ NextPv \/ ScanEnd
  <2>1. UNCHANGED <<live, purge, quiet, found, found_purge, flag>> /\ phase \in {"idle", "pick"} /\ phase' \in {"idle", "pick"}
    BY <1>11 DEF ScanBegin, NextPv, ScanEnd, store, rowFlags
  <2>2. mode' = "down" => mode = "down" BY <1>11 DEF ScanBegin, NextPv, ScanEnd
  <2>3. Goal BY <2>1, <2>2 DEF IdleInv, FoundLive, CopyYounger, PurgeYounger
  <2> QED BY <1>1, <2>3 DEF IdleInv
<1>12. ASSUME NEW m \in Monitor, Pick(m) PROVE IdleInv' BY <1>1, <1>12, PickIdle DEF IdleInv
<1>13. CASE Check BY <1>1, <1>13, CheckIdle DEF IdleInv
<1>14. CASE Tag BY <1>1, <1>14, TagIdle DEF IdleInv
<1>15. CASE Remove BY <1>1, <1>15, RemoveIdle DEF IdleInv
<1>16. CASE CheckFails \/ DeleteQueueFails \/ StopErase \/ StopRelease \/ StopEraseKey
  <2>1. UNCHANGED <<mode, live, purge, quiet, found, found_purge, flag>>
    BY <1>16 DEF CheckFails, DeleteQueueFails, StopErase, StopRelease, StopEraseKey, store, rowFlags
  <2>2. phase \notin {"idle", "pick", "tag"} /\ phase' # "check"
    BY <1>16 DEF CheckFails, DeleteQueueFails, StopErase, StopRelease, StopEraseKey
  <2>3. Goal BY <2>1, <2>2, MoveStep
  <2> QED BY <1>1, <2>3 DEF IdleInv
<1>17. CASE UNCHANGED vars
  <2>1. Goal BY <1>17, QuietStep DEF vars, store, rowFlags, scanVars
  <2> QED BY <1>1, <2>1 DEF IdleInv
<1> QED
  BY <1>2, <1>3, <1>4, <1>5, <1>6, <1>7, <1>8, <1>9, <1>10, <1>11, <1>12, <1>13, <1>14,
     <1>15, <1>16, <1>17 DEF Next, StartStep, ScanStep

\* Only the check goes to the stop.
LEMMA StopIsChecked ==
  ASSUME IdleInv, Next, phase = "check", phase' = "stop"
  PROVE  quiet'[found] > Timeout
<1>1. Check
  <2>1. \A w \in Worker : ~NotSanitized(w) /\ ~FindActive(w) /\ ~Activate(w) /\ ~CreateQueueFails(w)
    BY DEF NotSanitized, FindActive, Activate, CreateQueueFails, Handled, scanVars
  <2> QED BY <2>1
    DEF Next, StartStep, ScanStep, Restart, Crash, Tick, Consumers, Receive, StoreMonitorData,
        StoreFails, Lookup, FindNone, Push, ScanBegin, NextPv, Pick, ScanEnd, StopErase,
        StopRelease, StopEraseKey, Remove, Tag, CheckFails, DeleteQueueFails, scanVars
<1>2. ~readers /\ found_purge # Unset /\ found_purge > Timeout
  BY <1>1 DEF Check, HasConsumers, Expired
<1>3. found_purge <= quiet[found] BY <1>2 DEF IdleInv, CopyYounger
<1>4. quiet' = quiet BY <1>1, <1>2 DEF Check
<1>5. found_purge \in Int /\ quiet[found] \in Int /\ Timeout \in Int
  BY MonitorConstants DEF IdleInv, TInv, TypeOK, Age, Old, Unset
<1> QED BY <1>2, <1>3, <1>4, <1>5

\* IdleLongEnough holds for every timeout, limit and number of command threads:
\* no interleaving of commands, checks that fail, and the copy of the row that a
\* scan works on makes scanForMonitorToStop stop a monitor too early.
THEOREM StoppedOnlyWhenIdle == Spec => IdleLongEnough
<1>1. Init => IdleInv
  BY TypeInit DEF Init, IdleInv, Worker, Control, FoundLive, CopyYounger, PurgeYounger
<1>2. IdleInv /\ [Next]_vars => IdleInv' BY IdleStep
<1>3. IdleInv /\ [Next]_vars => [phase = "check" /\ phase' = "stop" => quiet'[found] > Timeout]_vars
  BY StopIsChecked DEF vars
<1> QED BY <1>1, <1>2, <1>3, PTL DEF Spec, IdleLongEnough

(***************************************************************************)
(* The worker is ready only when everything is restored.  While the node   *)
(* starts no command runs, so that the scan alone changes the monitors: a  *)
(* row is tagged only after its monitor is in channel_topics_map, or its   *)
(* name was refused, an exception leaves it untagged, and a scan that      *)
(* counted nothing went through the PVs of all rows and found none         *)
(* untagged.                                                               *)
(***************************************************************************)
Blank == mode = "down" => \A m \in Monitor : ~processed[m]

Alone ==
  mode = "starting" =>
    /\ \A t \in Thread : pc[t] = "idle"
    /\ phase \in {"idle", "pick", "start", "tag"}

Stored ==
  mode = "starting" => \A m \in Monitor : \A s \in Ser : <<m, s>> \in config => live[m]

\* Active, or with a name that does not sanitize.
Restored(m) == active[m] > 0 \/ PvOf[m] \in Refused

TaggedActive == mode = "starting" => \A m \in Monitor : processed[m] => Restored(m)

HandlerInv ==
  mode = "starting" =>
    /\ phase \in {"start", "tag"} => count > 0
    /\ pc[Scanner] # "idle" => Current(Scanner) = found
    /\ pc[Scanner] \in {"find", "push", "activate"} => ref_valid[Scanner]
    /\ pc[Scanner] = "activate" \/ phase = "tag" => Restored(found)

Ahead(m) == \E i \in 1 .. Len(todo) : todo[i] = PvOf[m]

SweepInv ==
  mode = "starting" /\ phase = "pick" /\ count = 0 =>
    \A m \in Monitor : live[m] /\ ~processed[m] => Ahead(m)

StartInv ==
  TInv /\ Control /\ Blank /\ Alone /\ Stored /\ TaggedActive /\ HandlerInv /\ SweepInv

\* getDistinctByNameProtocol lists every PV name that has a row.
LEMMA OrdersCover ==
  ASSUME NEW P \in SUBSET Pv, NEW q \in Orders(P), NEW p \in P
  PROVE  \E i \in 1 .. Len(q) : q[i] = p
<1>1. IsFiniteSet(P) BY MonitorConstants, FS_Subset
<1>2. PICK n : n = Cardinality(P) OBVIOUS
<1>3. n \in Nat BY <1>1, <1>2, FS_CardinalityType
<1>4. q \in [1 .. n -> P] /\ \A i, j \in 1 .. n : q[i] = q[j] => i = j BY <1>2 DEF Orders
<1>5. q \in Injection(1 .. n, P) BY <1>4 DEF Injection, IsInjective
<1>6. Cardinality(1 .. n) = n BY <1>3, FS_Interval
<1>7. q \in Surjection(1 .. n, P) BY <1>1, <1>2, <1>5, <1>6, FS_Injection
<1>8. \E i \in 1 .. n : q[i] = p BY <1>7 DEF Surjection
<1>9. Len(q) = n BY <1>3, <1>4
<1> QED BY <1>8, <1>9

\* What the scan leaves of its list after the first PV.
LEMMA AheadOfTail ==
  ASSUME NEW s \in Seq(Pv), s # <<>>, NEW i \in 1 .. Len(s), s[i] # Head(s)
  PROVE  \E j \in 1 .. Len(Tail(s)) : Tail(s)[j] = s[i]
<1>1. Len(s) \in Nat /\ Len(Tail(s)) = Len(s) - 1 OBVIOUS
<1>2. i # 1 OBVIOUS
<1>3. i - 1 \in 1 .. Len(Tail(s)) BY <1>1, <1>2
<1>4. Tail(s)[i - 1] = s[i] BY <1>1, <1>2, <1>3
<1> QED BY <1>3, <1>4

\* The steps of a node that starts.
LEMMA StartupSteps ==
  ASSUME StartInv, Next, mode = "starting", mode' = "starting"
  PROVE  \/ Tick \/ Consumers \/ StartStep(Scanner) \/ CreateQueueFails(Scanner)
         \/ ScanBegin \/ NextPv \/ (\E m \in Monitor : Pick(m)) \/ ScanEnd \/ Tag
<1>1. ~Restart /\ ~Crash BY DEF Restart, Crash
<1>2. ASSUME NEW t \in Thread
      PROVE  /\ \A c \in Command, s \in Ser : ~Receive(t, c, s)
             /\ ~StoreMonitorData(t) /\ ~StoreFails(t)
             /\ ~StartStep(t) /\ ~CreateQueueFails(t)
  BY DEF StartInv, Alone, Receive, StoreMonitorData, StoreFails, StartStep, Lookup,
         NotSanitized, FindActive, FindNone, Push, Activate, CreateQueueFails
<1>3. phase \in {"idle", "pick", "start", "tag"} BY DEF StartInv, Alone
<1>4. ~Check /\ ~StopErase /\ ~StopRelease /\ ~StopEraseKey /\ ~Remove /\ ~CheckFails /\ ~DeleteQueueFails
  BY <1>3 DEF Check, StopErase, StopRelease, StopEraseKey, Remove, CheckFails, DeleteQueueFails
<1> QED BY <1>1, <1>2, <1>4 DEF Next, ScanStep, Worker

\* What a step of the startup has to keep, beside the types and the control.
StartParts == Blank /\ Alone /\ Stored /\ TaggedActive /\ HandlerInv /\ SweepInv

\* The steps of the Start handler in the scan.
LEMMA HandlerSteps ==
  ASSUME StartInv, mode = "starting", StartStep(Scanner) \/ CreateQueueFails(Scanner)
  PROVE  StartParts'
<1> USE DEF TInv, TypeOK, Worker
<1>1. TInv /\ mode' = mode /\ UNCHANGED <<config, live, processed>>
  BY DEF StartInv, StartStep, CreateQueueFails, Lookup, NotSanitized, FindActive, FindNone, Push, Activate, store, rowFlags
<1>2. pc[Scanner] # "idle"
  BY DEF StartStep, CreateQueueFails, Lookup, NotSanitized, FindActive, FindNone, Push, Activate
<1>3. phase = "start" /\ Len(job[Scanner]) = 1 /\ Current(Scanner) = found /\ count > 0
  BY <1>2 DEF StartInv, Control, HandlerInv
<1>4. \A t \in Thread : pc'[t] = "idle"
  BY MonitorConstants DEF StartInv, Alone, StartStep, CreateQueueFails, Lookup, NotSanitized, FindActive,
     FindNone, Push, Activate, Handled, Goto
<1>5. Stored' /\ Blank' BY <1>1 DEF StartInv, Stored, Blank
<1>6. CASE Lookup(Scanner) \/ FindNone(Scanner)
  <2>1. UNCHANGED <<active, phase, todo, count, found, job>>
    BY <1>6 DEF Lookup, FindNone, topics, scanVars
  <2>2. pc'[Scanner] \in {"find", "push"} /\ ref_valid'[Scanner]
    BY <1>6 DEF Lookup, FindNone, Goto, StartInv, HandlerInv
  <2>3. HandlerInv' BY <1>1, <1>3, <2>1, <2>2 DEF HandlerInv, Current, Restored
  <2> QED BY <1>1, <1>3, <1>4, <1>5, <2>1, <2>3 DEF StartInv, StartParts, Alone, TaggedActive, Restored, SweepInv
<1>7. CASE NotSanitized(Scanner) \/ FindActive(Scanner) \/ Activate(Scanner)
  <2>1. UNCHANGED <<active, todo, count, found>> /\ phase' = "tag"
    BY <1>7 DEF NotSanitized, FindActive, Activate, Handled, topics
  <2>2. pc'[Scanner] = "idle" BY <1>1, <1>3, <1>7 DEF NotSanitized, FindActive, Activate, Handled, Goto
  <2>3. Restored(found)
    <3>1. CASE FindActive(Scanner) BY <1>3, <3>1 DEF FindActive, Finds, StartInv, HandlerInv, Restored
    <3>3. CASE NotSanitized(Scanner) BY <1>3, <3>3 DEF NotSanitized, PvAt, Restored
    <3>2. CASE Activate(Scanner) BY <3>2 DEF Activate, StartInv, HandlerInv
    <3> QED BY <1>7, <3>1, <3>2, <3>3
  <2>4. HandlerInv' BY <1>3, <2>1, <2>2, <2>3 DEF HandlerInv, Restored
  <2> QED BY <1>1, <1>4, <1>5, <2>1, <2>4 DEF StartInv, StartParts, Alone, TaggedActive, Restored, SweepInv
<1>8. CASE Push(Scanner)
  <2>1. UNCHANGED <<phase, todo, count, found, job, ref_valid>> BY <1>8 DEF Push, scanVars
  <2>2. pc'[Scanner] = "activate" /\ ref_valid[Scanner] BY <1>8 DEF Push, Goto, StartInv, HandlerInv
  <2>3. active' = [active EXCEPT ![found] = @ + 1] BY <1>3, <1>8, <2>2 DEF Push
  <2>4. \A m \in Monitor : active[m] \in Nat /\ active'[m] >= active[m] BY <1>1, <2>3
  <2>5. found \in Monitor /\ active'[found] > 0 BY <1>1, <2>3
  <2>6. HandlerInv' BY <1>3, <2>1, <2>2, <2>5 DEF HandlerInv, Current, Restored
  <2>7. \A m \in Monitor : active[m] > 0 => active'[m] > 0
    <3>1. \A m \in Monitor : active'[m] \in Nat BY <1>1, <2>3
    <3> QED BY <2>4, <3>1
  <2>8. TaggedActive' BY <1>1, <2>7 DEF StartInv, TaggedActive, Restored
  <2> QED BY <1>1, <1>3, <1>4, <1>5, <2>1, <2>6, <2>8 DEF StartParts, Alone, SweepInv
<1>9. CASE CreateQueueFails(Scanner)
  <2>1. phase' = "idle" /\ pc'[Scanner] = "idle" /\ active' = active
    BY <1>1, <1>9 DEF CreateQueueFails, topics, Goto
  <2> QED BY <1>1, <1>4, <1>5, <2>1 DEF StartInv, StartParts, Alone, TaggedActive, Restored, HandlerInv, SweepInv
<1> QED BY <1>6, <1>7, <1>8, <1>9 DEF StartStep

\* The steps of the scan around the handler.
LEMMA SweepSteps ==
  ASSUME StartInv, mode = "starting", mode' = "starting",
         \/ ScanBegin \/ NextPv \/ (\E m \in Monitor : Pick(m)) \/ ScanEnd \/ Tag
  PROVE  StartParts'
<1> USE DEF TInv, TypeOK, Worker
<1>1. TInv /\ UNCHANGED <<config, live, active, ref_valid>>
  BY DEF StartInv, ScanBegin, NextPv, Pick, ScanEnd, Tag, store, topics, workers
<1>2. Stored' /\ Blank' BY <1>1 DEF StartInv, Stored, Blank
<1>3. phase # "start"
  BY DEF ScanBegin, NextPv, Pick, ScanEnd, Tag
<1>4. pc[Scanner] = "idle" BY <1>3 DEF StartInv, Control
<1>5. \A t \in Thread : pc[t] = "idle" BY DEF StartInv, Alone
<1>6. CASE ScanBegin
  <2>1. UNCHANGED <<processed, pc>> /\ phase' = "pick" BY <1>6 DEF ScanBegin, rowFlags, workers
  <2>2. PICK P : P = {PvOf[m] : m \in {n \in Monitor : live[n]}} OBVIOUS
  <2>3. P \in SUBSET Pv BY <2>2, MonitorConstants
  <2>4. todo' \in Orders(P) BY <1>6, <2>2 DEF ScanBegin
  <2>5. \A p \in P : \E i \in 1 .. Len(todo') : todo'[i] = p BY <2>3, <2>4, OrdersCover
  <2>6. \A m \in Monitor : live[m] => PvOf[m] \in P BY <2>2
  <2>7. SweepInv' BY <1>1, <2>5, <2>6 DEF SweepInv, Ahead
  <2> QED BY <1>1, <1>2, <1>4, <1>5, <2>1, <2>7 DEF StartInv, StartParts, Alone, TaggedActive, Restored, HandlerInv
<1>7. CASE NextPv
  <2>1. UNCHANGED <<processed, pc, phase>> /\ phase = "pick" /\ todo # <<>> /\ todo' = Tail(todo)
    BY <1>7 DEF NextPv, rowFlags, workers
  <2>2. count' = 0 => count = 0 /\ Unprocessed(Head(todo)) = {} BY <1>1, <1>7 DEF NextPv
  <2>3. ASSUME count' = 0, NEW m \in Monitor, live[m], ~processed[m] PROVE Ahead(m)'
    <3>1. PICK i \in 1 .. Len(todo) : todo[i] = PvOf[m] BY <2>1, <2>2, <2>3 DEF StartInv, SweepInv, Ahead
    <3>2. PvOf[m] # Head(todo) BY <2>2, <2>3 DEF Unprocessed
    <3>3. \E j \in 1 .. Len(Tail(todo)) : Tail(todo)[j] = todo[i] BY <1>1, <2>1, <3>1, <3>2, AheadOfTail
    <3> QED BY <2>1, <3>1, <3>3 DEF Ahead
  <2>4. SweepInv' BY <1>1, <2>1, <2>3 DEF SweepInv
  <2> QED BY <1>1, <1>2, <1>4, <1>5, <2>1, <2>4 DEF StartInv, StartParts, Alone, TaggedActive, Restored, HandlerInv
<1>8. ASSUME NEW m \in Monitor, Pick(m) PROVE StartParts'
  <2>1. phase' = "start" /\ processed' = processed /\ found' = m /\ count' = count + 1
    BY <1>8 DEF Pick, rowFlags
  <2>2. count' > 0 BY <1>1, <2>1
  <2>3. job' = [job EXCEPT ![Scanner] = <<m>>] /\ pc' = [pc EXCEPT ![Scanner] = "lookup"] BY <1>8 DEF Pick, Goto
  <2>4. pc'[Scanner] = "lookup" /\ \A t \in Thread : pc'[t] = "idle" BY <1>1, <1>5, <2>3, MonitorConstants
  <2>5. Current(Scanner)' = m
    <3>1. job'[Scanner] = <<m>> BY <1>1, <2>3
    <3>2. Head(<<m>>) = m OBVIOUS
    <3> QED BY <3>1, <3>2 DEF Current
  <2>6. HandlerInv' BY <2>1, <2>2, <2>4, <2>5 DEF HandlerInv
  <2> QED BY <1>1, <1>2, <2>1, <2>4, <2>6 DEF StartInv, StartParts, Alone, TaggedActive, Restored, SweepInv
<1>9. CASE ScanEnd
  <2>1. UNCHANGED <<processed, pc>> /\ phase' = "idle" BY <1>9 DEF ScanEnd, workers
  <2> QED BY <1>1, <1>2, <1>4, <1>5, <2>1 DEF StartInv, StartParts, Alone, TaggedActive, Restored, HandlerInv, SweepInv
<1>10. CASE Tag
  <2>1. phase = "tag" /\ phase' = "pick" /\ UNCHANGED <<pc, count>> BY <1>10 DEF Tag, workers
  <2>2. Restored(found) /\ count > 0 BY <2>1 DEF StartInv, HandlerInv
  <2>3. \A n \in Monitor : n # found => processed'[n] = processed[n] BY <1>1, <1>10 DEF Tag
  <2>4. TaggedActive' BY <1>1, <2>2, <2>3 DEF StartInv, TaggedActive, Restored
  <2>5. SweepInv' BY <1>1, <2>1, <2>2 DEF SweepInv
  <2> QED BY <1>1, <1>2, <1>4, <1>5, <2>1, <2>4, <2>5 DEF StartParts, Alone, HandlerInv
<1> QED BY <1>6, <1>7, <1>8, <1>9, <1>10

\* Every step keeps StartInv.
LEMMA StartStepInv ==
  ASSUME StartInv, [Next]_vars
  PROVE  StartInv'
<1>1. TInv' /\ Control' BY TypeStep, ControlStep DEF StartInv
<1> SUFFICES StartParts'
  BY <1>1 DEF StartInv, StartParts
<1>2. Blank'
  <2>1. CASE Crash BY <2>1 DEF Crash, Blank
  <2>2. CASE ~Crash
    <3>1. mode' = "down" => mode = "down" /\ processed' = processed
      BY <2>2 DEF Next, StartStep, ScanStep, Restart, Tick, Consumers, Receive, StoreMonitorData,
        StoreFails, Lookup, NotSanitized, FindActive, FindNone, Push, Activate, CreateQueueFails, ScanBegin, NextPv,
        Pick, ScanEnd, Check, StopErase, StopRelease, StopEraseKey, Remove, Tag, CheckFails,
        DeleteQueueFails, rowFlags, vars, StartInv, Control
    <3> QED BY <3>1 DEF StartInv, Blank
  <2> QED BY <2>1, <2>2
<1>3. CASE mode' # "starting"
  BY <1>2, <1>3 DEF StartParts, Blank, Alone, Stored, TaggedActive, Restored, HandlerInv, SweepInv
<1>4. CASE mode' = "starting" /\ mode # "starting"
  <2>1. Restart
    BY <1>4 DEF Next, StartStep, ScanStep, Crash, Tick, Consumers, Receive, StoreMonitorData,
      StoreFails, Lookup, NotSanitized, FindActive, FindNone, Push, Activate, CreateQueueFails, ScanBegin, NextPv,
      Pick, ScanEnd, Check, StopErase, StopRelease, StopEraseKey, Remove, Tag, CheckFails,
      DeleteQueueFails, vars
  <2>2. mode = "down" /\ UNCHANGED <<processed, pc, phase>> BY <2>1 DEF Restart, rowFlags, workers, scanVars
  <2>3. phase = "idle" /\ \A w \in Worker : pc[w] = "idle" BY <2>2 DEF StartInv, Control
  <2>4. \A m \in Monitor : ~processed[m] BY <2>2 DEF StartInv, Blank
  <2>5. Stored' BY <2>1 DEF Restart, Stored
  <2>6. Alone' /\ HandlerInv' BY <2>2, <2>3 DEF Alone, HandlerInv, Worker
  <2> QED BY <1>2, <2>2, <2>3, <2>4, <2>5, <2>6 DEF StartParts, TaggedActive, Restored, SweepInv
<1>5. CASE mode' = "starting" /\ mode = "starting"
  <2>1. CASE Tick \/ Consumers \/ UNCHANGED vars
    <3>1. UNCHANGED <<mode, config, live, processed, active, pc, job, ref_valid, phase, todo, count, found>>
      BY <2>1 DEF Tick, Consumers, vars, store, rowFlags, topics, workers, scanVars
    <3> QED BY <3>1 DEF StartInv, StartParts, Blank, Alone, Stored, TaggedActive, Restored, HandlerInv, SweepInv, Ahead, Current
  <2>2. CASE StartStep(Scanner) \/ CreateQueueFails(Scanner) BY <1>5, <2>2, HandlerSteps
  <2>3. CASE ScanBegin \/ NextPv \/ (\E m \in Monitor : Pick(m)) \/ ScanEnd \/ Tag BY <1>5, <2>3, SweepSteps
  <2> QED BY <1>5, <2>1, <2>2, <2>3, StartupSteps
<1> QED BY <1>3, <1>4, <1>5

\* Only the end of a scan that counted nothing makes the worker ready.
LEMMA ReadyAfterSweep ==
  ASSUME StartInv, Next, mode = "starting", mode' = "ready",
         NEW m \in Monitor, NEW s \in Ser, <<m, s>> \in config, PvOf[m] \notin Refused
  PROVE  active[m] > 0
<1>1. ScanEnd
  BY DEF Next, StartStep, ScanStep, Restart, Crash, Tick, Consumers, Receive, StoreMonitorData,
    StoreFails, Lookup, NotSanitized, FindActive, FindNone, Push, Activate, CreateQueueFails, ScanBegin, NextPv,
    Pick, Check, StopErase, StopRelease, StopEraseKey, Remove, Tag, CheckFails, DeleteQueueFails
<1>2. phase = "pick" /\ todo = <<>> /\ count = 0 BY <1>1 DEF ScanEnd, StartupDone
<1>3. ~Ahead(m)
  <2>1. Len(<<>>) = 0 OBVIOUS
  <2>2. 1 .. 0 = {} OBVIOUS
  <2> QED BY <1>2, <2>1, <2>2 DEF Ahead
<1>4. live[m] BY DEF StartInv, Stored
<1>5. processed[m] BY <1>2, <1>3, <1>4 DEF StartInv, SweepInv
<1> QED BY <1>5 DEF StartInv, TaggedActive, Restored

\* ReadyMeansRestored holds for every number of PVs, monitors and
\* serializations and every limit of a scan, with crashes in any step of the
\* startup and scans that an exception breaks off: when handleRestartMonitorTask
\* reports ready, every monitor of the configuration whose name sanitizes is
\* active; the others are skipped and take their share of the limit.
THEOREM ReadyOnlyWhenRestored == Spec => ReadyMeansRestored
<1>1. Init => StartInv
  BY TypeInit DEF Init, StartInv, Worker, Control, Blank, Alone, Stored, TaggedActive, Restored, HandlerInv, SweepInv
<1>2. StartInv /\ [Next]_vars => StartInv' BY StartStepInv
<1>3. StartInv /\ [Next]_vars =>
        [mode = "starting" /\ mode' = "ready" =>
           \A m \in Monitor : \A s \in Ser :
             <<m, s>> \in config /\ PvOf[m] \notin Refused => active[m] > 0]_vars
  BY ReadyAfterSweep DEF vars
<1> QED BY <1>1, <1>2, <1>3, PTL DEF Spec, ReadyMeansRestored
=============================================================================
