---------------------- MODULE MonitorPublishing_proofs ----------------------
(***************************************************************************)
(* Proofs about MonitorPublishing and the publisher it uses, for any       *)
(* consumers, events, batches, queue capacity and retries: buffers outlive *)
(* the producer's use of them, a message has one fate, a payload belongs   *)
(* to its batch, and an event reaches exactly its consumers.               *)
(***************************************************************************)
EXTENDS MonitorPublishing, FiniteSetTheorems, SequenceTheorems, TLAPS

-----------------------------------------------------------------------------
(* The inductive invariant. *)

Distinct(s) == \A i, j \in DOMAIN s : s[i] = s[j] => i = j

\* What a caller is pushing is its own and nobody else's.
PushInv ==
    /\ \A c \in Caller : push[c].pc = "idle" => push[c] = NoPush
    /\ \A c \in Caller : push[c].pc # "idle" =>
         push[c].msg \in Message /\ owner[push[c].msg] = "caller"
    /\ \A c, d \in Caller :
         c # d /\ push[c].pc # "idle" /\ push[d].pc # "idle" => push[c].msg # push[d].msg

\* The producer holds a message in one place, and it is the library's.
QueueInv ==
    /\ Distinct(outq) /\ Distinct(reports)
    /\ ToSet(outq) \cap ToSet(reports) = {}
    /\ \A m \in ToSet(outq) \cup ToSet(reports) : owner[m] = "library"

FreedInv == \A m \in Message : outcome[m] # "none" <=> owner[m] = "freed"

\* The batch holds increasing events that arrived together; nobody has got an
\* event that has not been taken, and of the current one the consumers before
\* the position in cmd_vec have got theirs.
BatchInv ==
    /\ Distinct(cmdVec)
    /\ at > 0 => batch # <<>>
    /\ \A i, j \in DOMAIN batch : i < j => batch[i] < batch[j]
    /\ \A i \in DOMAIN batch : batch[i] <= arrived
    /\ \A e \in Event : e > arrived => served[e] = {}
    /\ \A i \in DOMAIN batch : i > 1 \/ at = 0 => served[batch[i]] = {}
    /\ at > 0 => served[batch[1]] = {cmdVec[i] : i \in 1 .. at - 1}

\* A message exists for the consumers an event has been forwarded to.
ServedInv ==
    \A e \in Event, k \in Consumer : k \in served[e] <=> owner[<<e, k>>] # "none"

\* The cache holds events of the batch at hand, none later than the current one.
CacheInv ==
    /\ \A i, j \in DOMAIN batch : batchOf[batch[i]] = batchOf[batch[j]]
    /\ \A i \in DOMAIN batch : batchOf[batch[i]] <= batch[1]
    /\ batch # <<>> => \A s \in Serialization :
         cache[s] # 0 => cache[s] \in batchOf[batch[1]] .. batch[1]

PublishingIInv ==
    /\ TypeOK /\ PushInv /\ QueueInv /\ FreedInv
    /\ BatchInv /\ ServedInv /\ CacheInv /\ FromItsBatch

-----------------------------------------------------------------------------
(* Sequences. *)

LEMMA SeqFacts ==
  ASSUME NEW S, NEW s \in Seq(S)
  PROVE  Len(s) \in Nat /\ DOMAIN s = 1 .. Len(s) /\ ToSet(s) \subseteq S
  BY DEF ToSet

LEMMA EmptyFacts ==
  ToSet(<<>>) = {} /\ Distinct(<<>>) /\ Len(<<>>) = 0
  BY DEF ToSet, Distinct

LEMMA AppendFacts ==
  ASSUME NEW S, NEW s \in Seq(S), NEW a \in S
  PROVE  /\ Append(s, a) \in Seq(S) /\ Len(Append(s, a)) = Len(s) + 1
         /\ ToSet(Append(s, a)) = ToSet(s) \cup {a}
         /\ Distinct(s) /\ a \notin ToSet(s) => Distinct(Append(s, a))
  <1>1. \A i \in 1 .. Len(s) : Append(s, a)[i] = s[i] OBVIOUS
  <1>2. Append(s, a)[Len(s) + 1] = a OBVIOUS
  <1>3. DOMAIN Append(s, a) = 1 .. Len(s) + 1 /\ DOMAIN s = 1 .. Len(s) OBVIOUS
  <1>4. Len(s) \in Nat OBVIOUS
  <1>5. ToSet(Append(s, a)) = ToSet(s) \cup {a} BY <1>1, <1>2, <1>3, <1>4 DEF ToSet
  <1>6. ASSUME Distinct(s), a \notin ToSet(s),
               NEW i \in 1 .. Len(s) + 1, NEW j \in 1 .. Len(s) + 1,
               Append(s, a)[i] = Append(s, a)[j]
        PROVE  i = j
    <2>1. CASE i \in 1 .. Len(s) /\ j \in 1 .. Len(s) BY <1>1, <1>3, <1>6, <2>1 DEF Distinct
    <2>2. CASE i = Len(s) + 1 /\ j \in 1 .. Len(s) BY <1>1, <1>2, <1>3, <1>6, <2>2 DEF ToSet
    <2>3. CASE j = Len(s) + 1 /\ i \in 1 .. Len(s) BY <1>1, <1>2, <1>3, <1>6, <2>3 DEF ToSet
    <2>4. CASE i = Len(s) + 1 /\ j = Len(s) + 1 BY <2>4
    <2>5. /\ i \in 1 .. Len(s) \/ i = Len(s) + 1
          /\ j \in 1 .. Len(s) \/ j = Len(s) + 1
      BY <1>4
    <2> QED BY <2>1, <2>2, <2>3, <2>4, <2>5
  <1>7. Distinct(s) /\ a \notin ToSet(s) => Distinct(Append(s, a))
    BY <1>3, <1>6 DEF Distinct
  <1>8. Append(s, a) \in Seq(S) /\ Len(Append(s, a)) = Len(s) + 1 OBVIOUS
  <1> QED BY <1>5, <1>7, <1>8

LEMMA TailFacts ==
  ASSUME NEW S, NEW s \in Seq(S), s # <<>>
  PROVE  /\ Tail(s) \in Seq(S) /\ Len(Tail(s)) = Len(s) - 1 /\ Len(s) \in Nat \ {0}
         /\ Head(s) = s[1] /\ Head(s) \in S /\ DOMAIN Tail(s) = 1 .. Len(s) - 1
         /\ DOMAIN s = 1 .. Len(s) /\ 1 \in DOMAIN s
         /\ \A i \in DOMAIN Tail(s) : i + 1 \in DOMAIN s /\ Tail(s)[i] = s[i + 1]
         /\ ToSet(s) = ToSet(Tail(s)) \cup {Head(s)}
         /\ Distinct(s) => Distinct(Tail(s)) /\ Head(s) \notin ToSet(Tail(s))
  <1>1. \A i \in 1 .. Len(s) - 1 : Tail(s)[i] = s[i + 1] OBVIOUS
  <1>2. Head(s) = s[1] /\ Len(s) \in Nat /\ Len(s) > 0 BY EmptySeq
  <1>3. DOMAIN Tail(s) = 1 .. Len(s) - 1 /\ DOMAIN s = 1 .. Len(s) BY <1>2
  <1>4. ASSUME NEW x \in ToSet(s) PROVE x \in ToSet(Tail(s)) \cup {Head(s)}
    <2>1. PICK i \in 1 .. Len(s) : s[i] = x BY <1>3 DEF ToSet
    <2>2. CASE i = 1 BY <2>1, <2>2, <1>2
    <2>3. CASE i > 1
      <3>1. i - 1 \in 1 .. Len(s) - 1 /\ Tail(s)[i - 1] = x BY <2>1, <2>3, <1>1, <1>2
      <3> QED BY <3>1, <1>3 DEF ToSet
    <2> QED BY <2>2, <2>3
  <1>5. ToSet(Tail(s)) \subseteq ToSet(s) BY <1>1, <1>2, <1>3 DEF ToSet
  <1>6. Head(s) \in ToSet(s) BY <1>2, <1>3 DEF ToSet
  <1>7. \A i \in DOMAIN Tail(s) : i + 1 \in DOMAIN s /\ Tail(s)[i] = s[i + 1]
    BY <1>1, <1>2, <1>3
  <1>8. Distinct(s) => Distinct(Tail(s)) /\ Head(s) \notin ToSet(Tail(s))
    <2>1. ASSUME Distinct(s), NEW i \in DOMAIN Tail(s), NEW j \in DOMAIN Tail(s),
                 Tail(s)[i] = Tail(s)[j]
          PROVE  i = j
      <3>1. i + 1 = j + 1 BY <1>7, <2>1 DEF Distinct
      <3> QED BY <1>2, <1>3, <3>1
    <2>2. ASSUME Distinct(s), NEW i \in DOMAIN Tail(s), Tail(s)[i] = Head(s) PROVE FALSE
      <3>1. i + 1 = 1 BY <1>2, <1>3, <1>7, <2>2 DEF Distinct
      <3> QED BY <1>2, <1>3, <3>1
    <2> QED BY <2>1, <2>2 DEF Distinct, ToSet
  <1>9. Tail(s) \in Seq(S) /\ Len(Tail(s)) = Len(s) - 1 /\ Head(s) \in S BY <1>2
  <1> QED BY <1>2, <1>3, <1>4, <1>5, <1>6, <1>7, <1>8, <1>9

LEMMA RemoveFacts ==
  ASSUME NEW S, NEW s \in Seq(S), NEW k \in DOMAIN s
  PROVE  /\ RemoveAt(s, k) \in Seq(S)
         /\ Distinct(s) => Distinct(RemoveAt(s, k))
  <1> DEFINE r == RemoveAt(s, k)
             a == SubSeq(s, 1, k - 1)
             b == SubSeq(s, k + 1, Len(s))
  <1>1. Len(s) \in Nat /\ k \in 1 .. Len(s) /\ DOMAIN s = 1 .. Len(s) OBVIOUS
  <1>2. a \in Seq(S) /\ Len(a) = k - 1 /\ \A i \in 1 .. k - 1 : a[i] = s[i]
    <2>1. \A i \in 1 .. k - 1 : s[i] \in S BY <1>1
    <2> QED BY <1>1, <2>1, SubSeqProperties
  <1>3. b \in Seq(S) /\ Len(b) = Len(s) - k /\ \A i \in 1 .. Len(s) - k : b[i] = s[k + i]
    <2>1. \A i \in k + 1 .. Len(s) : s[i] \in S BY <1>1
    <2> QED BY <1>1, <2>1, SubSeqProperties
  <1>4. r = a \o b BY DEF RemoveAt
  <1> HIDE DEF a, b, r
  <1>5. r \in Seq(S) /\ Len(r) = Len(s) - 1
    <2>1. r \in Seq(S) /\ Len(r) = Len(a) + Len(b) BY <1>2, <1>3, <1>4, ConcatProperties
    <2> QED BY <1>1, <1>2, <1>3, <2>1
  <1>6. \A i \in 1 .. Len(s) - 1 : r[i] = IF i < k THEN s[i] ELSE s[i + 1]
    <2> TAKE i \in 1 .. Len(s) - 1
    <2>1. r[i] = IF i <= Len(a) THEN a[i] ELSE b[i - Len(a)]
      BY <1>1, <1>2, <1>3, <1>4, ConcatProperties
    <2>2. CASE i < k BY <1>1, <1>2, <2>1, <2>2
    <2>3. CASE ~(i < k)
      <3>1. i - (k - 1) \in 1 .. Len(s) - k BY <1>1, <2>3
      <3>2. b[i - (k - 1)] = s[k + (i - (k - 1))] BY <1>3, <3>1
      <3>3. k + (i - (k - 1)) = i + 1 BY <1>1
      <3> QED BY <1>1, <1>2, <2>1, <2>3, <3>2, <3>3
    <2> QED BY <2>2, <2>3
  <1>7. ASSUME Distinct(s), NEW i \in 1 .. Len(s) - 1, NEW j \in 1 .. Len(s) - 1, r[i] = r[j]
        PROVE  i = j
    <2>1. i \in 1 .. Len(s) /\ j \in 1 .. Len(s) /\ i + 1 \in 1 .. Len(s) /\ j + 1 \in 1 .. Len(s)
      BY <1>1
    <2> QED BY <1>1, <1>6, <1>7, <2>1 DEF Distinct
  <1>8. DOMAIN r = 1 .. Len(s) - 1 BY <1>5
  <1>9. Distinct(s) => Distinct(r) BY <1>7, <1>8 DEF Distinct
  <1> QED BY <1>5, <1>9 DEF r

-----------------------------------------------------------------------------
(* The publisher. *)

PubInv == PublisherTypeOK /\ PushInv /\ QueueInv /\ FreedInv

\* The steps of the publisher other than the start of a push.
PubStep ==
    \/ \E c \in Caller : Produced(c) \/ QueueFull(c) \/ PollAndRetry(c) \/ Refused(c)
    \/ Deliver \/ AutoPoll \/ AutoPollEnds \/ Shutdown \/ Drain \/ Drained \/ Destroyed

\* A message that has been pushed stays pushed, and a step of the publisher
\* pushes none.
SamePushed == \A m \in Message : owner'[m] = "none" <=> owner[m] = "none"

\* The records that the actions build have their type.
LEMMA PushCalls ==
  /\ NoPush \in PushCall
  /\ \A m \in Message : [pc |-> "produce", msg |-> m, retries |-> 0] \in PushCall
  /\ \A r \in PushCall : [r EXCEPT !.pc = "produce"] \in PushCall
  /\ \A r \in PushCall : r.retries < MaxRetries => Retry(r) \in PushCall
  <1> USE PublisherAssumption
  <1>1. 0 \in 0 .. MaxRetries OBVIOUS
  <1>2. \A k \in 0 .. MaxRetries : k < MaxRetries => k + 1 \in 0 .. MaxRetries OBVIOUS
  <1>3. NoPush \in PushCall BY <1>1 DEF NoPush, PushCall
  <1>4. \A m \in Message : [pc |-> "produce", msg |-> m, retries |-> 0] \in PushCall
    BY <1>1 DEF PushCall
  <1>5. \A r \in PushCall : [r EXCEPT !.pc = "produce"] \in PushCall BY DEF PushCall
  <1>6. \A r \in PushCall : r.retries < MaxRetries => Retry(r) \in PushCall
    BY <1>2 DEF PushCall, Retry
  <1> QED BY <1>3, <1>4, <1>5, <1>6

LEMMA PushFields ==
  /\ NoPush.pc = "idle"
  /\ \A r \in PushCall : /\ [r EXCEPT !.pc = "produce"].pc = "produce"
                         /\ [r EXCEPT !.pc = "produce"].msg = r.msg
                         /\ Retry(r).pc = "poll" /\ Retry(r).msg = r.msg
  BY DEF NoPush, PushCall, Retry

LEMMA PushUpdate ==
  ASSUME PublisherTypeOK, NEW c \in Caller, NEW r \in PushCall, push' = [push EXCEPT ![c] = r]
  PROVE  /\ push' \in [Caller -> PushCall] /\ push'[c] = r
         /\ \A d \in Caller : d # c => push'[d] = push[d]
  BY DEF PublisherTypeOK

LEMMA PollEffect ==
  ASSUME PubInv, Poll, UNCHANGED outq
  PROVE  /\ reports' = <<>>
         /\ owner' \in [Message -> {"none", "caller", "library", "freed"}]
         /\ outcome' \in [Message -> {"none", "refused", "called back"}]
         /\ QueueInv' /\ FreedInv' /\ SamePushed
         /\ \A m \in Message : owner[m] = "caller" => owner'[m] = "caller"
         /\ Len(outq') + Len(reports') <= Capacity
  <1> USE DEF PubInv
  <1>0. /\ outq \in Seq(Message) /\ reports \in Seq(Message)
        /\ owner \in [Message -> {"none", "caller", "library", "freed"}]
        /\ outcome \in [Message -> {"none", "refused", "called back"}]
        /\ Len(outq) + Len(reports) <= Capacity
    BY DEF PublisherTypeOK
  <1>1. /\ reports' = <<>>
        /\ owner' = [m \in Message |-> IF m \in ToSet(reports) THEN "freed" ELSE owner[m]]
        /\ outcome' = [m \in Message |-> IF m \in ToSet(reports) THEN "called back" ELSE outcome[m]]
    BY DEF Poll
  <1>2. ToSet(reports) \subseteq Message /\ ToSet(outq) \subseteq Message BY <1>0, SeqFacts
  <1>3. \A m \in ToSet(reports) : owner[m] = "library" BY DEF QueueInv
  <1>4. ToSet(reports') = {} /\ Distinct(reports') BY <1>1, EmptyFacts
  <1>5. \A m \in ToSet(outq) : owner'[m] = "library" BY <1>1, <1>2 DEF QueueInv
  <1>6. QueueInv' BY <1>4, <1>5 DEF QueueInv
  <1>7. FreedInv' BY <1>1 DEF FreedInv
  <1>8. SamePushed BY <1>1, <1>3 DEF SamePushed
  <1>9. owner' \in [Message -> {"none", "caller", "library", "freed"}] BY <1>0, <1>1
  <1>10. outcome' \in [Message -> {"none", "refused", "called back"}] BY <1>0, <1>1
  <1>11. \A m \in Message : owner[m] = "caller" => owner'[m] = "caller" BY <1>1, <1>3
  <1>12. Len(outq') + Len(reports') <= Capacity
    <2>1. Len(outq) \in Nat /\ Len(reports) \in Nat /\ Len(reports') = 0
      BY <1>0, <1>1, SeqFacts, EmptyFacts
    <2>2. Len(outq) + Len(reports) <= Capacity BY DEF PublisherTypeOK
    <2> QED BY <2>1, <2>2, PublisherAssumption
  <1> QED BY <1>1, <1>6, <1>7, <1>8, <1>9, <1>10, <1>11, <1>12

LEMMA PubInductive ==
  ASSUME PubInv, PubStep
  PROVE  PubInv' /\ SamePushed
  <1> USE PublisherAssumption DEF PubInv
  <1>0. /\ outq \in Seq(Message) /\ reports \in Seq(Message)
        /\ Len(outq) \in Nat /\ Len(reports) \in Nat
        /\ owner \in [Message -> {"none", "caller", "library", "freed"}]
        /\ outcome \in [Message -> {"none", "refused", "called back"}]
        /\ ToSet(outq) \subseteq Message /\ ToSet(reports) \subseteq Message
    <2>1. outq \in Seq(Message) /\ reports \in Seq(Message) BY DEF PublisherTypeOK
    <2>2. /\ Len(outq) \in Nat /\ Len(reports) \in Nat
          /\ ToSet(outq) \subseteq Message /\ ToSet(reports) \subseteq Message
      BY <2>1, SeqFacts
    <2> QED BY <2>1, <2>2 DEF PublisherTypeOK
  <1>1. ASSUME NEW c \in Caller, Produced(c) PROVE PubInv' /\ SamePushed
    <2>1. /\ push[c].pc = "produce" /\ OutqLen < Capacity
          /\ outq' = Append(outq, push[c].msg) /\ UNCHANGED <<reports, outcome, poller, shut>>
          /\ owner' = [owner EXCEPT ![push[c].msg] = "library"]
          /\ push' = [push EXCEPT ![c] = NoPush]
      BY <1>1 DEF Produced, Accept, AfterProduce
    <2>2. PICK m \in Message : m = push[c].msg /\ owner[m] = "caller"
      BY <2>1 DEF PushInv
    <2>3. m \notin ToSet(outq) /\ m \notin ToSet(reports) BY <2>2 DEF QueueInv
    <2>4. /\ outq' \in Seq(Message) /\ Len(outq') = Len(outq) + 1
          /\ ToSet(outq') = ToSet(outq) \cup {m} /\ Distinct(outq')
      <3>1. outq' = Append(outq, m) BY <2>1, <2>2
      <3> QED BY <1>0, <2>3, <3>1, AppendFacts DEF QueueInv
    <2>5. /\ owner'[m] = "library" /\ \A x \in Message : x # m => owner'[x] = owner[x]
          /\ owner' \in [Message -> {"none", "caller", "library", "freed"}]
      BY <1>0, <2>1, <2>2
    <2>6. /\ push'[c] = NoPush /\ \A d \in Caller : d # c => push'[d] = push[d]
          /\ push' \in [Caller -> PushCall]
      BY <2>1, PushUpdate, PushCalls
    <2>7. PublisherTypeOK'
      <3>1. Len(outq') + Len(reports') <= Capacity
        <4>1. Len(outq) \in Nat /\ Len(reports) \in Nat BY <1>0
        <4>2. Len(outq) + Len(reports) < Capacity BY <2>1 DEF OutqLen
        <4>3. Len(outq') = Len(outq) + 1 /\ Len(reports') = Len(reports) BY <2>1, <2>4
        <4> QED BY <4>1, <4>2, <4>3
      <3> QED BY <2>1, <2>4, <2>5, <2>6, <3>1 DEF PublisherTypeOK
    <2>8. PushInv'
      <3>1. \A d \in Caller : d # c /\ push[d].pc # "idle" => push[d].msg # m
        BY <2>1, <2>2 DEF PushInv
      <3> QED BY <2>5, <2>6, <3>1, PushFields DEF PushInv
    <2>9. QueueInv'
      <3>1. Distinct(reports') /\ ToSet(reports') = ToSet(reports) BY <2>1 DEF QueueInv
      <3>2. ToSet(outq') \cap ToSet(reports') = {} BY <2>3, <2>4, <3>1 DEF QueueInv
      <3>3. \A x \in ToSet(outq') \cup ToSet(reports') : owner'[x] = "library"
        BY <1>0, <2>4, <2>5, <3>1 DEF QueueInv
      <3> QED BY <2>4, <3>1, <3>2, <3>3 DEF QueueInv
    <2>10. FreedInv' BY <2>1, <2>2, <2>5 DEF FreedInv
    <2>11. SamePushed BY <2>2, <2>5 DEF SamePushed
    <2> QED BY <2>7, <2>8, <2>9, <2>10, <2>11
  <1>2. ASSUME NEW c \in Caller, QueueFull(c) PROVE PubInv' /\ SamePushed
    <2>1. /\ push[c].pc = "produce" /\ push[c].retries < MaxRetries
          /\ push' = [push EXCEPT ![c] = Retry(push[c])]
          /\ UNCHANGED <<outq, reports, owner, outcome, poller, shut>>
      BY <1>2 DEF QueueFull, RetriesLeft
    <2>5. push[c] \in PushCall BY DEF PublisherTypeOK
    <2>2. /\ push'[c].pc = "poll" /\ push'[c].msg = push[c].msg
          /\ \A d \in Caller : d # c => push'[d] = push[d]
          /\ push' \in [Caller -> PushCall]
      <3>1. Retry(push[c]) \in PushCall BY <2>1, <2>5, PushCalls
      <3> QED BY <2>1, <2>5, <3>1, PushUpdate, PushFields
    <2>3. PublisherTypeOK' BY <2>1, <2>2 DEF PublisherTypeOK
    <2>4. PushInv' BY <2>1, <2>2 DEF PushInv
    <2> QED BY <2>1, <2>3, <2>4 DEF QueueInv, FreedInv, SamePushed
  <1>3. ASSUME NEW c \in Caller, PollAndRetry(c) PROVE PubInv' /\ SamePushed
    <2>1. /\ push[c].pc = "poll" /\ Poll
          /\ push' = [push EXCEPT ![c] = [push[c] EXCEPT !.pc = "produce"]]
          /\ UNCHANGED <<outq, poller, shut>>
      BY <1>3 DEF PollAndRetry
    <2>5. push[c] \in PushCall BY DEF PublisherTypeOK
    <2>2. /\ push'[c].pc = "produce" /\ push'[c].msg = push[c].msg
          /\ \A d \in Caller : d # c => push'[d] = push[d]
          /\ push' \in [Caller -> PushCall]
      <3>1. [push[c] EXCEPT !.pc = "produce"] \in PushCall BY <2>5, PushCalls
      <3> QED BY <2>1, <2>5, <3>1, PushUpdate, PushFields
    <2>6. /\ reports' = <<>>
          /\ owner' \in [Message -> {"none", "caller", "library", "freed"}]
          /\ outcome' \in [Message -> {"none", "refused", "called back"}]
          /\ \A m \in Message : owner[m] = "caller" => owner'[m] = "caller"
          /\ Len(outq') + Len(reports') <= Capacity
      BY <2>1, PollEffect
    <2>3. PublisherTypeOK'
      <3>1. reports' \in Seq(Message)
        <4>1. reports' = <<>> BY <2>6
        <4> QED BY <4>1
      <3> QED BY <1>0, <2>1, <2>2, <2>6, <3>1 DEF PublisherTypeOK
    <2>4. PushInv'
      <3>1. \A d \in Caller : push'[d].msg = push[d].msg BY <2>2
      <3>2. \A d \in Caller : push'[d].pc # "idle" => push[d].pc # "idle" BY <2>1, <2>2
      <3>3. \A m \in Message : owner[m] = "caller" => owner'[m] = "caller" BY <2>6
      <3>4. \A d \in Caller : push'[d].pc = "idle" => push'[d] = NoPush BY <2>2 DEF PushInv
      <3>5. \A d \in Caller : push'[d].pc # "idle" =>
              push'[d].msg \in Message /\ owner'[push'[d].msg] = "caller"
        BY <3>1, <3>2, <3>3 DEF PushInv
      <3>6. \A b, d \in Caller :
              b # d /\ push'[b].pc # "idle" /\ push'[d].pc # "idle" => push'[b].msg # push'[d].msg
        BY <3>1, <3>2 DEF PushInv
      <3> QED BY <3>4, <3>5, <3>6 DEF PushInv
    <2> QED BY <2>1, <2>3, <2>4, PollEffect
  <1>4. ASSUME NEW c \in Caller, Refused(c) PROVE PubInv' /\ SamePushed
    <2>1. /\ push[c].pc = "produce"
          /\ outcome' = [outcome EXCEPT ![push[c].msg] = "refused"]
          /\ owner' = [owner EXCEPT ![push[c].msg] = "freed"]
          /\ push' = [push EXCEPT ![c] = NoPush]
          /\ UNCHANGED <<outq, reports, poller, shut>>
      BY <1>4 DEF Refused
    <2>2. PICK m \in Message : m = push[c].msg /\ owner[m] = "caller"
      BY <2>1 DEF PushInv
    <2>3. m \notin ToSet(outq) /\ m \notin ToSet(reports) BY <2>2 DEF QueueInv
    <2>5. /\ owner'[m] = "freed" /\ \A x \in Message : x # m => owner'[x] = owner[x]
          /\ owner' \in [Message -> {"none", "caller", "library", "freed"}]
      BY <1>0, <2>1, <2>2
    <2>12. /\ outcome'[m] = "refused" /\ \A x \in Message : x # m => outcome'[x] = outcome[x]
           /\ outcome' \in [Message -> {"none", "refused", "called back"}]
      BY <1>0, <2>1, <2>2
    <2>6. /\ push'[c] = NoPush /\ \A d \in Caller : d # c => push'[d] = push[d]
          /\ push' \in [Caller -> PushCall]
      BY <2>1, PushUpdate, PushCalls
    <2>7. PublisherTypeOK' BY <2>1, <2>5, <2>6, <2>12 DEF PublisherTypeOK
    <2>8. PushInv'
      <3>1. \A d \in Caller : d # c /\ push[d].pc # "idle" => push[d].msg # m
        BY <2>1, <2>2 DEF PushInv
      <3> QED BY <2>5, <2>6, <3>1, PushFields DEF PushInv
    <2>9. QueueInv' BY <1>0, <2>1, <2>3, <2>5 DEF QueueInv
    <2>10. FreedInv' BY <2>5, <2>12 DEF FreedInv
    <2>11. SamePushed BY <2>2, <2>5 DEF SamePushed
    <2> QED BY <2>7, <2>8, <2>9, <2>10, <2>11
  <1>5. CASE Deliver
    <2>1. /\ outq # <<>> /\ outq' = Tail(outq) /\ reports' = Append(reports, Head(outq))
          /\ UNCHANGED <<owner, outcome, push, poller, shut>>
      BY <1>5 DEF Deliver
    <2>2. /\ outq' \in Seq(Message) /\ Len(outq') = Len(outq) - 1 /\ Head(outq) \in Message
          /\ ToSet(outq) = ToSet(outq') \cup {Head(outq)}
          /\ Distinct(outq') /\ Head(outq) \notin ToSet(outq')
      BY <1>0, <2>1, TailFacts DEF QueueInv
    <2>3. Head(outq) \notin ToSet(reports) BY <2>2 DEF QueueInv
    <2>4. /\ reports' \in Seq(Message) /\ Len(reports') = Len(reports) + 1
          /\ ToSet(reports') = ToSet(reports) \cup {Head(outq)} /\ Distinct(reports')
      <3>1. PICK h \in Message : h = Head(outq) BY <2>2
      <3>2. reports' = Append(reports, h) /\ h \notin ToSet(reports) BY <2>1, <2>3, <3>1
      <3>3. Distinct(reports) BY DEF QueueInv
      <3> QED BY <1>0, <3>1, <3>2, <3>3, AppendFacts
    <2>5. PublisherTypeOK'
      <3>1. Len(outq') + Len(reports') <= Capacity
        <4>1. Len(outq) \in Nat /\ Len(reports) \in Nat BY <1>0
        <4>2. Len(outq) + Len(reports) <= Capacity BY DEF PublisherTypeOK
        <4>3. Len(outq') = Len(outq) - 1 /\ Len(reports') = Len(reports) + 1 BY <2>2, <2>4
        <4> QED BY <4>1, <4>2, <4>3
      <3> QED BY <2>1, <2>2, <2>4, <3>1 DEF PublisherTypeOK
    <2>6. QueueInv' BY <2>1, <2>2, <2>3, <2>4 DEF QueueInv
    <2> QED BY <2>1, <2>5, <2>6 DEF PushInv, FreedInv, SamePushed
  <1>6. CASE AutoPoll \/ Drain
    <2>1. Poll /\ UNCHANGED <<outq, push, poller>> BY <1>6 DEF AutoPoll, Drain
    <2>2. shut' \in [pc : {"up", "drain", "join", "down"}, polls : 0 .. MaxPolls]
      <3>1. shut \in [pc : {"up", "drain", "join", "down"}, polls : 0 .. MaxPolls]
        BY DEF PublisherTypeOK
      <3>2. CASE AutoPoll BY <3>1, <3>2 DEF AutoPoll
      <3>3. CASE Drain BY <3>1, <3>3 DEF Drain
      <3> QED BY <1>6, <3>2, <3>3
    <2>6. /\ reports' = <<>>
          /\ owner' \in [Message -> {"none", "caller", "library", "freed"}]
          /\ outcome' \in [Message -> {"none", "refused", "called back"}]
          /\ \A m \in Message : owner[m] = "caller" => owner'[m] = "caller"
          /\ Len(outq') + Len(reports') <= Capacity
      BY <2>1, PollEffect
    <2>3. PublisherTypeOK'
      <3>1. reports' \in Seq(Message)
        <4>1. reports' = <<>> BY <2>6
        <4> QED BY <4>1
      <3> QED BY <1>0, <2>1, <2>2, <2>6, <3>1 DEF PublisherTypeOK
    <2>4. PushInv' BY <2>1, <2>6 DEF PushInv
    <2> QED BY <2>1, <2>3, <2>4, PollEffect
  <1>7. CASE AutoPollEnds \/ Shutdown \/ Drained
    <2>1. UNCHANGED <<outq, reports, owner, outcome, push>>
      BY <1>7 DEF AutoPollEnds, Shutdown, Drained
    <2>2. shut' \in [pc : {"up", "drain", "join", "down"}, polls : 0 .. MaxPolls]
      <3>1. shut \in [pc : {"up", "drain", "join", "down"}, polls : 0 .. MaxPolls]
        BY DEF PublisherTypeOK
      <3>2. CASE AutoPollEnds BY <3>1, <3>2 DEF AutoPollEnds
      <3>3. CASE Shutdown BY <3>3 DEF Shutdown
      <3>4. CASE Drained BY <3>1, <3>4 DEF Drained
      <3> QED BY <1>7, <3>2, <3>3, <3>4
    <2>3. poller' \in {"on", "off"} BY <1>7 DEF AutoPollEnds, Shutdown, Drained, PublisherTypeOK
    <2>4. PublisherTypeOK' BY <2>1, <2>2, <2>3 DEF PublisherTypeOK
    <2> QED BY <2>1, <2>4 DEF PushInv, QueueInv, FreedInv, SamePushed
  <1>8. CASE Destroyed
    <2>1. /\ outq' = <<>> /\ reports' = <<>> /\ UNCHANGED <<owner, outcome, push, poller>>
          /\ shut' = [shut EXCEPT !.pc = "down"]
      BY <1>8 DEF Destroyed
    <2>2. /\ ToSet(outq') = {} /\ ToSet(reports') = {} /\ Distinct(outq') /\ Distinct(reports')
          /\ Len(outq') = 0 /\ Len(reports') = 0
      BY <2>1, EmptyFacts
    <2>3. PublisherTypeOK'
      <3>1. outq' \in Seq(Message) /\ reports' \in Seq(Message) BY <2>1
      <3>2. Len(outq') + Len(reports') <= Capacity BY <2>2
      <3>3. shut' \in [pc : {"up", "drain", "join", "down"}, polls : 0 .. MaxPolls]
        BY <2>1 DEF PublisherTypeOK
      <3> QED BY <2>1, <3>1, <3>2, <3>3 DEF PublisherTypeOK
    <2>4. QueueInv' BY <2>2 DEF QueueInv
    <2> QED BY <2>1, <2>3, <2>4 DEF PushInv, FreedInv, SamePushed
  <1> QED BY <1>1, <1>2, <1>3, <1>4, <1>5, <1>6, <1>7, <1>8 DEF PubStep

\* The start of a push: only of a message that has not been pushed before.
LEMMA PushInductive ==
  ASSUME PubInv, NEW c \in Caller, NEW m \in Message, owner[m] = "none", PushMessage(c, m)
  PROVE  /\ PubInv' /\ owner'[m] = "caller"
         /\ \A x \in Message : x # m => owner'[x] = owner[x]
  <1> USE PublisherAssumption DEF PubInv
  <1>1. /\ push[c] = NoPush
        /\ push' = [push EXCEPT ![c] = [pc |-> "produce", msg |-> m, retries |-> 0]]
        /\ owner' = [owner EXCEPT ![m] = "caller"]
        /\ UNCHANGED <<outq, reports, outcome, poller, shut>>
    BY DEF PushMessage
  <1>2. /\ owner'[m] = "caller" /\ \A x \in Message : x # m => owner'[x] = owner[x]
        /\ owner' \in [Message -> {"none", "caller", "library", "freed"}]
    BY <1>1 DEF PublisherTypeOK
  <1>3. /\ push'[c].pc = "produce" /\ push'[c].msg = m
        /\ \A d \in Caller : d # c => push'[d] = push[d]
        /\ push' \in [Caller -> PushCall]
    <2> DEFINE r == [pc |-> "produce", msg |-> m, retries |-> 0]
    <2>1. r \in PushCall BY PushCalls
    <2>2. r.pc = "produce" /\ r.msg = m OBVIOUS
    <2> HIDE DEF r
    <2>3. push' = [push EXCEPT ![c] = r] BY <1>1 DEF r
    <2> QED BY <2>1, <2>2, <2>3, PushUpdate
  <1>4. PublisherTypeOK' BY <1>1, <1>2, <1>3 DEF PublisherTypeOK
  <1>5. PushInv' BY <1>2, <1>3 DEF PushInv
  <1>6. QueueInv'
    <2>1. outq \in Seq(Message) /\ reports \in Seq(Message) BY DEF PublisherTypeOK
    <2>2. ToSet(outq) \subseteq Message /\ ToSet(reports) \subseteq Message BY <2>1, SeqFacts
    <2> QED BY <1>1, <1>2, <2>2 DEF QueueInv
  <1>7. FreedInv' BY <1>1, <1>2 DEF FreedInv
  <1> QED BY <1>2, <1>4, <1>5, <1>6, <1>7

-----------------------------------------------------------------------------
(* The monitor. *)

MonitorTypeOK ==
    /\ cmdVec \in Seq(Consumer)
    /\ batch \in Seq(Event) /\ Len(batch) <= MaxBatch
    /\ at \in 0 .. Len(cmdVec) + 1
    /\ arrived \in 0 .. MaxEvents
    /\ cache \in [Serialization -> 0 .. MaxEvents]
    /\ payload \in [EventMessage -> 0 .. MaxEvents]
    /\ batchOf \in [Event -> 0 .. MaxEvents]
    /\ served \in [Event -> SUBSET Consumer]

MonInv == MonitorTypeOK /\ BatchInv /\ ServedInv /\ CacheInv /\ FromItsBatch

LEMMA IInvParts ==
  /\ PublishingIInv <=> PubInv /\ MonInv
  /\ PublishingIInv' <=> PubInv' /\ MonInv'
  BY DEF PublishingIInv, PubInv, MonInv, TypeOK, MonitorTypeOK

LEMMA Messages ==
  /\ \A e \in Event, k \in Consumer : <<e, k>> \in EventMessage /\ <<e, k>> \in Message
                                      /\ <<e, k>> # ReplyMessage
  /\ ReplyMessage \in Message /\ Task \in Caller /\ Worker \in Caller
  <1>1. 0 \notin Event BY PublishingAssumption DEF Event
  <1> QED BY <1>1, PublishingAssumption DEF EventMessage, ReplyMessage

\* A step of the publisher changes nothing of the monitor.
LEMMA PublisherKeeps ==
  ASSUME MonInv, SamePushed, UNCHANGED monitorVars
  PROVE  MonInv'
  <1> USE DEF monitorVars
  <1>1. MonitorTypeOK' BY DEF MonInv, MonitorTypeOK
  <1>2. BatchInv' BY DEF MonInv, BatchInv
  <1>3. ServedInv' BY Messages DEF MonInv, ServedInv, SamePushed
  <1>4. CacheInv' BY DEF MonInv, CacheInv
  <1>5. FromItsBatch' BY DEF MonInv, FromItsBatch
  <1> QED BY <1>1, <1>2, <1>3, <1>4, <1>5 DEF MonInv

LEMMA PublisherUnchanged ==
  ASSUME PubInv, UNCHANGED publisherVars
  PROVE  PubInv' /\ SamePushed
  BY DEF PubInv, publisherVars, PublisherTypeOK, PushInv, QueueInv, FreedInv, SamePushed

\* While no event is being handled, the list of consumers may change.
LEMMA ConsumersKeep ==
  ASSUME MonInv, SamePushed, at = 0, cmdVec' \in Seq(Consumer), Distinct(cmdVec'),
         UNCHANGED <<batch, at, arrived, cache, payload, batchOf, served>>
  PROVE  MonInv'
  <1>1. MonitorTypeOK'
    <2>1. at' = 0 /\ Len(cmdVec') \in Nat BY SeqFacts
    <2>2. at' \in 0 .. Len(cmdVec') + 1 BY <2>1
    <2> QED BY <2>2 DEF MonInv, MonitorTypeOK
  <1>2. BatchInv'
    <2>1. ~(at' > 0) OBVIOUS
    <2> QED BY <2>1 DEF MonInv, BatchInv
  <1>3. ServedInv' BY Messages DEF MonInv, ServedInv, SamePushed
  <1>4. CacheInv' BY DEF MonInv, CacheInv
  <1>5. FromItsBatch' BY DEF MonInv, FromItsBatch
  <1> QED BY <1>1, <1>2, <1>3, <1>4, <1>5 DEF MonInv

LEMMA ConsumerSteps ==
  ASSUME PublishingIInv,
         (\E k \in Consumer : StartConsumer(k)) \/ (\E i \in DOMAIN cmdVec : StopConsumer(i))
  PROVE  PublishingIInv'
  <1> USE DEF MapFree
  <1>0. /\ PubInv /\ MonInv /\ cmdVec \in Seq(Consumer) /\ Distinct(cmdVec)
    BY IInvParts DEF MonInv, MonitorTypeOK, BatchInv
  <1>1. /\ UNCHANGED <<publisherVars, batch, at, arrived, cache, payload, batchOf, served>>
        /\ at = 0
    BY DEF StartConsumer, StopConsumer
  <1>2. ASSUME NEW k \in Consumer, StartConsumer(k)
        PROVE  cmdVec' \in Seq(Consumer) /\ Distinct(cmdVec')
    BY <1>0, <1>2, AppendFacts DEF StartConsumer
  <1>3. ASSUME NEW i \in DOMAIN cmdVec, StopConsumer(i)
        PROVE  cmdVec' \in Seq(Consumer) /\ Distinct(cmdVec')
    BY <1>0, <1>3, RemoveFacts DEF StopConsumer
  <1>4. PubInv' /\ SamePushed BY <1>0, <1>1, PublisherUnchanged
  <1>5. MonInv' BY <1>0, <1>1, <1>2, <1>3, <1>4, ConsumersKeep
  <1> QED BY <1>4, <1>5, IInvParts

\* The event at hand is done with: what is left of its batch is as it was.
LEMMA TailKeeps ==
  ASSUME MonInv, SamePushed, batch # <<>>, batch' = Tail(batch), at' = 0,
         UNCHANGED <<cmdVec, arrived, cache, payload, batchOf, served>>
  PROVE  MonInv'
  <1>0. /\ batch \in Seq(Event) /\ Len(batch) <= MaxBatch /\ arrived \in 0 .. MaxEvents
        /\ MaxBatch \in Nat /\ MaxEvents \in Nat /\ Event = 1 .. MaxEvents
    BY PublishingAssumption DEF MonInv, MonitorTypeOK, Event
  <1>1. /\ batch' \in Seq(Event) /\ Len(batch') = Len(batch) - 1 /\ Len(batch) \in Nat \ {0}
        /\ DOMAIN batch' = 1 .. Len(batch) - 1 /\ DOMAIN batch = 1 .. Len(batch)
        /\ \A i \in DOMAIN batch' : i + 1 \in DOMAIN batch /\ batch'[i] = batch[i + 1]
    BY <1>0, TailFacts
  <1>2. \A i \in DOMAIN batch : batch[i] \in Event /\ batch[i] \in Nat BY <1>0
  <1>3. MonitorTypeOK'
    <2>1. Len(batch') <= MaxBatch BY <1>0, <1>1
    <2>2. cmdVec' \in Seq(Consumer) BY DEF MonInv, MonitorTypeOK
    <2>3. at' \in 0 .. Len(cmdVec') + 1 BY <2>2, SeqFacts
    <2> QED BY <1>1, <2>1, <2>2, <2>3 DEF MonInv, MonitorTypeOK
  <1>4. BatchInv'
    <2>1. \A i, j \in DOMAIN batch' : i < j => batch'[i] < batch'[j]
      <3> TAKE i, j \in DOMAIN batch'
      <3> HAVE i < j
      <3>1. i + 1 < j + 1 /\ i + 1 \in DOMAIN batch /\ j + 1 \in DOMAIN batch BY <1>1
      <3> QED BY <1>1, <3>1 DEF MonInv, BatchInv
    <2>2. \A i \in DOMAIN batch' : batch'[i] <= arrived' BY <1>1 DEF MonInv, BatchInv
    <2>3. \A i \in DOMAIN batch' : served'[batch'[i]] = {}
      <3> TAKE i \in DOMAIN batch'
      <3>1. i + 1 > 1 /\ i + 1 \in DOMAIN batch BY <1>1
      <3> QED BY <1>1, <3>1 DEF MonInv, BatchInv
    <2>4. ~(at' > 0) OBVIOUS
    <2>5. Distinct(cmdVec)' /\ \A e \in Event : e > arrived' => served'[e] = {}
      BY DEF MonInv, BatchInv
    <2> QED BY <2>1, <2>2, <2>3, <2>4, <2>5 DEF BatchInv
  <1>5. ServedInv' BY Messages DEF MonInv, ServedInv, SamePushed
  <1>6. CacheInv'
    <2>1. \A i, j \in DOMAIN batch' : batchOf'[batch'[i]] = batchOf'[batch'[j]]
      BY <1>1 DEF MonInv, CacheInv
    <2>2. ASSUME batch' # <<>> PROVE 1 \in DOMAIN batch' /\ batch'[1] > batch[1] /\ 1 \in DOMAIN batch
                                     /\ batch'[1] \in Nat /\ batch[1] \in Nat /\ batch'[1] = batch[2] /\ 2 \in DOMAIN batch
      <3>1. 1 \in DOMAIN batch' BY <1>1, <2>2, TailFacts
      <3>2. 1 \in DOMAIN batch /\ 2 \in DOMAIN batch /\ batch'[1] = batch[2] BY <1>1, <3>1
      <3>3. batch[1] < batch[2] BY <3>2 DEF MonInv, BatchInv
      <3>4. batch[1] \in Nat /\ batch[2] \in Nat BY <1>2, <3>2
      <3> QED BY <3>1, <3>2, <3>3, <3>4
    <2>3. \A i \in DOMAIN batch' : batchOf'[batch'[i]] <= batch'[1]
      <3> TAKE i \in DOMAIN batch'
      <3>1. batch' # <<>> BY EmptyFacts
      <3>2. i + 1 \in DOMAIN batch /\ batch'[i] = batch[i + 1] BY <1>1
      <3>3. batchOf[batch[i + 1]] <= batch[1] BY <3>2 DEF MonInv, CacheInv
      <3>4. batchOf[batch[i + 1]] \in Nat
        <4>1. batchOf \in [Event -> 0 .. MaxEvents] BY DEF MonInv, MonitorTypeOK
        <4>2. batch[i + 1] \in Event BY <1>2, <3>2
        <4> QED BY <1>0, <4>1, <4>2, SMTT(30)
      <3>5. batchOf'[batch'[i]] = batchOf[batch[i + 1]] BY <3>2
      <3>6. batch'[1] > batch[1] /\ batch'[1] \in Nat /\ batch[1] \in Nat BY <2>2, <3>1
      <3> QED BY <3>3, <3>4, <3>5, <3>6
    <2>4. ASSUME batch' # <<>>, NEW s \in Serialization, cache'[s] # 0
          PROVE  cache'[s] \in batchOf'[batch'[1]] .. batch'[1]
      <3>1. batchOf[batch[1]] = batchOf[batch[2]] BY <2>2, <2>4 DEF MonInv, CacheInv
      <3>2. cache[s] \in batchOf[batch[1]] .. batch[1] BY <2>4 DEF MonInv, CacheInv
      <3>3. batchOf'[batch'[1]] = batchOf[batch[1]] BY <2>2, <2>4, <3>1
      <3>4. cache'[s] = cache[s] OBVIOUS
      <3>5. batchOf[batch[1]] \in Nat
        <4>1. batchOf \in [Event -> 0 .. MaxEvents] BY DEF MonInv, MonitorTypeOK
        <4>2. batch[1] \in Event BY <1>2, <2>2, <2>4
        <4> QED BY <1>0, <4>1, <4>2
      <3>6. batch'[1] > batch[1] /\ batch'[1] \in Nat /\ batch[1] \in Nat BY <2>2, <2>4
      <3>7. \A a, b, c \in Nat : \A x : b < c /\ x \in a .. b => x \in a .. c OBVIOUS
      <3>8. cache[s] \in batchOf[batch[1]] .. batch'[1] BY <3>2, <3>5, <3>6, <3>7
      <3> QED BY <3>3, <3>4, <3>8
    <2> QED BY <2>1, <2>3, <2>4 DEF CacheInv
  <1>7. FromItsBatch' BY DEF MonInv, FromItsBatch
  <1> QED BY <1>3, <1>4, <1>5, <1>6, <1>7 DEF MonInv

LEMMA TakeEventInductive ==
  ASSUME PublishingIInv, TakeEvent
  PROVE  PublishingIInv'
  <1>0. PubInv /\ MonInv BY IInvParts
  <1>1. /\ UNCHANGED <<publisherVars, cmdVec, arrived, cache, payload, batchOf, served>>
        /\ batch # <<>> /\ at = 0
    BY DEF TakeEvent
  <1>2. PubInv' /\ SamePushed BY <1>0, <1>1, PublisherUnchanged
  <1>3. CASE cmdVec = <<>>
    <2>1. batch' = Tail(batch) /\ at' = 0 BY <1>1, <1>3 DEF TakeEvent
    <2> QED BY <1>0, <1>1, <1>2, <2>1, TailKeeps, IInvParts
  <1>4. CASE cmdVec # <<>>
    <2>1. at' = 1 /\ UNCHANGED batch BY <1>4 DEF TakeEvent
    <2>2. MonitorTypeOK'
      <3>1. cmdVec' \in Seq(Consumer) BY <1>0, <1>1 DEF MonInv, MonitorTypeOK
      <3>2. at' \in 0 .. Len(cmdVec') + 1 BY <2>1, <3>1, SeqFacts
      <3> QED BY <1>0, <1>1, <2>1, <3>2 DEF MonInv, MonitorTypeOK
    <2>3. BatchInv'
      <3>1. batch \in Seq(Event) BY <1>0 DEF MonInv, MonitorTypeOK
      <3>2. 1 \in DOMAIN batch BY <1>1, <3>1, TailFacts
      <3>3. served[batch[1]] = {} BY <1>0, <1>1, <3>2 DEF MonInv, BatchInv
      <3>4. {cmdVec'[i] : i \in 1 .. at' - 1} = {} BY <2>1
      <3>5. \A i \in DOMAIN batch' : served'[batch'[i]] = {}
        BY <1>0, <1>1, <2>1 DEF MonInv, BatchInv
      <3> QED BY <1>0, <1>1, <2>1, <3>3, <3>4, <3>5 DEF MonInv, BatchInv
    <2>4. ServedInv' BY <1>0, <1>1, <1>2, Messages DEF MonInv, ServedInv, SamePushed
    <2>5. CacheInv' BY <1>0, <1>1, <2>1 DEF MonInv, CacheInv
    <2>6. FromItsBatch' BY <1>0, <1>1 DEF MonInv, FromItsBatch
    <2>7. MonInv' BY <2>2, <2>3, <2>4, <2>5, <2>6 DEF MonInv
    <2> QED BY <1>2, <2>7, IInvParts
  <1> QED BY <1>3, <1>4

LEMMA EventDoneInductive ==
  ASSUME PublishingIInv, EventDone
  PROVE  PublishingIInv'
  <1>0. PubInv /\ MonInv BY IInvParts
  <1>1. /\ UNCHANGED <<publisherVars, cmdVec, arrived, cache, payload, batchOf, served>>
        /\ batch # <<>> /\ batch' = Tail(batch) /\ at' = 0
    BY <1>0 DEF EventDone, MonInv, BatchInv
  <1>2. PubInv' /\ SamePushed BY <1>0, <1>1, PublisherUnchanged
  <1> QED BY <1>0, <1>1, <1>2, TailKeeps, IInvParts

\* The events a new batch holds.
LEMMA BatchSeq ==
  ASSUME NEW n \in Nat, NEW a \in Nat, a + n <= MaxEvents
  PROVE  LET q == [i \in 1 .. n |-> a + i]
         IN  q \in Seq(Event) /\ Len(q) = n /\ DOMAIN q = 1 .. n
  <1> DEFINE q == [i \in 1 .. n |-> a + i]
  <1>1. \A i \in 1 .. n : a + i \in Event BY PublishingAssumption DEF Event
  <1>2. q \in Seq(Event) BY <1>1, IsASeq
  <1>3. DOMAIN q = 1 .. n OBVIOUS
  <1>4. Len(q) = n BY <1>2, <1>3
  <1> QED BY <1>2, <1>3, <1>4

LEMMA ReceiveBatchInductive ==
  ASSUME PublishingIInv, NEW n \in 1 .. MaxBatch, ReceiveBatch(n)
  PROVE  PublishingIInv'
  <1> DEFINE q == [i \in 1 .. n |-> arrived + i]
             B == [e \in Event |-> IF e \in arrived + 1 .. arrived + n THEN arrived + 1 ELSE batchOf[e]]
  <1>0. PubInv /\ MonInv BY IInvParts
  <1>1. /\ UNCHANGED <<publisherVars, cmdVec, at, payload, served>>
        /\ batch = <<>> /\ arrived + n <= MaxEvents /\ arrived' = arrived + n
        /\ batch' = IF cmdVec = <<>> THEN <<>> ELSE q
        /\ batchOf' = B /\ cache' = NoCache
    BY DEF ReceiveBatch, Cleared
  <1>2. PubInv' /\ SamePushed BY <1>0, <1>1, PublisherUnchanged
  <1>3. /\ n \in Nat /\ n >= 1 /\ n <= MaxBatch /\ arrived \in Nat /\ MaxEvents \in Nat /\ MaxBatch \in Nat
        /\ at = 0 /\ Event = 1 .. MaxEvents
    <2>1. MaxEvents \in Nat /\ MaxBatch \in Nat BY PublishingAssumption
    <2>2. at = 0
      <3>1. cmdVec \in Seq(Consumer) /\ at \in 0 .. Len(cmdVec) + 1 BY <1>0 DEF MonInv, MonitorTypeOK
      <3>2. ~(at > 0) BY <1>0, <1>1 DEF MonInv, BatchInv
      <3>3. Len(cmdVec) \in Nat BY <3>1, SeqFacts
      <3> QED BY <3>1, <3>2, <3>3
    <2>3. arrived \in Nat BY <1>0, <2>1 DEF MonInv, MonitorTypeOK
    <2> QED BY <2>1, <2>2, <2>3 DEF Event
  <1>4. q \in Seq(Event) /\ Len(q) = n /\ DOMAIN q = 1 .. n BY <1>1, <1>3, BatchSeq
  <1>5. \A i \in 1 .. n : q[i] = arrived + i /\ arrived + i \in Event
    BY <1>1, <1>3
  <1> HIDE DEF q
  <1>6. /\ batch' \in Seq(Event) /\ Len(batch') <= MaxBatch
        /\ DOMAIN batch' = 1 .. n \/ DOMAIN batch' = {}
        /\ \A i \in DOMAIN batch' : i \in 1 .. n /\ batch'[i] = arrived + i
    <2>1. CASE cmdVec = <<>>
      <3>1. batch' = <<>> BY <1>1, <2>1
      <3>2. batch' \in Seq(Event) /\ Len(batch') = 0 BY <3>1
      <3>3. DOMAIN batch' = {} BY <3>2
      <3>4. Len(batch') <= MaxBatch BY <1>3, <3>2
      <3>5. \A i \in DOMAIN batch' : i \in 1 .. n /\ batch'[i] = arrived + i BY <3>3
      <3> QED BY <3>1, <3>2, <3>3, <3>4, <3>5
    <2>2. CASE cmdVec # <<>>
      <3>1. batch' = q BY <1>1, <2>2
      <3>2. Len(q) <= MaxBatch BY <1>3, <1>4
      <3>3. \A i \in DOMAIN q : i \in 1 .. n /\ q[i] = arrived + i BY <1>4, <1>5
      <3>4. batch' \in Seq(Event) /\ Len(batch') <= MaxBatch BY <1>4, <3>1, <3>2
      <3>5. DOMAIN batch' = 1 .. n BY <1>4, <3>1
      <3>6. \A i \in DOMAIN batch' : i \in 1 .. n /\ batch'[i] = arrived + i BY <3>1, <3>3
      <3> QED BY <3>4, <3>5, <3>6
    <2> QED BY <2>1, <2>2
  <1>7. /\ \A e \in Event : e > arrived /\ e <= arrived + n => batchOf'[e] = arrived + 1
        /\ \A e \in Event : e <= arrived => batchOf'[e] = batchOf[e]
        /\ batchOf' \in [Event -> 0 .. MaxEvents]
    <2>1. batchOf \in [Event -> 0 .. MaxEvents] BY <1>0 DEF MonInv, MonitorTypeOK
    <2>2. arrived + 1 \in 0 .. MaxEvents BY <1>1, <1>3
    <2> QED BY <1>1, <1>3, <2>1, <2>2
  <1>8. MonitorTypeOK'
    <2>1. cache' \in [Serialization -> 0 .. MaxEvents] BY <1>1, <1>3 DEF NoCache
    <2>2. arrived' \in 0 .. MaxEvents BY <1>1, <1>3
    <2> QED BY <1>0, <1>1, <1>6, <1>7, <2>1, <2>2 DEF MonInv, MonitorTypeOK
  <1>9. BatchInv'
    <2>1. \A i, j \in DOMAIN batch' : i < j => batch'[i] < batch'[j] BY <1>3, <1>6
    <2>2. \A i \in DOMAIN batch' : batch'[i] <= arrived' BY <1>1, <1>3, <1>6
    <2>3. \A e \in Event : e > arrived' => served'[e] = {}
      <3> TAKE e \in Event
      <3> HAVE e > arrived'
      <3>1. e > arrived BY <1>1, <1>3
      <3> QED BY <1>0, <1>1, <3>1 DEF MonInv, BatchInv
    <2>4. \A i \in DOMAIN batch' : served'[batch'[i]] = {}
      <3> TAKE i \in DOMAIN batch'
      <3>1. batch'[i] > arrived /\ batch'[i] \in Event BY <1>3, <1>5, <1>6
      <3> QED BY <1>0, <1>1, <3>1 DEF MonInv, BatchInv
    <2>5. Distinct(cmdVec)' /\ ~(at' > 0) BY <1>0, <1>1, <1>3 DEF MonInv, BatchInv
    <2> QED BY <2>1, <2>2, <2>3, <2>4, <2>5 DEF BatchInv
  <1>10. ServedInv' BY <1>0, <1>1, <1>2, Messages DEF MonInv, ServedInv, SamePushed
  <1>11. CacheInv'
    <2>1. \A i \in DOMAIN batch' : batchOf'[batch'[i]] = arrived + 1
      <3> TAKE i \in DOMAIN batch'
      <3>1. batch'[i] > arrived /\ batch'[i] <= arrived + n /\ batch'[i] \in Event
        BY <1>3, <1>5, <1>6
      <3> QED BY <1>7, <3>1
    <2>2. \A i \in DOMAIN batch' : batch'[1] = arrived + 1 BY <1>3, <1>6
    <2>3. \A s \in Serialization : cache'[s] = 0 BY <1>1 DEF NoCache
    <2>4. \A i \in DOMAIN batch' : batchOf'[batch'[i]] <= batch'[1] BY <1>3, <2>1, <2>2
    <2> QED BY <2>1, <2>3, <2>4 DEF CacheInv
  <1>12. FromItsBatch'
    <2> SUFFICES ASSUME NEW e \in Event, NEW k \in Consumer, k \in served[e]
                 PROVE  payload[<<e, k>>] \in batchOf'[e] .. e
      BY <1>1 DEF FromItsBatch
    <2>1. e <= arrived BY <1>0, <1>3 DEF MonInv, BatchInv
    <2>2. batchOf'[e] = batchOf[e] BY <1>7, <2>1
    <2> QED BY <1>0, <2>2 DEF MonInv, FromItsBatch
  <1> QED BY <1>2, <1>8, <1>9, <1>10, <1>11, <1>12, IInvParts DEF MonInv

LEMMA ReplyInductive ==
  ASSUME PublishingIInv, Reply
  PROVE  PublishingIInv'
  <1>0. PubInv /\ MonInv BY IInvParts
  <1>1. owner[ReplyMessage] = "none" /\ PushMessage(Worker, ReplyMessage) /\ UNCHANGED monitorVars
    BY DEF Reply
  <1>2. PubInv' /\ \A x \in Message : x # ReplyMessage => owner'[x] = owner[x]
    BY <1>0, <1>1, Messages, PushInductive
  <1>3. MonitorTypeOK' BY <1>0, <1>1 DEF MonInv, MonitorTypeOK, monitorVars
  <1>4. BatchInv' BY <1>0, <1>1 DEF MonInv, BatchInv, monitorVars
  <1>5. ServedInv' BY <1>0, <1>1, <1>2, Messages DEF MonInv, ServedInv, monitorVars
  <1>6. CacheInv' BY <1>0, <1>1 DEF MonInv, CacheInv, monitorVars
  <1>7. FromItsBatch' BY <1>0, <1>1 DEF MonInv, FromItsBatch, monitorVars
  <1> QED BY <1>2, <1>3, <1>4, <1>5, <1>6, <1>7, IInvParts DEF MonInv

\* An event goes to a consumer that has not got it.
LEMMA ForwardInductive ==
  ASSUME PublishingIInv, Forward
  PROVE  PublishingIInv'
  <1>0. PubInv /\ MonInv BY IInvParts
  <1>1. /\ cmdVec \in Seq(Consumer) /\ batch \in Seq(Event) /\ at \in 1 .. Len(cmdVec)
        /\ Len(cmdVec) \in Nat /\ DOMAIN cmdVec = 1 .. Len(cmdVec)
        /\ MaxEvents \in Nat /\ Event = 1 .. MaxEvents /\ batch # <<>> /\ at > 0
    <2>1. /\ cmdVec \in Seq(Consumer) /\ batch \in Seq(Event) /\ at \in 1 .. Len(cmdVec)
      BY <1>0 DEF Forward, MonInv, MonitorTypeOK
    <2>2. Len(cmdVec) \in Nat /\ DOMAIN cmdVec = 1 .. Len(cmdVec) BY <2>1, SeqFacts
    <2>3. at > 0 BY <2>1, <2>2
    <2>4. batch # <<>> BY <1>0, <2>3 DEF MonInv, BatchInv
    <2> QED BY <2>1, <2>2, <2>3, <2>4, PublishingAssumption DEF Event
  <1>2. PICK e \in Event : e = Head(batch) /\ e = batch[1] /\ 1 \in DOMAIN batch
    BY <1>1, TailFacts
  <1>3. PICK k \in Consumer : k = cmdVec[at] BY <1>1
  <1>4. PICK s \in Serialization : s = SerializationOf[k] BY DEF Serialization
  <1>5. /\ cache \in [Serialization -> 0 .. MaxEvents]
        /\ payload \in [EventMessage -> 0 .. MaxEvents]
        /\ batchOf \in [Event -> 0 .. MaxEvents]
        /\ served \in [Event -> SUBSET Consumer]
    BY <1>0 DEF MonInv, MonitorTypeOK
  <1>6. PICK b \in Nat : b = batchOf[e] /\ b <= e
    <2>1. batchOf[e] \in Nat BY <1>1, <1>5
    <2>2. batchOf[e] <= e BY <1>0, <1>2 DEF MonInv, CacheInv
    <2> QED BY <2>1, <2>2
  <1>7. PICK v : v = IF cache[s] = 0 THEN e ELSE cache[s] OBVIOUS
  <1>8. v \in b .. e /\ v \in 0 .. MaxEvents
    <2>1. CASE cache[s] = 0 BY <1>1, <1>6, <1>7, <2>1
    <2>2. CASE cache[s] # 0
      <3>1. cache[s] \in batchOf[batch[1]] .. batch[1] BY <1>0, <1>1, <2>2 DEF MonInv, CacheInv
      <3>2. v = cache[s] BY <1>7, <2>2
      <3> QED BY <1>2, <1>5, <1>6, <3>1, <3>2
    <2> QED BY <2>1, <2>2
  <1>9. /\ PushMessage(Task, <<e, k>>)
        /\ cache' = [cache EXCEPT ![s] = v]
        /\ payload' = [payload EXCEPT ![<<e, k>>] = v]
        /\ served' = [served EXCEPT ![e] = @ \cup {k}]
        /\ at' = at + 1
        /\ UNCHANGED <<cmdVec, batch, arrived, batchOf>>
    BY <1>2, <1>3, <1>4, <1>7 DEF Forward
  <1>10. served[e] = {cmdVec[i] : i \in 1 .. at - 1}
    BY <1>0, <1>1, <1>2 DEF MonInv, BatchInv
  <1>11. k \notin served[e]
    <2>1. ASSUME NEW i \in 1 .. at - 1, cmdVec[i] = k PROVE FALSE
      <3>1. i \in DOMAIN cmdVec /\ at \in DOMAIN cmdVec /\ i # at BY <1>1
      <3> QED BY <1>0, <1>3, <2>1, <3>1 DEF MonInv, BatchInv, Distinct
    <2> QED BY <1>10, <2>1
  <1>12. <<e, k>> \in Message /\ <<e, k>> \in EventMessage /\ owner[<<e, k>>] = "none"
    BY <1>0, <1>11, Messages DEF MonInv, ServedInv
  <1>13. /\ PubInv' /\ owner'[<<e, k>>] = "caller"
         /\ \A x \in Message : x # <<e, k>> => owner'[x] = owner[x]
    BY <1>0, <1>9, <1>12, Messages, PushInductive
  <1>14. /\ cache' \in [Serialization -> 0 .. MaxEvents] /\ cache'[s] = v
         /\ \A x \in Serialization : x # s => cache'[x] = cache[x]
    BY <1>5, <1>8, <1>9
  <1>15. /\ payload' \in [EventMessage -> 0 .. MaxEvents] /\ payload'[<<e, k>>] = v
         /\ \A x \in EventMessage : x # <<e, k>> => payload'[x] = payload[x]
    BY <1>5, <1>8, <1>9, <1>12
  <1>16. /\ served' \in [Event -> SUBSET Consumer] /\ served'[e] = served[e] \cup {k}
         /\ \A x \in Event : x # e => served'[x] = served[x]
    BY <1>5, <1>9
  <1>17. MonitorTypeOK'
    <2>1. at' \in 0 .. Len(cmdVec') + 1
      <3>1. at' = at + 1 /\ Len(cmdVec') = Len(cmdVec) BY <1>9
      <3>2. at \in 1 .. Len(cmdVec) /\ Len(cmdVec) \in Nat BY <1>1
      <3> QED BY <3>1, <3>2
    <2> QED BY <1>0, <1>9, <1>14, <1>15, <1>16, <2>1 DEF MonInv, MonitorTypeOK
  <1>18. BatchInv'
    <2>1. \A i \in DOMAIN batch : i > 1 => batch[i] # e
      <3> TAKE i \in DOMAIN batch
      <3> HAVE i > 1
      <3>1. batch[1] < batch[i] BY <1>0, <1>2 DEF MonInv, BatchInv
      <3>2. batch[1] \in Nat BY <1>1, <1>2
      <3> QED BY <1>2, <3>1, <3>2
    <2>2. \A i \in DOMAIN batch' : i > 1 \/ at' = 0 => served'[batch'[i]] = {}
      <3> TAKE i \in DOMAIN batch'
      <3> HAVE i > 1 \/ at' = 0
      <3>1. at' # 0 BY <1>1, <1>9
      <3>2. i \in DOMAIN batch /\ i > 1 /\ batch'[i] = batch[i] BY <1>9, <3>1
      <3>3. batch[i] \in Event /\ served[batch[i]] = {} BY <1>0, <1>1, <3>2 DEF MonInv, BatchInv
      <3> QED BY <1>16, <2>1, <3>2, <3>3
    <2>3. \A x \in Event : x > arrived' => served'[x] = {}
      <3> TAKE x \in Event
      <3> HAVE x > arrived'
      <3>1. e <= arrived /\ x > arrived /\ arrived \in 0 .. MaxEvents
        BY <1>0, <1>2, <1>9 DEF MonInv, BatchInv, MonitorTypeOK
      <3>2. x # e BY <1>1, <3>1
      <3> QED BY <1>0, <1>16, <3>1, <3>2 DEF MonInv, BatchInv
    <2>4. served'[batch'[1]] = {cmdVec'[i] : i \in 1 .. at' - 1}
      <3>1. \A i : i \in 1 .. at' - 1 <=> i \in 1 .. at - 1 \/ i = at BY <1>1, <1>9
      <3>2. {cmdVec'[i] : i \in 1 .. at' - 1} = {cmdVec[i] : i \in 1 .. at - 1} \cup {k}
        BY <1>3, <1>9, <3>1
      <3>3. batch'[1] = e BY <1>2, <1>9
      <3> QED BY <1>10, <1>16, <3>2, <3>3
    <2>5. /\ Distinct(cmdVec') /\ batch' # <<>>
          /\ \A i, j \in DOMAIN batch' : i < j => batch'[i] < batch'[j]
          /\ \A i \in DOMAIN batch' : batch'[i] <= arrived'
      BY <1>0, <1>1, <1>9 DEF MonInv, BatchInv
    <2> QED BY <2>2, <2>3, <2>4, <2>5 DEF BatchInv
  <1>19. ServedInv'
    <2> SUFFICES ASSUME NEW x \in Event, NEW y \in Consumer
                 PROVE  y \in served'[x] <=> owner'[<<x, y>>] # "none"
      BY DEF ServedInv
    <2>1. y \in served[x] <=> owner[<<x, y>>] # "none" BY <1>0 DEF MonInv, ServedInv
    <2>2. CASE x = e /\ y = k BY <1>13, <1>16, <2>2
    <2>3. CASE ~(x = e /\ y = k)
      <3>1. <<x, y>> # <<e, k>> /\ <<x, y>> \in Message BY <2>3, Messages
      <3>2. owner'[<<x, y>>] = owner[<<x, y>>] BY <1>13, <3>1
      <3>3. y \in served'[x] <=> y \in served[x] BY <1>16, <2>3
      <3> QED BY <2>1, <3>2, <3>3
    <2> QED BY <2>2, <2>3
  <1>20. CacheInv'
    <2>1. \A x \in Serialization : cache'[x] # 0 => cache'[x] \in b .. e
      <3> TAKE x \in Serialization
      <3>1. cache[x] # 0 => cache[x] \in b .. e
        BY <1>0, <1>1, <1>2, <1>6 DEF MonInv, CacheInv
      <3> QED BY <1>8, <1>14, <3>1
    <2>2. batchOf'[batch'[1]] = b /\ batch'[1] = e BY <1>2, <1>6, <1>9
    <2> QED BY <1>0, <1>9, <2>1, <2>2 DEF MonInv, CacheInv
  <1>21. FromItsBatch'
    <2> SUFFICES ASSUME NEW x \in Event, NEW y \in Consumer, y \in served'[x]
                 PROVE  payload'[<<x, y>>] \in batchOf[x] .. x
      BY <1>9 DEF FromItsBatch
    <2>2. CASE x = e /\ y = k BY <1>6, <1>8, <1>15, <2>2
    <2>3. CASE ~(x = e /\ y = k)
      <3>1. <<x, y>> # <<e, k>> /\ <<x, y>> \in EventMessage BY <2>3, Messages
      <3>2. payload'[<<x, y>>] = payload[<<x, y>>] BY <1>15, <3>1
      <3>3. y \in served[x] BY <1>16, <2>3
      <3>4. payload[<<x, y>>] \in batchOf[x] .. x BY <1>0, <3>3 DEF MonInv, FromItsBatch
      <3> QED BY <3>2, <3>4
    <2> QED BY <2>2, <2>3
  <1> QED BY <1>13, <1>17, <1>18, <1>19, <1>20, <1>21, IInvParts DEF MonInv

-----------------------------------------------------------------------------
(* The theorems. *)

LEMMA InitPublishing == Init => PublishingIInv
  <1> SUFFICES ASSUME Init PROVE PublishingIInv OBVIOUS
  <1> USE PublisherAssumption, PublishingAssumption DEF Init, PublisherInit
  <1>1. /\ outq = <<>> /\ reports = <<>> /\ cmdVec = <<>> /\ batch = <<>> /\ at = 0 /\ arrived = 0
        /\ ToSet(outq) = {} /\ ToSet(reports) = {} /\ Distinct(outq) /\ Distinct(reports)
        /\ Distinct(cmdVec) /\ Len(outq) = 0 /\ Len(reports) = 0 /\ Len(cmdVec) = 0 /\ Len(batch) = 0
    BY EmptyFacts
  <1>2. outq \in Seq(Message) /\ reports \in Seq(Message) /\ cmdVec \in Seq(Consumer) /\ batch \in Seq(Event)
    OBVIOUS
  <1>3. PublisherTypeOK
    <2>1. push \in [Caller -> PushCall] BY PushCalls
    <2>2. Len(outq) + Len(reports) <= Capacity BY <1>1
    <2> QED BY <1>2, <2>1, <2>2 DEF PublisherTypeOK
  <1>4. PushInv
    <2>1. \A c \in Caller : push[c] = NoPush /\ push[c].pc = "idle" BY PushFields
    <2> QED BY <2>1 DEF PushInv
  <1>5. QueueInv /\ FreedInv BY <1>1 DEF QueueInv, FreedInv
  <1>6. MonitorTypeOK
    <2>1. at \in 0 .. Len(cmdVec) + 1 /\ Len(batch) <= MaxBatch /\ arrived \in 0 .. MaxEvents BY <1>1
    <2>2. /\ cache \in [Serialization -> 0 .. MaxEvents]
          /\ payload \in [EventMessage -> 0 .. MaxEvents]
          /\ batchOf \in [Event -> 0 .. MaxEvents]
      BY DEF NoCache
    <2>3. served \in [Event -> SUBSET Consumer] OBVIOUS
    <2> QED BY <1>2, <2>1, <2>2, <2>3 DEF MonitorTypeOK
  <1>7. DOMAIN batch = {} BY <1>1
  <1>8. BatchInv
    <2>1. ~(at > 0) BY <1>1
    <2>2. \A e \in Event : served[e] = {} OBVIOUS
    <2> QED BY <1>1, <1>7, <2>1, <2>2 DEF BatchInv
  <1>9. ServedInv /\ FromItsBatch
    <2>1. \A e \in Event, k \in Consumer : owner[<<e, k>>] = "none" BY Messages
    <2>2. \A e \in Event : served[e] = {} OBVIOUS
    <2> QED BY <2>1, <2>2 DEF ServedInv, FromItsBatch
  <1>10. CacheInv BY <1>1, <1>7 DEF CacheInv
  <1> QED BY <1>3, <1>4, <1>5, <1>6, <1>8, <1>9, <1>10, IInvParts DEF PubInv, MonInv

LEMMA NextPublishing ==
  ASSUME PublishingIInv, [Next]_vars
  PROVE  PublishingIInv'
  <1>1. CASE PubStep /\ UNCHANGED monitorVars
    BY <1>1, IInvParts, PubInductive, PublisherKeeps
  <1>2. CASE UNCHANGED vars
    BY <1>2, IInvParts, PublisherUnchanged, PublisherKeeps DEF vars
  <1>3. CASE TaskStep
    <2>1. PushStep(Task) => PubStep BY Messages DEF PushStep, PubStep, GiveUp, ProduceFails
    <2> QED BY <1>1, <1>3, <2>1, TakeEventInductive, ForwardInductive, EventDoneInductive DEF TaskStep
  <1>4. CASE WorkerStep
    BY <1>1, <1>4, Messages DEF WorkerStep, PushStep, PubStep, GiveUp, ProduceFails
  <1>5. CASE BrokerStep \/ PollerStep \/ CloseStep \/ Close
    BY <1>1, <1>5 DEF BrokerStep, PollerStep, CloseStep, Close, PubStep
  <1> QED
    BY <1>2, <1>3, <1>4, <1>5, ConsumerSteps, ReceiveBatchInductive, ReplyInductive DEF Next

LEMMA IInvImplies == PublishingIInv => PublisherInv
  <1> SUFFICES ASSUME PublishingIInv PROVE PublisherInv OBVIOUS
  <1> DEFINE r == outq \o reports
  <1>1. /\ TypeOK /\ FromItsBatch /\ QueueInv /\ FreedInv
        /\ outq \in Seq(Message) /\ reports \in Seq(Message)
    BY DEF PublishingIInv, TypeOK, PublisherTypeOK
  <1>2. PICK n \in Nat, l \in Nat : n = Len(outq) /\ l = Len(reports)
    BY <1>1, SeqFacts
  <1>3. /\ r \in Seq(Message) /\ DOMAIN r = 1 .. n + l
        /\ DOMAIN outq = 1 .. n /\ DOMAIN reports = 1 .. l
    <2>1. r \in Seq(Message) /\ Len(r) = n + l BY <1>1, <1>2, ConcatProperties
    <2> QED BY <1>1, <1>2, <2>1, SeqFacts
  <1>4. \A i \in 1 .. n + l : r[i] = IF i <= n THEN outq[i] ELSE reports[i - n]
    BY <1>1, <1>2, ConcatProperties
  <1> HIDE DEF r
  <1>5. \A i \in 1 .. n + l : /\ i <= n => i \in DOMAIN outq /\ r[i] = outq[i] /\ r[i] \in ToSet(outq)
                              /\ i > n => i - n \in DOMAIN reports /\ r[i] = reports[i - n]
                                          /\ r[i] \in ToSet(reports)
    <2> TAKE i \in 1 .. n + l
    <2>1. CASE i <= n
      <3>1. i \in DOMAIN outq /\ r[i] = outq[i] BY <1>3, <1>4, <2>1
      <3> QED BY <2>1, <3>1 DEF ToSet
    <2>2. CASE i > n
      <3>1. i - n \in DOMAIN reports /\ r[i] = reports[i - n] BY <1>3, <1>4, <2>2
      <3> QED BY <2>2, <3>1 DEF ToSet
    <2> QED BY <2>1, <2>2
  <1>6. \A m \in ToSet(r) : m \in ToSet(outq) \cup ToSet(reports)
    <2> SUFFICES ASSUME NEW i \in DOMAIN r PROVE r[i] \in ToSet(outq) \cup ToSet(reports)
      BY DEF ToSet
    <2>1. i \in 1 .. n + l /\ (i <= n \/ i > n) BY <1>3
    <2> QED BY <1>5, <2>1
  <1>7. BufferAlive BY <1>1, <1>6 DEF BufferAlive, QueueInv, r
  <1>8. OneFate
    <2>1. ASSUME NEW m \in Message
          PROVE  Cardinality({i \in DOMAIN r : r[i] = m}) + (IF outcome[m] # "none" THEN 1 ELSE 0) <= 1
      <3> DEFINE I == {i \in DOMAIN r : r[i] = m}
      <3>1. CASE outcome[m] # "none"
        <4>1. owner[m] = "freed" BY <1>1, <3>1 DEF FreedInv
        <4>2. m \notin ToSet(r) BY <1>1, <1>6, <4>1 DEF QueueInv
        <4>3. I = {} BY <4>2 DEF ToSet
        <4>4. Cardinality(I) = 0 BY <4>3, FS_EmptySet
        <4> QED BY <3>1, <4>4
      <3>2. CASE outcome[m] = "none"
        <4>1. ASSUME NEW i \in I, NEW j \in I PROVE i = j
          <5>1. i \in 1 .. n + l /\ j \in 1 .. n + l /\ r[i] = m /\ r[j] = m BY <1>3
          <5>2. CASE i <= n /\ j <= n
            <6>1. i \in DOMAIN outq /\ j \in DOMAIN outq /\ outq[i] = outq[j] BY <1>5, <5>1, <5>2
            <6> QED BY <1>1, <6>1 DEF QueueInv, Distinct
          <5>3. CASE i > n /\ j > n
            <6>1. i - n \in DOMAIN reports /\ j - n \in DOMAIN reports /\ reports[i - n] = reports[j - n]
              BY <1>5, <5>1, <5>3
            <6>2. i - n = j - n BY <1>1, <6>1 DEF QueueInv, Distinct
            <6> QED BY <5>1, <6>2
          <5>4. CASE i <= n /\ j > n BY <1>1, <1>5, <5>1, <5>4 DEF QueueInv
          <5>5. CASE i > n /\ j <= n BY <1>1, <1>5, <5>1, <5>5 DEF QueueInv
          <5> QED BY <5>1, <5>2, <5>3, <5>4, <5>5
        <4>2. Cardinality(I) <= 1
          <5>1. CASE I = {} BY <5>1, FS_EmptySet
          <5>2. CASE I # {}
            <6>1. PICK i \in I : TRUE BY <5>2
            <6>2. I = {i} BY <4>1, <6>1
            <6> HIDE DEF I
            <6>3. Cardinality(I) = 1 BY <6>2, FS_Singleton
            <6> QED BY <6>3
          <5> QED BY <5>1, <5>2
        <4>3. Cardinality(I) \in Nat
          <5>1. IsFiniteSet(DOMAIN r) BY <1>3, FS_Interval
          <5>2. IsFiniteSet(I) BY <5>1, FS_Subset
          <5> QED BY <5>2, FS_CardinalityType
        <4> QED BY <3>2, <4>2, <4>3
      <3> QED BY <3>1, <3>2
    <2> QED BY <1>1, <2>1 DEF OneFate, FreedInv, r
  <1> QED BY <1>1, <1>7, <1>8 DEF PublisherInv

\* What holds between two steps of the publisher and the monitor, for any
\* number of consumers, events and retries and any queue capacity.
THEOREM PublishingInductive == Spec => []PublishingIInv
  <1>1. PublishingIInv /\ [Next]_vars => PublishingIInv' BY NextPublishing
  <1> QED BY <1>1, InitPublishing, PTL DEF Spec

\* A buffer lives as long as the producer holds its message, a message has one
\* fate (refused, or one callback), and a payload belongs to its batch.
THEOREM PublisherCorrect == Spec => []PublisherInv
  BY PublishingInductive, IInvImplies, PTL

\* When epicsMonitorEvent is done with an event, exactly the consumers in
\* cmd_vec have got a message for it.
THEOREM ConsumersAreServed == Spec => ConsumersServed
  <1> DEFINE Served == at > 0 /\ at' = 0 => served[Head(batch)] = ToSet(cmdVec)
  <1>1. ASSUME PublishingIInv, [Next]_vars PROVE [Served]_vars
    <2>1. SUFFICES ASSUME Next, at > 0, at' = 0 PROVE served[Head(batch)] = ToSet(cmdVec)
      BY <1>1
    <2>2. /\ cmdVec \in Seq(Consumer) /\ batch \in Seq(Event) /\ at \in 0 .. Len(cmdVec) + 1
          /\ batch # <<>> /\ served[batch[1]] = {cmdVec[i] : i \in 1 .. at - 1}
      BY <1>1, <2>1, IInvParts DEF MonInv, MonitorTypeOK, BatchInv
    <2>3. Len(cmdVec) \in Nat /\ DOMAIN cmdVec = 1 .. Len(cmdVec) BY <2>2, SeqFacts
    <2>4. at \in Nat /\ at # 0 /\ at' # at BY <2>1, <2>2, <2>3
    <2>5. EventDone
      <3>1. ~Forward BY <2>1, <2>4 DEF Forward
      <3>2. at' # at BY <2>4
      <3>3. at # 0 BY <2>4
      <3> QED
        BY <2>1, <3>1, <3>2, <3>3
        DEF Next, StartConsumer, StopConsumer, ReceiveBatch, TaskStep, TakeEvent, Reply, WorkerStep,
            BrokerStep, PollerStep, CloseStep, Close, monitorVars, vars
    <2>6. at > Len(cmdVec) BY <2>5 DEF EventDone
    <2>7. at - 1 = Len(cmdVec) BY <2>2, <2>3, <2>6
    <2>8. {cmdVec[i] : i \in 1 .. at - 1} = ToSet(cmdVec) BY <2>3, <2>7 DEF ToSet
    <2>9. Head(batch) = batch[1] BY <2>2, TailFacts
    <2> QED BY <2>2, <2>8, <2>9
  <1>2. Spec => [][Served]_vars BY <1>1, PublishingInductive, PTL DEF Spec
  <1> QED BY <1>2 DEF ConsumersServed
=============================================================================
