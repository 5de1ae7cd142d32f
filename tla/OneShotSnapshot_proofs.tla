----------------------- MODULE OneShotSnapshot_proofs -----------------------
(***************************************************************************)
(* Proofs about OneShotSnapshot, for any PVs, commands, lists and threads: *)
(* the replies of a command keep their protocol and nothing is merged from *)
(* a null event, what had arrived when the last look began is reported,    *)
(* and a reply holds one whole update of its PV.  The invariant follows    *)
(* the operations through poll and take, whoever calls them.               *)
(***************************************************************************)
EXTENDS OneShotSnapshot, FiniteSetTheorems, SequenceTheorems, TLAPS

-----------------------------------------------------------------------------
(* Types. *)

\* A request whose events carry versions of V, and an operation of two of them.
Request(V) ==
    [opening : BOOLEAN, subscribed : BOOLEAN, queue : Seq(V), received : Seq(V), faults : BOOLEAN,
     force : BOOLEAN, get : {"none", "asked", "done"}, got : V]
Operation(V) ==
    [combined : BOOLEAN, principal : Request(V), additional : Request(V),
     known : BOOLEAN, last : V]

Event == [principal : Nat, additional : Nat]
Reply == [error : {-1, 0, 1}, pv : PV \cup {BadName}, event : Event]
Place == {"idle", "queued", "look", "have", "done"}

OpType ==
    /\ version \in [PV -> 1 .. MaxVersion]
    /\ op = [o \in OpId |-> op[o]]
    /\ \A o \in OpId : /\ op[o] \in Operation(0 .. version[o[2]])
                       /\ op[o].combined <=> o[2] \in Ca

WorkType ==
    /\ ops \in [Cmd -> Seq(PV)] /\ processed \in [Cmd -> SUBSET Nat]
    /\ expired \in [Cmd -> BOOLEAN] /\ late \in [Cmd -> BOOLEAN]
    /\ pc \in [Cmd -> Place] /\ index \in [Cmd -> Nat]
    /\ queue \in Seq(Cmd) /\ replies \in [Cmd -> Seq(Reply)]
    /\ arrived \in [Cmd -> SUBSET PV]

RestType ==
    /\ lost \in 0 .. MaxLost
    /\ tpc \in [Monitored -> {"poll", "take"}]
    /\ ub \in {"none", "back", "merge", "null", "race"}

-----------------------------------------------------------------------------
(* The inductive invariant. *)

\* An operation that can be joined has its additional event, if it needs one.
Joinable(x) == x.combined => AdditionalKnown(x)

\* The task of a command: a PV that it holds a value of is still to be sent, and
\* only the last look is late.
ListInv(c) ==
    /\ IsInjective(ops[c]) /\ processed[c] \subseteq DOMAIN ops[c]
    /\ index[c] \in 1 .. Len(ops[c]) + 1
    /\ pc[c] = "have" => index[c] \in DOMAIN ops[c] \ processed[c]
    /\ pc[c] = "idle" => ops[c] = <<>> /\ replies[c] = <<>>
    /\ pc[c] \in {"idle", "queued"} => ~late[c]
QueueInv ==
    /\ IsInjective(queue)
    /\ \A c \in Cmd : c \in ToSet(queue) <=> pc[c] = "queued"

\* Every value was sent for a processed PV, and for no PV twice.
ReplyInv(c) ==
    /\ \A i \in DOMAIN replies[c] :
         /\ replies[c][i].error = -1 => i = 1
         /\ replies[c][i].error = 1 => i = Len(replies[c]) /\ pc[c] = "done"
         /\ replies[c][i].error = 0 => \E k \in processed[c] : replies[c][i].pv = ops[c][k]
    /\ \A i, j \in Values(c) : replies[c][i].pv = replies[c][j].pv => i = j
    /\ pc[c] = "done" => \E i \in DOMAIN replies[c] : replies[c][i].error = 1

\* Whoever has seen an operation with data, or with events, finds it joinable when
\* it takes them, although others may have taken from it in between.
KnownInv ==
    /\ \A c \in Cmd : pc[c] = "have" => Joinable(op[OpOf(c, At(c))])
    /\ \A p \in Monitored : tpc[p] = "take" => Joinable(op[<<Service, p>>])
    /\ ub # "merge"

\* A value that had arrived when the last look began is reported, or its PV is
\* still ahead and the operation of the command still has it.
Awaited(c, p) ==
    /\ p \notin Monitored
    /\ hasData(poll(op[<<c, p>>]))
    /\ \E i \in DOMAIN ops[c] :
         /\ ops[c][i] = p /\ i >= index[c] /\ i \notin processed[c]
         /\ pc[c] = "have" /\ i = index[c] => hasData(op[<<c, p>>])
ArrivedInv(c) ==
    /\ late[c] /\ pc[c] \in {"look", "have"} /\ ub = "none" =>
         \A p \in arrived[c] : p \in Reported(c) \/ Awaited(c, p)
    /\ pc[c] = "done" => arrived[c] \subseteq Reported(c)

\* An operation of a command is forced when it is looked at for the last time, so
\* that its additional request never holds the answer of a get.
Fetched(x, v) ==
    /\ x.additional.queue \in Seq(1 .. v) /\ x.additional.received \in Seq(1 .. v)
    /\ x.known => x.last # 0
    /\ ~x.additional.force => x.additional.get = "none"
Passed(c, p) ==
    /\ late[c]
    /\ \E i \in DOMAIN ops[c] : /\ ops[c][i] = p
                                /\ i < index[c] \/ (i = index[c] /\ pc[c] = "have")
PrivateInv(c) ==
    \A p \in PV \ Monitored : /\ Fetched(op[<<c, p>>], version[p])
                              /\ op[<<c, p>>].additional.force => Passed(c, p)

\* What a reply was made of.
ValuesInv(c) ==
    \A i \in Values(c) :
      LET p == replies[c][i].pv
          e == replies[c][i].event
      IN /\ p \in PV /\ e.principal \in 0 .. version[p] /\ e.additional \in 0 .. version[p]
         /\ p \in Ca \ Monitored => e.additional # 0

OneShotIInv ==
    /\ OpType /\ WorkType /\ RestType /\ QueueInv /\ KnownInv
    /\ \A c \in Cmd : /\ ListInv(c) /\ ReplyInv(c) /\ ArrivedInv(c)
                      /\ PrivateInv(c) /\ ValuesInv(c)

-----------------------------------------------------------------------------
(* Monitor operations. *)

LEMMA NewOpType ==
  ASSUME NEW V, 0 \in V, NEW b \in BOOLEAN
  PROVE  NewOp(b) \in Operation(V) /\ NewOp(b).combined = b
  BY DEF NewOp, NewRequest, Operation, Request

LEMMA WiderRequest ==
  ASSUME NEW V, NEW W, V \subseteq W, NEW r \in Request(V)
  PROVE  r \in Request(W)
  BY DEF Request

LEMMA WiderOperation ==
  ASSUME NEW V, NEW W, V \subseteq W, NEW x \in Operation(V)
  PROVE  x \in Operation(W)
  BY WiderRequest DEF Operation

LEMMA RequestTypes ==
  ASSUME NEW V, 0 \in V, NEW r \in Request(V), NEW v \in V
  PROVE  /\ connectEvent(r) \in Request(V)
         /\ firstEvent(r, v) \in Request(V)
         /\ lostEvent(r) \in Request(V)
         /\ monitorEvent(r, v) \in Request(V)
         /\ requestPoll(r) \in Request(V)
         /\ requestTake(r) \in Request(V)
         /\ [r EXCEPT !.get = "done", !.got = v] \in Request(V)
         /\ [r EXCEPT !.force = TRUE] \in Request(V)
  <1>0. /\ r.queue \in Seq(V) /\ r.received \in Seq(V) /\ r.got \in V
        /\ <<>> \in Seq(V) /\ <<v>> \in Seq(V)
    BY DEF Request
  <1>1. connectEvent(r) \in Request(V) BY <1>0 DEF Request, connectEvent
  <1>8. firstEvent(r, v) \in Request(V) BY <1>0 DEF Request, firstEvent
  <1>2. lostEvent(r) \in Request(V) BY DEF Request, lostEvent
  <1>3. monitorEvent(r, v) \in Request(V)
    <2>1. Append(r.queue, v) \in Seq(V) BY <1>0
    <2> QED BY <2>1 DEF Request, monitorEvent
  <1>4. requestTake(r) \in Request(V) BY <1>0 DEF Request, requestTake
  <1>5. requestPoll(r) \in Request(V)
    <2>1. [r EXCEPT !.received = @ \o r.queue, !.queue = <<>>] \in Request(V)
      <3>1. r.received \o r.queue \in Seq(V) BY <1>0
      <3> QED BY <1>0, <3>1 DEF Request
    <2>2. [r EXCEPT !.get = "asked"] \in Request(V) BY DEF Request
    <2>3. [r EXCEPT !.received = Append(@, r.got), !.get = "none", !.got = 0, !.force = FALSE]
            \in Request(V)
      <3>1. Append(r.received, r.got) \in Seq(V) BY <1>0
      <3> QED BY <1>0, <3>1 DEF Request
    <2> QED BY <2>1, <2>2, <2>3 DEF requestPoll
  <1>6. [r EXCEPT !.get = "done", !.got = v] \in Request(V) BY DEF Request
  <1>7. [r EXCEPT !.force = TRUE] \in Request(V) BY DEF Request
  <1> QED BY <1>1, <1>2, <1>3, <1>4, <1>5, <1>6, <1>7, <1>8

\* What the methods of an operation leave alone.
LEMMA PollType ==
  ASSUME NEW V, 0 \in V, NEW x \in Operation(V)
  PROVE  /\ poll(x) \in Operation(V)
         /\ poll(x).combined = x.combined /\ poll(x).known = x.known
         /\ poll(x).last = x.last
         /\ poll(x).principal = requestPoll(x.principal)
         /\ x.combined => poll(x).additional = requestPoll(x.additional)
         /\ ~x.combined => poll(x).additional = x.additional
  <1>1. x.principal \in Request(V) /\ x.additional \in Request(V) BY DEF Operation
  <1>2. requestPoll(x.principal) \in Request(V) /\ requestPoll(x.additional) \in Request(V)
    BY <1>1, RequestTypes
  <1> QED BY <1>1, <1>2 DEF Operation, poll

LEMMA ForceType ==
  ASSUME NEW V, 0 \in V, NEW x \in Operation(V)
  PROVE  /\ forceUpdate(x) \in Operation(V)
         /\ forceUpdate(x).combined = x.combined /\ forceUpdate(x).known = x.known
         /\ forceUpdate(x).last = x.last
         /\ forceUpdate(x).principal = [x.principal EXCEPT !.force = TRUE]
         /\ forceUpdate(x).additional = [x.additional EXCEPT !.force = x.combined]
  <1>1. x.principal \in Request(V) /\ x.additional \in Request(V) /\ x.combined \in BOOLEAN
    BY DEF Operation
  <1>2. /\ [x.principal EXCEPT !.force = TRUE] \in Request(V)
        /\ [x.additional EXCEPT !.force = x.combined] \in Request(V)
    BY <1>1 DEF Request
  <1> QED BY <1>1, <1>2 DEF Operation, forceUpdate

LEMMA TakeType ==
  ASSUME NEW V, 0 \in V, NEW x \in Operation(V)
  PROVE  /\ AfterTake(x) \in Operation(V)
         /\ AfterTake(x).combined = x.combined
         /\ AfterTake(x).principal \in {x.principal, requestTake(x.principal)}
         /\ AfterTake(x).additional \in {x.additional, requestTake(x.additional)}
         /\ x.combined /\ AdditionalKnown(x) => AfterTake(x).known
         /\ x.combined /\ requestHasData(x.additional) => AfterTake(x).last = Last(x.additional.received)
         /\ ~(x.combined /\ requestHasData(x.additional)) =>
              AfterTake(x).last = x.last /\ AfterTake(x).known = x.known
  <1>1. x.principal \in Request(V) /\ x.additional \in Request(V) BY DEF Operation
  <1>2. requestTake(x.principal) \in Request(V) /\ requestTake(x.additional) \in Request(V)
    BY <1>1, RequestTypes
  <1>3. requestHasData(x.additional) => Last(x.additional.received) \in V
    BY <1>1 DEF requestHasData, Request, Last
  <1> QED BY <1>1, <1>2, <1>3 DEF Operation, AfterTake, AdditionalKnown

\* An operation stays joinable: no step but the end of its command takes the
\* additional event away.
LEMMA PollJoinable ==
  ASSUME NEW V, 0 \in V, NEW x \in Operation(V), Joinable(x)
  PROVE  Joinable(poll(x))
  <1>1. x.additional \in Request(V) BY DEF Operation
  <1>2. requestHasData(x.additional) => requestHasData(requestPoll(x.additional))
    <2>1. SUFFICES ASSUME x.additional.received # <<>> PROVE requestPoll(x.additional).received # <<>>
      BY DEF requestHasData
    <2>2. /\ x.additional.received \in Seq(V) /\ x.additional.queue \in Seq(V)
          /\ x.additional.got \in V
      BY <1>1 DEF Request
    <2>3. /\ x.additional.received \o x.additional.queue # <<>>
          /\ Append(x.additional.received, x.additional.got) # <<>>
      BY <2>1, <2>2
    <2> QED BY <1>1, <2>1, <2>3 DEF requestPoll, Request
  <1> QED BY <1>2, PollType DEF Joinable, AdditionalKnown

LEMMA TakeJoinable ==
  ASSUME NEW V, 0 \in V, NEW x \in Operation(V), Joinable(x)
  PROVE  Joinable(AfterTake(x)) /\ ~MergesNull(x)
  BY TakeType DEF Joinable, AdditionalKnown, MergesNull

LEMMA ForceJoinable ==
  ASSUME NEW V, 0 \in V, NEW x \in Operation(V)
  PROVE  /\ Joinable(forceUpdate(x)) <=> Joinable(x)
         /\ hasData(forceUpdate(x)) <=> hasData(x)
  <1>1. x.principal \in Request(V) /\ x.additional \in Request(V) BY DEF Operation
  <1>2. /\ [x.principal EXCEPT !.force = TRUE].received = x.principal.received
        /\ [x.additional EXCEPT !.force = x.combined].received = x.additional.received
    BY <1>1 DEF Request
  <1>3. /\ forceUpdate(x).additional.received = x.additional.received
        /\ forceUpdate(x).principal.received = x.principal.received
        /\ forceUpdate(x).combined = x.combined /\ forceUpdate(x).known = x.known
    BY <1>2, ForceType
  <1>4. AdditionalKnown(forceUpdate(x)) <=> AdditionalKnown(x)
    BY <1>3 DEF AdditionalKnown, requestHasData
  <1> QED BY <1>3, <1>4 DEF Joinable, requestHasData, hasData

\* What the next poll makes of a request, and of an operation.
Pollable(r) == r.received # <<>> \/ r.queue # <<>> \/ (r.force /\ r.get = "done")
PollableOp(x) == Pollable(x.principal) /\ (x.combined => Pollable(x.additional) \/ x.known)

LEMMA PollReceives ==
  ASSUME NEW V, NEW r \in Request(V)
  PROVE  requestHasData(requestPoll(r)) <=> Pollable(r)
  <1>1. r.received \in Seq(V) /\ r.queue \in Seq(V) /\ r.got \in V BY DEF Request
  <1>2. CASE r.queue # <<>>
    <2>1. requestPoll(r).received = r.received \o r.queue BY <1>2 DEF requestPoll, Request
    <2>2. r.received \o r.queue # <<>> BY <1>1, <1>2
    <2> QED BY <1>2, <2>1, <2>2 DEF requestHasData, Pollable
  <1>3. CASE r.queue = <<>> /\ r.force /\ r.get = "done"
    <2>1. requestPoll(r).received = Append(r.received, r.got)
      BY <1>3 DEF requestPoll, Request
    <2>2. Append(r.received, r.got) # <<>> BY <1>1
    <2> QED BY <1>3, <2>1, <2>2 DEF requestHasData, Pollable
  <1>4. CASE r.queue = <<>> /\ ~(r.force /\ r.get = "done")
    <2>1. requestPoll(r).received = r.received BY <1>4 DEF requestPoll, Request
    <2> QED BY <1>4, <2>1 DEF requestHasData, Pollable
  <1> QED BY <1>2, <1>3, <1>4

LEMMA PollHasData ==
  ASSUME NEW V, 0 \in V, NEW x \in Operation(V)
  PROVE  /\ hasData(poll(x)) <=> PollableOp(x)
         /\ hasData(x) => PollableOp(x)
         /\ PollableOp(x) => PollableOp(forceUpdate(x))
  <1>0. x.principal \in Request(V) /\ x.additional \in Request(V) /\ x.combined \in BOOLEAN
    BY DEF Operation
  <1>1. hasData(poll(x)) <=> PollableOp(x)
    <2>1. /\ requestHasData(requestPoll(x.principal)) <=> Pollable(x.principal)
          /\ requestHasData(requestPoll(x.additional)) <=> Pollable(x.additional)
      BY <1>0, PollReceives
    <2> QED BY <2>1, PollType DEF hasData, AdditionalKnown, PollableOp
  <1>2. hasData(x) => PollableOp(x)
    BY DEF hasData, AdditionalKnown, requestHasData, PollableOp, Pollable
  <1>3. PollableOp(x) => PollableOp(forceUpdate(x))
    <2>1. Pollable(x.principal) => Pollable([x.principal EXCEPT !.force = TRUE])
      BY <1>0 DEF Pollable, Request
    <2>2. x.combined /\ Pollable(x.additional) => Pollable([x.additional EXCEPT !.force = x.combined])
      BY <1>0 DEF Pollable, Request
    <2>3. /\ forceUpdate(x).principal = [x.principal EXCEPT !.force = TRUE]
          /\ forceUpdate(x).additional = [x.additional EXCEPT !.force = x.combined]
          /\ forceUpdate(x).combined = x.combined /\ forceUpdate(x).known = x.known
      BY ForceType
    <2> QED BY <2>1, <2>2, <2>3 DEF PollableOp
  <1> QED BY <1>1, <1>2, <1>3

-----------------------------------------------------------------------------
(* What the steps do to the operations. *)

LEMMA Ids ==
  /\ \A c \in Cmd : \A p \in PV : /\ <<c, p>> \in OpId /\ OpOf(c, p) \in OpId
                                  /\ OpOf(c, p)[2] = p /\ <<c, p>>[1] = c /\ <<c, p>>[2] = p
                                  /\ p \notin Monitored => OpOf(c, p) = <<c, p>>
                                  /\ p \in Monitored => OpOf(c, p) = <<Service, p>>
  /\ \A p \in PV : <<Service, p>> \in OpId
  /\ \A o \in OpId : o[2] \in PV
  BY DEF OpId, OpOf

LEMMA Versions ==
  ASSUME OpType, NEW o \in OpId
  PROVE  /\ version[o[2]] \in Nat /\ version[o[2]] >= 1 /\ version[o[2]] <= MaxVersion
         /\ 0 \in 0 .. version[o[2]] /\ version[o[2]] \in 0 .. version[o[2]]
         /\ op[o] \in Operation(0 .. version[o[2]])
  BY Ids, OneShotConstants DEF OpType

\* A step of the environment: events arrive, a subscription comes or goes, a get
\* is answered.  Only a subscription that replaces another one takes events away.
HeardPart(r, s) ==
    /\ s.received = r.received /\ s.force = r.force
    /\ r.get = "done" => s.get = "done"
    /\ r.get = "none" => s.get = "none"
Heard(x, y) ==
    /\ y.combined = x.combined /\ y.known = x.known /\ y.last = x.last
    /\ HeardPart(x.principal, y.principal) /\ HeardPart(x.additional, y.additional)
Arrives(x, y, v) == y.additional.queue \in {x.additional.queue, <<>>, <<v>>}
Keeps(r, s) == r.queue # <<>> => s.queue # <<>>

EnvStep ==
    \/ \E o \in OpId : \E part \in Parts(op[o]) :
         Connect(o, part) \/ FirstValue(o, part) \/ Disconnect(o, part) \/ GetDone(o, part)
    \/ \E p \in PV : Update(p)

\* The control of the commands and their replies.
listing == <<ops, processed, expired, late, pc, index, queue, replies>>

LEMMA HeardSame ==
  ASSUME NEW V, NEW x \in Operation(V), NEW v PROVE Heard(x, x) /\ Arrives(x, x, v)
  BY DEF Heard, HeardPart, Arrives

LEMMA PartSet ==
  ASSUME NEW V, NEW x \in Operation(V), NEW part \in {"principal", "additional"},
         NEW r \in Request(V), HeardPart(x[part], r)
  PROVE  LET y == [x EXCEPT ![part] = r]
         IN  /\ y \in Operation(V) /\ Heard(x, y)
             /\ y.additional = IF part = "additional" THEN r ELSE x.additional
             /\ Keeps(x[part], r) => (PollableOp(x) => PollableOp(y))
  <1>1. CASE part = "principal"
    BY <1>1 DEF Operation, Heard, HeardPart, Keeps, PollableOp, Pollable
  <1>2. CASE part = "additional"
    BY <1>2 DEF Operation, Heard, HeardPart, Keeps, PollableOp, Pollable
  <1> QED BY <1>1, <1>2

LEMMA ConnectHeard ==
  ASSUME NEW V, NEW r \in Request(V), NEW v
  PROVE  /\ HeardPart(r, connectEvent(r)) /\ connectEvent(r).queue = <<>>
         /\ HeardPart(r, firstEvent(r, v)) /\ firstEvent(r, v).queue = <<v>>
         /\ Keeps(r, firstEvent(r, v))
  BY DEF Request, HeardPart, Keeps, connectEvent, firstEvent

LEMMA HeardParts ==
  ASSUME NEW V, NEW r \in Request(V), NEW v \in V
  PROVE  /\ HeardPart(r, lostEvent(r)) /\ lostEvent(r).queue = r.queue
         /\ HeardPart(r, monitorEvent(r, v)) /\ Keeps(r, monitorEvent(r, v))
         /\ r.get = "asked" => HeardPart(r, [r EXCEPT !.get = "done", !.got = v])
         /\ [r EXCEPT !.get = "done", !.got = v].queue = r.queue
  <1>2. HeardPart(r, lostEvent(r)) /\ lostEvent(r).queue = r.queue
    BY DEF Request, HeardPart, lostEvent
  <1>3. HeardPart(r, monitorEvent(r, v)) /\ Keeps(r, monitorEvent(r, v))
    <2>1. Append(r.queue, v) # <<>> BY DEF Request
    <2> QED BY <2>1 DEF Request, HeardPart, Keeps, monitorEvent
  <1>4. /\ r.get = "asked" => HeardPart(r, [r EXCEPT !.get = "done", !.got = v])
        /\ [r EXCEPT !.get = "done", !.got = v].queue = r.queue
    BY DEF Request, HeardPart
  <1> QED BY <1>2, <1>3, <1>4

\* One part of one operation is changed.
LEMMA OnePart ==
  ASSUME OpType, NEW o \in OpId, NEW part \in Parts(op[o]), UNCHANGED version,
         NEW r \in Request(0 .. version[o[2]]), HeardPart(op[o][part], r),
         op' = [op EXCEPT ![o][part] = r],
         part = "additional" => r.queue \in {op[o].additional.queue, <<>>, <<version[o[2]]>>}
  PROVE  /\ OpType'
         /\ \A q \in OpId :
              /\ Heard(op[q], op'[q]) /\ Arrives(op[q], op'[q], version[q[2]])
              /\ q # o \/ Keeps(op[o][part], r) => (PollableOp(op[q]) => PollableOp(op'[q]))
  <1>1. part \in {"principal", "additional"} BY DEF Parts
  <1>2. op[o] \in Operation(0 .. version[o[2]]) BY Versions
  <1> DEFINE y == [op[o] EXCEPT ![part] = r]
  <1>3. y \in Operation(0 .. version[o[2]]) /\ Heard(op[o], y)
        /\ y.additional = (IF part = "additional" THEN r ELSE op[o].additional)
        /\ (Keeps(op[o][part], r) => (PollableOp(op[o]) => PollableOp(y)))
    BY <1>1, <1>2, PartSet
  <1>4. op' = [q \in OpId |-> IF q = o THEN y ELSE op[q]] BY DEF OpType
  <1>5. y.combined = op[o].combined BY <1>3 DEF Heard
  <1> HIDE DEF y
  <1>6. OpType' BY <1>3, <1>4, <1>5 DEF OpType
  <1>7. ASSUME NEW q \in OpId
        PROVE  /\ Heard(op[q], op'[q]) /\ Arrives(op[q], op'[q], version[q[2]])
               /\ q # o \/ Keeps(op[o][part], r) => (PollableOp(op[q]) => PollableOp(op'[q]))
    <2>1. CASE q = o
      <3>1. op'[q] = y BY <1>4, <2>1
      <3>2. Arrives(op[o], y, version[o[2]]) BY <1>3 DEF Arrives
      <3> QED BY <1>3, <2>1, <3>1, <3>2
    <2>2. CASE q # o
      <3>1. op'[q] = op[q] BY <1>4, <2>2
      <3>2. Heard(op[q], op[q]) /\ Arrives(op[q], op[q], version[q[2]])
        BY <1>7, Versions, HeardSame
      <3> QED BY <3>1, <3>2
    <2> QED BY <2>1, <2>2
  <1> QED BY <1>6, <1>7

LEMMA PartType ==
  ASSUME OpType, NEW o \in OpId, NEW part \in Parts(op[o])
  PROVE  /\ part \in {"principal", "additional"}
         /\ op[o][part] \in Request(0 .. version[o[2]])
         /\ part = "additional" => op[o][part] = op[o].additional
  <1>1. part \in {"principal", "additional"} BY DEF Parts
  <1> QED BY <1>1, Versions DEF Operation

\* What the environment leaves of the PVs that have arrived.
Stays ==
    \A c \in Cmd : \A p \in PV :
      p \in arrived'[c] =>
        /\ p \in arrived[c]
        /\ p \in Unprocessed(c) /\ PollableOp(op[<<c, p>>]) => PollableOp(op'[<<c, p>>])
Env ==
    /\ OpType' /\ RestType' /\ UNCHANGED <<listing, tpc, ub>> /\ ub = "none"
    /\ arrived' \in [Cmd -> SUBSET PV] /\ Stays
    /\ \A p \in PV : version[p] \in Nat /\ version'[p] \in Nat /\ version[p] <= version'[p]
    /\ \A o \in OpId : Heard(op[o], op'[o]) /\ Arrives(op[o], op'[o], version[o[2]])

\* One that changes no PVs that have arrived.
LEMMA EnvKeeps ==
  ASSUME WorkType, OpType', RestType', UNCHANGED <<work, tpc, ub>>, ub = "none",
         \A p \in PV : version[p] \in Nat /\ version'[p] \in Nat /\ version[p] <= version'[p],
         \A o \in OpId : /\ Heard(op[o], op'[o]) /\ Arrives(op[o], op'[o], version[o[2]])
                         /\ PollableOp(op[o]) => PollableOp(op'[o])
  PROVE  Env
  <1>1. UNCHANGED listing /\ arrived' = arrived BY DEF work, listing
  <1>2. arrived' \in [Cmd -> SUBSET PV] BY <1>1 DEF WorkType
  <1>3. Stays BY <1>1, Ids DEF Stays
  <1> QED BY <1>1, <1>2, <1>3 DEF Env

LEMMA ConnectEffect ==
  ASSUME OpType, WorkType, RestType, NEW o \in OpId, NEW part \in Parts(op[o]), Connect(o, part)
  PROVE  Env
  <1> DEFINE V == 0 .. version[o[2]]
             x == op[o][part]
             after == [op[o] EXCEPT ![part] = connectEvent(x)]
  <1>1. x \in Request(V) /\ 0 \in V BY PartType, Versions
  <1>2. /\ op' = [op EXCEPT ![o] = after]
        /\ arrived' = [c \in Cmd |-> IF c = o[1] /\ o[2] \in Unprocessed(c) /\ ~hasData(poll(after))
                                       THEN arrived[c] \ {o[2]} ELSE arrived[c]]
        /\ UNCHANGED <<version, lost, listing, tpc, ub>> /\ ub = "none"
    BY DEF Connect, Going, ioc, listing
  <1>3. op' = [op EXCEPT ![o][part] = connectEvent(x)] BY <1>2
  <1>4. after \in Operation(V)
    <2>1. part \in {"principal", "additional"} /\ op[o] \in Operation(V) BY PartType, Versions
    <2>2. connectEvent(x) \in Request(V) /\ HeardPart(x, connectEvent(x))
      <3> HIDE DEF V, x
      <3> QED BY <1>1, RequestTypes, ConnectHeard
    <2> QED BY <2>1, <2>2, PartSet
  <1>5. op'[o] = after BY <1>2 DEF OpType
  <1>6. hasData(poll(after)) => PollableOp(after)
    <2> HIDE DEF after, V
    <2> QED BY <1>1, <1>4, PollHasData
  <1> HIDE DEF after
  <1>7. arrived' \in [Cmd -> SUBSET PV] BY <1>2 DEF WorkType
  <1>8. RestType' BY <1>2 DEF RestType
  <1>9. /\ OpType'
        /\ \A q \in OpId :
             /\ Heard(op[q], op'[q]) /\ Arrives(op[q], op'[q], version[q[2]])
             /\ q # o => (PollableOp(op[q]) => PollableOp(op'[q]))
    <2> HIDE DEF V, x
    <2>1. /\ connectEvent(x) \in Request(V) /\ HeardPart(x, connectEvent(x))
          /\ connectEvent(x).queue = <<>>
      BY <1>1, RequestTypes, ConnectHeard
    <2> QED BY <1>2, <1>3, <2>1, OnePart DEF V, x
  <1>10. Stays
    <2> SUFFICES ASSUME NEW c \in Cmd, NEW p \in PV, p \in arrived'[c]
                 PROVE  /\ p \in arrived[c]
                        /\ p \in Unprocessed(c) /\ PollableOp(op[<<c, p>>]) => PollableOp(op'[<<c, p>>])
      BY DEF Stays
    <2>1. p \in arrived[c] BY <1>2
    <2>2. CASE <<c, p>> # o BY <1>9, <2>1, <2>2, Ids
    <2>3. CASE <<c, p>> = o
      <3>1. o[1] = c /\ o[2] = p BY <2>3
      <3>2. p \in Unprocessed(c) => hasData(poll(after)) BY <1>2, <3>1
      <3> QED BY <1>5, <1>6, <2>1, <2>3, <3>2
    <2> QED BY <2>2, <2>3
  <1>11. \A p \in PV : version[p] \in Nat /\ version'[p] = version[p] BY <1>2 DEF OpType
  <1>12. \A p \in PV : version[p] \in Nat /\ version'[p] \in Nat /\ version[p] <= version'[p]
    BY <1>11
  <1> QED BY <1>2, <1>7, <1>8, <1>9, <1>10, <1>12 DEF Env

LEMMA EnvEffect ==
  ASSUME OpType, WorkType, RestType, EnvStep
  PROVE  Env
  <1>0. \A p \in PV : version[p] \in Nat BY DEF OpType
  <1>1. ASSUME NEW o \in OpId, NEW part \in Parts(op[o]),
               FirstValue(o, part) \/ Disconnect(o, part) \/ GetDone(o, part)
        PROVE  /\ OpType' /\ RestType' /\ UNCHANGED <<version, work, tpc, ub>> /\ ub = "none"
               /\ \A q \in OpId :
                    /\ Heard(op[q], op'[q]) /\ Arrives(op[q], op'[q], version[q[2]])
                    /\ PollableOp(op[q]) => PollableOp(op'[q])
    <2> DEFINE V == 0 .. version[o[2]]
               x == op[o][part]
    <2>1. x \in Request(V) /\ 0 \in V /\ version[o[2]] \in V
      BY PartType, Versions
    <2>2. part = "additional" => x = op[o].additional BY PartType
    <2>3. CASE FirstValue(o, part)
      <3>1. /\ op' = [op EXCEPT ![o][part] = firstEvent(x, version[o[2]])]
            /\ UNCHANGED <<version, lost, work, tpc, ub>> /\ ub = "none"
        BY <2>3 DEF FirstValue, Going, ioc
      <3> HIDE DEF V, x
      <3>2. firstEvent(x, version[o[2]]) \in Request(V) BY <2>1, RequestTypes
      <3>4. /\ HeardPart(x, firstEvent(x, version[o[2]])) /\ Keeps(x, firstEvent(x, version[o[2]]))
            /\ firstEvent(x, version[o[2]]).queue = <<version[o[2]]>>
        BY <2>1, ConnectHeard
      <3>3. RestType' BY <3>1 DEF RestType
      <3> QED BY <3>1, <3>2, <3>3, <3>4, OnePart DEF V, x
    <2>4. CASE Disconnect(o, part)
      <3>1. /\ op' = [op EXCEPT ![o][part] = lostEvent(x)]
            /\ UNCHANGED <<version, work, tpc, ub>> /\ ub = "none"
            /\ lost < MaxLost /\ lost' = lost + 1
        BY <2>4 DEF Disconnect, Going
      <3> HIDE DEF V, x
      <3>2. /\ lostEvent(x) \in Request(V) /\ HeardPart(x, lostEvent(x))
            /\ lostEvent(x).queue = x.queue
        BY <2>1, RequestTypes, HeardParts
      <3>3. RestType' BY <3>1, OneShotConstants DEF RestType
      <3>4. part = "additional" => lostEvent(x).queue = op[o].additional.queue BY <2>2, <3>2
      <3>5. Keeps(x, lostEvent(x)) BY <3>2 DEF Keeps
      <3> QED BY <3>1, <3>2, <3>3, <3>4, <3>5, OnePart DEF V, x
    <2>5. CASE GetDone(o, part)
      <3>1. PICK value \in {version[o[2]], 0} :
              op' = [op EXCEPT ![o][part].get = "done", ![o][part].got = value]
        BY <2>5 DEF GetDone
      <3>2. UNCHANGED <<version, lost, work, tpc, ub>> /\ ub = "none" /\ x.get = "asked"
        <4>1. op[o][part].get = "asked" BY <2>5 DEF GetDone
        <4> QED BY <2>5, <4>1 DEF GetDone, Going, ioc
      <3> DEFINE r == [x EXCEPT !.get = "done", !.got = value]
      <3>3. op' = [op EXCEPT ![o][part] = r] BY <3>1
      <3> HIDE DEF V, x
      <3>4. value \in V BY <2>1
      <3>5. r \in Request(V) /\ HeardPart(x, r) /\ r.queue = x.queue
        BY <2>1, <3>2, <3>4, RequestTypes, HeardParts
      <3>6. part = "additional" => r.queue = op[o].additional.queue BY <2>2, <3>5
      <3>7. RestType' BY <3>2 DEF RestType
      <3>8. Keeps(x, r) BY <3>5 DEF Keeps
      <3> HIDE DEF r
      <3> QED BY <3>2, <3>3, <3>5, <3>6, <3>7, <3>8, OnePart DEF V, x
    <2> QED BY <1>1, <2>3, <2>4, <2>5
  <1>2. ASSUME NEW p \in PV, Update(p)
        PROVE  /\ OpType' /\ RestType' /\ UNCHANGED <<work, tpc, ub>> /\ ub = "none"
               /\ version' = [version EXCEPT ![p] = @ + 1]
               /\ \A q \in OpId : /\ Heard(op[q], op'[q]) /\ Arrives(op[q], op'[q], version[q[2]])
                                  /\ PollableOp(op[q]) => PollableOp(op'[q])
    <2>1. /\ version[p] < MaxVersion /\ version' = [version EXCEPT ![p] = @ + 1]
          /\ UNCHANGED <<lost, work, tpc, ub>> /\ ub = "none"
      BY <1>2 DEF Update, Going
    <2>2. version' \in [PV -> 1 .. MaxVersion] /\ version'[p] = version[p] + 1
      BY <2>1, OneShotConstants DEF OpType
    <2>3. \A q \in OpId : 0 .. version[q[2]] \subseteq 0 .. version'[q[2]]
      <3>1. \A w \in PV : version[w] <= version'[w] BY <1>0, <2>1, <2>2
      <3> QED BY <1>0, <2>2, <3>1, Ids
    <2> DEFINE v == version[p] + 1
               heard(q) == [op[q] EXCEPT !.principal = monitorEvent(@, v)]
    <2>4. op' = [q \in OpId |-> IF q[2] = p /\ Live(q) THEN heard(q) ELSE op[q]]
      BY <1>2 DEF Update
    <2>5. ASSUME NEW q \in OpId
          PROVE  /\ op'[q] \in Operation(0 .. version'[q[2]])
                 /\ Heard(op[q], op'[q]) /\ op'[q].additional = op[q].additional
                 /\ PollableOp(op[q]) => PollableOp(op'[q])
      <3> DEFINE W == 0 .. version'[q[2]]
      <3>1. op[q] \in Operation(W)
        <4> DEFINE V == 0 .. version[q[2]]
        <4>1. V \subseteq W BY <2>3
        <4>2. op[q] \in Operation(V) BY Versions
        <4> HIDE DEF V, W
        <4> QED BY <4>1, <4>2, WiderOperation
      <3>2. CASE ~(q[2] = p /\ Live(q))
        <4>1. op'[q] = op[q]
          <5> HIDE DEF heard
          <5> QED BY <2>4, <3>2
        <4> QED BY <3>1, <4>1, HeardSame
      <3>3. CASE q[2] = p /\ Live(q)
        <4>1. op'[q] = heard(q) BY <2>4, <3>3
        <4>2. v \in W /\ 0 \in W BY <1>0, <2>2, <3>3
        <4>3. op[q].principal \in Request(W) BY <3>1 DEF Operation
        <4> HIDE DEF W, v
        <4>4. /\ monitorEvent(op[q].principal, v) \in Request(W)
              /\ HeardPart(op[q].principal, monitorEvent(op[q].principal, v))
              /\ Keeps(op[q].principal, monitorEvent(op[q].principal, v))
          BY <4>2, <4>3, RequestTypes, HeardParts
        <4>5. op'[q] = [op[q] EXCEPT !["principal"] = monitorEvent(op[q].principal, v)]
          BY <4>1
        <4> QED BY <3>1, <4>4, <4>5, PartSet DEF W
      <3> QED BY <3>2, <3>3
    <2>6. OpType'
      <3>1. op' = [q \in OpId |-> op'[q]] BY <2>4
      <3>2. \A q \in OpId : op'[q].combined = op[q].combined BY <2>5 DEF Heard
      <3> QED BY <2>2, <2>5, <3>1, <3>2 DEF OpType
    <2>7. RestType' BY <2>1 DEF RestType
    <2>8. \A q \in OpId : Arrives(op[q], op'[q], version[q[2]]) BY <2>5 DEF Arrives
    <2> QED BY <2>1, <2>5, <2>6, <2>7, <2>8
  <1>3. ASSUME NEW o \in OpId, NEW part \in Parts(op[o]),
               FirstValue(o, part) \/ Disconnect(o, part) \/ GetDone(o, part)
        PROVE  Env
    <2>1. \A w \in PV : version'[w] = version[w] BY <1>1, <1>3
    <2>2. \A w \in PV : version'[w] \in Nat /\ version[w] <= version'[w] BY <1>0, <2>1
    <2> QED BY <1>0, <1>1, <1>3, <2>2, EnvKeeps
  <1>4. ASSUME NEW p \in PV, Update(p) PROVE Env
    <2>2. \A w \in PV : version'[w] \in Nat /\ version[w] <= version'[w]
      BY <1>0, <1>2, <1>4 DEF OpType
    <2> QED BY <1>0, <1>2, <1>4, <2>2, EnvKeeps
  <1> QED BY <1>3, <1>4, ConnectEffect DEF EnvStep

\* The steps that change one operation as a whole.
LEMMA SetOp ==
  ASSUME OpType, NEW o \in OpId, NEW y \in Operation(0 .. version[o[2]]),
         y.combined = op[o].combined, op' = [op EXCEPT ![o] = y], UNCHANGED version
  PROVE  OpType' /\ op'[o] = y /\ \A q \in OpId : q # o => op'[q] = op[q]
  BY DEF OpType

\* poll, after forceUpdate in the last look.
LEMMA PolledType ==
  ASSUME OpType, NEW c \in Cmd, NEW o \in OpId, o = OpOf(c, At(c))
  PROVE  /\ Polled(c) \in Operation(0 .. version[o[2]])
         /\ Polled(c).combined = op[o].combined
         /\ Joinable(op[o]) => Joinable(Polled(c))
         /\ hasData(Polled(c)) => Joinable(Polled(c))
  <1> DEFINE V == 0 .. version[o[2]]
             x == IF late[c] THEN forceUpdate(op[o]) ELSE op[o]
  <1>1. op[o] \in Operation(V) /\ 0 \in V BY Versions
  <1> HIDE DEF V
  <1>2. x \in Operation(V) /\ x.combined = op[o].combined /\ (Joinable(op[o]) => Joinable(x))
    BY <1>1, ForceType, ForceJoinable
  <1>3. Polled(c) = poll(x) BY DEF Polled
  <1> HIDE DEF x
  <1>4. Joinable(x) => Joinable(poll(x)) BY <1>1, <1>2, PollJoinable
  <1>5. poll(x) \in Operation(V) /\ poll(x).combined = x.combined BY <1>1, <1>2, PollType
  <1>6. hasData(poll(x)) => Joinable(poll(x)) BY DEF hasData, Joinable
  <1> QED BY <1>2, <1>3, <1>4, <1>5, <1>6 DEF V

LEMMA PollEffect ==
  ASSUME OpType, NEW c \in Cmd, NEW o \in OpId, o = OpOf(c, At(c)), PollOne(c)
  PROVE  OpType' /\ op'[o] = Polled(c) /\ \A q \in OpId : q # o => op'[q] = op[q]
  <1>1. op' = [op EXCEPT ![o] = Polled(c)] /\ UNCHANGED version BY DEF PollOne, ioc
  <1> QED BY <1>1, PolledType, SetOp

LEMMA SendEffect ==
  ASSUME OpType, NEW c \in Cmd, NEW o \in OpId, o = OpOf(c, At(c)), SendValue(c)
  PROVE  OpType' /\ op'[o] = AfterTake(op[o]) /\ \A q \in OpId : q # o => op'[q] = op[q]
  <1>1. op' = [op EXCEPT ![o] = AfterTake(op[o])] /\ UNCHANGED version BY DEF SendValue, ioc
  <1>2. /\ AfterTake(op[o]) \in Operation(0 .. version[o[2]])
        /\ AfterTake(op[o]).combined = op[o].combined
    BY Versions, TakeType
  <1> QED BY <1>1, <1>2, SetOp

LEMMA TaskEffect ==
  ASSUME OpType, NEW p \in Monitored, NEW o \in OpId, o = <<Service, p>>,
         TaskPoll(p) \/ TaskTake(p)
  PROVE  /\ OpType' /\ UNCHANGED version
         /\ op'[o] = IF tpc[p] = "poll" THEN poll(op[o]) ELSE AfterTake(op[o])
         /\ \A q \in OpId : q # o => op'[q] = op[q]
  <1> DEFINE y == IF tpc[p] = "poll" THEN poll(op[o]) ELSE AfterTake(op[o])
  <1>1. op' = [op EXCEPT ![o] = y] /\ UNCHANGED version BY DEF TaskPoll, TaskTake, ioc
  <1>2. y \in Operation(0 .. version[o[2]]) /\ y.combined = op[o].combined
    BY Versions, PollType, TakeType
  <1> HIDE DEF y
  <1>3. OpType' /\ op'[o] = y /\ \A q \in OpId : q # o => op'[q] = op[q]
    BY <1>1, <1>2, SetOp
  <1> QED BY <1>1, <1>3 DEF y

LEMMA CompleteEffect ==
  ASSUME OpType, NEW c \in Cmd, Complete(c)
  PROVE  /\ OpType'
         /\ \A o \in OpId : IF o[1] = c THEN op'[o] = NewOp(o[2] \in Ca) ELSE op'[o] = op[o]
  <1>1. /\ op' = [o \in OpId |-> IF o[1] = c THEN NewOp(o[2] \in Ca) ELSE op[o]]
        /\ UNCHANGED version
    BY DEF Complete, ioc
  <1>2. \A o \in OpId : /\ NewOp(o[2] \in Ca) \in Operation(0 .. version[o[2]])
                        /\ NewOp(o[2] \in Ca).combined = (o[2] \in Ca)
    <2> SUFFICES ASSUME NEW o \in OpId
                 PROVE  /\ NewOp(o[2] \in Ca) \in Operation(0 .. version[o[2]])
                        /\ NewOp(o[2] \in Ca).combined = (o[2] \in Ca)
      OBVIOUS
    <2>1. 0 \in 0 .. version[o[2]] /\ (o[2] \in Ca) \in BOOLEAN BY Versions
    <2> QED BY <2>1, NewOpType
  <1> QED BY <1>1, <1>2 DEF OpType

\* getEventData returns one event for each that was received.
LEMMA Taken ==
  ASSUME NEW V, V \subseteq Nat, 0 \in V, NEW x \in Operation(V)
  PROVE  /\ getEventData(x) = <<>> <=> x.principal.received = <<>>
         /\ getEventData(x) # <<>> =>
              /\ Last(getEventData(x)) \in Event
              /\ Last(getEventData(x)).principal \in V
              /\ Last(getEventData(x)).additional = AfterTake(x).last
              /\ AfterTake(x).last \in V
  <1> DEFINE R == x.principal.received
             e == getEventData(x)
             E == [principal : V, additional : V]
  <1>1. R \in Seq(V) BY DEF Operation, Request
  <1>2. AfterTake(x).last \in V BY TakeType DEF Operation
  <1>3. e = [i \in DOMAIN R |-> [principal |-> R[i], additional |-> AfterTake(x).last]]
    BY DEF getEventData
  <1> HIDE DEF R, e
  <1>4. e \in Seq(E) /\ Len(e) = Len(R)
    <2>1. DOMAIN R = 1 .. Len(R) /\ Len(R) \in Nat BY <1>1
    <2>2. \A i \in DOMAIN R : R[i] \in V BY <1>1, <2>1
    <2>3. e \in [1 .. Len(R) -> E] BY <1>2, <1>3, <2>1, <2>2
    <2> HIDE DEF E
    <2>4. e \in Seq(E) BY <2>1, <2>3, IsASeq
    <2>5. DOMAIN e = 1 .. Len(R) BY <2>3
    <2> QED BY <2>1, <2>4, <2>5, LenProperties
  <1>5. e = <<>> <=> R = <<>> BY <1>1, <1>4
  <1>6. ASSUME e # <<>> PROVE /\ Last(e) \in Event /\ Last(e).principal \in V
                              /\ Last(e).additional = AfterTake(x).last
    <2>1. Len(R) \in DOMAIN R BY <1>1, <1>5, <1>6
    <2>2. Last(e) = [principal |-> R[Len(R)], additional |-> AfterTake(x).last]
      BY <1>3, <1>4, <2>1 DEF Last
    <2>3. R[Len(R)] \in V BY <1>1, <2>1
    <2>4. R[Len(R)] \in Nat /\ AfterTake(x).last \in Nat BY <1>2, <2>3
    <2> QED BY <2>2, <2>3, <2>4 DEF Event
  <1>7. e = getEventData(x) /\ R = x.principal.received BY DEF e, R
  <1> QED BY <1>2, <1>5, <1>6, <1>7

-----------------------------------------------------------------------------
(* The task of a command and its replies. *)

Control ==
    /\ WorkType /\ QueueInv
    /\ \A c \in Cmd : ListInv(c) /\ ReplyInv(c)

LEMMA ControlKept ==
  ASSUME UNCHANGED listing, arrived' = arrived \/ arrived' \in [Cmd -> SUBSET PV]
  PROVE  Control => Control'
  BY DEF listing, Control, WorkType, QueueInv, ListInv, ReplyInv, Values

LEMMA WorkKept ==
  ASSUME UNCHANGED work PROVE UNCHANGED <<listing, arrived>>
  BY DEF work, listing

\* A step of one command leaves the others alone.
Same(d) ==
    /\ ops'[d] = ops[d] /\ processed'[d] = processed[d] /\ late'[d] = late[d]
    /\ pc'[d] = pc[d] /\ index'[d] = index[d] /\ replies'[d] = replies[d]
    /\ expired'[d] = expired[d] /\ arrived'[d] = arrived[d]

LEMMA CommandKept ==
  ASSUME NEW d, Same(d)
  PROVE  (ListInv(d) => ListInv(d)') /\ (ReplyInv(d) => ReplyInv(d)')
  BY DEF Same, ListInv, ReplyInv, Values

LEMMA OthersSame ==
  ASSUME WorkType, NEW c \in Cmd,
         (\E names \in Lists : Submit(c, names)) \/ Expire(c) \/ Look(c)
  PROVE  \A d \in Cmd : d # c => Same(d)
  <1> USE DEF WorkType, Same
  <1>1. ASSUME NEW names \in Lists, Submit(c, names) PROVE \A d \in Cmd : d # c => Same(d)
    BY <1>1 DEF Submit
  <1>2. CASE Expire(c) BY <1>2 DEF Expire
  <1>3. CASE StartLook(c) BY <1>3 DEF StartLook
  <1>4. CASE PassOver(c) BY <1>4 DEF PassOver
  <1>5. CASE PollOne(c) BY <1>5 DEF PollOne
  <1>6. CASE SendValue(c) BY <1>6 DEF SendValue
  <1>7. CASE LookAgain(c) BY <1>7 DEF LookAgain
  <1>8. CASE Complete(c) BY <1>8 DEF Complete
  <1> QED BY <1>1, <1>2, <1>3, <1>4, <1>5, <1>6, <1>7, <1>8 DEF Look

LEMMA OfOne ==
  ASSUME NEW c \in Cmd, Control, \A d \in Cmd : d # c => Same(d),
         WorkType', QueueInv', ListInv(c)', ReplyInv(c)'
  PROVE  Control'
  BY CommandKept DEF Control

\* The queue of the pool.
LEMMA QueueAppend ==
  ASSUME WorkType, QueueInv, NEW c \in Cmd, pc[c] # "queued",
         queue' = Append(queue, c), pc' = [pc EXCEPT ![c] = "queued"]
  PROVE  QueueInv' /\ queue' \in Seq(Cmd)
  <1>1. queue \in Seq(Cmd) /\ c \notin ToSet(queue) BY DEF WorkType, QueueInv
  <1>2. /\ queue' \in Seq(Cmd) /\ Len(queue') = Len(queue) + 1 /\ queue'[Len(queue) + 1] = c
        /\ \A i \in 1 .. Len(queue) : queue'[i] = queue[i]
    BY <1>1
  <1>3. DOMAIN queue = 1 .. Len(queue) /\ DOMAIN queue' = 1 .. Len(queue) + 1 /\ Len(queue) \in Nat
    BY <1>1, <1>2
  <1>4. \A i \in DOMAIN queue : queue[i] # c BY <1>1 DEF ToSet
  <1>5. IsInjective(queue')
    BY <1>2, <1>3, <1>4 DEF IsInjective, QueueInv
  <1>6. ToSet(queue') = ToSet(queue) \cup {c}
    BY <1>2, <1>3 DEF ToSet
  <1> QED BY <1>2, <1>5, <1>6 DEF QueueInv, WorkType

LEMMA QueueTake ==
  ASSUME WorkType, QueueInv, NEW c \in Cmd, queue # <<>>, Head(queue) = c,
         queue' = Tail(queue), pc' = [pc EXCEPT ![c] = "look"]
  PROVE  QueueInv' /\ queue' \in Seq(Cmd) /\ pc[c] = "queued"
  <1>1. queue \in Seq(Cmd) BY DEF WorkType
  <1>2. /\ queue' \in Seq(Cmd) /\ Len(queue') = Len(queue) - 1
        /\ \A i \in 1 .. Len(queue) - 1 : queue'[i] = queue[i + 1]
        /\ Len(queue) \in Nat /\ Len(queue) >= 1 /\ queue[1] = c
    BY <1>1
  <1>3. DOMAIN queue = 1 .. Len(queue) /\ DOMAIN queue' = 1 .. Len(queue) - 1
    BY <1>1, <1>2
  <1>4. \A i, j \in 1 .. Len(queue) : queue[i] = queue[j] => i = j
    BY <1>3 DEF QueueInv, IsInjective
  <1>5. IsInjective(queue')
    <2> SUFFICES ASSUME NEW i \in 1 .. Len(queue) - 1, NEW j \in 1 .. Len(queue) - 1,
                        queue'[i] = queue'[j]
                 PROVE  i = j
      BY <1>3 DEF IsInjective
    <2>1. i + 1 \in 1 .. Len(queue) /\ j + 1 \in 1 .. Len(queue) /\ queue[i + 1] = queue[j + 1]
      BY <1>2
    <2> QED BY <1>4, <2>1
  <1>6. \A d : d \in ToSet(queue') <=> d \in ToSet(queue) /\ d # c
    <2> SUFFICES ASSUME NEW d PROVE d \in ToSet(queue') <=> d \in ToSet(queue) /\ d # c
      OBVIOUS
    <2>1. ASSUME NEW i \in 1 .. Len(queue) - 1, queue'[i] = d PROVE d \in ToSet(queue) /\ d # c
      <3>1. i + 1 \in 1 .. Len(queue) /\ queue[i + 1] = d /\ i + 1 # 1 /\ 1 \in 1 .. Len(queue)
        BY <1>2, <2>1
      <3> QED BY <1>2, <1>3, <1>4, <3>1 DEF ToSet
    <2>2. ASSUME NEW i \in 1 .. Len(queue), queue[i] = d, d # c PROVE d \in ToSet(queue')
      <3>1. i # 1 BY <1>2, <2>2
      <3>2. i - 1 \in 1 .. Len(queue) - 1 /\ queue'[i - 1] = queue[(i - 1) + 1] BY <1>2, <3>1
      <3> QED BY <1>3, <2>2, <3>2 DEF ToSet
    <2> QED BY <1>3, <2>1, <2>2 DEF ToSet
  <1>7. pc[c] = "queued"
    <2>1. 1 \in DOMAIN queue /\ queue[1] = c BY <1>2, <1>3
    <2> QED BY <2>1 DEF QueueInv, ToSet
  <1> QED BY <1>2, <1>5, <1>6, <1>7 DEF QueueInv, WorkType

\* The places in the queue of a command that is somewhere else before and after.
LEMMA QueueKept ==
  ASSUME WorkType, QueueInv, NEW c \in Cmd, pc[c] # "queued", UNCHANGED queue,
         NEW l, l # "queued", pc' = [pc EXCEPT ![c] = l]
  PROVE  QueueInv'
  BY DEF WorkType, QueueInv

\* The names before the one that is refused.
LEMMA GoodNamesType ==
  ASSUME NEW names \in Lists
  PROVE  GoodNames(names) \in Seq(PV) /\ IsInjective(GoodNames(names))
  <1> DEFINE refused == {i \in DOMAIN names : names[i] = BadName}
  <1>1. names \in Seq(PV \cup {BadName}) /\ IsInjective(names) BY OneShotConstants
  <1>2. DOMAIN names = 1 .. Len(names) /\ Len(names) \in Nat BY <1>1
  <1>3. CASE refused = {}
    <2>1. \A i \in 1 .. Len(names) : names[i] \in PV BY <1>1, <1>2, <1>3
    <2>2. names \in Seq(PV) BY <1>1, <1>2, <2>1
    <2> QED BY <1>1, <1>3, <2>2 DEF GoodNames
  <1>4. CASE refused # {}
    <2> DEFINE i == CHOOSE i \in refused : TRUE
               good == SubSeq(names, 1, i - 1)
    <2>1. i \in 1 .. Len(names) /\ names[i] = BadName BY <1>2, <1>4
    <2>2. GoodNames(names) = good BY <1>4 DEF GoodNames
    <2> HIDE DEF i
    <2>3. /\ i - 1 \in Nat /\ i - 1 <= Len(names)
          /\ \A j \in 1 .. i - 1 : j \in 1 .. Len(names) /\ j # i
      BY <1>2, <2>1
    <2>4. \A j \in 1 .. i - 1 : names[j] \in PV
      <3> SUFFICES ASSUME NEW j \in 1 .. i - 1 PROVE names[j] \in PV OBVIOUS
      <3>1. names[j] # BadName BY <1>1, <1>2, <2>1, <2>3 DEF IsInjective
      <3>2. names[j] \in PV \cup {BadName} BY <1>1, <2>3
      <3> QED BY <3>1, <3>2
    <2>5. good = [j \in 1 .. i - 1 |-> names[j]]
      BY <1>1, <2>1, <2>3
    <2>6. good \in Seq(PV) /\ DOMAIN good = 1 .. i - 1 /\ \A j \in 1 .. i - 1 : good[j] = names[j]
      BY <2>3, <2>4, <2>5, IsASeq
    <2> HIDE DEF good
    <2>7. IsInjective(good)
      BY <1>1, <1>2, <2>3, <2>6 DEF IsInjective
    <2> QED BY <2>2, <2>6, <2>7
  <1> QED BY <1>3, <1>4

LEMMA Messages ==
  /\ Faulty \in Reply /\ Faulty.error = -1 /\ Completion \in Reply /\ Completion.error = 1
  /\ \A p \in PV : \A e \in Event :
       /\ ValueOf(p, e) \in Reply /\ ValueOf(p, e).error = 0
       /\ ValueOf(p, e).pv = p /\ ValueOf(p, e).event = e
  BY DEF Reply, Faulty, Completion, ValueOf, NoEvent, Event

\* Where a task is in its list.
LEMMA ListFacts ==
  ASSUME Control, NEW c \in Cmd
  PROVE  /\ ops[c] \in Seq(PV) /\ Len(ops[c]) \in Nat /\ DOMAIN ops[c] = 1 .. Len(ops[c])
         /\ \A i \in DOMAIN ops[c] : ops[c][i] \in PV
         /\ index[c] \in Nat /\ index[c] >= 1 /\ index[c] <= Len(ops[c]) + 1
         /\ replies[c] \in Seq(Reply) /\ Len(replies[c]) \in Nat
         /\ DOMAIN replies[c] = 1 .. Len(replies[c])
  <1>1. ops[c] \in Seq(PV) /\ replies[c] \in Seq(Reply) /\ index[c] \in Nat
    BY DEF Control, WorkType
  <1>2. index[c] \in 1 .. Len(ops[c]) + 1 BY DEF Control, ListInv
  <1> QED BY <1>1, <1>2

LEMMA SubmitControl ==
  ASSUME Control, NEW c \in Cmd, NEW names \in Lists, Submit(c, names)
  PROVE  Control'
  <1>0. \A d \in Cmd : d # c => Same(d) BY OthersSame DEF Control
  <1>1. /\ ops' = [ops EXCEPT ![c] = GoodNames(names)] /\ queue' = Append(queue, c)
        /\ replies' = [replies EXCEPT ![c] = IF BadName \in ToSet(names) THEN <<Faulty>> ELSE <<>>]
        /\ pc[c] = "idle" /\ pc' = [pc EXCEPT ![c] = "queued"]
        /\ UNCHANGED <<processed, expired, late, index, arrived>>
    BY DEF Submit
  <1>2. GoodNames(names) \in Seq(PV) /\ IsInjective(GoodNames(names)) BY GoodNamesType
  <1>3. QueueInv' /\ queue' \in Seq(Cmd) BY <1>1, QueueAppend DEF Control
  <1>4. <<Faulty>> \in Seq(Reply) /\ <<>> \in Seq(Reply) BY Messages
  <1>5. WorkType' BY <1>1, <1>2, <1>3, <1>4 DEF Control, WorkType, Place
  <1>6. /\ ops'[c] = GoodNames(names) /\ pc'[c] = "queued" /\ ~late'[c]
        /\ replies'[c] \in {<<Faulty>>, <<>>}
        /\ processed'[c] = {} /\ index'[c] = 1
    <2>1. ops[c] = <<>> /\ processed[c] \subseteq DOMAIN ops[c] /\ ~late[c]
          /\ index[c] \in 1 .. Len(ops[c]) + 1
      BY <1>1 DEF Control, ListInv
    <2>2. processed[c] = {} /\ index[c] = 1 BY <2>1
    <2> QED BY <1>1, <2>1, <2>2 DEF Control, WorkType
  <1>7. ListInv(c)' BY <1>2, <1>6 DEF ListInv
  <1>8. ReplyInv(c)' BY <1>6, Messages DEF ReplyInv, Values
  <1> QED BY <1>0, <1>3, <1>5, <1>7, <1>8, OfOne

LEMMA ExpireControl ==
  ASSUME Control, NEW c \in Cmd, Expire(c) PROVE Control'
  <1>1. /\ expired' \in [Cmd -> BOOLEAN]
        /\ UNCHANGED <<ops, processed, late, pc, index, queue, replies, arrived>>
    BY DEF Expire, Control, WorkType
  <1> QED BY <1>1 DEF Control, WorkType, QueueInv, ListInv, ReplyInv, Values

LEMMA StartLookControl ==
  ASSUME Control, NEW c \in Cmd, StartLook(c)
  PROVE  Control' /\ pc[c] = "queued"
  <1>0. \A d \in Cmd : d # c => Same(d) BY OthersSame DEF Control, Look
  <1>1. /\ queue # <<>> /\ Head(queue) = c /\ queue' = Tail(queue)
        /\ pc' = [pc EXCEPT ![c] = "look"] /\ index' = [index EXCEPT ![c] = 1]
        /\ late' = [late EXCEPT ![c] = expired[c]]
        /\ UNCHANGED <<ops, processed, expired, replies>>
    BY DEF StartLook, isTimeout
  <1>2. QueueInv' /\ queue' \in Seq(Cmd) /\ pc[c] = "queued" BY <1>1, QueueTake DEF Control
  <1>3. arrived' \in [Cmd -> SUBSET PV]
    <2>1. Unprocessed(c) \subseteq PV BY ListFacts DEF Unprocessed
    <2> DEFINE A == {p \in Unprocessed(c) \ Monitored : expired[c] /\ hasData(poll(op[OpOf(c, p)]))}
    <2>2. arrived' = [arrived EXCEPT ![c] = A] BY DEF StartLook
    <2>3. A \subseteq PV BY <2>1
    <2> HIDE DEF A
    <2> QED BY <2>2, <2>3 DEF Control, WorkType
  <1>4. WorkType' BY <1>1, <1>2, <1>3 DEF Control, WorkType, Place
  <1>5. /\ pc'[c] = "look" /\ index'[c] = 1 /\ ops'[c] = ops[c] /\ processed'[c] = processed[c]
        /\ replies'[c] = replies[c]
    BY <1>1 DEF Control, WorkType
  <1>6. ListInv(c)' BY <1>5, ListFacts DEF Control, ListInv
  <1>7. ReplyInv(c)' BY <1>2, <1>5 DEF Control, ReplyInv, Values
  <1> QED BY <1>0, <1>2, <1>4, <1>6, <1>7, OfOne

LEMMA PassOverControl ==
  ASSUME Control, NEW c \in Cmd, PassOver(c) PROVE Control'
  <1>0. \A d \in Cmd : d # c => Same(d) BY OthersSame DEF Control, Look
  <1>1. /\ pc[c] = "look" /\ index[c] \in processed[c] /\ index' = [index EXCEPT ![c] = @ + 1]
        /\ UNCHANGED <<ops, processed, expired, late, pc, queue, replies, arrived>>
    BY DEF PassOver
  <1>2. index[c] \in 1 .. Len(ops[c]) BY <1>1, ListFacts DEF Control, ListInv
  <1>3. index'[c] = index[c] + 1 BY <1>1 DEF Control, WorkType
  <1>4. WorkType' BY <1>1, ListFacts DEF Control, WorkType
  <1>5. QueueInv' BY <1>1 DEF Control, QueueInv
  <1>6. ListInv(c)'
    <2>1. index'[c] \in 1 .. Len(ops[c]) + 1 BY <1>2, <1>3, ListFacts
    <2> QED BY <1>1, <2>1 DEF Control, ListInv
  <1>7. ReplyInv(c)' BY <1>1 DEF Control, ReplyInv, Values
  <1> QED BY <1>0, <1>4, <1>5, <1>6, <1>7, OfOne

LEMMA PollControl ==
  ASSUME Control, NEW c \in Cmd, PollOne(c) PROVE Control'
  <1>0. \A d \in Cmd : d # c => Same(d) BY OthersSame DEF Control, Look
  <1>1. /\ pc[c] = "look" /\ index[c] \in DOMAIN ops[c] \ processed[c]
        /\ UNCHANGED <<ops, expired, late, queue, replies, arrived>>
    BY DEF PollOne
  <1>2. \/ /\ pc' = [pc EXCEPT ![c] = "have"] /\ UNCHANGED <<processed, index>>
        \/ /\ UNCHANGED pc /\ index' = [index EXCEPT ![c] = @ + 1]
           /\ \/ UNCHANGED processed
              \/ processed' = [processed EXCEPT ![c] = @ \cup {index[c]}]
    <2>1. CASE hasData(Polled(c)) BY <2>1 DEF PollOne
    <2>2. CASE ~hasData(Polled(c))
      <3>1. /\ UNCHANGED pc /\ index' = [index EXCEPT ![c] = @ + 1]
            /\ processed' = [processed EXCEPT ![c] = IF late[c] THEN @ \cup {index[c]} ELSE @]
        BY <2>2 DEF PollOne
      <3>2. ~late[c] => processed' = processed BY <3>1 DEF Control, WorkType
      <3> QED BY <3>1, <3>2
    <2> QED BY <2>1, <2>2
  <1>3. index[c] \in 1 .. Len(ops[c]) BY <1>1, ListFacts
  <1>4. WorkType'
    <2>1. pc' \in [Cmd -> Place] BY <1>2 DEF Control, WorkType, Place
    <2>2. index' \in [Cmd -> Nat] BY <1>2 DEF Control, WorkType
    <2>3. processed' \in [Cmd -> SUBSET Nat]
      <3>1. processed \in [Cmd -> SUBSET Nat] /\ index[c] \in Nat BY DEF Control, WorkType
      <3>2. processed[c] \cup {index[c]} \in SUBSET Nat BY <3>1
      <3> QED BY <1>2, <3>1, <3>2
    <2> QED BY <1>1, <2>1, <2>2, <2>3 DEF Control, WorkType
  <1>5. QueueInv' BY <1>1, <1>2, QueueKept DEF Control, QueueInv
  <1>6. /\ processed[c] \subseteq processed'[c] /\ processed'[c] \subseteq DOMAIN ops[c]
        /\ \/ pc'[c] = "have" /\ index'[c] = index[c] /\ processed'[c] = processed[c]
           \/ pc'[c] = "look" /\ index'[c] = index[c] + 1
    BY <1>1, <1>2 DEF Control, WorkType, ListInv
  <1>7. ListInv(c)'
    <2>1. index'[c] \in 1 .. Len(ops[c]) + 1 BY <1>3, <1>6, ListFacts
    <2> QED BY <1>1, <1>6, <2>1 DEF Control, ListInv
  <1>8. ReplyInv(c)' BY <1>1, <1>6 DEF Control, ReplyInv, Values
  <1> QED BY <1>0, <1>4, <1>5, <1>7, <1>8, OfOne

LEMMA LookAgainControl ==
  ASSUME Control, NEW c \in Cmd, LookAgain(c) PROVE Control'
  <1>0. \A d \in Cmd : d # c => Same(d) BY OthersSame DEF Control, Look
  <1>1. /\ pc[c] = "look" /\ ~late[c] /\ queue' = Append(queue, c)
        /\ pc' = [pc EXCEPT ![c] = "queued"]
        /\ UNCHANGED <<ops, processed, expired, late, index, replies, arrived>>
    BY DEF LookAgain
  <1>2. QueueInv' /\ queue' \in Seq(Cmd) BY <1>1, QueueAppend DEF Control
  <1>3. WorkType' BY <1>1, <1>2 DEF Control, WorkType, Place
  <1>4. pc'[c] = "queued" BY <1>1 DEF Control, WorkType
  <1>5. ListInv(c)' BY <1>1, <1>4 DEF Control, ListInv
  <1>6. ReplyInv(c)' BY <1>1, <1>4 DEF Control, ReplyInv, Values
  <1> QED BY <1>0, <1>2, <1>3, <1>5, <1>6, OfOne

\* A reply is appended: a value of a PV that was not sent yet, or the last one.
LEMMA AppendReply ==
  ASSUME NEW c \in Cmd, Control, NEW r \in Reply,
         replies'[c] = Append(replies[c], r), ops'[c] = ops[c],
         pc[c] # "done", processed[c] \subseteq processed'[c],
         \/ /\ pc'[c] # "done" /\ r.error = 0
            /\ \E k \in processed'[c] : r.pv = ops[c][k]
            /\ \A k \in processed[c] : r.pv # ops[c][k]
         \/ pc'[c] = "done" /\ r.error = 1
  PROVE  ReplyInv(c)'
  <1> DEFINE n == Len(replies[c])
  <1>1. /\ n \in Nat /\ DOMAIN replies[c] = 1 .. n /\ DOMAIN replies'[c] = 1 .. n + 1
        /\ Len(replies'[c]) = n + 1 /\ replies'[c][n + 1] = r
        /\ \A i \in 1 .. n : replies'[c][i] = replies[c][i]
    BY ListFacts
  <1> HIDE DEF n
  <1>2. \A i \in 1 .. n :
          /\ replies[c][i].error = -1 => i = 1
          /\ replies[c][i].error # 1
          /\ replies[c][i].error = 0 => \E k \in processed[c] : replies[c][i].pv = ops[c][k]
    BY <1>1 DEF Control, ReplyInv
  <1>3. ASSUME NEW i \in DOMAIN replies'[c]
        PROVE  /\ replies'[c][i].error = -1 => i = 1
               /\ replies'[c][i].error = 1 => i = Len(replies'[c]) /\ pc'[c] = "done"
               /\ replies'[c][i].error = 0 => \E k \in processed'[c] : replies'[c][i].pv = ops'[c][k]
    <2>1. CASE i = n + 1 BY <1>1, <2>1
    <2>2. CASE i \in 1 .. n BY <1>1, <1>2, <2>2
    <2> QED BY <1>1, <1>3, <2>1, <2>2
  <1>4. ASSUME NEW i \in Values(c)', NEW j \in Values(c)', replies'[c][i].pv = replies'[c][j].pv
        PROVE  i = j
    <2>0. i \in 1 .. n + 1 /\ j \in 1 .. n + 1 /\ replies'[c][i].error = 0 /\ replies'[c][j].error = 0
      BY <1>1 DEF Values
    <2>1. ASSUME NEW a \in 1 .. n, replies'[c][a].error = 0, r.error = 0 PROVE replies'[c][a].pv # r.pv
      BY <1>1, <1>2, <2>1
    <2>2. CASE i \in 1 .. n /\ j \in 1 .. n
      <3>1. i \in Values(c) /\ j \in Values(c) BY <1>1, <2>0, <2>2 DEF Values
      <3> QED BY <1>1, <1>4, <2>2, <3>1 DEF Control, ReplyInv
    <2>3. CASE i = n + 1 /\ j = n + 1 BY <2>3
    <2>4. CASE i = n + 1 /\ j \in 1 .. n BY <1>1, <1>4, <2>0, <2>1, <2>4
    <2>5. CASE i \in 1 .. n /\ j = n + 1 BY <1>1, <1>4, <2>0, <2>1, <2>5
    <2> QED BY <1>1, <2>0, <2>2, <2>3, <2>4, <2>5
  <1>5. pc'[c] = "done" => \E i \in DOMAIN replies'[c] : replies'[c][i].error = 1
    BY <1>1
  <1> QED BY <1>3, <1>4, <1>5 DEF ReplyInv

\* The operation that a task looks at.
LEMMA AtType ==
  ASSUME Control, NEW c \in Cmd, index[c] \in DOMAIN ops[c]
  PROVE  At(c) \in PV /\ OpOf(c, At(c)) \in OpId /\ OpOf(c, At(c))[2] = At(c)
  BY ListFacts, Ids DEF At

\* The outcome of a take: a value is appended, or nothing is defined any more.
LEMMA SendReply ==
  ASSUME OpType, Control, NEW c \in Cmd, NEW o \in OpId, o = OpOf(c, At(c)), o[2] = At(c),
         At(c) \in PV, SendValue(c)
  PROVE  /\ ub' \in {"none", "merge", "back", "null"}
         /\ ub' = "merge" <=> MergesNull(op[o])
         /\ ub' # "none" => UNCHANGED replies
         /\ ub' = "none" => \E e \in Event :
              /\ replies' = [replies EXCEPT ![c] = Append(@, ValueOf(At(c), e))]
              /\ e.principal \in 0 .. version[At(c)]
              /\ e.additional = AfterTake(op[o]).last
              /\ op[o].principal.received # <<>>
         /\ ~MergesNull(op[o]) /\ ub' = "back" => op[o].principal.received = <<>>
  <1> DEFINE events == getEventData(op[o])
             V == 0 .. version[o[2]]
             outcome == IF MergesNull(op[o]) THEN "merge"
                        ELSE IF events = <<>> THEN "back"
                        ELSE IF Last(events).principal = 0 /\ At(c) \notin Ca THEN "null"
                        ELSE "none"
  <1>1. /\ ub' = outcome
        /\ replies' = [replies EXCEPT ![c] =
                         IF outcome = "none" THEN Append(@, ValueOf(At(c), Last(events))) ELSE @]
    BY DEF SendValue
  <1>2. op[o] \in Operation(V) /\ 0 \in V /\ V \subseteq Nat BY Versions
  <1>3. /\ events = <<>> <=> op[o].principal.received = <<>>
        /\ events # <<>> =>
             /\ Last(events) \in Event /\ Last(events).principal \in V
             /\ Last(events).additional = AfterTake(op[o]).last
    <2> HIDE DEF V
    <2> QED BY <1>2, Taken
  <1> HIDE DEF events
  <1>4. outcome # "none" => replies' = replies BY <1>1 DEF Control, WorkType
  <1> QED BY <1>1, <1>3, <1>4

LEMMA SendControl ==
  ASSUME OpType, Control, NEW c \in Cmd, SendValue(c) PROVE Control'
  <1>0. \A d \in Cmd : d # c => Same(d) BY OthersSame DEF Control, Look
  <1>1. /\ pc[c] = "have" /\ pc' = [pc EXCEPT ![c] = "look"]
        /\ processed' = [processed EXCEPT ![c] = processed[c] \cup {index[c]}]
        /\ index' = [index EXCEPT ![c] = @ + 1]
        /\ UNCHANGED <<ops, expired, late, queue, arrived>>
    BY DEF SendValue, MarkProcessed
  <1>2. index[c] \in DOMAIN ops[c] /\ index[c] \notin processed[c] BY <1>1 DEF Control, ListInv
  <1>3. At(c) \in PV /\ OpOf(c, At(c)) \in OpId /\ OpOf(c, At(c))[2] = At(c)
    BY <1>2, AtType
  <1>4. \/ UNCHANGED replies
        \/ \E e \in Event : replies' = [replies EXCEPT ![c] = Append(@, ValueOf(At(c), e))]
    BY <1>3, SendReply
  <1>5. /\ pc'[c] = "look" /\ processed'[c] = processed[c] \cup {index[c]}
        /\ index'[c] = index[c] + 1 /\ ops'[c] = ops[c] /\ late'[c] = late[c]
    BY <1>1 DEF Control, WorkType
  <1>6. QueueInv' BY <1>1, QueueKept DEF Control
  <1>7. replies' \in [Cmd -> Seq(Reply)]
    <2>1. replies \in [Cmd -> Seq(Reply)] BY DEF Control, WorkType
    <2>2. \A e \in Event : Append(replies[c], ValueOf(At(c), e)) \in Seq(Reply)
      BY <1>3, <2>1, Messages
    <2> QED BY <1>4, <2>1, <2>2
  <1>8. WorkType'
    <2>1. processed' \in [Cmd -> SUBSET Nat] /\ index' \in [Cmd -> Nat] /\ pc' \in [Cmd -> Place]
      BY <1>1 DEF Control, WorkType, Place
    <2> QED BY <1>1, <1>7, <2>1 DEF Control, WorkType
  <1>9. ListInv(c)'
    <2>1. index'[c] \in 1 .. Len(ops[c]) + 1 BY <1>2, <1>5, ListFacts
    <2>2. processed'[c] \subseteq DOMAIN ops[c] BY <1>2, <1>5 DEF Control, ListInv
    <2> QED BY <1>5, <2>1, <2>2 DEF Control, ListInv
  <1>10. ReplyInv(c)'
    <2>1. CASE UNCHANGED replies BY <1>1, <1>5, <2>1 DEF Control, ReplyInv, Values
    <2>2. ASSUME NEW e \in Event, replies' = [replies EXCEPT ![c] = Append(@, ValueOf(At(c), e))]
          PROVE  ReplyInv(c)'
      <3> DEFINE r == ValueOf(At(c), e)
      <3>1. r \in Reply /\ r.error = 0 /\ r.pv = At(c) BY <1>3, Messages
      <3>2. replies'[c] = Append(replies[c], r) BY <2>2 DEF Control, WorkType
      <3>3. \A k \in processed[c] : At(c) # ops[c][k]
        BY <1>2 DEF Control, ListInv, IsInjective, At
      <3> HIDE DEF r
      <3> QED BY <1>1, <1>5, <3>1, <3>2, <3>3, AppendReply DEF At
    <2> QED BY <1>4, <2>1, <2>2
  <1> QED BY <1>0, <1>6, <1>8, <1>9, <1>10, OfOne

LEMMA CompleteControl ==
  ASSUME Control, NEW c \in Cmd, Complete(c) PROVE Control'
  <1>0. \A d \in Cmd : d # c => Same(d) BY OthersSame DEF Control, Look
  <1>1. /\ pc[c] = "look" /\ pc' = [pc EXCEPT ![c] = "done"]
        /\ replies' = [replies EXCEPT ![c] = Append(@, Completion)]
        /\ UNCHANGED <<ops, processed, expired, late, index, queue, arrived>>
    BY DEF Complete
  <1>2. QueueInv' BY <1>1, QueueKept DEF Control
  <1>3. pc'[c] = "done" /\ replies'[c] = Append(replies[c], Completion)
    BY <1>1 DEF Control, WorkType
  <1>4. replies' \in [Cmd -> Seq(Reply)]
    <2>1. replies \in [Cmd -> Seq(Reply)] BY DEF Control, WorkType
    <2> QED BY <1>1, <2>1, Messages
  <1>5. WorkType' BY <1>1, <1>4 DEF Control, WorkType, Place
  <1>6. ListInv(c)' BY <1>1, <1>3 DEF Control, ListInv
  <1>7. ReplyInv(c)' BY <1>1, <1>3, Messages, AppendReply
  <1> QED BY <1>0, <1>2, <1>5, <1>6, <1>7, OfOne

-----------------------------------------------------------------------------
(* Types of all steps. *)

Basics == OpType /\ RestType /\ Control

\* No step, or undefined behaviour.
Idle == UNCHANGED <<ioc, op, work, tpc>> /\ ub' \in {ub, "race"}

LEMMA NextCases ==
  ASSUME [Next]_vars
  PROVE  \/ EnvStep
         \/ \E c \in Cmd : \E names \in Lists : Submit(c, names)
         \/ \E c \in Cmd : Expire(c)
         \/ \E c \in Cmd : StartLook(c)
         \/ \E c \in Cmd : PassOver(c)
         \/ \E c \in Cmd : PollOne(c)
         \/ \E c \in Cmd : SendValue(c)
         \/ \E c \in Cmd : LookAgain(c)
         \/ \E c \in Cmd : Complete(c)
         \/ \E p \in Monitored : TaskPoll(p) \/ TaskTake(p)
         \/ Idle
  <1>1. ASSUME NEW o \in OpId, DataRace(o) PROVE Idle BY <1>1 DEF DataRace, Idle
  <1>2. UNCHANGED vars => Idle BY DEF vars, Idle
  <1> QED BY <1>1, <1>2 DEF Next, Look, EnvStep

\* The steps of a command that leave the operations alone.
LEMMA QuietSteps ==
  ASSUME OpType, RestType, NEW c \in Cmd,
         \/ \E names \in Lists : Submit(c, names)
         \/ Expire(c) \/ StartLook(c) \/ PassOver(c) \/ LookAgain(c)
  PROVE  OpType' /\ RestType' /\ UNCHANGED <<version, op, tpc, ub>>
  <1>1. UNCHANGED <<version, lost, op, tpc, ub>>
    BY DEF Submit, Expire, StartLook, PassOver, LookAgain, ioc
  <1> QED BY <1>1 DEF OpType, RestType

LEMMA InitBasics == Init => Basics
  <1> SUFFICES ASSUME Init PROVE Basics OBVIOUS
  <1> USE DEF Init
  <1>1. version \in [PV -> 1 .. MaxVersion] BY OneShotConstants
  <1>2. OpType
    <2>1. op = [o \in OpId |-> op[o]] OBVIOUS
    <2>2. ASSUME NEW o \in OpId
          PROVE  op[o] \in Operation(0 .. version[o[2]]) /\ (op[o].combined <=> o[2] \in Ca)
      <3>1. 0 \in 0 .. version[o[2]] /\ (o[2] \in Ca) \in BOOLEAN BY <1>1, Ids
      <3>2. op[o] = NewOp(o[2] \in Ca) OBVIOUS
      <3> QED BY <3>1, <3>2, NewOpType
    <2> QED BY <1>1, <2>1, <2>2 DEF OpType
  <1>3. RestType BY OneShotConstants DEF RestType
  <1>4. WorkType BY DEF WorkType, Place
  <1>5. QueueInv BY DEF QueueInv, IsInjective, ToSet
  <1>6. ASSUME NEW c \in Cmd PROVE ListInv(c) /\ ReplyInv(c)
    <2>1. ops[c] = <<>> /\ replies[c] = <<>> /\ index[c] = 1 /\ pc[c] = "idle" /\ ~late[c]
          /\ processed[c] = {}
      OBVIOUS
    <2>2. ListInv(c) BY <2>1 DEF ListInv, IsInjective
    <2>3. ReplyInv(c) BY <2>1 DEF ReplyInv, Values
    <2> QED BY <2>2, <2>3
  <1> QED BY <1>2, <1>3, <1>4, <1>5, <1>6 DEF Basics, Control

LEMMA NextBasics ==
  ASSUME Basics, [Next]_vars PROVE Basics'
  <1> USE DEF Basics
  <1>1. CASE EnvStep
    <2>1. WorkType BY DEF Control
    <2> QED BY <1>1, <2>1, EnvEffect, ControlKept DEF Env
  <1>2. ASSUME NEW c \in Cmd, NEW names \in Lists, Submit(c, names) PROVE Basics'
    BY <1>2, QuietSteps, SubmitControl
  <1>3. ASSUME NEW c \in Cmd, Expire(c) PROVE Basics' BY <1>3, QuietSteps, ExpireControl
  <1>4. ASSUME NEW c \in Cmd, StartLook(c) PROVE Basics' BY <1>4, QuietSteps, StartLookControl
  <1>5. ASSUME NEW c \in Cmd, PassOver(c) PROVE Basics' BY <1>5, QuietSteps, PassOverControl
  <1>6. ASSUME NEW c \in Cmd, LookAgain(c) PROVE Basics' BY <1>6, QuietSteps, LookAgainControl
  <1>7. ASSUME NEW c \in Cmd, PollOne(c) PROVE Basics'
    <2>1. OpOf(c, At(c)) \in OpId BY <1>7, AtType DEF PollOne
    <2>2. OpType' BY <1>7, <2>1, PollEffect
    <2>3. RestType' BY <1>7 DEF PollOne, RestType, ioc
    <2> QED BY <1>7, <2>2, <2>3, PollControl
  <1>8. ASSUME NEW c \in Cmd, SendValue(c) PROVE Basics'
    <2>0. index[c] \in DOMAIN ops[c] BY <1>8 DEF SendValue, Control, ListInv
    <2>1. At(c) \in PV /\ OpOf(c, At(c)) \in OpId /\ OpOf(c, At(c))[2] = At(c) BY <2>0, AtType
    <2>2. OpType' BY <1>8, <2>1, SendEffect
    <2>3. ub' \in {"none", "merge", "back", "null"} BY <1>8, <2>1, SendReply
    <2>4. RestType' BY <1>8, <2>3 DEF SendValue, RestType, ioc
    <2> QED BY <1>8, <2>2, <2>4, SendControl
  <1>9. ASSUME NEW c \in Cmd, Complete(c) PROVE Basics'
    <2>1. RestType' BY <1>9 DEF Complete, RestType, ioc
    <2> QED BY <1>9, <2>1, CompleteControl, CompleteEffect
  <1>10. ASSUME NEW p \in Monitored, TaskPoll(p) \/ TaskTake(p) PROVE Basics'
    <2>1. <<Service, p>> \in OpId BY Ids, OneShotConstants
    <2>2. OpType' BY <1>10, <2>1, TaskEffect
    <2>3. Control' BY <1>10, WorkKept, ControlKept DEF TaskPoll, TaskTake
    <2>4. RestType' BY <1>10 DEF TaskPoll, TaskTake, RestType, ioc
    <2> QED BY <2>2, <2>3, <2>4
  <1>11. CASE Idle
    <2>1. OpType' /\ RestType' BY <1>11 DEF Idle, ioc, OpType, RestType
    <2>2. Control' BY <1>11, WorkKept, ControlKept DEF Idle
    <2> QED BY <2>1, <2>2
  <1> QED BY NextCases, <1>1, <1>2, <1>3, <1>4, <1>5, <1>6, <1>7, <1>8, <1>9, <1>10, <1>11

-----------------------------------------------------------------------------
(* No null merge. *)

LEMMA HeardJoinable ==
  ASSUME NEW x, NEW y, Heard(x, y) PROVE Joinable(x) => Joinable(y)
  BY DEF Heard, HeardPart, Joinable, AdditionalKnown, requestHasData

\* What keeps an operation joinable that stays in use.
LEMMA StaysJoinable ==
  ASSUME Basics, KnownInv, NEW o \in OpId, [Next]_vars,
         \A c \in Cmd : Complete(c) => o[1] # c,
         Joinable(op[o])
  PROVE  Joinable(op'[o])
  <1> USE DEF Basics
  <1>0. op[o] \in Operation(0 .. version[o[2]]) /\ 0 \in 0 .. version[o[2]] BY Versions
  <1>1. CASE EnvStep
    <2>1. WorkType BY DEF Control
    <2> QED BY <1>1, <2>1, EnvEffect, HeardJoinable DEF Env
  <1>2. ASSUME NEW c \in Cmd, \/ \E names \in Lists : Submit(c, names)
                              \/ Expire(c) \/ StartLook(c) \/ PassOver(c) \/ LookAgain(c)
        PROVE  Joinable(op'[o])
    BY <1>2, QuietSteps
  <1>3. ASSUME NEW c \in Cmd, PollOne(c) PROVE Joinable(op'[o])
    <2>1. OpOf(c, At(c)) \in OpId BY <1>3, AtType DEF PollOne
    <2> QED BY <1>3, <2>1, PollEffect, PolledType
  <1>4. ASSUME NEW c \in Cmd, SendValue(c) PROVE Joinable(op'[o])
    <2>1. index[c] \in DOMAIN ops[c] BY <1>4 DEF SendValue, Control, ListInv
    <2>2. OpOf(c, At(c)) \in OpId BY <2>1, AtType
    <2>3. op'[o] = op[o] \/ op'[o] = AfterTake(op[o]) BY <1>4, <2>2, SendEffect
    <2> QED BY <1>0, <2>3, TakeJoinable
  <1>5. ASSUME NEW c \in Cmd, Complete(c) PROVE Joinable(op'[o])
    BY <1>5, CompleteEffect
  <1>6. ASSUME NEW p \in Monitored, TaskPoll(p) \/ TaskTake(p) PROVE Joinable(op'[o])
    <2>1. <<Service, p>> \in OpId BY Ids, OneShotConstants
    <2>2. op'[o] = op[o] \/ op'[o] = poll(op[o]) \/ op'[o] = AfterTake(op[o])
      BY <1>6, <2>1, TaskEffect
    <2> QED BY <1>0, <2>2, TakeJoinable, PollJoinable
  <1>7. CASE Idle BY <1>7 DEF Idle
  <1> QED BY NextCases, <1>1, <1>2, <1>3, <1>4, <1>5, <1>6, <1>7

LEMMA NextKnown ==
  ASSUME Basics, KnownInv, [Next]_vars PROVE KnownInv'
  <1> USE DEF Basics
  <1>0. Basics' BY NextBasics
  <1>1. ASSUME NEW c \in Cmd, pc'[c] = "have" PROVE Joinable(op'[OpOf(c, At(c))'])
    <2> DEFINE o == OpOf(c, At(c))
    <2>1. CASE ~PollOne(c)
      <3>1. pc[c] = "have" /\ UNCHANGED <<ops[c], index[c]>>
        <4>1. ASSUME NEW d \in Cmd, (\E names \in Lists : Submit(d, names)) \/ Expire(d) \/ Look(d),
                     d # c
              PROVE  pc[c] = "have" /\ UNCHANGED <<ops[c], index[c]>>
          BY <1>1, <4>1, OthersSame DEF Same, Control
        <4>2. CASE (\E names \in Lists : Submit(c, names)) \/ StartLook(c) \/ SendValue(c)
                     \/ LookAgain(c) \/ Complete(c)
          BY <1>1, <4>2 DEF Submit, StartLook, SendValue, LookAgain, Complete, Control, WorkType
        <4>3. CASE Expire(c) BY <1>1, <4>3 DEF Expire
        <4>4. CASE PassOver(c) BY <1>1, <4>4 DEF PassOver
        <4>5. CASE UNCHANGED listing BY <1>1, <4>5 DEF listing
        <4>6. EnvStep => UNCHANGED listing BY EnvEffect DEF Control, Env
        <4>7. (\E p \in Monitored : TaskPoll(p) \/ TaskTake(p)) => UNCHANGED listing
          BY WorkKept DEF TaskPoll, TaskTake
        <4>8. Idle => UNCHANGED listing BY WorkKept DEF Idle
        <4> QED BY <2>1, NextCases, <4>1, <4>2, <4>3, <4>4, <4>5, <4>6, <4>7, <4>8 DEF Look
      <3>2. o \in OpId BY <3>1, AtType DEF Control, ListInv
      <3>3. \A d \in Cmd : Complete(d) => o[1] # d
        <4> SUFFICES ASSUME NEW d \in Cmd, Complete(d), o[1] = d PROVE FALSE OBVIOUS
        <4>1. d = c \/ d = Service BY DEF OpOf
        <4>2. pc[d] = "look" BY DEF Complete
        <4> QED BY <3>1, <4>1, <4>2, OneShotConstants
      <3>4. Joinable(op[o]) BY <3>1 DEF KnownInv
      <3>5. Joinable(op'[o]) BY <3>2, <3>3, <3>4, StaysJoinable
      <3>6. OpOf(c, At(c))' = o BY <3>1 DEF OpOf, At
      <3> QED BY <3>5, <3>6
    <2>2. CASE PollOne(c)
      <3>1. o \in OpId BY <2>2, AtType DEF PollOne
      <3>2. op'[o] = Polled(c) BY <2>2, <3>1, PollEffect
      <3>3. pc[c] = "look" /\ UNCHANGED ops /\ (~hasData(Polled(c)) => UNCHANGED pc)
            /\ (hasData(Polled(c)) => UNCHANGED index)
        BY <2>2 DEF PollOne
      <3>4. hasData(Polled(c)) /\ UNCHANGED index BY <1>1, <3>3
      <3>5. Joinable(Polled(c)) BY <3>1, <3>4, PolledType
      <3>6. OpOf(c, At(c))' = o BY <3>3, <3>4 DEF OpOf, At
      <3> QED BY <3>2, <3>5, <3>6
    <2> QED BY <2>1, <2>2
  <1>2. ASSUME NEW p \in Monitored, tpc'[p] = "take" PROVE Joinable(op'[<<Service, p>>])
    <2>1. <<Service, p>> \in OpId BY Ids, OneShotConstants
    <2>2. CASE tpc[p] = "take"
      <3>1. \A d \in Cmd : <<Service, p>>[1] # d BY OneShotConstants
      <3> QED BY <2>1, <2>2, <3>1, StaysJoinable DEF KnownInv
    <2>3. CASE tpc[p] # "take"
      <3>1. TaskPoll(p) /\ hasEvents(poll(op[<<Service, p>>]))
        <4>1. ASSUME NEW c \in Cmd, (\E names \in Lists : Submit(c, names)) \/ Expire(c) \/ Look(c)
              PROVE  UNCHANGED tpc
          BY <4>1 DEF Submit, Expire, Look, StartLook, PassOver, PollOne, SendValue, LookAgain, Complete
        <4>2. EnvStep \/ Idle => UNCHANGED tpc BY EnvEffect DEF Idle, Control, Env
        <4>3. PICK w \in Monitored : TaskPoll(w) \/ TaskTake(w)
          BY <1>2, <2>3, <4>1, <4>2, NextCases DEF Look
        <4>4. w = p BY <1>2, <2>3, <4>3 DEF TaskPoll, TaskTake, RestType
        <4>5. ~TaskTake(p) BY <1>2, <2>3 DEF TaskTake
        <4> QED BY <1>2, <4>3, <4>4, <4>5 DEF TaskPoll, RestType
      <3>2. op'[<<Service, p>>] = poll(op[<<Service, p>>])
        BY <2>1, <3>1, TaskEffect DEF TaskPoll
      <3> QED BY <3>1, <3>2 DEF hasEvents, Joinable
    <2> QED BY <2>2, <2>3
  <1>3. ub' # "merge"
    <2>1. ASSUME NEW c \in Cmd, SendValue(c) PROVE ub' # "merge"
      <3>0. pc[c] = "have" /\ index[c] \in DOMAIN ops[c]
        BY <2>1 DEF SendValue, Control, ListInv
      <3>1. At(c) \in PV /\ OpOf(c, At(c)) \in OpId /\ OpOf(c, At(c))[2] = At(c)
        BY <3>0, AtType
      <3> DEFINE o == OpOf(c, At(c))
      <3>2. Joinable(op[o]) BY <3>0 DEF KnownInv
      <3>3. ~MergesNull(op[o])
        <4>1. op[o] \in Operation(0 .. version[o[2]]) /\ 0 \in 0 .. version[o[2]]
          BY <3>1, Versions
        <4> QED BY <3>2, <4>1, TakeJoinable
      <3> QED BY <2>1, <3>1, <3>3, SendReply
    <2>2. ASSUME NEW p \in Monitored, TaskTake(p) PROVE ub' # "merge"
      <3>1. <<Service, p>> \in OpId BY Ids, OneShotConstants
      <3> DEFINE o == <<Service, p>>
      <3>2. Joinable(op[o]) BY <2>2 DEF KnownInv, TaskTake
      <3>3. op[o] \in Operation(0 .. version[o[2]]) /\ 0 \in 0 .. version[o[2]]
        BY <3>1, Versions
      <3>4. ~MergesNull(op[o]) BY <3>2, <3>3, TakeJoinable
      <3> QED BY <2>2, <3>4 DEF TaskTake
    <2>3. ASSUME NEW c \in Cmd, ~SendValue(c),
                 (\E names \in Lists : Submit(c, names)) \/ Expire(c) \/ Look(c)
          PROVE  UNCHANGED ub
      BY <2>3 DEF Submit, Expire, Look, StartLook, PassOver, PollOne, LookAgain, Complete
    <2>4. /\ EnvStep => UNCHANGED ub
          /\ Idle => ub' \in {ub, "race"}
      BY EnvEffect DEF Idle, Control, Env
    <2>5. \A p \in Monitored : TaskPoll(p) => UNCHANGED ub BY DEF TaskPoll
    <2> QED BY NextCases, <2>1, <2>2, <2>3, <2>4, <2>5 DEF KnownInv, Look
  <1> QED BY <1>1, <1>2, <1>3 DEF KnownInv

LEMMA InitKnown == Init => KnownInv
  BY OneShotConstants DEF Init, KnownInv

\* The replies as the invariant of the run states them.
LEMMA Implied ==
  ASSUME Basics, KnownInv PROVE OneShotInv
  <1> USE DEF Basics
  <1>1. TypeOK
    <2>1. DOMAIN op = OpId BY DEF OpType
    <2>2. ASSUME NEW c \in Cmd
          PROVE  /\ ToSet(ops[c]) \subseteq PV /\ processed[c] \subseteq DOMAIN ops[c]
                 /\ index[c] \in 1 .. Len(ops[c]) + 1
                 /\ pc[c] \in {"idle", "queued", "look", "have", "done"}
                 /\ expired[c] \in BOOLEAN /\ late[c] \in BOOLEAN
      <3>1. ToSet(ops[c]) \subseteq PV BY ListFacts DEF ToSet
      <3> QED BY <3>1 DEF Control, WorkType, ListInv, Place
    <2>3. ToSet(queue) \subseteq Cmd /\ IsInjective(queue)
      <3>1. queue \in Seq(Cmd) /\ IsInjective(queue) BY DEF Control, WorkType, QueueInv
      <3>2. \A i \in DOMAIN queue : queue[i] \in Cmd BY <3>1
      <3> QED BY <3>1, <3>2 DEF ToSet
    <2> QED BY <2>1, <2>2, <2>3 DEF TypeOK, OpType, RestType
  <1>2. ASSUME NEW c \in Cmd
        PROVE  /\ \A i \in DOMAIN replies[c] :
                    /\ replies[c][i].error = -1 => i = 1
                    /\ replies[c][i].error = 1 => i = Len(replies[c])
               /\ Cardinality(Reported(c)) = Cardinality(Values(c))
               /\ pc[c] = "done" <=> \E i \in DOMAIN replies[c] : replies[c][i].error = 1
    <2>1. ReplyInv(c) BY DEF Control
    <2>2. Cardinality(Reported(c)) = Cardinality(Values(c))
      <3> DEFINE f == [i \in Values(c) |-> replies[c][i].pv]
                 n == Len(replies[c])
      <3>1. n \in Nat /\ Values(c) \subseteq 1 .. n BY ListFacts DEF Values
      <3>2. IsFiniteSet(Values(c))
        <4>1. IsFiniteSet(1 .. n) BY <3>1, FS_Interval
        <4> QED BY <3>1, <4>1, FS_Subset
      <3>3. f \in Bijection(Values(c), Reported(c))
        <4>1. f \in [Values(c) -> Reported(c)] BY DEF Reported
        <4>2. \A a, b \in Values(c) : f[a] = f[b] => a = b BY <2>1 DEF ReplyInv
        <4>3. \A w \in Reported(c) : \E a \in Values(c) : f[a] = w BY DEF Reported
        <4> QED BY <4>1, <4>2, <4>3 DEF Bijection, Injection, Surjection, IsInjective
      <3>4. ExistsBijection(Values(c), Reported(c)) BY <3>3 DEF ExistsBijection
      <3> QED BY <3>2, <3>4, FS_Bijection
    <2> QED BY <2>1, <2>2 DEF ReplyInv
  <1>3. ReplyProtocol BY <1>2 DEF ReplyProtocol
  <1> QED BY <1>1, <1>3 DEF OneShotInv, NoNullMerge, KnownInv

-----------------------------------------------------------------------------
(* What had arrived is reported. *)

LEMMA HeardPollable ==
  ASSUME NEW x, NEW y, Heard(x, y)
  PROVE  hasData(x) => hasData(y)
  BY DEF Heard, HeardPart, hasData, AdditionalKnown, requestHasData

\* The operation of a command for a PV that is not monitored: only the task of the
\* command, at this PV, does more to it than the environment.
LEMMA OwnOp ==
  ASSUME Basics, [Next]_vars, NEW c \in Cmd, NEW p \in PV \ Monitored,
         ~Complete(c), ~(PollOne(c) /\ At(c) = p), ~(SendValue(c) /\ At(c) = p)
  PROVE  /\ Heard(op[<<c, p>>], op'[<<c, p>>])
         /\ Arrives(op[<<c, p>>], op'[<<c, p>>], version[p])
         /\ p \in arrived'[c] /\ p \in Unprocessed(c) /\ PollableOp(op[<<c, p>>])
              => PollableOp(op'[<<c, p>>])
  <1> USE DEF Basics
  <1> DEFINE o == <<c, p>>
  <1>0. o \in OpId /\ o[1] = c /\ o[2] = p BY Ids
  <1>1. CASE EnvStep
    <2>1. WorkType BY DEF Control
    <2> QED BY <1>0, <1>1, <2>1, EnvEffect DEF Env, Stays
  <1>2. ASSUME op'[o] = op[o]
        PROVE  /\ Heard(op[o], op'[o]) /\ Arrives(op[o], op'[o], version[p])
               /\ PollableOp(op[o]) => PollableOp(op'[o])
    BY <1>0, <1>2, Versions, HeardSame
  <1>3. ASSUME NEW d \in Cmd, At(d) \in PV, d # c \/ At(d) # p PROVE OpOf(d, At(d)) # o
    BY <1>3, OneShotConstants DEF OpOf
  <1>4. ASSUME NEW d \in Cmd, PollOne(d) \/ SendValue(d) PROVE op'[o] = op[o]
    <2>1. index[d] \in DOMAIN ops[d] BY <1>4 DEF PollOne, SendValue, Control, ListInv
    <2>2. At(d) \in PV /\ OpOf(d, At(d)) \in OpId BY <2>1, AtType
    <2>3. OpOf(d, At(d)) # o BY <1>3, <1>4, <2>2
    <2> QED BY <1>0, <1>4, <2>2, <2>3, PollEffect, SendEffect
  <1>5. ASSUME NEW d \in Cmd, Complete(d) PROVE op'[o] = op[o]
    BY <1>0, <1>5, CompleteEffect
  <1>6. ASSUME NEW m \in Monitored, TaskPoll(m) \/ TaskTake(m) PROVE op'[o] = op[o]
    <2>1. <<Service, m>> \in OpId /\ <<Service, m>> # o BY Ids, OneShotConstants
    <2> QED BY <1>0, <1>6, <2>1, TaskEffect
  <1>7. ASSUME NEW d \in Cmd, \/ \E names \in Lists : Submit(d, names)
                              \/ Expire(d) \/ StartLook(d) \/ PassOver(d) \/ LookAgain(d)
        PROVE  op'[o] = op[o]
    BY <1>7, QuietSteps
  <1>8. CASE Idle
    <2>1. op'[o] = op[o] BY <1>8 DEF Idle
    <2> QED BY <1>2, <2>1
  <1> QED BY NextCases, <1>1, <1>2, <1>4, <1>5, <1>6, <1>7, <1>8

\* What a command does, seen from it.
Still(c) ==
    /\ ops'[c] = ops[c] /\ processed'[c] = processed[c] /\ late'[c] = late[c]
    /\ pc'[c] = pc[c] /\ index'[c] = index[c] /\ replies'[c] = replies[c]
    /\ arrived'[c] \subseteq arrived[c]

LEMMA OwnStep ==
  ASSUME Basics, [Next]_vars, NEW c \in Cmd
  PROVE  \/ Still(c) \/ (\E names \in Lists : Submit(c, names)) \/ StartLook(c) \/ PassOver(c)
         \/ PollOne(c) \/ SendValue(c) \/ LookAgain(c) \/ Complete(c)
  <1> USE DEF Basics
  <1>1. UNCHANGED work => Still(c) BY DEF work, Still
  <1>2. EnvStep => Still(c)
    <2>1. WorkType BY DEF Control
    <2>2. EnvStep => UNCHANGED listing /\ arrived'[c] \subseteq arrived[c]
      BY <2>1, EnvEffect DEF Env, Stays
    <2> QED BY <2>2 DEF listing, Still
  <1>3. (\E p \in Monitored : TaskPoll(p) \/ TaskTake(p)) => UNCHANGED work
    BY DEF TaskPoll, TaskTake
  <1>4. Idle => UNCHANGED work BY DEF Idle
  <1>5. Expire(c) => Still(c) BY DEF Expire, Still
  <1>6. ASSUME NEW d \in Cmd, d # c,
               (\E names \in Lists : Submit(d, names)) \/ Expire(d) \/ Look(d)
        PROVE  Still(c)
    BY <1>6, OthersSame DEF Control, Same, Still
  <1> QED BY NextCases, <1>1, <1>2, <1>3, <1>4, <1>5, <1>6 DEF Look

LEMMA UbStays ==
  ASSUME [Next]_vars, ub' = "none" PROVE ub = "none"
  <1>1. EnvStep => ub = "none"
    BY DEF EnvStep, Connect, FirstValue, Disconnect, GetDone, Going, Update
  <1>2. (\E c \in Cmd : \E names \in Lists : Submit(c, names)) \/ (\E c \in Cmd : Expire(c)) => ub = "none"
    BY DEF Submit, Expire, Going
  <1>3. (\E c \in Cmd : StartLook(c)) \/ (\E c \in Cmd : PassOver(c)) => ub = "none"
    BY DEF StartLook, PassOver, Going
  <1>4. (\E c \in Cmd : PollOne(c)) \/ (\E c \in Cmd : SendValue(c)) => ub = "none"
    BY DEF PollOne, SendValue, Going
  <1>5. (\E c \in Cmd : LookAgain(c)) \/ (\E c \in Cmd : Complete(c)) => ub = "none"
    BY DEF LookAgain, Complete, Going
  <1>6. (\E p \in Monitored : TaskPoll(p) \/ TaskTake(p)) => ub = "none"
    BY DEF TaskPoll, TaskTake, Going
  <1>7. Idle => ub = "none" BY DEF Idle
  <1> QED BY NextCases, <1>1, <1>2, <1>3, <1>4, <1>5, <1>6, <1>7

\* Replies are only added.
LEMMA ReportedGrows ==
  ASSUME Control, NEW c \in Cmd, NEW r \in Reply, replies'[c] = Append(replies[c], r)
  PROVE  /\ Reported(c) \subseteq Reported(c)'
         /\ r.error = 0 => r.pv \in Reported(c)'
  <1> DEFINE n == Len(replies[c])
  <1>1. /\ n \in Nat /\ DOMAIN replies[c] = 1 .. n /\ DOMAIN replies'[c] = 1 .. n + 1
        /\ replies'[c][n + 1] = r
        /\ \A i \in 1 .. n : replies'[c][i] = replies[c][i]
    BY ListFacts
  <1> HIDE DEF n
  <1>2. n + 1 \in 1 .. n + 1 /\ 1 .. n \subseteq 1 .. n + 1 BY <1>1
  <1> QED BY <1>1, <1>2 DEF Reported, Values

\* A PV that is ahead stays ahead and keeps what it had.
LEMMA AheadKept ==
  ASSUME Basics, [Next]_vars, NEW c \in Cmd, NEW p \in PV, NEW i \in DOMAIN ops[c],
         p \notin Monitored, hasData(poll(op[<<c, p>>])), ops[c][i] = p,
         ops'[c] = ops[c], i >= index'[c], i \notin processed'[c], i \notin processed[c],
         p \in arrived'[c],
         pc'[c] # "have" \/ i # index'[c],
         ~Complete(c), ~(PollOne(c) /\ At(c) = p), ~(SendValue(c) /\ At(c) = p)
  PROVE  Awaited(c, p)'
  <1> USE DEF Basics
  <1>0. Basics' BY NextBasics
  <1>1. /\ <<c, p>> \in OpId
        /\ op[<<c, p>>] \in Operation(0 .. version[p]) /\ 0 \in 0 .. version[p]
    BY Ids, Versions
  <1>2. op'[<<c, p>>] \in Operation(0 .. version'[p]) /\ 0 \in 0 .. version'[p]
    <2>1. <<c, p>>[2] = p BY Ids
    <2> QED BY <1>0, <1>1, <2>1 DEF OpType
  <1>3. p \in Unprocessed(c) BY DEF Unprocessed
  <1>4. hasData(poll(op'[<<c, p>>]))
    <2>1. PollableOp(op[<<c, p>>]) BY <1>1, PollHasData
    <2>2. PollableOp(op'[<<c, p>>]) BY <1>3, <2>1, OwnOp
    <2> QED BY <1>2, <2>2, PollHasData
  <1> QED BY <1>4 DEF Awaited

LEMMA StillArrived ==
  ASSUME Basics, [Next]_vars, NEW c \in Cmd, Still(c), ArrivedInv(c),
         ~Complete(c), ~PollOne(c), ~SendValue(c)
  PROVE  ArrivedInv(c)'
  <1> USE DEF Basics
  <1>0. Reported(c)' = Reported(c) BY DEF Still, Reported, Values
  <1>1. pc'[c] = "done" => arrived'[c] \subseteq Reported(c)' BY <1>0 DEF Still, ArrivedInv
  <1>2. ASSUME late'[c], pc'[c] \in {"look", "have"}, ub' = "none", NEW p \in arrived'[c],
               p \notin Reported(c)'
        PROVE  Awaited(c, p)'
    <2>1. p \in arrived[c] /\ p \in PV BY <1>2 DEF Still, Control, WorkType
    <2>2. Awaited(c, p)
      <3>1. ub = "none" BY <1>2, UbStays
      <3> QED BY <1>0, <1>2, <2>1, <3>1 DEF Still, ArrivedInv
    <2>3. PICK i \in DOMAIN ops[c] :
            /\ ops[c][i] = p /\ i >= index[c] /\ i \notin processed[c]
            /\ pc[c] = "have" /\ i = index[c] => hasData(op[<<c, p>>])
      BY <2>2 DEF Awaited
    <2>4. p \notin Monitored /\ hasData(poll(op[<<c, p>>])) BY <2>2 DEF Awaited
    <2>5. CASE pc[c] # "have" \/ i # index[c]
      BY <1>2, <2>1, <2>3, <2>4, <2>5, AheadKept DEF Still
    <2>6. CASE pc[c] = "have" /\ i = index[c]
      <3>0. OpType' BY NextBasics
      <3>1. hasData(op[<<c, p>>]) BY <2>3, <2>6
      <3>2. Heard(op[<<c, p>>], op'[<<c, p>>]) BY <2>1, <2>4, OwnOp
      <3>3. hasData(op'[<<c, p>>]) BY <3>1, <3>2, HeardPollable
      <3>4. op'[<<c, p>>] \in Operation(0 .. version'[p]) /\ 0 \in 0 .. version'[p]
        <4>1. <<c, p>> \in OpId /\ <<c, p>>[2] = p BY <2>1, Ids
        <4> QED BY <2>1, <3>0, <4>1 DEF OpType
      <3>5. hasData(poll(op'[<<c, p>>])) BY <3>3, <3>4, PollHasData
      <3> QED BY <2>3, <2>4, <2>6, <3>3, <3>5 DEF Still, Awaited
    <2> QED BY <2>5, <2>6
  <1> QED BY <1>1, <1>2 DEF ArrivedInv

LEMMA StartLookArrived ==
  ASSUME Basics, NEW c \in Cmd, StartLook(c) PROVE ArrivedInv(c)'
  <1> USE DEF Basics
  <1>1. /\ pc'[c] = "look" /\ index'[c] = 1 /\ UNCHANGED <<ops, processed, op>>
        /\ arrived'[c] = {p \in Unprocessed(c) \ Monitored :
                            expired[c] /\ hasData(poll(op[OpOf(c, p)]))}
    BY DEF StartLook, Control, WorkType
  <1>2. ASSUME NEW p \in arrived'[c] PROVE Awaited(c, p)'
    <2>1. p \in Unprocessed(c) /\ p \notin Monitored /\ hasData(poll(op[OpOf(c, p)]))
      BY <1>1
    <2>2. OpOf(c, p) = <<c, p>> BY <2>1 DEF OpOf
    <2>3. PICK i \in DOMAIN ops[c] : i \notin processed[c] /\ ops[c][i] = p
      BY <2>1 DEF Unprocessed
    <2>4. i >= 1 BY <2>3, ListFacts
    <2> QED BY <1>1, <2>1, <2>2, <2>3, <2>4 DEF Awaited
  <1> QED BY <1>1, <1>2 DEF ArrivedInv

LEMMA PassOverArrived ==
  ASSUME Basics, NEW c \in Cmd, PassOver(c), ArrivedInv(c) PROVE ArrivedInv(c)'
  <1> USE DEF Basics
  <1>1. /\ index'[c] = index[c] + 1 /\ pc[c] = "look" /\ index[c] \in processed[c]
        /\ UNCHANGED <<ops, processed, late, pc, replies, arrived, op, ub>>
    BY DEF PassOver, Control, WorkType
  <1>2. Reported(c)' = Reported(c) BY <1>1 DEF Reported, Values
  <1>3. ASSUME NEW p, Awaited(c, p) PROVE Awaited(c, p)'
    <2>1. PICK i \in DOMAIN ops[c] : ops[c][i] = p /\ i >= index[c] /\ i \notin processed[c]
      BY <1>3 DEF Awaited
    <2>2. i >= index[c] + 1 BY <1>1, <2>1, ListFacts
    <2> QED BY <1>1, <1>3, <2>1, <2>2 DEF Awaited
  <1> QED BY <1>1, <1>2, <1>3 DEF ArrivedInv

LEMMA PollArrived ==
  ASSUME Basics, [Next]_vars, NEW c \in Cmd, PollOne(c), ArrivedInv(c) PROVE ArrivedInv(c)'
  <1> USE DEF Basics
  <1>1. /\ pc[c] = "look" /\ index[c] \in DOMAIN ops[c] \ processed[c]
        /\ UNCHANGED <<ops, late, replies, arrived, ub>>
    BY DEF PollOne
  <1>2. /\ hasData(Polled(c)) =>
             pc'[c] = "have" /\ index'[c] = index[c] /\ processed'[c] = processed[c]
        /\ ~hasData(Polled(c)) =>
             /\ pc'[c] = "look" /\ index'[c] = index[c] + 1
             /\ processed'[c] \subseteq processed[c] \cup {index[c]}
    BY DEF PollOne, Control, WorkType
  <1>3. Reported(c)' = Reported(c) BY <1>1 DEF Reported, Values
  <1>4. At(c) \in PV /\ OpOf(c, At(c)) \in OpId BY <1>1, AtType
  <1>5. ASSUME late[c], NEW p \in PV, p \in arrived[c], Awaited(c, p) PROVE Awaited(c, p)'
    <2>1. PICK i \in DOMAIN ops[c] : ops[c][i] = p /\ i >= index[c] /\ i \notin processed[c]
      BY <1>5 DEF Awaited
    <2>2. p \notin Monitored /\ hasData(poll(op[<<c, p>>])) BY <1>5 DEF Awaited
    <2>3. CASE i # index[c]
      <3>1. At(c) # p BY <1>1, <2>1, <2>3 DEF At, Control, ListInv, IsInjective
      <3>2. i >= index[c] + 1 BY <2>1, <2>3, ListFacts
      <3>3. i >= index'[c] /\ i \notin processed'[c] /\ (pc'[c] # "have" \/ i # index'[c])
        BY <1>2, <2>1, <2>3, <3>2, ListFacts
      <3>4. ~Complete(c) /\ ~SendValue(c)
        <4>1. ~SendValue(c) BY <1>1 DEF SendValue
        <4>2. ~Complete(c) BY <1>1, ListFacts DEF Complete
        <4> QED BY <4>1, <4>2
      <3> QED BY <1>1, <1>5, <2>1, <2>2, <3>1, <3>3, <3>4, AheadKept
    <2>4. CASE i = index[c]
      <3>0. OpType' BY NextBasics
      <3>1. At(c) = p /\ OpOf(c, At(c)) = <<c, p>> BY <2>1, <2>2, <2>4 DEF At, OpOf
      <3>2. /\ op[<<c, p>>] \in Operation(0 .. version[p]) /\ 0 \in 0 .. version[p]
            /\ <<c, p>> \in OpId /\ <<c, p>>[2] = p
        BY Ids, Versions
      <3>3. PollableOp(forceUpdate(op[<<c, p>>])) BY <2>2, <3>2, PollHasData
      <3>4. forceUpdate(op[<<c, p>>]) \in Operation(0 .. version[p]) BY <3>2, ForceType
      <3>5. hasData(Polled(c))
        <4>1. Polled(c) = poll(forceUpdate(op[<<c, p>>])) BY <1>5, <3>1 DEF Polled
        <4> QED BY <3>2, <3>3, <3>4, <4>1, PollHasData
      <3>6. op'[<<c, p>>] = Polled(c) BY <1>4, <3>1, PollEffect
      <3>7. op'[<<c, p>>] \in Operation(0 .. version'[p]) /\ 0 \in 0 .. version'[p]
        BY <3>0, <3>2 DEF OpType
      <3>8. hasData(poll(op'[<<c, p>>])) BY <3>5, <3>6, <3>7, PollHasData
      <3> QED BY <1>1, <1>2, <2>1, <2>2, <3>5, <3>6, <3>8 DEF Awaited
    <2> QED BY <2>3, <2>4
  <1>6. \A p \in arrived[c] : p \in PV BY DEF Control, WorkType
  <1> QED BY <1>1, <1>2, <1>3, <1>5, <1>6 DEF ArrivedInv

LEMMA SendArrived ==
  ASSUME Basics, [Next]_vars, NEW c \in Cmd, SendValue(c), ArrivedInv(c) PROVE ArrivedInv(c)'
  <1> USE DEF Basics
  <1>1. /\ pc[c] = "have" /\ pc'[c] = "look" /\ index'[c] = index[c] + 1 /\ ub = "none"
        /\ processed'[c] = processed[c] \cup {index[c]}
        /\ UNCHANGED <<ops, late, arrived>>
    BY DEF SendValue, MarkProcessed, Control, WorkType
  <1>2. index[c] \in DOMAIN ops[c] BY <1>1 DEF Control, ListInv
  <1>3. At(c) \in PV /\ OpOf(c, At(c)) \in OpId /\ OpOf(c, At(c))[2] = At(c) BY <1>2, AtType
  <1>4. SUFFICES ASSUME late[c], ub' = "none", NEW p \in arrived[c], p \notin Reported(c)'
                 PROVE  Awaited(c, p)'
    BY <1>1 DEF ArrivedInv
  <1>5. p \in PV BY DEF Control, WorkType
  <1>6. Reported(c) \subseteq Reported(c)' /\ At(c) \in Reported(c)'
    <2>1. PICK e \in Event : replies' = [replies EXCEPT ![c] = Append(@, ValueOf(At(c), e))]
      BY <1>3, <1>4, SendReply
    <2>2. replies'[c] = Append(replies[c], ValueOf(At(c), e)) BY <2>1 DEF Control, WorkType
    <2>3. /\ ValueOf(At(c), e) \in Reply /\ ValueOf(At(c), e).error = 0
          /\ ValueOf(At(c), e).pv = At(c)
      BY <1>3, Messages
    <2> QED BY <2>2, <2>3, ReportedGrows
  <1>7. Awaited(c, p) BY <1>1, <1>4, <1>6 DEF ArrivedInv
  <1>8. PICK i \in DOMAIN ops[c] : ops[c][i] = p /\ i >= index[c] /\ i \notin processed[c]
    BY <1>7 DEF Awaited
  <1>9. At(c) # p BY <1>4, <1>6
  <1>10. i # index[c] BY <1>8, <1>9 DEF At
  <1>11. i >= index'[c] /\ i \notin processed'[c] BY <1>1, <1>8, <1>10, ListFacts
  <1>12. ~Complete(c) BY <1>1 DEF Complete
  <1>13. ~PollOne(c) BY <1>1 DEF PollOne
  <1> QED BY <1>1, <1>4, <1>5, <1>7, <1>8, <1>9, <1>11, <1>12, <1>13, AheadKept DEF Awaited

LEMMA CompleteArrived ==
  ASSUME Basics, NEW c \in Cmd, Complete(c), ArrivedInv(c) PROVE ArrivedInv(c)'
  <1> USE DEF Basics
  <1>1. /\ pc[c] = "look" /\ late[c] /\ ub = "none" /\ index[c] > Len(ops[c])
        /\ pc'[c] = "done" /\ arrived' = arrived /\ replies'[c] = Append(replies[c], Completion)
    BY DEF Complete, Control, WorkType
  <1>2. \A p : ~Awaited(c, p) BY <1>1, ListFacts DEF Awaited
  <1>3. arrived[c] \subseteq Reported(c) BY <1>1, <1>2 DEF ArrivedInv
  <1>4. Reported(c) \subseteq Reported(c)' BY <1>1, Messages, ReportedGrows
  <1> QED BY <1>1, <1>3, <1>4 DEF ArrivedInv

LEMMA NextArrived ==
  ASSUME Basics, [Next]_vars, NEW c \in Cmd, ArrivedInv(c) PROVE ArrivedInv(c)'
  <1>1. ASSUME NEW names \in Lists, Submit(c, names) PROVE ArrivedInv(c)'
    <2>1. pc'[c] = "queued" BY <1>1 DEF Submit, Basics, Control, WorkType
    <2> QED BY <2>1 DEF ArrivedInv
  <1>2. CASE LookAgain(c)
    <2>1. pc'[c] = "queued" BY <1>2 DEF LookAgain, Basics, Control, WorkType
    <2> QED BY <2>1 DEF ArrivedInv
  <1> QED BY OwnStep, <1>1, <1>2, StillArrived, StartLookArrived, PassOverArrived, PollArrived,
             SendArrived, CompleteArrived

LEMMA InitArrived ==
  ASSUME Init, NEW c \in Cmd PROVE ArrivedInv(c)
  BY DEF Init, ArrivedInv

-----------------------------------------------------------------------------
(* What a reply is made of. *)

LEMMA NewFetched ==
  ASSUME NEW v \in Nat, NEW b \in BOOLEAN
  PROVE  Fetched(NewOp(b), v) /\ ~NewOp(b).additional.force
  <1>1. <<>> \in Seq(1 .. v) OBVIOUS
  <1> QED BY <1>1 DEF NewOp, NewRequest, Fetched

LEMMA FetchedHeard ==
  ASSUME NEW v \in Nat, NEW w \in Nat, v <= w, v >= 1, NEW x, NEW y, Heard(x, y), Fetched(x, v),
         Arrives(x, y, v)
  PROVE  Fetched(y, w) /\ y.additional.force = x.additional.force
  <1>1. 1 .. v \subseteq 1 .. w /\ v \in 1 .. w OBVIOUS
  <1>2. x.additional.queue \in Seq(1 .. w) /\ x.additional.received \in Seq(1 .. w)
    BY <1>1 DEF Fetched
  <1>3. <<v>> \in Seq(1 .. w) /\ <<>> \in Seq(1 .. w) BY <1>1
  <1>4. y.additional.queue \in Seq(1 .. w) BY <1>2, <1>3 DEF Arrives
  <1> QED BY <1>2, <1>4 DEF Fetched, Heard, HeardPart

\* poll finds no get of an additional request that is forced only now.
LEMMA FetchedPoll ==
  ASSUME NEW v \in Nat, NEW x \in Operation(0 .. v), Fetched(x, v), x.additional.get = "none"
  PROVE  Fetched(poll(x), v) /\ poll(x).additional.force = x.additional.force
  <1> DEFINE r == x.additional
  <1>0. 0 \in 0 .. v OBVIOUS
  <1>1. /\ r \in Request(0 .. v) /\ r.queue \in Seq(1 .. v) /\ r.received \in Seq(1 .. v)
    BY DEF Operation, Fetched
  <1>2. r.received \o r.queue \in Seq(1 .. v) /\ <<>> \in Seq(1 .. v) BY <1>1
  <1>3. /\ requestPoll(r).queue \in Seq(1 .. v) /\ requestPoll(r).received \in Seq(1 .. v)
        /\ requestPoll(r).force = r.force /\ (~r.force => requestPoll(r).get = "none")
    BY <1>1, <1>2 DEF requestPoll, Request
  <1>4. /\ poll(x).known = x.known /\ poll(x).last = x.last
        /\ poll(x).additional \in {r, requestPoll(r)}
    BY <1>0, PollType DEF Operation
  <1> HIDE DEF r
  <1>5. /\ poll(x).additional.queue \in Seq(1 .. v) /\ poll(x).additional.received \in Seq(1 .. v)
        /\ poll(x).additional.force = r.force
        /\ (~r.force => poll(x).additional.get = "none")
    BY <1>1, <1>3, <1>4 DEF r, Fetched
  <1> QED BY <1>4, <1>5 DEF r, Fetched

LEMMA FetchedForce ==
  ASSUME NEW v \in Nat, NEW x \in Operation(0 .. v), Fetched(x, v), x.additional.get = "none"
  PROVE  Fetched(forceUpdate(x), v) /\ forceUpdate(x).additional.get = "none"
  <1>0. 0 \in 0 .. v OBVIOUS
  <1>1. x.additional \in Request(0 .. v) BY DEF Operation
  <1>2. forceUpdate(x).additional = [x.additional EXCEPT !.force = x.combined]
        /\ forceUpdate(x).known = x.known /\ forceUpdate(x).last = x.last
    BY <1>0, ForceType
  <1>3. /\ forceUpdate(x).additional.queue = x.additional.queue
        /\ forceUpdate(x).additional.received = x.additional.received
        /\ forceUpdate(x).additional.get = x.additional.get
    BY <1>1, <1>2 DEF Request
  <1> QED BY <1>2, <1>3 DEF Fetched

LEMMA FetchedTake ==
  ASSUME NEW v \in Nat, NEW x \in Operation(0 .. v), Fetched(x, v)
  PROVE  Fetched(AfterTake(x), v) /\ AfterTake(x).additional.force = x.additional.force
  <1> DEFINE r == x.additional
             y == AfterTake(x)
  <1>0. 0 \in 0 .. v OBVIOUS
  <1>1. r \in Request(0 .. v) /\ r.queue \in Seq(1 .. v) /\ r.received \in Seq(1 .. v)
    BY DEF Operation, Fetched
  <1>2. requestTake(r).queue = r.queue /\ requestTake(r).received = <<>>
        /\ requestTake(r).force = r.force /\ requestTake(r).get = r.get
    BY <1>1 DEF requestTake, Request
  <1>3. y.additional \in {r, requestTake(r)} BY <1>0, TakeType
  <1>4. y.known => y.last # 0
    <2>1. CASE x.combined /\ requestHasData(r)
      <3>1. y.last = Last(r.received) BY <1>0, <2>1, TakeType
      <3>2. Last(r.received) \in 1 .. v BY <1>1, <2>1 DEF requestHasData, Last
      <3> QED BY <3>1, <3>2
    <2>2. CASE ~(x.combined /\ requestHasData(r))
      <3>1. y.last = x.last /\ y.known = x.known BY <1>0, <2>2, TakeType
      <3> QED BY <3>1 DEF Fetched
    <2> QED BY <2>1, <2>2
  <1>5. <<>> \in Seq(1 .. v) OBVIOUS
  <1> HIDE DEF r, y
  <1>6. /\ y.additional.queue \in Seq(1 .. v) /\ y.additional.received \in Seq(1 .. v)
        /\ y.additional.force = r.force /\ y.additional.get = r.get
    BY <1>1, <1>2, <1>3, <1>5
  <1> QED BY <1>4, <1>6 DEF r, y, Fetched

LEMMA NextPrivate ==
  ASSUME Basics, [Next]_vars, NEW c \in Cmd, PrivateInv(c) PROVE PrivateInv(c)'
  <1> USE DEF Basics
  <1> SUFFICES ASSUME NEW p \in PV \ Monitored
               PROVE  /\ Fetched(op'[<<c, p>>], version'[p])
                      /\ op'[<<c, p>>].additional.force => Passed(c, p)'
    BY DEF PrivateInv
  <1> DEFINE x == op[<<c, p>>]
             y == op'[<<c, p>>]
  <1>0. OpType' BY NextBasics
  <1>1. /\ <<c, p>> \in OpId /\ <<c, p>>[1] = c /\ <<c, p>>[2] = p /\ p \in PV
        /\ OpOf(c, p) = <<c, p>>
    BY Ids
  <1>2. x \in Operation(0 .. version[p]) /\ version[p] \in Nat /\ version[p] >= 1 BY <1>1, Versions
  <1>3. Fetched(x, version[p]) /\ (x.additional.force => Passed(c, p)) BY DEF PrivateInv
  <1>4. version'[p] \in Nat /\ version[p] <= version'[p] /\ (~EnvStep => version'[p] = version[p])
    <2>1. CASE EnvStep BY <2>1, EnvEffect DEF Control, Env
    <2>2. CASE ~EnvStep
      <3>1. version' = version
        BY <2>2 DEF Next, EnvStep, DataRace, vars, Submit, Expire, Look, StartLook, PassOver, PollOne,
                    SendValue, LookAgain, Complete, TaskPoll, TaskTake, ioc
      <3> QED BY <1>2, <3>1
    <2> QED BY <2>1, <2>2
  <1>5. (PollOne(c) \/ SendValue(c) \/ Complete(c)) => UNCHANGED version
    BY DEF PollOne, SendValue, Complete, ioc
  <1>6. CASE Complete(c)
    <2>1. y = NewOp(p \in Ca) BY <1>1, <1>6, CompleteEffect
    <2>2. (p \in Ca) \in BOOLEAN OBVIOUS
    <2> QED BY <1>4, <2>1, <2>2, NewFetched
  <1>7. CASE PollOne(c) /\ At(c) = p
    <2>1. y = Polled(c) BY <1>1, <1>7, PollEffect
    <2>2. index[c] \in DOMAIN ops[c] /\ ops[c][index[c]] = p /\ pc[c] = "look"
      BY <1>7 DEF PollOne, At
    <2>3. ~x.additional.force
      <3> SUFFICES ASSUME Passed(c, p) PROVE FALSE BY <1>3
      <3>1. PICK i \in DOMAIN ops[c] : ops[c][i] = p /\ i < index[c] BY <2>2 DEF Passed
      <3>2. i = index[c] BY <2>2, <3>1 DEF Control, ListInv, IsInjective
      <3> QED BY <3>1, <3>2, ListFacts
    <2>4. x.additional.get = "none" BY <1>3, <2>3 DEF Fetched
    <2>5. CASE ~late[c]
      <3>1. y = poll(x) BY <1>1, <1>7, <2>1, <2>5 DEF Polled
      <3> HIDE DEF x, y
      <3>2. Fetched(y, version[p]) /\ y.additional.force = x.additional.force
        BY <1>2, <1>3, <2>4, <3>1, FetchedPoll
      <3> QED BY <1>5, <1>7, <2>3, <3>2 DEF y
    <2>6. CASE late[c]
      <3>1. y = poll(forceUpdate(x)) BY <1>1, <1>7, <2>1, <2>6 DEF Polled
      <3>2. Passed(c, p)'
        <4>1. late' = late /\ ops' = ops BY <1>7 DEF PollOne
        <4>2. (pc'[c] = "have" /\ index'[c] = index[c]) \/ index'[c] = index[c] + 1
          BY <1>7 DEF PollOne, Control, WorkType
        <4>3. index[c] < index[c] + 1 BY ListFacts
        <4> QED BY <2>2, <2>6, <4>1, <4>2, <4>3 DEF Passed
      <3> HIDE DEF x, y
      <3>3. 0 \in 0 .. version[p] BY <1>2
      <3>4. /\ forceUpdate(x) \in Operation(0 .. version[p])
            /\ Fetched(forceUpdate(x), version[p]) /\ forceUpdate(x).additional.get = "none"
        BY <1>2, <1>3, <2>4, <3>3, FetchedForce, ForceType
      <3>5. Fetched(y, version[p]) BY <1>2, <3>1, <3>4, FetchedPoll
      <3> QED BY <1>5, <1>7, <3>2, <3>5 DEF y
    <2> QED BY <2>5, <2>6
  <1>8. CASE SendValue(c) /\ At(c) = p
    <2>1. y = AfterTake(x) BY <1>1, <1>8, SendEffect
    <2>2. x.additional.force => Passed(c, p)'
      <3>1. late' = late /\ ops' = ops /\ index'[c] = index[c] + 1
        BY <1>8 DEF SendValue, Control, WorkType
      <3>2. ASSUME NEW i \in DOMAIN ops[c], i < index[c] \/ i = index[c] PROVE i < index[c] + 1
        BY <3>2, ListFacts
      <3> QED BY <1>3, <3>1, <3>2 DEF Passed
    <2> HIDE DEF x, y
    <2>3. Fetched(y, version[p]) /\ y.additional.force = x.additional.force
      BY <1>2, <1>3, <2>1, FetchedTake
    <2> QED BY <1>5, <1>8, <2>2, <2>3 DEF y
  <1>9. CASE ~Complete(c) /\ ~(PollOne(c) /\ At(c) = p) /\ ~(SendValue(c) /\ At(c) = p)
    <2>1. Heard(x, y) /\ Arrives(x, y, version[p])
      BY <1>9, OwnOp
    <2>2. Passed(c, p) => Passed(c, p)'
      <3>1. CASE Still(c) BY <3>1 DEF Still, Passed
      <3>2. ASSUME NEW names \in Lists, Submit(c, names) PROVE ~Passed(c, p)
        BY <3>2 DEF Submit, Control, ListInv, Passed
      <3>3. CASE StartLook(c) BY <3>3, StartLookControl DEF Control, ListInv, Passed
      <3>4. CASE LookAgain(c) BY <3>4 DEF LookAgain, Passed
      <3>5. CASE PassOver(c) \/ PollOne(c) \/ SendValue(c)
        <4>1. /\ late' = late /\ ops' = ops
              /\ \/ index'[c] = index[c] + 1
                 \/ pc[c] # "have" /\ index'[c] = index[c]
          BY <3>5 DEF PassOver, PollOne, SendValue, Control, WorkType
        <4>2. ASSUME NEW i \in DOMAIN ops[c], i < index[c] \/ i = index[c] PROVE i < index[c] + 1
          BY <4>2, ListFacts
        <4> QED BY <4>1, <4>2 DEF Passed
      <3> QED BY <1>9, OwnStep, <3>1, <3>2, <3>3, <3>4, <3>5
    <2> HIDE DEF x, y
    <2>3. Fetched(y, version'[p]) /\ y.additional.force = x.additional.force
      BY <1>2, <1>3, <1>4, <2>1, FetchedHeard
    <2> QED BY <1>3, <2>2, <2>3 DEF y
  <1> QED BY <1>6, <1>7, <1>8, <1>9

LEMMA InitPrivate ==
  ASSUME Init, NEW c \in Cmd PROVE PrivateInv(c)
  <1> SUFFICES ASSUME NEW p \in PV \ Monitored
               PROVE  /\ Fetched(op[<<c, p>>], version[p])
                      /\ op[<<c, p>>].additional.force => Passed(c, p)
    BY DEF PrivateInv
  <1>1. op[<<c, p>>] = NewOp(p \in Ca) BY Ids DEF Init
  <1>2. (p \in Ca) \in BOOLEAN /\ version[p] \in Nat BY DEF Init
  <1> QED BY <1>1, <1>2, NewFetched

LEMMA NextValues ==
  ASSUME Basics, KnownInv, [Next]_vars, NEW c \in Cmd, PrivateInv(c), ValuesInv(c)
  PROVE  ValuesInv(c)'
  <1> USE DEF Basics
  <1>0. PrivateInv(c)' /\ OpType' BY NextPrivate, NextBasics
  <1>1. \A p \in PV : version[p] \in Nat /\ version'[p] \in Nat /\ version[p] <= version'[p]
    <2>1. CASE EnvStep BY <2>1, EnvEffect DEF Control, Env
    <2>2. CASE ~EnvStep
      <3>1. version' = version
        BY <2>2 DEF Next, EnvStep, DataRace, vars, Submit, Expire, Look, StartLook, PassOver, PollOne,
                    SendValue, LookAgain, Complete, TaskPoll, TaskTake, ioc
      <3> QED BY <3>1 DEF OpType
    <2> QED BY <2>1, <2>2
  <1>2. ASSUME NEW p \in PV PROVE 0 .. version[p] \subseteq 0 .. version'[p] BY <1>1
  <1>3. ASSUME Values(c)' \subseteq Values(c), \A i \in Values(c)' : replies'[c][i] = replies[c][i]
        PROVE  ValuesInv(c)'
    BY <1>2, <1>3 DEF ValuesInv
  <1>4. CASE replies'[c] = replies[c] BY <1>3, <1>4 DEF Values
  <1>5. ASSUME NEW names \in Lists, Submit(c, names) PROVE ValuesInv(c)'
    <2>1. replies'[c] \in {<<Faulty>>, <<>>} BY <1>5 DEF Submit, Control, WorkType
    <2>2. Values(c)' = {} BY <2>1, Messages DEF Values
    <2> QED BY <2>2 DEF ValuesInv
  <1>6. ASSUME NEW r \in Reply, replies'[c] = Append(replies[c], r),
               r.error = 0 =>
                 /\ r.pv \in PV /\ r.event.principal \in 0 .. version[r.pv]
                 /\ r.event.additional \in 0 .. version[r.pv]
                 /\ r.pv \in Ca \ Monitored => r.event.additional # 0
        PROVE  ValuesInv(c)'
    <2> DEFINE n == Len(replies[c])
    <2>1. /\ n \in Nat /\ DOMAIN replies[c] = 1 .. n /\ DOMAIN replies'[c] = 1 .. n + 1
          /\ replies'[c][n + 1] = r
          /\ \A i \in 1 .. n : replies'[c][i] = replies[c][i]
      BY <1>6, ListFacts
    <2> HIDE DEF n
    <2> SUFFICES ASSUME NEW i \in Values(c)'
                 PROVE  LET p == replies'[c][i].pv
                            e == replies'[c][i].event
                        IN /\ p \in PV /\ e.principal \in 0 .. version'[p]
                           /\ e.additional \in 0 .. version'[p]
                           /\ p \in Ca \ Monitored => e.additional # 0
      BY DEF ValuesInv
    <2>2. i \in 1 .. n + 1 /\ replies'[c][i].error = 0 BY <2>1 DEF Values
    <2>3. CASE i = n + 1 BY <1>2, <1>6, <2>1, <2>2, <2>3
    <2>4. CASE i \in 1 .. n
      <3>1. i \in Values(c) BY <2>1, <2>2, <2>4 DEF Values
      <3> QED BY <1>2, <2>1, <2>4, <3>1 DEF ValuesInv
    <2> QED BY <2>1, <2>2, <2>3, <2>4
  <1>7. CASE SendValue(c)
    <2>1. pc[c] = "have" /\ index[c] \in DOMAIN ops[c] BY <1>7 DEF SendValue, Control, ListInv
    <2>2. At(c) \in PV /\ OpOf(c, At(c)) \in OpId /\ OpOf(c, At(c))[2] = At(c) BY <2>1, AtType
    <2> DEFINE p == At(c)
               o == OpOf(c, p)
    <2>3. CASE UNCHANGED replies BY <1>4, <2>3
    <2>4. ASSUME NEW e \in Event, replies' = [replies EXCEPT ![c] = Append(@, ValueOf(p, e))],
                 e.principal \in 0 .. version[p], e.additional = AfterTake(op[o]).last
          PROVE  ValuesInv(c)'
      <3>1. replies'[c] = Append(replies[c], ValueOf(p, e)) BY <2>4 DEF Control, WorkType
      <3>2. /\ ValueOf(p, e) \in Reply /\ ValueOf(p, e).error = 0
            /\ ValueOf(p, e).pv = p /\ ValueOf(p, e).event = e
        BY <2>2, Messages
      <3>3. op[o] \in Operation(0 .. version[p]) /\ 0 \in 0 .. version[p] BY <2>2, Versions
      <3>4. AfterTake(op[o]) \in Operation(0 .. version[p]) BY <3>3, TakeType
      <3>5. e.additional \in 0 .. version[p] BY <2>4, <3>4 DEF Operation
      <3>6. ASSUME p \in Ca \ Monitored PROVE e.additional # 0
        <4>1. o = <<c, p>> BY <3>6 DEF OpOf
        <4>2. Joinable(op[o]) BY <2>1 DEF KnownInv
        <4>3. op[o].combined BY <2>2, <3>6 DEF OpType
        <4>4. AfterTake(op[o]).known BY <3>3, <4>2, <4>3, TakeType DEF Joinable
        <4>5. op'[o] = AfterTake(op[o]) BY <1>7, <2>2, SendEffect
        <4>6. op'[<<c, p>>].known => op'[<<c, p>>].last # 0
          BY <1>0, <2>2, <3>6 DEF PrivateInv, Fetched
        <4> QED BY <2>4, <4>1, <4>4, <4>5, <4>6
      <3> QED BY <1>6, <2>2, <2>4, <3>1, <3>2, <3>5, <3>6
    <2> QED BY <1>7, <2>2, <2>3, <2>4, SendReply
  <1>8. CASE Complete(c)
    <2>1. replies'[c] = Append(replies[c], Completion) BY <1>8 DEF Complete, Control, WorkType
    <2> QED BY <1>6, <2>1, Messages
  <1>9. StartLook(c) \/ PassOver(c) \/ PollOne(c) \/ LookAgain(c) \/ Still(c) =>
          replies'[c] = replies[c]
    BY DEF StartLook, PassOver, PollOne, LookAgain, Still
  <1> QED BY OwnStep, <1>4, <1>5, <1>7, <1>8, <1>9

LEMMA InitValues ==
  ASSUME Init, NEW c \in Cmd PROVE ValuesInv(c)
  BY DEF Init, ValuesInv, Values

-----------------------------------------------------------------------------
(* What the client reads. *)

\* A field that is no union.
Plain(x) ==
    \E t, of, ls : /\ x = Field(t, of, ls) /\ ls = [l \in DOMAIN ls |-> ls[l]] /\ t \notin Unions

LEMMA CopyOfPlain ==
  ASSUME NEW x, Plain(x)
  PROVE  copyFieldValue(addFieldToBuilder(x), x) = x
  <1>1. PICK t, of, ls : x = Field(t, of, ls) /\ ls = [l \in DOMAIN ls |-> ls[l]] /\ t \notin Unions
    BY DEF Plain
  <1>2. addFieldToBuilder(x) = Field(t, of, [l \in DOMAIN ls |-> 0])
    BY <1>1 DEF addFieldToBuilder, copyStructureDefinition, Field
  <1>3. CASE t # "structure" BY <1>1, <1>3 DEF copyFieldValue, Field
  <1>4. CASE t = "structure"
    <2>1. copyFieldValue(addFieldToBuilder(x), x) = copyStructureValue(addFieldToBuilder(x), x)
      BY <1>1, <1>4 DEF copyFieldValue, Field
    <2>2. x.leaves = ls BY <1>1 DEF Field
    <2>3. copyStructureValue(addFieldToBuilder(x), x) = Field(t, of, [l \in DOMAIN ls |-> ls[l]])
      BY <1>2, <2>2 DEF copyStructureValue, Field
    <2> QED BY <1>1, <2>1, <2>3
  <1> QED BY <1>3, <1>4

\* Two requests for different fields are joined field by field.
LEMMA MergeTwo ==
  ASSUME NEW P, NEW A, NEW F, NEW G, F \cap G = {},
         \A f \in F \cap DOMAIN P : Plain(P[f]), \A f \in G \cap DOMAIN A : Plain(A[f])
  PROVE  mergeStructureAndValue(<<[structure |-> P, field_names |-> F],
                                  [structure |-> A, field_names |-> G]>>)
           = [f \in (F \cap DOMAIN P) \cup (G \cap DOMAIN A) |-> IF f \in F THEN P[f] ELSE A[f]]
  <1> DEFINE items == <<[structure |-> P, field_names |-> F], [structure |-> A, field_names |-> G]>>
             def == MergedDefinition(items)
             D == (F \cap DOMAIN P) \cup (G \cap DOMAIN A)
             one == [f \in D |-> IF f \in F THEN P[f] ELSE def[f]]
             two == [f \in D |-> IF f \in F THEN P[f] ELSE A[f]]
  <1>1. /\ Len(items) = 2 /\ DOMAIN items = {1, 2}
        /\ items[1].structure = P /\ items[2].structure = A
        /\ Found(items[1]) = F \cap DOMAIN P /\ Found(items[2]) = G \cap DOMAIN A
    <2>1. Len(items) = 2 OBVIOUS
    <2>2. DOMAIN items = 1 .. 2 OBVIOUS
    <2>3. 1 .. 2 = {1, 2} OBVIOUS
    <2>4. /\ items[1] = [structure |-> P, field_names |-> F]
          /\ items[2] = [structure |-> A, field_names |-> G]
      OBVIOUS
    <2> HIDE DEF items
    <2>5. /\ Found(items[1]) = F \cap DOMAIN P /\ Found(items[2]) = G \cap DOMAIN A
      BY <2>4 DEF Found
    <2> QED BY <2>1, <2>2, <2>3, <2>4, <2>5
  <1> HIDE DEF items
  <1>2. def = [f \in D |-> addFieldToBuilder(IF f \in F THEN P[f] ELSE A[f])]
    <2> DEFINE has(f) == {i \in DOMAIN items : f \in Found(items[i])}
               first(f) == CHOOSE i \in has(f) : \A j \in has(f) : i <= j
    <2>1. UNION {Found(items[i]) : i \in DOMAIN items} = D BY <1>1
    <2>2. def = [f \in UNION {Found(items[i]) : i \in DOMAIN items} |->
                   addFieldToBuilder(items[first(f)].structure[f])]
      BY DEF MergedDefinition
    <2>3. ASSUME NEW f \in D
          PROVE  items[first(f)].structure[f] = IF f \in F THEN P[f] ELSE A[f]
      <3>1. f \in F => has(f) = {1} BY <1>1
      <3>2. f \notin F => has(f) = {2} BY <1>1
      <3> HIDE DEF has
      <3>3. (f \in F => first(f) = 1) /\ (f \notin F => first(f) = 2) BY <3>1, <3>2
      <3> HIDE DEF first
      <3>4. CASE f \in F BY <1>1, <3>3, <3>4
      <3>5. CASE f \notin F BY <1>1, <3>3, <3>5
      <3> QED BY <3>4, <3>5
    <2> HIDE DEF has, first
    <2> QED BY <2>1, <2>2, <2>3
  <1>3. DOMAIN def = D BY <1>2
  <1> HIDE DEF def
  <1> DEFINE body(g) == [n \in 0 .. Len(items) |->
                           IF n = 0 THEN def
                           ELSE [f \in DOMAIN def |->
                                   IF f \in Found(items[n])
                                     THEN copyFieldValue(g[n - 1][f], items[n].structure[f])
                                     ELSE g[n - 1][f]]]
             copied == CHOOSE g : g = body(g)
  <1>4. mergeStructureAndValue(items) = copied[Len(items)]
    BY DEF mergeStructureAndValue, def
  <1>6. \A g : g = body(g) => g[2] = two
    <2> SUFFICES ASSUME NEW g, g = body(g) PROVE g[2] = two OBVIOUS
    <2>1. 0 \in 0 .. Len(items) /\ 1 \in 0 .. Len(items) /\ 2 \in 0 .. Len(items)
          /\ 1 - 1 = 0 /\ 2 - 1 = 1 /\ 1 # 0 /\ 2 # 0
      BY <1>1
    <2>2. g[0] = def BY <2>1
    <2>3. g[1] = [f \in D |-> IF f \in Found(items[1])
                                THEN copyFieldValue(def[f], items[1].structure[f]) ELSE def[f]]
      BY <1>3, <2>1, <2>2
    <2>4. g[1] = one
      <3>1. ASSUME NEW f \in D
            PROVE  (IF f \in Found(items[1]) THEN copyFieldValue(def[f], items[1].structure[f])
                    ELSE def[f]) = IF f \in F THEN P[f] ELSE def[f]
        <4>1. CASE f \in F
          <5>1. f \in F \cap DOMAIN P BY <4>1
          <5>2. def[f] = addFieldToBuilder(P[f]) BY <1>2, <4>1
          <5> QED BY <1>1, <5>1, <5>2, CopyOfPlain
        <4>2. CASE f \notin F BY <1>1, <4>2
        <4> QED BY <4>1, <4>2
      <3> QED BY <2>3, <3>1
    <2>5. g[2] = [f \in D |-> IF f \in Found(items[2])
                                THEN copyFieldValue(one[f], items[2].structure[f]) ELSE one[f]]
      BY <1>3, <2>1, <2>4
    <2>6. ASSUME NEW f \in D
          PROVE  (IF f \in Found(items[2]) THEN copyFieldValue(one[f], items[2].structure[f])
                  ELSE one[f]) = IF f \in F THEN P[f] ELSE A[f]
      <3>1. CASE f \in F BY <1>1, <3>1
      <3>2. CASE f \notin F
        <4>1. f \in G \cap DOMAIN A BY <3>2
        <4>2. one[f] = addFieldToBuilder(A[f]) BY <1>2, <3>2
        <4> QED BY <1>1, <3>2, <4>1, <4>2, CopyOfPlain
      <3> QED BY <3>1, <3>2
    <2> QED BY <2>5, <2>6
  <1>7. \E g : g = body(g)
    <2> DEFINE w0 == def
               w1 == [f \in DOMAIN def |->
                        IF f \in Found(items[1]) THEN copyFieldValue(w0[f], items[1].structure[f])
                        ELSE w0[f]]
               w2 == [f \in DOMAIN def |->
                        IF f \in Found(items[2]) THEN copyFieldValue(w1[f], items[2].structure[f])
                        ELSE w1[f]]
               g == [n \in 0 .. 2 |-> IF n = 0 THEN w0 ELSE IF n = 1 THEN w1 ELSE w2]
    <2>1. g[0] = w0 /\ g[1] = w1 OBVIOUS
    <2>2. ASSUME NEW n \in 0 .. 2
          PROVE  g[n] = IF n = 0 THEN def
                        ELSE [f \in DOMAIN def |->
                                IF f \in Found(items[n])
                                  THEN copyFieldValue(g[n - 1][f], items[n].structure[f])
                                  ELSE g[n - 1][f]]
      <3>0. n = 0 \/ n = 1 \/ n = 2 BY <2>2
      <3>1. CASE n = 0 BY <2>1, <3>1
      <3>2. CASE n = 1
        <4>1. n - 1 = 0 BY <3>2
        <4> QED BY <2>1, <3>2, <4>1
      <3>3. CASE n = 2
        <4>1. n - 1 = 1 /\ g[n] = w2 BY <3>3
        <4> HIDE DEF w1, g
        <4> QED BY <2>1, <3>3, <4>1
      <3> HIDE DEF w1, w2, g
      <3> QED BY <3>0, <3>1, <3>2, <3>3
    <2>3. g = [n \in 0 .. 2 |-> g[n]] OBVIOUS
    <2> HIDE DEF g
    <2>4. g = body(g) BY <1>1, <2>2, <2>3
    <2> QED BY <2>4
  <1>8. copied = body(copied)
    <2> HIDE DEF body
    <2> QED BY <1>7
  <1>9. copied[2] = two BY <1>6, <1>8
  <1> QED BY <1>1, <1>4, <1>9 DEF items

LEMMA FittingNumbers ==
  ASSUME NEW v
  PROVE  /\ v \in Fitting("JSON") => Converted(v, "byte") = v
         /\ v \in Fitting("Msgpack") => Converted(v, "ushort") = v
  <1>1. ASSUME v \in -128 .. 127 PROVE Signed(v, 8) = v
    <2>1. 8 - 1 = 7 /\ 2 ^ 7 = 128 /\ 2 ^ 8 = 256 OBVIOUS
    <2>2. ((v + 128) % 256) - 128 = v BY <1>1
    <2> QED BY <2>1, <2>2 DEF Signed
  <1>2. ASSUME v \in Nat, v <= 32767 PROVE Unsigned(v, 16) = v
    <2>1. 2 ^ 16 = 65536 OBVIOUS
    <2>2. v < 65536 BY <1>2
    <2>3. v % 65536 = v BY <1>2, <2>2
    <2> QED BY <2>1, <2>3 DEF Unsigned
  <1>3. ASSUME v \in Fitting("JSON") PROVE Converted(v, "byte") = v
    <2>1. v \in -128 .. 127 BY <1>3 DEF Fitting
    <2>2. Converted(v, "byte") = Signed(v, 8) BY DEF Converted
    <2>3. Signed(v, 8) = v BY <1>1, <2>1
    <2> QED BY <2>2, <2>3
  <1>4. ASSUME v \in Fitting("Msgpack") PROVE Converted(v, "ushort") = v
    <2>1. v \in Nat /\ v <= 32767
      <3>1. v \in {n \in Nat : n < 32768} BY <1>4 DEF Fitting
      <3> QED BY <3>1
    <2>2. Converted(v, "ushort") = Unsigned(v, 16) BY DEF Converted
    <2>3. Unsigned(v, 16) = v BY <1>2, <2>1
    <2> QED BY <2>2, <2>3
  <1> QED BY <1>3, <1>4

LEMMA OtherNumbers ==
  ASSUME NEW v, NEW t \in {"int", "long", "double"} PROVE Converted(v, t) = v
  BY DEF Converted

LEMMA WrittenSame ==
  ASSUME NEW t, NEW of, NEW ls, ls = [l \in DOMAIN ls |-> ls[l]], NEW type,
         \A l \in DOMAIN ls : Converted(ls[l], type) = ls[l]
  PROVE  Written(Field(t, of, ls), type) = Field(t, of, ls)
  <1> DEFINE x == Field(t, of, ls)
  <1>1. x.leaves = ls BY DEF Field
  <1>2. [l \in DOMAIN ls |-> Converted(ls[l], type)] = ls OBVIOUS
  <1>3. Written(x, type) = [x EXCEPT !.leaves = [l \in DOMAIN ls |-> Converted(ls[l], type)]]
    BY <1>1 DEF Written
  <1>4. Written(x, type) = [x EXCEPT !.leaves = ls] BY <1>2, <1>3
  <1>5. [x EXCEPT !.leaves = ls] = x BY DEF Field
  <1> QED BY <1>4, <1>5

\* What a serialization makes of a field.  It reads it as it was sent.
Read(x, ser) == IF ser = "JSON" THEN processField(x) ELSE packField(x)
Shaped(x) == Plain(x) /\ x.type \notin Unions

LEMMA FieldRead ==
  ASSUME NEW t, NEW of, NEW ls, ls = [l \in DOMAIN ls |-> ls[l]], NEW ser \in Serialization,
         \/ t \in {"structure", "scalar"} /\ of \in {"int", "long", "double"}
         \/ t = "scalarArray" /\ of = "short"
  PROVE  /\ Shaped(Field(t, of, ls))
         /\ (t = "scalarArray" => \A l \in DOMAIN ls : ls[l] \in Fitting(ser))
              => Read(Field(t, of, ls), ser) = Field(t, of, ls)
  <1> DEFINE x == Field(t, of, ls)
  <1>1. x.type = t /\ x.of = of BY DEF Field
  <1>2. t \notin Unions BY DEF Unions
  <1>3. Plain(x) BY <1>2 DEF Plain
  <1> HIDE DEF x
  <1>4. CASE t \in {"structure", "scalar"} /\ of \in {"int", "long", "double"}
    <2>1. Written(x, of) = x BY <1>4, OtherNumbers, WrittenSame DEF x
    <2>2. packField(x) = x /\ processField(x) = x BY <1>1, <1>4, <2>1 DEF packField, processField
    <2> QED BY <1>1, <1>2, <1>3, <2>2 DEF x, Shaped, Read
  <1>5. CASE t = "scalarArray" /\ of = "short"
    <2> SUFFICES ASSUME \A l \in DOMAIN ls : ls[l] \in Fitting(ser) PROVE Read(x, ser) = x
      BY <1>1, <1>2, <1>3, <1>5 DEF x, Shaped
    <2>1. CASE ser = "JSON"
      <3>1. Written(x, "byte") = x BY <2>1, FittingNumbers, WrittenSame DEF x
      <3> QED BY <1>1, <1>5, <2>1, <3>1 DEF Read, processField, JsonArrayType
    <2>2. CASE ser = "Msgpack"
      <3>1. Written(x, "ushort") = x BY <2>2, FittingNumbers, WrittenSame DEF x
      <3> QED BY <1>1, <1>5, <2>2, <3>1 DEF Read, packField, MsgpackArrayType
    <2> QED BY <2>1, <2>2 DEF Serialization
  <1> QED BY <1>4, <1>5

\* The value of this version is not truncated.
Fits(p, v, ser) == p \in Wave => Sample[v] \in Fitting(ser)

LEMMA SentRead ==
  ASSUME NEW p \in PV, NEW v \in 1 .. MaxVersion, NEW ser \in Serialization
  PROVE  /\ Shaped(Value(p, v)) /\ Shaped(Block(v))
         /\ Fits(p, v, ser) => Read(Value(p, v), ser) = Value(p, v)
         /\ Read(Block(v), ser) = Block(v)
  <1>1. ASSUME p \in Enum PROVE Shaped(Value(p, v)) /\ Read(Value(p, v), ser) = Value(p, v)
    <2> DEFINE ls == [index |-> v, choices |-> v]
    <2>1. ls = [l \in DOMAIN ls |-> ls[l]] OBVIOUS
    <2>2. Value(p, v) = Field("structure", "int", ls) BY <1>1 DEF Value
    <2> HIDE DEF ls
    <2> QED BY <2>1, <2>2, FieldRead
  <1> DEFINE ls == [val |-> v]
             ws == [val |-> Sample[v]]
  <1>2. ls = [l \in DOMAIN ls |-> ls[l]] OBVIOUS
  <1>3. ASSUME p \in Wave /\ p \notin Enum
        PROVE  Shaped(Value(p, v)) /\ (Fits(p, v, ser) => Read(Value(p, v), ser) = Value(p, v))
    <2>1. Value(p, v) = Field("scalarArray", "short", ws) BY <1>3 DEF Value
    <2>2. ws = [l \in DOMAIN ws |-> ws[l]] /\ \A l \in DOMAIN ws : ws[l] = Sample[v] OBVIOUS
    <2> HIDE DEF ws
    <2>3. Fits(p, v, ser) => \A l \in DOMAIN ws : ws[l] \in Fitting(ser) BY <1>3, <2>2 DEF Fits
    <2> QED BY <2>1, <2>2, <2>3, FieldRead
  <1>4. ASSUME p \notin Wave /\ p \notin Enum
        PROVE  Shaped(Value(p, v)) /\ Read(Value(p, v), ser) = Value(p, v)
    <2>1. Value(p, v) = Field("scalar", "double", ls) BY <1>4 DEF Value
    <2> HIDE DEF ls
    <2> QED BY <1>2, <2>1, FieldRead
  <1>5. Shaped(Block(v)) /\ Read(Block(v), ser) = Block(v)
    <2>1. Block(v) = Field("structure", "long", ls) BY DEF Block
    <2> HIDE DEF ls
    <2> QED BY <1>2, <2>1, FieldRead
  <1> QED BY <1>1, <1>3, <1>4, <1>5

LEMMA SerializedRead ==
  ASSUME NEW d, \A f \in DOMAIN d : Shaped(d[f]), NEW ser
  PROVE  /\ DOMAIN Serialized(d, ser) = DOMAIN d
         /\ \A f \in DOMAIN d : Serialized(d, ser)[f] = Read(d[f], ser)
  <1>1. Kept(d) = DOMAIN d BY DEF Kept, Shaped
  <1>2. CASE ser = "JSON" BY <1>1, <1>2 DEF Serialized, processStructure, Read
  <1>3. CASE ser # "JSON" BY <1>3 DEF Serialized, epicsToMsgpack, Read
  <1> QED BY <1>2, <1>3

\* What a reply is read as: nothing of the value without a principal event, and
\* otherwise every field that was sent, as it was sent.
LEMMA DataRead ==
  ASSUME NEW p \in PV, NEW e, e.principal \in 0 .. MaxVersion,
         e.additional \in 0 .. MaxVersion, NEW ser \in Serialization
  PROVE  /\ e.principal = 0 => "value" \notin DOMAIN Serialized(DataOf(p, e), ser)
         /\ e.principal # 0 /\ (p \in Ca => e.additional # 0) =>
              /\ DOMAIN Serialized(DataOf(p, e), ser)
                   = FieldsOf(p, "principal") \cup FieldsOf(p, "additional")
              /\ \A f \in PrincipalFields :
                   (f = "value" => Fits(p, e.principal, ser)) =>
                     Serialized(DataOf(p, e), ser)[f] = Structure(p, "principal", e.principal)[f]
  <1> DEFINE P == Structure(p, "principal", e.principal)
             A == Structure(p, "additional", e.additional)
             F == FieldsOf(p, "principal")
             G == FieldsOf(p, "additional")
             d == DataOf(p, e)
             clean(f) == f = "value" => Fits(p, e.principal, ser)
  <1>1. /\ e.principal = 0 => DOMAIN P = {} /\ P = [f \in {} |-> 0]
        /\ e.principal # 0 => P = [f \in F |-> IF f = "value" THEN Value(p, e.principal)
                                               ELSE Block(e.principal)]
        /\ e.additional = 0 => DOMAIN A = {}
        /\ e.additional # 0 => A = [f \in G |-> IF f = "value" THEN Value(p, e.additional)
                                                ELSE Block(e.additional)]
    BY DEF Structure, NoStructure
  <1> HIDE DEF P, A
  <1>2. \A f \in DOMAIN P : Shaped(P[f]) /\ (clean(f) => Read(P[f], ser) = P[f])
    <2>1. CASE e.principal = 0 BY <1>1, <2>1
    <2>2. CASE e.principal # 0
      <3>1. e.principal \in 1 .. MaxVersion BY <2>2
      <3>2. /\ Shaped(Value(p, e.principal)) /\ Shaped(Block(e.principal))
            /\ Fits(p, e.principal, ser) =>
                 Read(Value(p, e.principal), ser) = Value(p, e.principal)
            /\ Read(Block(e.principal), ser) = Block(e.principal)
        BY <3>1, SentRead
      <3> QED BY <1>1, <2>2, <3>2
    <2> QED BY <2>1, <2>2
  <1>3. \A f \in DOMAIN A : Shaped(A[f])
    <2>1. CASE e.additional = 0 BY <1>1, <2>1
    <2>2. CASE e.additional # 0
      <3>1. e.additional \in 1 .. MaxVersion BY <2>2
      <3>2. Shaped(Value(p, e.additional)) /\ Shaped(Block(e.additional)) BY <3>1, SentRead
      <3> QED BY <1>1, <2>2, <3>2
    <2> QED BY <2>1, <2>2
  <1>4. CASE p \notin Ca
    <2>1. d = P BY <1>4 DEF DataOf, P
    <2>2. /\ DOMAIN Serialized(P, ser) = DOMAIN P
          /\ \A f \in DOMAIN P : Serialized(P, ser)[f] = Read(P[f], ser)
      BY <1>2, SerializedRead
    <2>3. F \cup G = F /\ PrincipalFields \subseteq F BY <1>4 DEF FieldsOf, PrincipalFields
    <2>4. e.principal # 0 => DOMAIN P = F BY <1>1
    <2> HIDE DEF d
    <2> QED BY <1>1, <1>2, <2>1, <2>2, <2>3, <2>4 DEF P, d
  <1>5. CASE p \in Ca
    <2>1. F = PrincipalFields /\ G \subseteq AdditionalFields BY <1>5 DEF FieldsOf
    <2>2. PrincipalFields \cap AdditionalFields = {} BY DEF PrincipalFields, AdditionalFields
    <2> DEFINE D == (PrincipalFields \cap DOMAIN P) \cup (AdditionalFields \cap DOMAIN A)
    <2>3. d = [f \in D |-> IF f \in PrincipalFields THEN P[f] ELSE A[f]]
      <3>1. d = mergeStructureAndValue(<<[structure |-> P, field_names |-> PrincipalFields],
                                         [structure |-> A, field_names |-> AdditionalFields]>>)
        BY <1>5 DEF DataOf, P, A
      <3>2. /\ \A f \in PrincipalFields \cap DOMAIN P : Plain(P[f])
            /\ \A f \in AdditionalFields \cap DOMAIN A : Plain(A[f])
        BY <1>2, <1>3 DEF Shaped
      <3> HIDE DEF d
      <3> QED BY <2>2, <3>1, <3>2, MergeTwo
    <2>4. /\ DOMAIN d = D /\ DOMAIN Serialized(d, ser) = D
          /\ \A f \in D : Serialized(d, ser)[f] = Read(d[f], ser)
      <3> HIDE DEF d
      <3>1. DOMAIN d = D BY <2>3
      <3>2. ASSUME NEW f \in D PROVE Shaped(d[f])
        <4>1. CASE f \in PrincipalFields
          <5>1. f \in DOMAIN P BY <2>2, <4>1
          <5>2. d[f] = P[f] BY <2>3, <4>1
          <5> QED BY <1>2, <5>1, <5>2
        <4>2. CASE f \notin PrincipalFields
          <5>1. f \in DOMAIN A BY <4>2
          <5>2. d[f] = A[f] BY <2>3, <4>2
          <5> QED BY <1>3, <5>1, <5>2
        <4> QED BY <4>1, <4>2
      <3> HIDE DEF D
      <3> QED BY <3>1, <3>2, SerializedRead
    <2>5. "value" \in PrincipalFields /\ "value" \notin AdditionalFields
      BY DEF PrincipalFields, AdditionalFields
    <2>6. e.principal = 0 => "value" \notin D BY <1>1, <2>5
    <2>7. e.principal # 0 /\ e.additional # 0 => D = F \cup G BY <1>1, <2>1
    <2>8. e.principal # 0 =>
            \A f \in PrincipalFields : f \in D /\ d[f] = P[f] /\ (clean(f) => Read(P[f], ser) = P[f])
      <3> HIDE DEF d
      <3> QED BY <1>1, <1>2, <2>1, <2>3
    <2> HIDE DEF D, d
    <2> QED BY <1>5, <2>4, <2>6, <2>7, <2>8 DEF P, d
  <1> QED BY <1>4, <1>5

LEMMA WholeFromValues ==
  ASSUME Basics, \A c \in Cmd : ValuesInv(c) PROVE WholeReply
  <1> SUFFICES ASSUME NEW c \in Cmd, NEW i \in Values(c), NEW ser \in Serialization
               PROVE  LET p == replies[c][i].pv
                          d == Serialized(DataOf(p, replies[c][i].event), ser)
                      IN "value" \in DOMAIN d
                         /\ (p \in Ca \cap Monitored => replies[c][i].event.additional # 0) =>
                           /\ FieldsOf(p, "principal") \cup FieldsOf(p, "additional") = DOMAIN d
                           /\ \E v \in 1 .. version[p] :
                                \A f \in PrincipalFields :
                                  (f = "value" /\ p \in Wave => Sample[v] \in Fitting(ser))
                                    => d[f] = Structure(p, "principal", v)[f]
    BY DEF WholeReply
  <1> DEFINE p == replies[c][i].pv
             e == replies[c][i].event
             d == Serialized(DataOf(p, e), ser)
  <1> SUFFICES ASSUME "value" \in DOMAIN d, p \in Ca \cap Monitored => e.additional # 0
               PROVE  /\ FieldsOf(p, "principal") \cup FieldsOf(p, "additional") = DOMAIN d
                      /\ \E v \in 1 .. version[p] :
                           \A f \in PrincipalFields :
                             (f = "value" /\ p \in Wave => Sample[v] \in Fitting(ser))
                               => d[f] = Structure(p, "principal", v)[f]
    OBVIOUS
  <1>1. /\ p \in PV /\ e.principal \in 0 .. version[p] /\ e.additional \in 0 .. version[p]
        /\ p \in Ca \ Monitored => e.additional # 0
    BY DEF ValuesInv
  <1>2. e.principal \in 0 .. MaxVersion /\ e.additional \in 0 .. MaxVersion /\ version[p] \in Nat
    <2>1. version[p] \in 1 .. MaxVersion BY <1>1 DEF Basics, OpType
    <2> HIDE DEF p, e
    <2> QED BY <1>1, <2>1, OneShotConstants
  <1> HIDE DEF p, e
  <1>3. e.principal # 0 BY <1>1, <1>2, DataRead DEF d
  <1>4. p \in Ca => e.additional # 0 BY <1>1
  <1>5. /\ DOMAIN d = FieldsOf(p, "principal") \cup FieldsOf(p, "additional")
        /\ \A f \in PrincipalFields :
             (f = "value" => Fits(p, e.principal, ser)) =>
               d[f] = Structure(p, "principal", e.principal)[f]
    BY <1>1, <1>2, <1>3, <1>4, DataRead DEF d
  <1>6. e.principal \in 1 .. version[p] BY <1>1, <1>2, <1>3
  <1>7. \A f \in PrincipalFields :
          (f = "value" /\ p \in Wave => Sample[e.principal] \in Fitting(ser)) =>
            d[f] = Structure(p, "principal", e.principal)[f]
    <2> HIDE DEF d
    <2> QED BY <1>5 DEF Fits
  <1> HIDE DEF d
  <1> QED BY <1>5, <1>6, <1>7

-----------------------------------------------------------------------------
(* The theorems. *)

(* The inductive invariant of the one-shot snapshot worker holds initially   *)
(* and after every step of its tasks, of the channel task and of the IOCs.   *)
THEOREM OneShotInductive ==
  (Init => OneShotIInv) /\ (OneShotIInv /\ [Next]_vars => OneShotIInv')
  <1>1. OneShotIInv <=> /\ Basics /\ KnownInv
                        /\ \A c \in Cmd : ArrivedInv(c) /\ PrivateInv(c) /\ ValuesInv(c)
    BY DEF OneShotIInv, Basics, Control
  <1>2. OneShotIInv' <=> /\ Basics' /\ KnownInv'
                         /\ \A c \in Cmd : ArrivedInv(c)' /\ PrivateInv(c)' /\ ValuesInv(c)'
    BY DEF OneShotIInv, Basics, Control
  <1>3. ASSUME Init PROVE OneShotIInv
    BY <1>1, <1>3, InitBasics, InitKnown, InitArrived, InitPrivate, InitValues
  <1>4. ASSUME OneShotIInv, [Next]_vars PROVE OneShotIInv'
    <2>1. Basics' /\ KnownInv' BY <1>1, <1>4, NextBasics, NextKnown
    <2>2. ASSUME NEW c \in Cmd PROVE ArrivedInv(c)' /\ PrivateInv(c)' /\ ValuesInv(c)'
      BY <1>1, <1>4, NextArrived, NextPrivate, NextValues
    <2> QED BY <1>2, <2>1, <2>2
  <1> QED BY <1>3, <1>4

LEMMA OneShotHolds ==
  OneShotIInv => OneShotInv /\ ArrivedIsReported /\ WholeReply
  <1> SUFFICES ASSUME OneShotIInv
               PROVE  OneShotInv /\ ArrivedIsReported /\ WholeReply
    OBVIOUS
  <1>1. Basics /\ KnownInv BY DEF OneShotIInv, Basics, Control
  <1>2. OneShotInv BY <1>1, Implied
  <1>3. ArrivedIsReported BY DEF OneShotIInv, ArrivedInv, ArrivedIsReported
  <1>4. WholeReply BY <1>1, WholeFromValues DEF OneShotIInv
  <1> QED BY <1>2, <1>3, <1>4

(* The replies of every snapshot command keep their protocol: an error only  *)
(* comes first, no PV is sent twice, the completion message is the last one. *)
(* No merge is made through a null pointer although the channel task and the *)
(* commands empty the same operations.                                       *)
THEOREM OneShotCorrect == Spec => []OneShotInv
  <1>1. OneShotIInv => OneShotInv BY OneShotHolds
  <1> QED BY <1>1, OneShotInductive, PTL DEF Spec

(* A value that had arrived at an operation of a command when its last look  *)
(* began is in the reply of the command when it is completed, unless a       *)
(* reconnection replaced the subscription before the look had polled it.     *)
THEOREM ArrivedAlwaysReported == Spec => []ArrivedIsReported
  <1>1. OneShotIInv => ArrivedIsReported BY OneShotHolds
  <1> QED BY <1>1, OneShotInductive, PTL DEF Spec

(* A reply that has a value has every field of its PV, and its value, alarm  *)
(* and time stamp are read, in either serialization, as one update of the    *)
(* IOC sent them; the value of an array of shorts only if its number fits    *)
(* the type that the serializer writes.                                      *)
THEOREM RepliesWhole == Spec => []WholeReply
  <1>1. OneShotIInv => WholeReply BY OneShotHolds
  <1> QED BY <1>1, OneShotInductive, PTL DEF Spec

=============================================================================
