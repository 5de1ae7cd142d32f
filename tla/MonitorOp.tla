----------------------------- MODULE MonitorOp -----------------------------
(***************************************************************************)
(* Monitor operations.  A MonitorOperationImpl holds one subscription: the *)
(* events that wait in the client library, those that poll took over, and  *)
(* the get of a forced update.  A CombinedMonitorOperation, used for ca,   *)
(* holds two and joins what they return.  An event is the version of the   *)
(* PV that it carries, 0 when it carries no data.                          *)
(***************************************************************************)
EXTENDS Integers, Sequences, SequencesExt

(* MonitorOperationImpl; opening is a subscription that has no value yet *)
NewRequest ==
  [opening |-> FALSE, subscribed |-> FALSE, queue |-> <<>>, received |-> <<>>, faults |-> FALSE,
   force |-> FALSE, get |-> "none", got |-> 0]

(* CombinedMonitorOperation; last is last_additional_evt_received *)
NewOp(combined) ==
  [combined |-> combined, principal |-> NewRequest, additional |-> NewRequest,
   known |-> FALSE, last |-> 0]

Parts(op) == IF op.combined THEN {"principal", "additional"} ELSE {"principal"}

(* connectEvent: an empty subscription replaces the old one, and with it what *)
(* poll had not taken over yet; its first value arrives later                 *)
connectEvent(r) == [r EXCEPT !.opening = TRUE, !.queue = <<>>]
firstEvent(r, value) ==
  [r EXCEPT !.opening = FALSE, !.subscribed = TRUE, !.queue = <<value>>]
lostEvent(r) == [r EXCEPT !.opening = FALSE, !.subscribed = FALSE, !.faults = TRUE]

(* an update of the IOC *)
monitorEvent(r, value) == IF r.subscribed THEN [r EXCEPT !.queue = Append(@, value)] ELSE r

requestHasData(r) == r.received # <<>>
requestHasEvents(r) == requestHasData(r) \/ r.faults

(* poll takes the whole queue: element_to_fetch is larger than the bound on   *)
(* updates.  Its second half, the forced get, does not hold ce_mtx: this is   *)
(* what it does while no other thread is in the operation.                    *)
requestPoll(r) ==
  IF r.queue # <<>> THEN [r EXCEPT !.received = @ \o r.queue, !.queue = <<>>]
  ELSE IF ~r.force THEN r
  ELSE IF r.get = "none" THEN [r EXCEPT !.get = "asked"]
  ELSE IF r.get = "done" THEN [r EXCEPT !.received = Append(@, r.got), !.get = "none",
                                          !.got = 0, !.force = FALSE]
  ELSE r

requestTake(r) == [r EXCEPT !.received = <<>>, !.faults = FALSE]

poll(op) ==
  [op EXCEPT !.principal = requestPoll(@),
             !.additional = IF op.combined THEN requestPoll(@) ELSE @]

forceUpdate(op) == [op EXCEPT !.principal.force = TRUE, !.additional.force = op.combined]

AdditionalKnown(op) == requestHasData(op.additional) \/ op.known

PrincipalEnough(op) == requestHasData(op.principal)
hasData(op) == requestHasData(op.principal) /\ (op.combined => AdditionalKnown(op))
hasEvents(op) == requestHasEvents(op.principal) /\ (op.combined => AdditionalKnown(op))

(* getEventData: the operation afterwards *)
AfterTake(op) ==
  IF op.combined /\ ~requestHasEvents(op.principal) /\ ~AdditionalKnown(op) THEN op
  ELSE IF op.combined /\ requestHasData(op.additional)
    THEN [op EXCEPT !.principal = requestTake(@), !.additional = requestTake(@),
                    !.known = TRUE, !.last = Last(op.additional.received)]
    ELSE [op EXCEPT !.principal = requestTake(@)]

(* a merge would dereference last_additional_evt_received while it is null *)
MergesNull(op) == op.combined /\ requestHasData(op.principal) /\ ~AfterTake(op).known

(* getEventData: the events it returns, each one joined with the last *)
(* event of the additional request                                    *)
getEventData(op) ==
  [i \in DOMAIN op.principal.received |->
     [principal |-> op.principal.received[i], additional |-> AfterTake(op).last]]
=============================================================================
