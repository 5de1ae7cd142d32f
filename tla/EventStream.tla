---------------------------- MODULE EventStream ----------------------------
(***************************************************************************)
(* What a time-buffered snapshot promises of the events of its PVs: they   *)
(* are published in the order they came in, and an event is left out only  *)
(* if a later one found it older than the window.  A PV may stand several  *)
(* times in the list of the snapshot: each of its events is then published *)
(* once for every place, its copies one after the other and in the same    *)
(* submission unless they were too old.                                    *)
(***************************************************************************)
EXTENDS Naturals, Sequences, SequencesExt

CONSTANTS
  Window,
  Listed    \* how often the list names a PV

VARIABLES
  source,   \* the PVs of the events; the stream only reads it
  pending,  \* what waits for the next submission: [ev, ts, place]
  out       \* events published so far

Init == pending = <<>> /\ out = <<>>

(* all copies of the newest event are there *)
Complete ==
  pending # <<>> => Last(pending).place = Listed[source[Last(pending).ev]]

(* the first copy of a new event, or the next one of the newest *)
FirstCopy(e) ==
  /\ e.place = 1 /\ Complete
  /\ \A i \in DOMAIN pending : pending[i].ev < e.ev

NextCopy(e) ==
  /\ pending # <<>> /\ ~Complete
  /\ e.ev = Last(pending).ev /\ e.place = Last(pending).place + 1

(* what is too old for the event that is added is dropped, the oldest first *)
Add ==
  /\ pending' # <<>>
  /\ LET e == Last(pending') IN
       /\ \E n \in 0 .. Len(pending) :
           /\ pending' = Append(SubSeq(pending, n + 1, Len(pending)), e)
           /\ \A i \in DOMAIN pending : e.ts - pending[i].ts > Window <=> i <= n
       /\ FirstCopy(e) \/ NextCopy(e)
       /\ \A i \in DOMAIN out : out[i] < e.ev
  /\ UNCHANGED out

Submit ==
  /\ Complete
  /\ out' = out \o [i \in DOMAIN pending |-> pending[i].ev]
  /\ pending' = <<>>

Next == Add \/ Submit

Spec == Init /\ [][Next]_<<pending, out>>
=============================================================================
