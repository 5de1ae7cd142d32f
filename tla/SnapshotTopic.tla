--------------------------- MODULE SnapshotTopic ---------------------------
(***************************************************************************)
(* What a repeating snapshot promises to the readers of its topic: a       *)
(* sequence of iterations, one after the other, each of which is a Header, *)
(* then any number of Data batches, then a Tail.  Iterations of one        *)
(* operation are numbered 1, 2, 3, ... and the operations that use a topic *)
(* (a snapshot that is stopped and started again) follow one another.      *)
(* This is the abstract specification that SnapshotEngine implements.      *)
(***************************************************************************)
EXTENDS Integers, Sequences

CONSTANTS Op,      \* operations (one SnapshotOpInfo object each)
          Name,    \* snapshot names, one topic each
          NameOf   \* the name an operation was started with

VARIABLE published \* [Name -> sequence of messages], in publishing order

Newest(n) == published[n][Len(published[n])]

\* An iteration is open from its Header to its Tail.
IsOpen(n) == published[n] # <<>> /\ Newest(n).part # "tail"

\* The number of the iteration that operation o opens next.
NextIter(n, o) == IF published[n] # <<>> /\ Newest(n).op = o THEN Newest(n).iter + 1 ELSE 1

Say(o, i, p) ==
  published' = [published EXCEPT ![NameOf[o]] = Append(@, [op |-> o, iter |-> i, part |-> p])]

Init == published = [n \in Name |-> <<>>]

OpenIteration(o) ==
  /\ ~IsOpen(NameOf[o])
  /\ Say(o, NextIter(NameOf[o], o), "header")

\* Data and Tail belong to the open iteration.
Report(o) ==
  /\ IsOpen(NameOf[o]) /\ Newest(NameOf[o]).op = o
  /\ Say(o, Newest(NameOf[o]).iter, "data")

CloseIteration(o) ==
  /\ IsOpen(NameOf[o]) /\ Newest(NameOf[o]).op = o
  /\ Say(o, Newest(NameOf[o]).iter, "tail")

Next == \E o \in Op : OpenIteration(o) \/ Report(o) \/ CloseIteration(o)

Spec == Init /\ [][Next]_published
=============================================================================
