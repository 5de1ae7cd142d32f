-------------------------- MODULE MCSnapshotWindow --------------------------
(* The data path of a snapshot of two PVs, for TLC. *)
EXTENDS SnapshotWindow

CONSTANTS p1, p2

TwoPvs == {p1, p2}

(* a list such as pva://p1, ca://p1, p2 *)
FirstTwice == [p \in TwoPvs |-> IF p = p1 THEN 2 ELSE 1]

Normal(triggered) == [type |-> "normal", triggered |-> triggered, sub_push_delay |-> 0]
Timed(triggered, delay) == [type |-> "timed", triggered |-> triggered, sub_push_delay |-> delay]

AllKinds ==
  {Normal(FALSE), Normal(TRUE), Timed(TRUE, 0), Timed(FALSE, 0), Timed(FALSE, 1), Timed(FALSE, 3)}

Periodic == {Timed(FALSE, 1)}
=============================================================================
