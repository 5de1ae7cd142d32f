-------------------------- MODULE MCSnapshotEngine --------------------------
(* Instances of SnapshotEngine for TLC. *)
EXTENDS SnapshotEngineInv, TLC

CONSTANTS o1, o2, s1, s2

OneOp == {o1}
TwoOps == {o1, o2}
OneName == {s1}
TwoNames == {s1, s2}
FirstOp == {o1}
SecondOp == {o2}
None == {}

SoloName == o1 :> s1
OwnNames == (o1 :> s1) @@ (o2 :> s2)
SameName == (o1 :> s1) @@ (o2 :> s1)
=============================================================================
