------------------------- MODULE MCSnapshotRegistry -------------------------
(* Instances of SnapshotRegistry: a snapshot a that is started, stopped    *)
(* and triggered, some of it twice, once with two URIs of one PV, and a    *)
(* snapshot b on one of its PVs.                                           *)
EXTENDS SnapshotRegistry

CONSTANTS a1, a2, b1, sa, sa2, ta, p1, p2

MCQueueOf == [c \in {a1, a2, b1, sa, sa2, ta} |-> IF c = b1 THEN "b" ELSE "a"]
MCPvList == (a1 :> <<p1, p2>> @@ a2 :> <<p2, p2>> @@ b1 :> <<p2>>)
MCFault == [c \in {a1, a2, b1, sa, sa2, ta} |-> IF c = b1 THEN {0, 3} ELSE {0}]
=============================================================================
