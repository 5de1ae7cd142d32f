------------------------- MODULE MCOneShotSnapshot -------------------------
(* One-shot snapshots of monitored and of private PVs, for TLC. *)
EXTENDS OneShotSnapshot

CONSTANTS c1, shared, joined, scalar, enum, bad

AllPvs == {shared, joined, scalar, enum}
CaPvs == {joined, scalar}
EnumPvs == {enum}
WavePvs == {shared}
MonitoredPvs == {shared, joined}
OneCmd == {c1}

\* a number that only JSON keeps, and one that only MessagePack keeps
Samples == <<-1, 200>>

\* private PVs, one with a refused name after it; a monitored PV with a private one
AllLists == {<<scalar>>, <<enum, bad>>, <<shared, enum>>, <<joined>>}
SharedList == {<<shared>>}
=============================================================================
