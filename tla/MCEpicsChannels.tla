--------------------------- MODULE MCEpicsChannels ---------------------------
(* Instances of EpicsChannels for TLC. *)
EXTENDS EpicsChannels

CONSTANTS p1, p2, c1, c2, e1, e2

OnePv == {p1}
TwoPvs == {p1, p2}
OneClient == {c1}
TwoClients == {c1, c2}
TwoEntries == {e1, e2}
=============================================================================
