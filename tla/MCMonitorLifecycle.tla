------------------------- MODULE MCMonitorLifecycle -------------------------
(* Instances of MonitorLifecycle for TLC. *)
EXTENDS MonitorLifecycle, TLC

CONSTANTS m1, m2, p1, p2, s1, t1

\* Two destinations of one PV, asked for by the same command.
TwoMonitors == {m1, m2}
OnePv == {p1}
SamePv == (m1 :> p1) @@ (m2 :> p1)
\* A monitor of a PV, and one with a name that does not sanitize.
TwoPvs == {p1, p2}
EachPv == (m1 :> p1) @@ (m2 :> p2)
BadName == {p2}

OneSer == {s1}
OneThread == {t1}
Both == {<<m1, m2>>}
Each == {<<m1>>, <<m2>>}
=============================================================================
