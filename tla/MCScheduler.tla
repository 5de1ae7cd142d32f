----------------------------- MODULE MCScheduler -----------------------------
(* Instances of Scheduler: the tasks of the gateway in the order of k2eg.cpp. *)
EXTENDS Scheduler

CONSTANTS t1, t2, statistic, startup, maintenance

\* The statistic tasks of NodeController and EpicsServiceManager are alike: one
\* of them is enough.
MCTask == {statistic, startup, maintenance}
MCOutcomes ==
    [t \in MCTask |-> IF t = startup THEN {"asap", "throws", "completed"} ELSE {"cron", "throws"}]
MCFollow == [t \in MCTask |-> IF t = startup THEN maintenance ELSE NoTask]
MCBoot == MCTask \ {maintenance}
MCOwnerOf ==
    [t \in MCTask |-> IF t = statistic THEN "NodeController" ELSE "MonitorCommandWorker"]

Ask(op, t) == [op |-> op, task |-> t]
MCScript ==
    << Ask("add", startup), Ask("add", statistic), Ask("quit", NoTask), Ask("remove", statistic),
       Ask("remove", maintenance), Ask("remove", startup), Ask("stop", NoTask) >>
=============================================================================
