CONSTANTS
    Thread = {t1, t2}
    t1 = t1
    t2 = t2
    statistic = statistic
    startup = startup
    maintenance = maintenance
    NoTask = NoTask
    Task <- MCTask
    Outcomes <- MCOutcomes
    Follow <- MCFollow
    Boot <- MCBoot
    OwnerOf <- MCOwnerOf
    Script <- MCScript
SPECIFICATION Spec
INVARIANTS QuietAfterRemove SchedulerInv
PROPERTIES RequestsReturn DueIsExecuted
