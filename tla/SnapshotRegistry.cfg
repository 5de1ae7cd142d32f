CONSTANTS
    a1 = a1
    a2 = a2
    b1 = b1
    sa = sa
    sa2 = sa2
    ta = ta
    p1 = p1
    p2 = p2
    Start = {a1, a2, b1}
    Stop = {sa, sa2}
    Trigger = {ta}
    Pv = {p1, p2}
    NoOp = NoOp
    PoolThreads = 2
    QueueOf <- MCQueueOf
    PvList <- MCPvList
    Fault <- MCFault
SPECIFICATION Spec
INVARIANTS RegistryInv StoppedIsGone SharedPvsHeld
PROPERTY CommandsAnswered
