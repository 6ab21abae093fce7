SPECIFICATION Spec
CONSTANTS
    NPROC = 3
    HashSz = 2
    Chans = {1, 3}
    Pris = {0, 1}
    Sigs = {2}
    Fatal = {2}
    SignalSleepers = FALSE
INVARIANTS
    TypeOK
    ReadyQueueExact
    SleepQueuesExact
    RunnerHasCpu
    CpuHasRunner
PROPERTIES
    DeadStayDead
    Implements
CHECK_DEADLOCK FALSE
