SPECIFICATION Spec
CONSTANTS
    NPROC = 3
    HashSz = 2
    Chans = {1}
    Pris = {0}
    Sigs = {2}
    Fatal = {2}
    SignalSleepers = TRUE
INVARIANTS
    QueuedAreReady
CHECK_DEADLOCK FALSE
