SPECIFICATION Spec
CONSTANTS
    p1 = p1
    p2 = p2
    p3 = p3
    NoProc = NoProc
    Proc = {p1, p2}
    IPC_MAX_SEMS = 2
    Arrays <- MCArrays
    CtlVals = {0, 2}
    ValBound = 2
    Signals = FALSE
INVARIANTS
    NoLostZero
CHECK_DEADLOCK FALSE
