SPECIFICATION Spec
CONSTANTS
    Proc = {p1, p2, p3}
    POOL = 3
    QBYTES = 4
    Calls <- MCCalls
    NewLimits = {1, 4}
INVARIANTS
    TypeOK
    PoolBalanced
    NoStrandedReceiver
    NoStrandedSender
PROPERTIES
    Implements
SYMMETRY Sym
CHECK_DEADLOCK FALSE
