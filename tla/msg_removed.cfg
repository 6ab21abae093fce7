SPECIFICATION Spec
CONSTANTS
    Proc = {p1, p2}
    POOL = 2
    QBYTES = 1
    Calls <- MCCalls
    NewLimits = {1}
PROPERTIES
    EvictedGetNothing
CHECK_DEADLOCK FALSE
