SPECIFICATION Spec
CONSTANTS
    a = a
    b = b
    c = c
    d = d
    e = e
    f = f
    g = g
    h = h
    m1 = m1
    m2 = m2
    Patch = {a, b, c, d, e}
    Fn = {f, g, h}
    OrigFunc <- MCOrigFunc
    Size <- MCSize
    Module = {m1, m2}
    Patches <- MCPatches
    Own = Own
    Zeroed = Zeroed
    NoModule = NoModule
    MaxPatches = 3
    MaxAllocs = 6
    PoolUnits = 10
    MaxInits = 1
INVARIANTS
    TypeOK
    TextFollowsState
    CallsReachOriginal
    TableExact
PROPERTIES
    ModuleCallAtomic
CHECK_DEADLOCK FALSE
