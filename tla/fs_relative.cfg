SPECIFICATION Spec
CONSTANTS
    MAX_INCACHE = 4
    Null = Null
    MaxIno = 6
    Names = {"a", "b", "d"}
    SB_FREE_INODE_MAX = 2
    MaxTurns = 8
    NFILE = 2
    NOFILE = 2
    Paths <- MCRelPaths
    Image <- MCImage
    MaxRef = 3
    MaxCalls = 4
CHECK_DEADLOCK FALSE
INVARIANT
    NamesAlive
VIEW CacheView
