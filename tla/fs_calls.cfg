SPECIFICATION Spec
CONSTANTS
    MAX_INCACHE = 4
    Null = Null
    MaxIno = 6
    Names = {"a", "d"}
    SB_FREE_INODE_MAX = 2
    MaxTurns = 8
    NFILE = 2
    NOFILE = 2
    Paths <- MCPaths
    Image <- MCImage
    MaxRef = 3
    MaxCalls = 6
INVARIANTS
    TypeOK
    NamesAlive
    SubdirsCounted
    DescriptorsCounted
    InodesHeld
    CacheExact
    CacheFresh
    LocksReleased
    HangsKnown
PROPERTIES
    Implements
VIEW CacheView
CHECK_DEADLOCK FALSE
