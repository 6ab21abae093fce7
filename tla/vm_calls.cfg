\* Three processes over five regions of at most two pages and five frames.
SPECIFICATION Spec
CONSTANTS
    NPROC = 3
    NREGION = 5
    MAX_PAGES = 2
    MAX_REG_PER_PROC = 3
    NFRAMES = 5
    Images <- MCImages
    Maps <- MCMaps
    MaxCalls = 6
INVARIANTS TypeOK RegionsExact TablesExact FramesHeld
PROPERTIES Isolated FailureUndone ForkCopies
CHECK_DEADLOCK FALSE
