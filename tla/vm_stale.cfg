\* Is a page that execve adds always a fresh one?
SPECIFICATION Spec
CONSTANTS
    NPROC = 3
    NREGION = 5
    MAX_PAGES = 2
    MAX_REG_PER_PROC = 3
    NFRAMES = 5
    Images <- MCImages
    Maps <- MCMaps
    MaxCalls = 6
PROPERTIES NewPagesFresh
CHECK_DEADLOCK FALSE
