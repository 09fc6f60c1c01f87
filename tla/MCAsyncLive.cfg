CONSTANTS
    MaxCmds = 2
    MaxPush = 0
    Endings <- AllEndings
    ConnectTimeout = TRUE
    CommandTimeout = TRUE
    SetTimeouts = {}
    NoAutoFree = {FALSE}
    Fns = {TRUE, FALSE}
SPECIFICATION FairSpec
CHECK_DEADLOCK FALSE
PROPERTIES
    ShutdownCompletes
    EveryCommandCalledBack
