CONSTANTS
    NULL = NULL
    OptionSets <- MCOptionSets
    Addresses = 2
    ConnectTimeout = 2
    ConnectRetries = 2
    MaxSockets = 3
    MaxElapsed = 11
    MaxCmds = 3
    MaxPushes = 1
SPECIFICATION LiveSpec
CHECK_DEADLOCK FALSE
INVARIANTS
    RepliesInStep
    SocketSound
    ConnectReports
PROPERTIES
    GetReplyReturns
