CONSTANTS
    MaxCmds = 3
    MaxPush = 1
    Endings <- AllEndings
    ConnectTimeout = TRUE
    CommandTimeout = TRUE
    SetTimeouts = {TRUE}
    NoAutoFree = {TRUE, FALSE}
    Fns = {TRUE, FALSE}
SPECIFICATION MCSpec
INVARIANTS
    TypeOK
    CallbacksSound
    GracefulDisconnectDelivers
    ConnectDisconnectPaired
    QuietWhenDetached
    AssertsHold
    CommandTimerArmed
PROPERTIES
    ImplementsQueue
