SPECIFICATION LiveSpec
CONSTANTS
    n1 = n1
    n2 = n2
    n3 = n3
    s1 = s1
    s2 = s2
    NULL = NULL
    Nodes = {n1, n2, n3}
    Slots = {s1, s2}
    FirstOwner <- MCFirstOwner
    MaxRetry = 1
    MaxAppends = 3
    MaxCrashes = 1
    MaxMoves = 1
CHECK_DEADLOCK FALSE
INVARIANTS
    PipelineInStep
    RedirectRemembered
PROPERTIES
    ResetReturns
