SPECIFICATION LiveSpec
CONSTANTS
    n1 = n1
    n2 = n2
    n3 = n3
    s1 = s1
    s2 = s2
    NULL = NULL
    Nodes = {n1, n2, n3}
    Slots = {s1, s2}
    FirstOwner <- MCFirstOwner
    InitialNodes = {n1}
    MaxRetry = 1
    MaxCmds = 2
    Scenarios <- MCScenarios
CHECK_DEADLOCK FALSE
INVARIANTS
    RequestsAccounted
PROPERTIES
    NoConnectionAfterDisconnect
    EverythingEnds
