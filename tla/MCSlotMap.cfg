SPECIFICATION Spec
CONSTANTS
    n1 = n1
    n2 = n2
    n3 = n3
    n4 = n4
    n5 = n5
    r1 = r1
    NULL = NULL
    SELF = SELF
    BAD = BAD
    HashOf <- MCHashOf
    NumSlots = 4
    UINT32 = 64
    InitialNodes <- MCInitialNodes
    SlotsReplies <- MCSlotsReplies
    NodesReplies <- MCNodesReplies
    Redirects <- MCRedirects
    PARSE_REPLICAS = TRUE
    MaxUpdates = 2
    MaxContexts = 2
CHECK_DEADLOCK FALSE
INVARIANTS
    MapIsTopology
    NothingDangles
PROPERTIES
    ConnectionsSurvive
    IterationSound
