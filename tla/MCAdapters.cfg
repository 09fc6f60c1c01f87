CONSTANTS
    Kinds <- AllKinds
    MaxAsks = 3
SPECIFICATION LiveSpec
CHECK_DEADLOCK FALSE
INVARIANTS
    NoLateUse
    LoopAgrees
PROPERTIES
    ReleasedInTheEnd
