\* Migrations between nodes that ask to try again, or with crashes; the cluster
\* comes to rest.
SPECIFICATION FairSpec
CONSTANTS
    Nodes = {a, b, k}
    Keepers = {k}
    MaxRetry = 2
    Scenarios <- Cases
\* A call that uses a released node has no further steps.
CHECK_DEADLOCK FALSE
INVARIANTS
    RepliesInStep
    SentSparingly
    UpdatingContextHeld
PROPERTIES
    CallsConverge
