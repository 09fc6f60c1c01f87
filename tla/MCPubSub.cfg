SPECIFICATION Spec
CONSTANTS
    Kind <- FourNames
    MaxMsgs = 1
    MaxArgs = 1
    Cases <- TwoCases
\* A closed context does nothing more.
CHECK_DEADLOCK FALSE
INVARIANTS
    RegularSound
    SubscriptionsFollow
    MessageToSubscriber
