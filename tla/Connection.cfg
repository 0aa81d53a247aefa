SPECIFICATION FairSpec
CONSTANTS
    MaxEpoch = 3
    MaxRequests = 4
INVARIANTS
    QueueIsCurrent
    OneWriter
    FlagRaised
PROPERTIES
    ImplementsBox
    CallsReturn
CHECK_DEADLOCK FALSE
