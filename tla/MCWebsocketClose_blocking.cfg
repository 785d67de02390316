\* A blocking close towards a peer that is silent.
CONSTANTS
    MaxMessages = 1
    MaxRequest = 1
    WireCapacity = 1
SPECIFICATION FairSpec
CHECK_DEADLOCK FALSE
PROPERTY
    CloseReturns
