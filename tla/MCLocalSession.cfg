\* Three connections, so that a stop finds one queued, one in the backlog and
\* one to come.  Two bytes of one and a request of two make a read go on.
CONSTANTS
    Clients = {1, 2, 3}
    AcceptErrors = TRUE
    MaxBytes = 2
    MaxRequest = 2
SPECIFICATION SessionFairSpec
CHECK_DEADLOCK FALSE
INVARIANTS
    SessionTypeOK
    OneLoop
    NoGaps
PROPERTIES
    StopEndsTheLoop
    EveryClientServed
    ReaderServed
