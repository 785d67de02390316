\* Handlers of the stopped server may be queued when it is started again.
CONSTANTS
    Clients = {c1, c2}
    Supported = {"v4", "v6"}
    MaxStarts = 3
SPECIFICATION FairSpec
INVARIANTS
    TypeOK
    
    LoopAlive
PROPERTIES
    EveryClientAccepted
