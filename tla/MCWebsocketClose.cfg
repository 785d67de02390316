\* Two messages and a wire of one: a close meets a full wire and an unsent message.
CONSTANTS
    MaxMessages = 2
    MaxRequest = 2
    WireCapacity = 1
SPECIFICATION FairSpec
\* Two closed streams have nothing left to do.
CHECK_DEADLOCK FALSE
INVARIANTS
    TypeOK
    ClosedIsTheEnd
    CloseDelivers
PROPERTIES
    CloseAnswered
    PeerHearsClose
