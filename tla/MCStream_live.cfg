\* The application leaves m_buffer alone while a read is outstanding.
CONSTANTS
    MaxBytes = 4
    MaxRequest = 3
    WireCapacity = 2
    ConsumeWhilePending = FALSE
SPECIFICATION FairSpec
INVARIANTS
    SuccessHasData
PROPERTIES
    ReadAnswered
