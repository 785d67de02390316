\* Requests of up to 3 bytes over a wire of 2: one read needs several receptions.
\* The application may consume while a read is outstanding.
CONSTANTS
    MaxBytes = 5
    MaxRequest = 3
    WireCapacity = 2
    ConsumeWhilePending = TRUE
SPECIFICATION Spec
INVARIANTS
    TypeOK
    NoLossInOrder
    NoOverWaiting
    AnswersTrue
PROPERTIES
    ImplementsChannel
