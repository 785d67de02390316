\* Two attempts: handlers of both phases of the first are queued in the second.
CONSTANT MaxCalls = 2
\* When the last attempt is answered the application may be done: nothing happens.
CHECK_DEADLOCK FALSE
SPECIFICATION FairSpec
INVARIANTS
    TypeOK
    WatchedOperation
    NothingLeftPending
PROPERTIES
    AnsweredOnce
    ImplementsInitialization
