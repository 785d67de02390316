\* Three attempts: the handlers of the first are still queued in the third.
CONSTANT MaxCalls = 3
SPECIFICATION FairSpec
INVARIANTS
    TypeOK
    WatchedConnect
    NothingLeftPending
PROPERTIES
    AnsweredOnce
    ImplementsInitialization
