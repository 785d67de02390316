\* Four overlapping attempts; none overtakes a completion that was dispatched.
CONSTANTS
    MaxCalls = 4
    OvertakesDispatch = FALSE
SPECIFICATION FairSpec
INVARIANT
    TypeOK
PROPERTIES
    OwnAnswerOnce
    ImplementsInitialization
