\* One attempt is enough for the race of the timer with the connect.
CONSTANT MaxCalls = 1
SPECIFICATION Spec
INVARIANT TimeoutReportsCanceled
