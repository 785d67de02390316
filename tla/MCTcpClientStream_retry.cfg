\* A second attempt after a failed one.
CONSTANT MaxCalls = 2
SPECIFICATION Spec
INVARIANT SuccessMeansConnected
