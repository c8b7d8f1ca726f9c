SPECIFICATION FairSpec
CONSTANTS
    MaxBits = 15
    MaxMembers = 2
    Breaks = {3, 5}
    Chunks = {1, 2}
    Inputs <- MCInputs
INVARIANTS
    AgreesWithBatch
PROPERTIES KeepsPromise CallReturns
CHECK_DEADLOCK FALSE
