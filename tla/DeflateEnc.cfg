SPECIFICATION Spec
CONSTANTS
    Byte = {0, 1}
    Window = 3
    MinMatch = 2
    MaxMatch = 3
    Depth = 2
    Buckets = {0, 1}
    Hash <- MCHash
    Cost <- MCCost
    MaxDistance = 3
    SymMax = 7
    BlockSize = 4
    MaxFlushes = 1
    Chunks = {1, 4}
    Jobs <- MCJobs
INVARIANTS
    NothingLost
    Faithful
    FlushDelivers
    FinishDelivers
    ForgetsContext
    BatchIsFaithful
PROPERTIES
    CallEnds
CHECK_DEADLOCK FALSE
