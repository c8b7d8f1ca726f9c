SPECIFICATION Spec
CONSTANTS
    MinMatch = 2
    MaxOffset = 5
    LastLiterals = 1
    MfLimit = 4
    Nibble = 3
    Ext = 2
    SkipShift = 1
    Buckets = {0, 1}
    Hash <- MCHash
    SmallBlock = 8
    Xxh32 <- MCXxh32
    Jobs <- MCJobs
    EncChunks = {1, 7}
    DecChunks = {1, 5}
    MaxOutput = 20
    Idle <- MCIdle
    Frames <- MCFrames
INVARIANTS
    ReserveKept
    SameAsBatch
    EndsInLiterals
    BuffersHold
    RoundTrip
PROPERTIES
    SaysWhatBatchSays
CHECK_DEADLOCK FALSE
