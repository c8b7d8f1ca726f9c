SPECIFICATION Spec
CONSTANTS
    Jobs <- MCJobs
    MaxBits = 15
    LitCap = 3
    ClCap = 3
    MaxBlocks = 2
INVARIANTS
    WholeCode
    ReadsBack
PROPERTIES
    CheaperIsWritten
CHECK_DEADLOCK FALSE
