CONSTANTS
    Jobs <- MCJobs
    MAX_OUTPUT = 1000
SPECIFICATION Spec
INVARIANTS
    AgreesWithOracle
    CorpusHolds
    TruncationIsCorrupt
    WithinBounds
    LookupsHit
PROPERTY
    EveryStepAdvances
