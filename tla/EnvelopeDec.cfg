SPECIFICATION Spec
CONSTANTS
    MaxBits = 15
    Chunks = {1, 7}
    Crc <- MCCrc
    Adler <- MCAdler
    Inputs <- MCInputs
INVARIANTS
    SumCoversMember
PROPERTIES
    AgreesWithBatch
    GzipFinishedIsFinal
CHECK_DEADLOCK FALSE
