\* Direct builder calls only after a locked call has armed the canary.
SPECIFICATION FairSpec
CONSTANTS
    t1 = t1
    t2 = t2
    Threads <- MCThreads
    NoThread = NoThread
    Codec <- MCCodec
    Behind <- MCBehind
    Sums <- MCSums
    NoSum = NoSum
    InPlace <- MCInPlace
    DirectSums = {"crc32", "crc64"}
    ColdDirect = FALSE
    CanFail = TRUE
    Residual = FALSE
INVARIANTS
    HeldWhileInside
    ResetIsSeen
    UsesLiveTables
    DropExclusive
    UsesFinishedTables
PROPERTIES
    HolderReleases
