\* A direct builder call may be the first after start or alloc_reset.
SPECIFICATION Spec
CONSTANTS
    t1 = t1
    t2 = t2
    Threads <- MCThreads
    NoThread = NoThread
    Codec <- MCCodec
    Behind <- MCBehind
    Sums <- MCSums
    NoSum = NoSum
    InPlace <- MCInPlace
    DirectSums = {"crc32"}
    ColdDirect = TRUE
    CanFail = FALSE
    Residual = FALSE
INVARIANTS
    DropExclusive
