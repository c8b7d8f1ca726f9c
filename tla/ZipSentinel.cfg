SPECIFICATION Spec
CONSTANTS
    Width <- MCWidth
    BadParts = {"ctl"}
    Size <- MCSize
    PackedSize <- MCPackedSize
    Members <- MCMembers
    Caps <- MCCaps
    Asks <- MCAsks
    OtherCodecs = {"XZ", "ZSTD"}
    U32 = 73
    MaxCount = 1
    MaxName = 8
    MaxOutput = 40
    RecInit = 1
    MaxEntries = 2
    MaxTotal = 2
INVARIANTS
    FinishedOpens
CHECK_DEADLOCK FALSE
