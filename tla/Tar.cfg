SPECIFICATION Spec
CONSTANTS
    Block = 2
    Content <- MCContent
    Key <- MCKey
    Archives <- MCArchives
    MinCap = 3
    Ceiling = 11
    LedgerInit = 2
    MaxFaults = 1
INVARIANTS
    ReadsTheArchive
    NothingThroughALink
CHECK_DEADLOCK FALSE
