SPECIFICATION MCSpec
CONSTANTS
    Page = 2
    AddrMod = 32
    IntBits = 3
    NumWords = 2
    InsertShift = "masked"
    Base0 = 4
    Length0 = 4
    Addrs <- MCAddrs
    Counts <- MCCounts
    Jumps <- MCJumps
    InitBitmaps <- MCBitmaps
    Ceiling = 22
    MaxOwned = 6
INVARIANTS
    ListTerminates
    FewSlotsUsed
    SortedIfChecked
    NotSharedIfChecked
    CoveredIfChecked
CHECK_DEADLOCK FALSE
