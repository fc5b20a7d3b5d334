SPECIFICATION SysSpec
CONSTANTS
    Page = 2
    AddrMod = 20
    IntBits = 2
    NumWords = 2
    InsertShift = "masked"
    Base0 = 4
    Length0 = 4
    Addrs <- MCAddrs
    Counts <- MCCounts
    Jumps <- MCJumps
    InitBitmaps <- ZeroBitmap
    MaxOwned = 4
    Ceiling = 14
    NumFrames = 4
    TableSpan = 3
    FrameVar = 0
INVARIANTS
    SysTypeOK
    HeldPagesApart
PROPERTY
    FailureUnmapsAll
CHECK_DEADLOCK FALSE
