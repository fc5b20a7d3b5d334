SPECIFICATION BootSpec
CONSTANTS
    NumWords = 5
    IntBits = 2
    IntWords = 5
    Counts = {}
    CounterMod = 8
    MaxGrants = 1
    MemoryMaps <- MCMaps
    Required = 2
    UsedTables = 1
    PageShift = 2
    ShiftMod = 5
    Occupied <- MCOccupied
    LastPage = 4
    Boundary = 2
INVARIANT OnlyUsableFree
CHECK_DEADLOCK FALSE
