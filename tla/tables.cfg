SPECIFICATION Spec
CONSTANTS
    N = 3
    Frames <- MCFrames
    Zero = "zero"
    Roots <- MCRoots
    BootPdp = "bp"
    BootPd = "bd"
    BootBig = "big"
    IdentityIndex = 0
    MirrorIndex = 1
    Pool0 <- MCPool
    MapPages <- KernelPages
    UnmapPages <- KernelPages
    MultiplePages <- OnePage
    WriteIdx <- MCWriteIdx
    MaxData = 2
INVARIANTS
    TablesOutOfReach
    TablesAreATree
    MapReports
PROPERTY
    ImplementsAddressMap
CHECK_DEADLOCK FALSE
