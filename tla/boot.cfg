SPECIFICATION Spec
CONSTANTS
    N = 5
    LastFrame = 26
    PageUnits = 2
    Firmwares <- MCFirmwares
    Kernels <- MCKernels
INVARIANTS
    TypeOK
    IdentityKept
    MirrorMatches
    TablesInCopy
    OnlyCopyWritten
    KernelInPlace
CHECK_DEADLOCK FALSE
