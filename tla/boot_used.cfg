SPECIFICATION Spec
CONSTANTS
    N = 5
    LastFrame = 26
    PageUnits = 2
    Firmwares <- PlainFirmwares
    Kernels <- MCKernels
INVARIANT TablesAreCounted
CHECK_DEADLOCK FALSE
