SPECIFICATION Spec
CONSTANTS
    Machines <- MCMachines
    PageUnits = 2
    FontPages = 2
    Width <- MCWidth
    Height <- MCHeight
    MaxChanges = 2
    NumVectors = 10
    Traps <- MCTraps
    Irqs <- MCIrqs
    MaxEvents = 2
INVARIANTS
    NothingElseKept
    TableDescribesMachine
    AbortPathFaults
PROPERTIES
    EveryVectorEndsInAHandler
    BootEnds
CHECK_DEADLOCK FALSE
