SPECIFICATION Spec
CONSTANTS
    WordBits = 24
    IntBits = 12
    MaxOutput = 32
    Calls <- MCCalls
INVARIANTS
    TypeOK
    SerialEchoes
    PrintedAsMeant
    EndlessStays
PROPERTY
    Returns
CHECK_DEADLOCK FALSE
