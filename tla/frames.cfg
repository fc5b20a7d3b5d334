SPECIFICATION Spec
CONSTANTS
    NumWords = 3
    IntBits = 3
    IntWords = 2
    Counts <- MCCounts
    CounterMod = 8
    MaxGrants = 2
INVARIANTS
    TypeOK
    UpperTogether
    GrantsAtTop
    AtMostOneGrant
PROPERTIES
    ImplementsFrameSupply
    FreedNeverReissued
    GrantedWordsFrozen
CHECK_DEADLOCK TRUE
