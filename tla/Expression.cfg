CONSTANTS
    Lanes = 2
    LaneBits = 2
    MaxSymbols = 3
    Lists <- MCLists
    Addresses <- MCAddresses
SPECIFICATION Spec
INVARIANTS TypeOK HitIfAnyMatches
PROPERTY EvaluatesAsWritten
CHECK_DEADLOCK FALSE
