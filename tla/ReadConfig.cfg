CONSTANTS
    Files <- MCFiles
    NoFile = NoFile
    Present <- MCPresent
    TooLong <- MCTooLong
    Addresses <- MCAddresses
    PrefixBits <- MCPrefixBits
    MAX_EXPRESSION_ENTRIES = 2
    Unset = Unset
    Targets <- MCTargets
SPECIFICATION Spec
INVARIANT TableHolds
PROPERTIES IsConfigStore CallsEnd
CHECK_DEADLOCK FALSE
