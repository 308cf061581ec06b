CONSTANTS
    Targets <- MCTargets
    Prefixes <- MCPrefixes
    Lengths <- MCLengths
    Covers <- MCCovers
    Files <- MCFiles
SPECIFICATION Spec
INVARIANTS TypeOK CountNear TreeBounded OneStray DumpNear
CHECK_DEADLOCK FALSE
