CONSTANTS
    Octets = 2
    Width = 3
    Lengths <- MCLengths
SPECIFICATION Spec
INVARIANTS LoopInv InBounds ReturnsBitMatch
CHECK_DEADLOCK FALSE
