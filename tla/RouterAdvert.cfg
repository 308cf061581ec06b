CONSTANTS
    Types <- MCTypes
    LinkAddr = "linkaddr"
    PrefixInfo = "prefix"
    RA = "ra"
    Messages <- MCMessages
    Frames <- MCFrames
    NoMessage = NoMessage
    Noise <- MCNoise
    MsgSize = 272
    UIntMax = 100000
    LogCap = 5
SPECIFICATION Spec
INVARIANTS TypeOK WildAfterFailure
PROPERTIES LogIsMessage SoundWalkEnds
CHECK_DEADLOCK FALSE
