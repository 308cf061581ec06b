CONSTANTS
    Octets = 1
    Width = 3
    N = 2
    FdMax = 7
    Frames <- SecondLink
    IcmpMsg = IcmpMsg
    QMax = 1
    Faulty = {0, 1}
    IcmpTraffic = FALSE
    BootMulti <- AllOff
    BootConfig <- Base
    Files <- NoFiles
    Noise <- NoiseOther
    NoAdvert = NoAdvert
    SendMayFail = FALSE
    Signals = FALSE
    ErrorCap = 3
SPECIFICATION Spec
INVARIANT SocketsAgree
PROPERTIES QueuedIsTaken GoneEnds ErrorsEnd
CHECK_DEADLOCK FALSE
