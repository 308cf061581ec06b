CONSTANTS
    Octets = 1
    Width = 3
    N = 2
    FdMax = 6
    Frames <- BothLinks
    IcmpMsg = IcmpMsg
    QMax = 1
    Faulty = {1}
    IcmpTraffic = TRUE
    BootMulti <- AllOff
    BootConfig <- Black
    Files <- ToOneListed
    Noise <- NoiseOther
    NoAdvert = NoAdvert
    SendMayFail = TRUE
    Signals = TRUE
    ErrorCap = 3
SPECIFICATION Spec
PROPERTY IsFaultyProxy
INVARIANTS TypeOK SocketsAgree PolledOpen TargetsCounted TargetsEntitled
CHECK_DEADLOCK FALSE
