CONSTANTS
    Octets = 1
    Width = 3
    N = 1
    FdMax = 5
    Frames <- OneFrame
    IcmpMsg = IcmpMsg
    QMax = 1
    Faulty = {0}
    IcmpTraffic = FALSE
    BootMulti <- AllOff
    BootConfig <- Base
    Files <- NoFiles
    Noise <- NoiseOther
    NoAdvert = NoAdvert
    SendMayFail = FALSE
    Signals = FALSE
    ErrorCap = 3
SPECIFICATION Spec
PROPERTY AnswersReceived
CHECK_DEADLOCK FALSE
