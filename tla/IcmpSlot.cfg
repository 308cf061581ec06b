CONSTANTS
    Octets = 1
    Width = 3
    N = 2
    FdMax = 7
    Frames <- OneFrame
    IcmpMsg = IcmpMsg
    QMax = 1
    Faulty = {}
    IcmpTraffic = TRUE
    BootMulti <- AllOff
    BootConfig <- Base
    Files <- NoFiles
    Noise <- NoiseOther
    NoAdvert = NoAdvert
    SendMayFail = FALSE
    Signals = FALSE
    ErrorCap = 3
SPECIFICATION Spec
INVARIANT ReadsPolledSocket
CHECK_DEADLOCK FALSE
