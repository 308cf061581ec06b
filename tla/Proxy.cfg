CONSTANTS
    Octets = 1
    Width = 3
    N = 2
    FdMax = 7
    Frames <- FramesPolicy
    IcmpMsg = IcmpMsg
    QMax = 2
    Faulty = {}
    IcmpTraffic = FALSE
    BootMulti <- AllOff
    BootConfig <- Black
    Files <- NoFiles
    Noise <- NoiseOther
    NoAdvert = NoAdvert
    SendMayFail = FALSE
    Signals = TRUE
    ErrorCap = 3
SPECIFICATION Spec
PROPERTIES IsProxy IsLiveProxy
CHECK_DEADLOCK FALSE
