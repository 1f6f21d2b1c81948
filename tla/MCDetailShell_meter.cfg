CONSTANTS
    TaskId = {t1}
    NoTask = NoTask
    Garbage = Garbage
    Period = 2
    JoinDelay = 3
    ReadTime = 1
    SneakFrames = 1
    BufLen = 1
    Group <- MCGroup
    AccuPeriod = 1
    BackTimer = 1
    Metered = "PORT_A"
    OwedCap = 16
    ReadMayFail = FALSE
    CreateMayFail = FALSE
SPECIFICATION FairSpec
INVARIANT
    NeverOvercharged
PROPERTY
    DetailGoesOn
