CONSTANTS
    TaskId = {t1, t2}
    NoTask = NoTask
    Garbage = Garbage
    Period = 2
    JoinDelay = 4
    ReadTime = 1
    SneakFrames = 2
    BufLen = 2
    Group <- MCGroup
    AccuPeriod = 0
    BackTimer = 0
    Metered = "PORT_A"
    OwedCap = 0
    ReadMayFail = TRUE
    CreateMayFail = FALSE
SPECIFICATION Spec
INVARIANTS
    TypeOK
    SamplerJoined
    CurrentAttribution
    NoDeadHandle
