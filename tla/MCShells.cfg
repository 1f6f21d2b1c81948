SPECIFICATION FairSpec
CONSTANTS
    Output <- Outputs
    MeasureTimer = 1
    SecondTimer = 1
    PublishTimer = 1
    LightOffTimer = 1
    SaverTimer = 2
    BackTimer = 1
    OwedCap = 2
    ReadMayFail = FALSE
INVARIANT
    ShellsInv
PROPERTIES
    NoBlindToggle
    WakeHolds
    Causes
    Unattended
