CONSTANTS
    near = near
    far = far
    Bssid = {near, far}
    Any = Any
    Ap <- MCAp
    Airs <- MCAirs
    Setups <- MCSetups
    Savable <- MCSavable
    Cooldown = 0
    Timeout = 1
    ApTimeout = 1
    RebootTimeout = 1
    MaxRetry = 0
    RetryWrap = 2
    PrioSpan = 1
    ApMayFail = FALSE
    DriverMayFail = TRUE
SPECIFICATION FairSpec
INVARIANT
    WiFiInv
PROPERTIES
    TurnComes
    AdapterIsRestarted
    OutageIsMet
