CONSTANTS
    Timeout = {"t"}
    Interval = {"i"}
    Unnamed = {}
    MayFail = {"i"}
    Timeouts = {1, 5}
    Intervals = {3}
    Wrap = 6
    Majors = 3
    MaxDeleted = 1
    MaxItems = 3
    MaxGap = 1
SPECIFICATION FairSpec
INVARIANT
    SchedulerInv
PROPERTIES
    NothingDueLeft
    TimersKept
    WantedRuns
