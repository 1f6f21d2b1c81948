CONSTANTS
    Switch = {"a", "b"}
    Image = {"old", "new", "single", "bare", "plain"}
    Layout <- MCLayout
    Plays <- MCPlays
    RestoreMode <- MCRestoreMode
    Inverted = {"b"}
    Group <- MCGroup
    WaitTime = 1
    Chunks = 2
    NumAttempts = 2
    EnableTime = 1
SPECIFICATION FairSpec
INVARIANTS
    RestartsInv
    ToldIsBooted
PROPERTIES
    MemoryKept
    SafeModeIsEarned
    CrashLoopIsCaught
    ComesToAnEnd
