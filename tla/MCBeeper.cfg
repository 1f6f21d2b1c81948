CONSTANTS
    Patterns <- MCPatterns
    Cycles = {1, 2}
    Others = {o1}
    FastGap = 1
    SlowGap = 3
    PlayedCap = 7
SPECIFICATION FairSpec
INVARIANTS
    NothingHeld
    BeepsOnTime
PROPERTY
    BeepsEnd
