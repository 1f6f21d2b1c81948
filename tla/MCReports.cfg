CONSTANTS
    Quarter = 16
    Mod64 = 268435456
    Sample <- MCSample
    Services <- MCServices
    Calls <- MCCalls
    NaN = 9999
    Recompute = 4
    Precision = 10
    Chains <- MCChains
    Inputs = {0, 16, 9999}
    MaxInputs = 4
    MaxTime = 4
SPECIFICATION ReportsSpec
INVARIANTS
    Conveyed
    CalledAsAsked
    Filtered
    ClientKnows
