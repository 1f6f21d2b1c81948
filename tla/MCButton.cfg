CONSTANTS
    Wrap = 16
    Debounce = 1
    Hold = 3
    MaxGap = 2
    MaxLag = 2
SPECIFICATION FairSpec
INVARIANT
    ButtonInv
PROPERTIES
    Events
    Answers
