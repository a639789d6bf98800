CONSTANTS
    Target = 9
    AddOn = 4
    MaxAsk = 13
    Visible = 10
    MaxSlices = 3
    MinSlice = 0
    Jitter = 1
    Interval = 1
    Lot = 2
    MinStake = 5
SPECIFICATION FairSpec
INVARIANTS
    Within
PROPERTIES
    Promise
    ExitEnds
    EntryEnds
