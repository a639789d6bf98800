CONSTANTS
    Configs <- MCConfigs
    Mains = 2
    Details = 3
    MaxAdjust = 1
CHECK_DEADLOCK FALSE
SPECIFICATION FairSpec
INVARIANTS
    TypeOK
    Slots
    OneOrder
    NoGhosts
PROPERTIES
    NoReentry
    Finishes
