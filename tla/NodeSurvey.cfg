\* Blocks of two over five registers, and four disturbances of any kind.
SPECIFICATION FairSpec
CONSTANTS
    l1 = l1
    l2 = l2
    l3 = l3
    Lines <- MCLines
    MaxUnit = 2
    LastReg = 4
    Stride = 2
    Bus <- MCBus
    Nothing = Nothing
    MaxTrouble = 4
    MaxQueue = 3
INVARIANTS TypeOK FoundIsThere  MapComplete
PROPERTY SurveyCompletes
CHECK_DEADLOCK FALSE
