SPECIFICATION ToolRoundFairSpec
CONSTANTS
    MaxRounds = 2
    NCalls = 3
    Limit = 2
    FreshIds = TRUE
INVARIANTS
    BarriersRunAlone
    
    RanCallsHaveResults
PROPERTY
    RoundsEnd
CHECK_DEADLOCK FALSE
