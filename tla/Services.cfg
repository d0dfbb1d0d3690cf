SPECIFICATION FairSpec
CONSTANTS
    MAX_ATTEMPTS = 2
    MaxResumeTurns = 5
    MaxPolls = 1
    MaxResumeActs = 2
    EarlyEnd = FALSE
    STALL_AFTER = 1
    Caps = {1}
    MaxGoalTurns = 3
    MaxGoals = 2
    MaxGoalActs = 1
INVARIANTS
    TypeOK
    ContinuationsAreBounded
    
PROPERTIES
    WaitingResumesContinue
    
CHECK_DEADLOCK FALSE
