SPECIFICATION WorkSpec
CONSTANTS
    Ops = {o1, o2}
    NoOp = NoOp
    Requests = {r1, r2}
    MaxTurns = 2
    MaxEngines = 2
    Overlap = TRUE
    Faults = {"launch"}
    Asks = {a1, a2}
    Sessions = {"s1", "s2"}
    AskRequests <- MCAskRequests
    Instrs = {i1, i2}
    MAX_CONCURRENT = 1
    MAX_TOTAL = 3
    MaxAgentRuns = 2
    Mother = mother
    Children = {c1, c2}
    Opened = {c1, c2}
    ACTIVE_LIMIT = 2
    MaxAlive = 3
    MaxChildActs = 2
    MAX_CHANGE_FAILURES = 2
    MaxRuns = 3
    MaxVersions = 2
    MaxScheduleActs = 1
    Errands = {e1}
    NoErrand = NoErrand
    MaxBoardActs = 3
SYMMETRY Symmetry
INVARIANTS
    WorkTypeOK
    OneRequestPerOperation
    OneWorkerPerOperation
    LedgerBeforeEvent
    PendingOperationsAreLive
    
    RunsAreCounted
    AgentsWithinLimit
    NoWakeIsLost
    
    ErrandsInProgressAreCarried
    
PROPERTIES
    OutcomesStand
    ChangesAreTakenByRuns
CHECK_DEADLOCK FALSE
