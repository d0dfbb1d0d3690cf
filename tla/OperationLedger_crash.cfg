SPECIFICATION FairSpec
CONSTANTS
    Ops = {o1}
    NoOp = NoOp
    Requests = {r1}
    MaxTurns = 3
    MaxEngines = 2
    Overlap = FALSE
    Faults = {"launch", "ledger"}
INVARIANTS
    ClosedTurnsHadNoEnd
PROPERTIES
    OrphansAreClosed
CHECK_DEADLOCK FALSE
