SPECIFICATION ChildrenSpec
CONSTANTS
    Mother = mother
    Children = {c1}
    Opened = {c1}
    ACTIVE_LIMIT = 2
    MaxAlive = 3
    MaxChildActs = 3
INVARIANT
    MarkedReportsWereShown
CHECK_DEADLOCK FALSE
