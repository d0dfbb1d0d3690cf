SPECIFICATION RunSpec
CONSTANTS
    Faults = {"finalize"}
INVARIANTS
    EveryTurnHasATerminalEvent
CHECK_DEADLOCK FALSE
