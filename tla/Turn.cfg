SPECIFICATION FairSpec
CONSTANTS
    Faults = {"attach", "finalize", "build"}
    MaxMsgs = 3
    MaxCalls = 4
    Qs = {q1, q2}
INVARIANTS
    TypeOK
    TerminalEventIsLast
    CancelReachesTheLoop
    EachMessageIsReadOnce
    OneEndingPerQuestion
PROPERTIES
    CancelledTurnsEnd
    CutCallsEnd
    QuestionsAreSettled
CHECK_DEADLOCK FALSE
