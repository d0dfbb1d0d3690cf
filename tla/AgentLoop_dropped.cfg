SPECIFICATION LoopSpec
CONSTANTS
    MaxMsgs = 2
    MaxCalls = 3
INVARIANTS
    NoMessageIsDropped
CHECK_DEADLOCK FALSE
