SPECIFICATION FairSpec
CONSTANTS
    MaxTurns = 3
    MaxMsgs = 2
    MaxAuto = 1
    MaxQueueDepth = 2
    Calls = {"turn.steer", "turn.steer.cancel", "compact", "goal", "wake", "session.resume"}
INVARIANTS
    UnreadMessagesHaveAReader
PROPERTIES
    UnreadMessagesAreSettled
CHECK_DEADLOCK FALSE
